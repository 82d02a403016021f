---------------------------- MODULE ActuatorCalib ----------------------------
(***************************************************************************)
(* qmini_calibration: actuator_latency_calib.py, which steps one joint     *)
(* after another while the deadman is held, the joint's answer, and what   *)
(* analyze_actuator_bag.py later makes of the recorded commands and joint  *)
(* states: a window per rising edge of the joint's command, from that edge *)
(* to the next, in which it looks for the joint's first motion.            *)
(*                                                                         *)
(* Times are whole ticks (the accumulated floating-point protocol_t can    *)
(* move a half-cycle by one tick), with one joint state per tick.          *)
(***************************************************************************)
EXTENDS Integers, Sequences, MotionGate

CONSTANTS
  TestJoints,   \* parameter test_joints: a sequence
  Settle,       \* parameter settle_s
  Hold,         \* parameter hold_s
  NSteps,       \* parameter n_steps
  Home,         \* home pose of each joint, in units of angle
  LimLo, LimHi, \* position limits of each joint
  StepRad,      \* parameter step_rad
  StepMin,      \* what the analyzer takes for a step at least
  MotorDelay    \* the longest a driven joint takes to follow, in ticks

\* The home of a tested joint is within its limits, as in the files of the repository:
\* then a pause, which commands home as it is, commands what the down phase does.
ASSUME ActuatorAssumption ==
  /\ Len(TestJoints) \in Nat \ {0}
  /\ Settle \in Nat /\ Hold \in Nat \ {0} /\ NSteps \in Nat \ {0}
  /\ StepRad \in Nat /\ StepMin \in Nat /\ MotorDelay \in Nat /\ MotorDelay < Hold
  /\ \A i \in DOMAIN TestJoints : LET j == TestJoints[i] IN
       LimLo[j] \in Int /\ LimHi[j] \in Int /\ Home[j] \in LimLo[j]..LimHi[j]

VARIABLES
  enabled,     \* enabled
  protocol_t,  \* protocol_t
  cur_joint,   \* cur_joint, counted from 1
  last_phase,  \* last_phase
  done,        \* done
  up,          \* the tested joint is commanded away from home
  away,        \* environment: it is there, as the last recorded joint state shows
  behind,      \* environment: ticks it has been elsewhere than commanded
  rises,       \* analyzer: len(edges) for the current joint, up to NSteps + 1
  since_edge,  \* analyzer: joint states since the last edge, up to a window of three holds
  base,        \* analyzer: the joint was away at that edge (q0)
  answered,    \* analyzer: a joint state off q0 has been seen since (resp)
  held,        \* analyzer: joint states of the window while the command was up
  in_row,      \* analyzer: the joints, by their place in test_joints, with an edge
  up_ticks,    \* history: ticks the current joint has been commanded up
  interrupted, \* history: a step of the current joint was withdrawn by a pause
  disturbed    \* history: there was a pause while it was commanded or still away

protocolVars == <<enabled, protocol_t, cur_joint, last_phase, done>>
edgeVars == <<since_edge, base, answered, held, in_row>>
calibVars == <<protocolVars, up, away, behind, rises, edgeVars, up_ticks, interrupted, disturbed>>

Block == Settle + NSteps * 2 * Hold
NoPhase == -2
SettlePhase == -1
WindowCap == 3 * Hold

CalibInit ==
  /\ enabled = FALSE
  /\ protocol_t = 0
  /\ cur_joint = 1
  /\ last_phase = NoPhase
  /\ done = FALSE
  /\ up = FALSE
  /\ away = FALSE /\ behind = 0
  /\ rises = 0
  /\ since_edge = WindowCap /\ base = FALSE /\ answered = FALSE /\ held = 0
  /\ in_row = {}
  /\ up_ticks = 0
  /\ interrupted = FALSE /\ disturbed = FALSE

-----------------------------------------------------------------------------
OnGate(g) ==
  /\ enabled' = (g = STATE_ENABLED)
  /\ UNCHANGED <<protocol_t, cur_joint, last_phase, done, up, away, behind, rises, edgeVars,
                 up_ticks, interrupted, disturbed>>

\* The half-cycle index, or the settling phase.
PhaseAt(t) == IF t < Settle THEN SettlePhase ELSE (t - Settle) \div Hold
IsUp(phase) == phase >= 0 /\ phase % 2 = 1

\* Mutant of BlockOver: the block is taken to be half as long.
BlockOverHalfway == protocol_t >= Settle + NSteps * Hold

BlockOver == protocol_t >= Block

\* The command of a step, within the joint's limits.
Clamped(j, q) == LET above == IF q < LimLo[j] THEN LimLo[j] ELSE q
                 IN  IF above > LimHi[j] THEN LimHi[j] ELSE above

\* The step of a joint that is close to its limit may be too small to be found.
HasRoom(i) == LET j == TestJoints[i]
              IN  Clamped(j, Home[j] + StepRad) - Clamped(j, Home[j]) > StepMin

\* Mutant of Rose: falling edges are taken for rising ones.
RoseOrFell(now_up) == now_up # up /\ HasRoom(cur_joint)

\* analyze: the command for the joint went up by more than step_min.
Rose(now_up) == now_up /\ ~up /\ HasRoom(cur_joint)

\* Where the joint is by the next joint state.  It follows a command within
\* MotorDelay while the deadman is held, and may stay where it is otherwise.
Follows(now_up) ==
  \E follow \in BOOLEAN :
    /\ follow => HasRoom(cur_joint)
    /\ ~follow /\ enabled /\ HasRoom(cur_joint) /\ away # now_up => behind < MotorDelay
    /\ away' = IF follow THEN now_up ELSE away
    /\ behind' = IF ~enabled \/ away' = now_up THEN 0 ELSE behind + 1

\* analyze: q0, the joint's position just before the edge.
Baseline(now_up) == IF Rose(now_up) THEN away ELSE base

\* analyze: the next command and joint state of the bag.
Analyze(now_up) ==
  /\ rises' = IF Rose(now_up) /\ rises <= NSteps THEN rises + 1 ELSE rises
  /\ since_edge' = IF Rose(now_up) THEN 1
                   ELSE IF since_edge < WindowCap THEN since_edge + 1 ELSE WindowCap
  /\ base' = Baseline(now_up)
  /\ answered' = ((~Rose(now_up) /\ answered) \/ (rises' > 0 /\ away' # base'))
  /\ held' = IF Rose(now_up) THEN 1 ELSE IF now_up /\ rises > 0 THEN held + 1 ELSE held
  /\ in_row' = IF Rose(now_up) THEN in_row \cup {cur_joint} ELSE in_row

Command(now_up) ==
  /\ up' = now_up
  /\ Follows(now_up)
  /\ Analyze(now_up)

\* tick while not enabled: home is commanded, unclamped, and the protocol stands still.
TickPaused ==
  /\ ~done /\ ~enabled
  /\ Command(FALSE)
  /\ interrupted' = (interrupted \/ up)
  /\ disturbed' = (disturbed \/ up \/ away)
  /\ UNCHANGED <<protocolVars, up_ticks>>

\* tick while enabled, within a joint's block.
TickRunning ==
  LET phase == PhaseAt(protocol_t) IN
  /\ ~done /\ enabled /\ ~BlockOver
  /\ last_phase' = phase
  /\ protocol_t' = protocol_t + 1
  /\ up_ticks' = IF IsUp(phase) THEN up_ticks + 1 ELSE up_ticks
  /\ Command(IsUp(phase))
  /\ UNCHANGED <<enabled, cur_joint, done, interrupted, disturbed>>

\* Mutant of NextJoint: the same joint is taken again.
SameJoint == cur_joint

NextJoint == cur_joint + 1

\* tick at the end of a block: home is commanded, and the next joint is due.
TickBlockDone ==
  /\ ~done /\ enabled /\ BlockOver
  /\ last_phase' = NoPhase
  /\ protocol_t' = 0
  /\ cur_joint' = NextJoint
  /\ done' = (cur_joint' > Len(TestJoints))
  /\ up' = IsUp(PhaseAt(protocol_t))
  /\ away' = FALSE /\ behind' = 0
  /\ rises' = 0 /\ since_edge' = WindowCap /\ base' = FALSE /\ answered' = FALSE
  /\ held' = 0
  /\ up_ticks' = 0 /\ interrupted' = FALSE /\ disturbed' = FALSE
  /\ UNCHANGED <<enabled, in_row>>

\* The recording is put away.
CalibCleared ==
  /\ enabled' = FALSE /\ protocol_t' = 0 /\ cur_joint' = 1 /\ last_phase' = NoPhase
  /\ done' = FALSE /\ up' = FALSE /\ away' = FALSE /\ behind' = 0 /\ rises' = 0
  /\ since_edge' = WindowCap /\ base' = FALSE /\ answered' = FALSE /\ held' = 0
  /\ in_row' = {}
  /\ up_ticks' = 0 /\ interrupted' = FALSE /\ disturbed' = FALSE

Tick == TickPaused \/ TickRunning \/ TickBlockDone

CalibNext == (\E g \in GateState : OnGate(g)) \/ Tick
CalibSpec == CalibInit /\ [][CalibNext]_calibVars
CalibFairSpec == CalibSpec /\ WF_calibVars(Tick)

-----------------------------------------------------------------------------
\* However often the deadman was released on the way, a joint that is done has been
\* held up for exactly n_steps times hold_s, and the analyzer finds each of its steps
\* in the recording, and nothing else unless a step was withdrawn by a released
\* deadman; if its limits left no room for a step, the analyzer finds none.
StepsAreFound ==
  [][cur_joint' > cur_joint =>
       /\ up_ticks = NSteps * Hold
       /\ HasRoom(cur_joint) =>
            rises >= NSteps /\ (~interrupted => rises = NSteps)
       /\ ~HasRoom(cur_joint) => rises = 0]_calibVars

\* The protocol ends once the deadman stays held.
ProtocolCompletes == <>[]enabled => <>done

\* The latency measured for a step is the time the joint took to follow that step,
\* not its way back nor its answer to another step, unless the deadman was released
\* while the joint was away.
LatencyIsOfTheStep ==
  [][~answered /\ answered' /\ ~disturbed => away' /\ since_edge' <= MotorDelay + 1]_calibVars

\* The last 30 % of a window begin while the joint is still commanded up.
TailInHold == (7 * since_edge) \div 10 < held
TailIsInTheHold ==
  [][rises > 0 /\ rises' = rises + 1 /\ ~interrupted => TailInHold]_calibVars

\* The parts of the inductive invariant behind the theorems of CalibSessionProofs.
\*
ActuatorTypeOK ==
  /\ enabled \in BOOLEAN /\ done \in BOOLEAN
  /\ protocol_t \in 0..Block /\ cur_joint \in Nat \ {0}
  /\ up \in BOOLEAN /\ away \in BOOLEAN /\ behind \in Nat
  /\ rises \in 0..NSteps+1 /\ since_edge \in 0..WindowCap
  /\ base \in BOOLEAN /\ answered \in BOOLEAN /\ up_ticks \in Nat
  /\ interrupted \in BOOLEAN /\ disturbed \in BOOLEAN

\* A joint without room for a step does not move, and no step of it is found; a
\* motion within a window has been seen; withdrawing a step is a disturbance.
AnswerInv ==
  /\ ~HasRoom(cur_joint) => ~away /\ rises = 0
  /\ rises > 0 /\ away # base => answered
  /\ interrupted => disturbed

\* Before its first cycle the joint is at home, and nothing has been asked of it.
AtHome ==
  /\ ~up /\ ~away /\ behind = 0 /\ rises = 0 /\ ~base
  /\ up_ticks = 0 /\ ~interrupted /\ ~disturbed
Settling == protocol_t < Settle /\ AtHome

\* r ticks into the cycle of down and up that follows the i-th, the command is up
\* unless it was withdrawn, and there have been as many edges as steps begun, or
\* more if one was withdrawn.
LateUp(i, r) == r > Hold \/ (r = 0 /\ i > 0)
StepsInv(i, r) ==
  /\ up => LateUp(i, r)
  /\ ~interrupted /\ LateUp(i, r) => up
  /\ up_ticks = i * Hold + (IF r > Hold THEN r - Hold ELSE 0)
  /\ HasRoom(cur_joint) => LET begun == IF r > Hold THEN i + 1 ELSE i IN
       rises >= begun /\ (~interrupted => rises = begun)

\* While nothing disturbs it, the joint is behind a rising edge since that edge, and
\* behind a falling one since the cycle began; it is never behind for long.
FollowInv(r) ==
  /\ ~base
  /\ behind <= MotorDelay
  /\ up /\ ~away =>
       behind = since_edge /\ behind = (IF r > Hold THEN r - Hold ELSE Hold)
  /\ ~up /\ away => behind = r
  /\ (up /\ away) \/ (~up /\ ~away) => behind = 0

InCycle(i, r) ==
  /\ protocol_t = Settle + i * (2 * Hold) + r
  /\ i < NSteps \/ (i = NSteps /\ r = 0)
  /\ StepsInv(i, r)
  /\ ~disturbed /\ HasRoom(cur_joint) => FollowInv(r)

JointInv ==
  /\ AnswerInv
  /\ Settling \/ \E i \in 0..NSteps, r \in 0..(2 * Hold - 1) : InCycle(i, r)

\* It says nothing more of a protocol that is done.
ActuatorInv == ActuatorTypeOK /\ (~done => JointInv)
=============================================================================
