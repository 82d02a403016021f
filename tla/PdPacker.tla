------------------------------ MODULE PdPacker ------------------------------
(***************************************************************************)
(* qmini_controllers: pd_packer_node.cpp.  While the gate is ENABLED every *)
(* timer tick publishes one MotorCommand: the fresh /joint_target, or the  *)
(* home pose, approached along a smoothstep ramp from where the robot was  *)
(* when the gate opened, and clamped to the position limits.               *)
(*                                                                         *)
(* Single-threaded executor: callbacks and tick are atomic.  Positions are *)
(* integers (a grid of the real axis) or NaN; gains are constant and left  *)
(* out.  Time stamps are kept as ages in ticks, of a system clock that is  *)
(* not set while the node runs.                                            *)
(***************************************************************************)
EXTENDS Integers, MotionGate

CONSTANTS
  Joint,
  Home,           \* [Joint -> Int], home_pose.yaml
  PosMin, PosMax, \* [Joint -> Int], position_limits of gains.yaml
  RampTicks,      \* parameter ramp_duration_s
  TargetTimeout,  \* parameter target_timeout_s
  NaN,            \* not a number
  Readings,       \* the /joint_states that can arrive: [Joint -> Int or NaN]
  Targets         \* the /joint_target that can arrive, partial: [J -> Int or NaN]

Position == Int \cup {NaN}

ASSUME PackerAssumption ==
  /\ NaN \notin Int
  /\ Home \in [Joint -> Int]
  /\ PosMin \in [Joint -> Int] /\ PosMax \in [Joint -> Int]
  /\ \A j \in Joint : PosMin[j] <= PosMax[j]
  /\ RampTicks \in Nat \ {0} /\ TargetTimeout \in Nat
  /\ Readings \subseteq [Joint -> Position]
  /\ \A t \in Targets : DOMAIN t \subseteq Joint /\ t \in [DOMAIN t -> Position]

\* No motor is silent and no target has a NaN.
NumbersOnly ==
  /\ Readings \subseteq [Joint -> Int]
  /\ \A t \in Targets : t \in [DOMAIN t -> Int]

VARIABLES
  packer_gate,    \* gate_state_
  cur_pos,        \* cur_pos_
  cur_pos_valid,  \* cur_pos_valid_
  target,         \* target_
  target_seen,    \* target_seen_
  target_age,     \* ticks since last_target_time_
  ramping,        \* ramping_
  ramp_start,     \* ramp_start_
  ramp_age,       \* ticks since ramp_t0_
  q_des           \* cmd_.q_des: the last command published (initially zeros)

packerVars == <<packer_gate, cur_pos, cur_pos_valid, target, target_seen,
                target_age, ramping, ramp_start, ramp_age, q_des>>

TargetCap == TargetTimeout + 1

PackerTypeOK ==
  /\ packer_gate \in GateState
  /\ cur_pos \in [Joint -> Position]
  /\ cur_pos_valid \in BOOLEAN
  /\ target \in [Joint -> Position]
  /\ target_seen \in BOOLEAN
  /\ target_age \in 0..TargetCap
  /\ ramping \in BOOLEAN
  /\ ramp_start \in [Joint -> Position]
  /\ ramp_age \in 0..RampTicks
  /\ q_des \in [Joint -> Position]

Zeros == [j \in Joint |-> 0]

PackerInit ==
  /\ packer_gate = STATE_BOOTING
  /\ cur_pos = Zeros
  /\ cur_pos_valid = FALSE
  /\ target = Zeros
  /\ target_seen = FALSE
  /\ target_age = TargetCap
  /\ ramping = FALSE
  /\ ramp_start = Zeros
  /\ ramp_age = RampTicks
  /\ q_des = Zeros

-----------------------------------------------------------------------------
\* on_joint_states: a full reading, in which a silent motor reads NaN.
OnJointStates(reading) ==
  /\ cur_pos' = reading
  /\ cur_pos_valid' = TRUE
  /\ UNCHANGED <<packer_gate, target, target_seen, target_age, ramping, ramp_start,
                 ramp_age, q_des>>

\* on_joint_target: only the joints the message names are updated.
OnJointTarget(t) ==
  /\ target' = [j \in Joint |-> IF j \in DOMAIN t THEN t[j] ELSE target[j]]
  /\ target_seen' = TRUE
  /\ target_age' = 0
  /\ UNCHANGED <<packer_gate, cur_pos, cur_pos_valid, ramping, ramp_start, ramp_age,
                 q_des>>

\* Mutant of OnGate: every ENABLED message starts a ramp, also a repeated one.
OnGateAlwaysRamps(g) ==
  LET entering == g = STATE_ENABLED IN
  /\ packer_gate' = g
  /\ ramping' = (ramping \/ entering)
  /\ ramp_start' = IF ~entering THEN ramp_start
                   ELSE IF cur_pos_valid THEN cur_pos ELSE Home
  /\ ramp_age' = IF entering THEN 0 ELSE ramp_age
  /\ UNCHANGED <<cur_pos, cur_pos_valid, target, target_seen, target_age, q_des>>

\* on_gate: entering ENABLED starts the ramp from where the robot is.
OnGate(g) ==
  LET entering == g = STATE_ENABLED /\ packer_gate # STATE_ENABLED IN
  /\ packer_gate' = g
  /\ ramping' = (ramping \/ entering)
  /\ ramp_start' = IF ~entering THEN ramp_start
                   ELSE IF cur_pos_valid THEN cur_pos ELSE Home
  /\ ramp_age' = IF entering THEN 0 ELSE ramp_age
  /\ UNCHANGED <<cur_pos, cur_pos_valid, target, target_seen, target_age, q_des>>

\* Mutant of Smoothstep: a * a * (3 - a), which ends at 2.
SmoothstepMistyped(t) == t * t * (3 * RampTicks - t)

\* a * a * (3 - 2a) with a = t / RampTicks, as a multiple of 1 / EaseOne.
Smoothstep(t) == t * t * (3 * RampTicks - 2 * t)
EaseOne == RampTicks * RampTicks * RampTicks

\* from + s * (to - from); any NaN operand gives NaN.
Blend(from, to, t) ==
  IF from = NaN \/ to = NaN THEN NaN
  ELSE from + (Smoothstep(t) * (to - from)) \div EaseOne

\* Mutant of Clamp: the upper bound is only looked at when the lower one holds
\* the value back.
ClampLowerOnly(v, lo, hi) ==
  IF v = NaN THEN NaN ELSE IF v < lo THEN lo ELSE v

\* std::clamp: every comparison with NaN is false, so NaN passes.
Clamp(v, lo, hi) ==
  IF v = NaN THEN NaN ELSE IF v < lo THEN lo ELSE IF hi < v THEN hi ELSE v

\* Mutant of TargetFresh: a target never gets stale.
TargetEver == target_seen

TargetFresh == target_seen /\ target_age <= TargetTimeout
Desired == IF TargetFresh THEN target ELSE Home

\* tick: one command, while enabled.
Tick ==
  LET q == [j \in Joint |-> IF ramping
                            THEN Blend(ramp_start[j], Desired[j], ramp_age)
                            ELSE Desired[j]]
  IN
  /\ packer_gate = STATE_ENABLED
  /\ q_des' = [j \in Joint |-> Clamp(q[j], PosMin[j], PosMax[j])]
  /\ ramping' = (ramping /\ ramp_age < RampTicks)
  /\ UNCHANGED <<packer_gate, cur_pos, cur_pos_valid, target, target_seen, target_age,
                 ramp_start, ramp_age>>

PackerElapse ==
  /\ target_age' = IF target_age < TargetCap THEN target_age + 1 ELSE TargetCap
  /\ ramp_age' = IF ramp_age < RampTicks THEN ramp_age + 1 ELSE RampTicks
  /\ UNCHANGED <<packer_gate, cur_pos, cur_pos_valid, target, target_seen, ramping,
                 ramp_start, q_des>>

PackerNext ==
  \/ \E reading \in Readings : OnJointStates(reading)
  \/ \E t \in Targets : OnJointTarget(t)
  \/ \E g \in GateState : OnGate(g)
  \/ Tick
  \/ PackerElapse

PackerSpec == PackerInit /\ [][PackerNext]_packerVars
PackerFairSpec ==
  PackerSpec /\ WF_packerVars(Tick) /\ WF_packerVars(PackerElapse)

-----------------------------------------------------------------------------
\* Every command published respects the position limits: the hard safety bound
\* of the header of pd_packer_node.cpp, for whatever mix of readings, targets,
\* stale targets and interrupted ramps.
CommandsWithinLimits ==
  [][q_des' # q_des =>
       \A j \in Joint : q_des'[j] # NaN /\ q_des'[j] \in PosMin[j]..PosMax[j]]_packerVars

Between(v, a, b) == (a <= v /\ v <= b) \/ (b <= v /\ v <= a)

\* A ramp never leaves the stretch between where the robot was and where it is
\* going, so it neither overshoots nor starts off in the wrong direction.
RampNeverOvershoots ==
  [][q_des' # q_des /\ ramping =>
       \A j \in Joint :
         Between(q_des'[j], Clamp(ramp_start[j], PosMin[j], PosMax[j]),
                            Clamp(Desired[j], PosMin[j], PosMax[j]))]_packerVars

\* While motion stays enabled a ramp only goes forward: a repeated ENABLED (the
\* topic is transient-local and re-delivered) does not throw it back.
RampNeverRestarts ==
  [][packer_gate = STATE_ENABLED /\ packer_gate' = STATE_ENABLED =>
       /\ ramp_start' = ramp_start
       /\ ramp_age' >= ramp_age
       /\ ramping' => ramping]_packerVars

\* Without a fresh target the robot ends up at the home pose: the ramp ends,
\* and a target whose sender has gone silent is given up.
SettlesOnHome ==
  <>[](packer_gate = STATE_ENABLED) /\ <>[](target_age = TargetCap)
    => <>[](\A j \in Joint : q_des[j] = Clamp(Home[j], PosMin[j], PosMax[j]))
=============================================================================
