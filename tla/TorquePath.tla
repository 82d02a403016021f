----------------------------- MODULE TorquePath -----------------------------
(***************************************************************************)
(* The path from the deadman buttons to the motors: the safety node, the   *)
(* PD packer and the motor bus, each a process of its own, joined by the   *)
(* topics safety/motion_gate, safety/heartbeat and motor_command.          *)
(*                                                                         *)
(* All three topics are reliable with depth 1: of the samples a subscriber *)
(* has not taken yet only the newest is kept.  Samples of different topics *)
(* are not ordered with one another.  The packer is instantiated with the  *)
(* motor slots as its joints (the ten names of kJointOrder on both sides); *)
(* the readings and the joint targets that reach it are any, at any time.  *)
(***************************************************************************)
EXTENDS Integers, MotionGate

CONSTANTS
  DeadmanButtons, Joysticks, JoyTimeout, EvalPeriod, MaxRestarts,
  Channel, MotorCount, HbTimeout, CmdTimeout, CycleMax,
  Pose, Gain, ZeroPose, ZeroGain, CommandGain, NaN,
  Home, PosMin, PosMax, RampTicks, TargetTimeout, Readings, Targets

\* The motors, as the bus addresses them.
MotorSlot == UNION {{c} \X (1..MotorCount[c]) : c \in Channel}

\* What the three nodes assume of their parameters, and the range of positions
\* covering the position limits of every joint.
ASSUME SafetyPartAssumption ==
  /\ JoyTimeout \in Nat /\ EvalPeriod \in Nat \ {0} /\ MaxRestarts \in Nat
  /\ DeadmanButtons \subseteq Int /\ Joysticks \subseteq Nat
ASSUME PackerPartAssumption ==
  /\ NaN \notin Int
  /\ Home \in [MotorSlot -> Int]
  /\ PosMin \in [MotorSlot -> Int] /\ PosMax \in [MotorSlot -> Int]
  /\ \A s \in MotorSlot : PosMin[s] <= PosMax[s] /\ PosMin[s]..PosMax[s] \subseteq Pose
  /\ RampTicks \in Nat \ {0} /\ TargetTimeout \in Nat
  /\ Readings \subseteq [MotorSlot -> Int \cup {NaN}]
  /\ \A t \in Targets : DOMAIN t \subseteq MotorSlot /\ t \in [DOMAIN t -> Int \cup {NaN}]
ASSUME BusPartAssumption ==
  /\ MotorCount \in [Channel -> Nat \ {0}]
  /\ NaN \notin Pose /\ NaN \notin Gain
  /\ ZeroPose \in Pose /\ {ZeroGain, CommandGain} \subseteq Gain
  /\ HbTimeout \in Nat /\ CmdTimeout \in Nat /\ CycleMax \in Nat \ {0}

VARIABLES
  \* the safety node
  up, state, hard_latched, ever_seen_joy, joy_elapsed, clock_step,
  deadman_held, since_eval, restarts, armed,
  \* the packer
  packer_gate, cur_pos, cur_pos_valid, target, target_seen, target_age, ramping,
  ramp_start, ramp_age, q_des,
  \* the motor bus and the motors
  running, gate_state, gate_age, hb_age, cmd, has_command, cmd_age, pc, next,
  cycle_age, frame, fail_streak, absent, probe_wait, has_fresh, link, sent,
  \* the samples in transit, per subscriber
  gate_to_bus, gate_to_packer, beat_to_bus, cmd_to_bus

Safety == INSTANCE SafetyGate WITH MaxClockStep <- 0

Bus == INSTANCE MotorBus WITH
  PortOk <- Channel, TorqueEnabled <- TRUE, AbsentThreshold <- 1, Reprobe <- 0,
  Links <- {"ok"},
  CommandMsgs <- [MotorSlot -> [q : Pose \cup {NaN}, gain : {CommandGain}]]

Packer == INSTANCE PdPacker WITH Joint <- MotorSlot

topicVars == <<gate_to_bus, gate_to_packer, beat_to_bus, cmd_to_bus>>
safetyPart == <<up, state, hard_latched, ever_seen_joy, joy_elapsed, clock_step,
                deadman_held, since_eval, restarts, armed>>
packerPart == <<packer_gate, cur_pos, cur_pos_valid, target, target_seen,
                target_age, ramping, ramp_start, ramp_age, q_des>>
busPart == <<running, gate_state, gate_age, hb_age, cmd, has_command, cmd_age,
             pc, next, cycle_age, frame, fail_streak, absent, probe_wait,
             has_fresh, link, sent>>
pathVars == <<safetyPart, packerPart, busPart, topicVars>>

\* No sample is waiting.
None == "none"

PathInit ==
  /\ Safety!SafetyInit
  /\ Packer!PackerInit
  /\ Bus!BusInit
  /\ gate_to_bus = STATE_BOOTING
  /\ gate_to_packer = STATE_BOOTING
  /\ beat_to_bus = FALSE
  /\ cmd_to_bus = FALSE

-----------------------------------------------------------------------------
\* publish_gate: a sample for each subscriber.
PublishGate(g) == gate_to_bus' = g /\ gate_to_packer' = g

Joy ==
  /\ \E n \in Joysticks : \E pressed \in SUBSET (0..n-1) :
       Safety!OnJoy(n, pressed)
  /\ UNCHANGED <<packerPart, busPart, topicVars>>

\* Mutant of Judge: entering a hard stop is logged, but not published.
JudgeStopUnpublished ==
  /\ Safety!Evaluate
  /\ IF state' \notin {state, STATE_HARD_STOPPED} THEN PublishGate(state')
     ELSE UNCHANGED <<gate_to_bus, gate_to_packer>>
  /\ UNCHANGED <<packerPart, busPart, beat_to_bus, cmd_to_bus>>

\* evaluate: publishes only a verdict that differs from the last.
Judge ==
  /\ Safety!Evaluate
  /\ IF state' # state THEN PublishGate(state')
     ELSE UNCHANGED <<gate_to_bus, gate_to_packer>>
  /\ UNCHANGED <<packerPart, busPart, beat_to_bus, cmd_to_bus>>

\* publish_heartbeat.
Beat ==
  /\ up
  /\ beat_to_bus' = TRUE
  /\ UNCHANGED <<safetyPart, packerPart, busPart, gate_to_bus,
                 gate_to_packer, cmd_to_bus>>

SafetyCrash ==
  /\ Safety!Crash
  /\ UNCHANGED <<packerPart, busPart, topicVars>>

\* Relaunching takes longer than the bus waits for a heartbeat; the constructor
\* publishes BOOTING.
SafetyRelaunch ==
  /\ hb_age = Bus!HbCap
  /\ Safety!Relaunch
  /\ PublishGate(STATE_BOOTING)
  /\ UNCHANGED <<packerPart, busPart, beat_to_bus, cmd_to_bus>>

-----------------------------------------------------------------------------
\* The packer takes the gate, and publishes while it reads ENABLED.
PackerGate ==
  /\ gate_to_packer # None
  /\ Packer!OnGate(gate_to_packer)
  /\ gate_to_packer' = None
  /\ UNCHANGED <<safetyPart, busPart, gate_to_bus, beat_to_bus,
                 cmd_to_bus>>

\* It takes what the encoders read and what the policy, or an operator's
\* publisher, wants.
PackerInputs ==
  /\ \/ \E reading \in Readings : Packer!OnJointStates(reading)
     \/ \E t \in Targets : Packer!OnJointTarget(t)
  /\ UNCHANGED <<safetyPart, busPart, topicVars>>

PackerTick ==
  /\ Packer!Tick
  /\ cmd_to_bus' = TRUE
  /\ UNCHANGED <<safetyPart, busPart, gate_to_bus, gate_to_packer,
                 beat_to_bus>>

-----------------------------------------------------------------------------
\* The bus takes its samples and runs its poll threads.
BusGate ==
  /\ gate_to_bus # None
  /\ Bus!OnGate(gate_to_bus)
  /\ gate_to_bus' = None
  /\ UNCHANGED <<safetyPart, packerPart, gate_to_packer,
                 beat_to_bus, cmd_to_bus>>

BusBeat ==
  /\ beat_to_bus
  /\ Bus!OnHeartbeat
  /\ beat_to_bus' = FALSE
  /\ UNCHANGED <<safetyPart, packerPart, gate_to_bus,
                 gate_to_packer, cmd_to_bus>>

\* The sample waiting is the last the packer published, with its gains.
BusCommand ==
  /\ cmd_to_bus
  /\ Bus!OnMotorCommand([s \in MotorSlot |-> [q |-> q_des[s],
                                             gain |-> CommandGain]])
  /\ cmd_to_bus' = FALSE
  /\ UNCHANGED <<safetyPart, packerPart, gate_to_bus,
                 gate_to_packer, beat_to_bus>>

BusPoll ==
  /\ \E c \in Channel : Bus!Poll(c)
  /\ UNCHANGED <<safetyPart, packerPart, topicVars>>

\* One tick everywhere.  A tick (20 ms) is long for a sample on one machine:
\* nothing published in it is still waiting when it ends.
PathElapse ==
  /\ gate_to_bus = None /\ gate_to_packer = None
  /\ ~beat_to_bus /\ ~cmd_to_bus
  /\ Safety!Elapse
  /\ Packer!PackerElapse
  /\ Bus!BusElapse
  /\ UNCHANGED topicVars

SafetyActs == Joy \/ Judge \/ Beat \/ SafetyCrash \/ SafetyRelaunch
PackerActs == PackerGate \/ PackerInputs \/ PackerTick
BusActs == BusGate \/ BusBeat \/ BusCommand \/ BusPoll

PathNext == SafetyActs \/ PackerActs \/ BusActs \/ PathElapse

PathSpec == PathInit /\ [][PathNext]_pathVars

-----------------------------------------------------------------------------
NoMotorHasTorque == \A s \in MotorSlot : ~Bus!TorqueOn(s)

\* The bus has had the verdict for two poll cycles.
VerdictSettled == gate_to_bus = None /\ gate_age = Bus!GateCap

\* A controller that has gone silent takes the torque off the motors: once its
\* last message is older than the watchdog allows and the bus has had its two
\* poll cycles, no motor has torque.
LinkLossReachesMotors ==
  up /\ ever_seen_joy /\ joy_elapsed = Safety!AgeCap /\ VerdictSettled
  => NoMotorHasTorque

\* From a stop that found the deadman held until the operator lets go of it the
\* motors stay without torque, whatever commands are still on their way.
NoTorqueBeforeRelease ==
  ~armed /\ VerdictSettled => NoMotorHasTorque

\* Motors are driven only on a verdict that says so.
DriveNeedsVerdict ==
  up /\ state # STATE_ENABLED /\ VerdictSettled
  => \A s \in MotorSlot : sent[s].kind # "drive"

\* Nor does a motor keep its torque when the safety node has died: the bus notices
\* the silence by itself.
DeadNodeReachesMotors == hb_age = Bus!HbCap => NoMotorHasTorque

\* The positions that the bus may store for a motor once a command has come: those
\* within the limits of the joint, and the 0.0 that the bus makes of a NaN, which
\* the packer commands only if a motor is silent or a target has one.
Commanded(s) ==
  PosMin[s]..PosMax[s] \cup IF Packer!NumbersOnly THEN {} ELSE {ZeroPose}

\* A motor with torque has been told such a position, whatever readings and
\* targets reach the packer and in whatever order verdicts, commands and poll
\* cycles interleave: never a target as it came nor, unless a NaN was about, the
\* zeros that the bus starts with.
TorqueWithinLimits ==
  \A s \in MotorSlot : Bus!TorqueOn(s) => sent[s].q \in Commanded(s)

\* What the state table of safety_node.cpp says of BOOTING: torque off.
BootingIsTorqueOff == up /\ state = STATE_BOOTING => NoMotorHasTorque

\* The parts of the inductive invariant behind the theorems of TorquePathProofs,
\* besides what each node guarantees by itself.
\*
\* The verdict last published waits for the bus, or the bus has it.
GateInv ==
  \/ gate_to_bus = state
  \/ gate_to_bus = None /\ gate_state = state

\* The command that waits for the bus respects the position limits, or is a NaN.
CommandInv ==
  cmd_to_bus => \A s \in MotorSlot :
    \/ q_des[s] \in PosMin[s]..PosMax[s]
    \/ q_des[s] = NaN /\ ~Packer!NumbersOnly

\* So do the command that the bus has, the frames its poll threads exchange and
\* those the motors have.
LimitInv ==
  /\ has_command => \A s \in MotorSlot : cmd[s].q \in Commanded(s)
  /\ \A c \in Channel : pc[c] = "wire" /\ frame[c] # Bus!Freewheel =>
       frame[c].q \in Commanded(<<c, next[c]>>)
  /\ TorqueWithinLimits

TopicInv ==
  /\ gate_to_packer \in GateState \cup {None}
  /\ beat_to_bus \in BOOLEAN /\ cmd_to_bus \in BOOLEAN
  /\ running = TRUE

PathInv == TopicInv /\ GateInv /\ CommandInv /\ LimitInv
=============================================================================
