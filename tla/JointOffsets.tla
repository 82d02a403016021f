---------------------------- MODULE JointOffsets ----------------------------
(***************************************************************************)
(* qmini_hardware: the joint frame of motor_bus_node.cpp.  A GO-M8010-6    *)
(* counts from wherever its rotor was when it was powered, so the node     *)
(* keeps a homing offset per joint.  The capture service records it at the *)
(* jig pose (every joint at 0) and saves all offsets to a file, which the  *)
(* constructor loads; readings and commands are converted with it.         *)
(*                                                                         *)
(* The service runs in the executor thread and the poll threads store new  *)
(* readings meanwhile, so it is a sequence of steps: one per motor, then   *)
(* the truncating open, then the flush on closing the file.  Angles are on *)
(* an integer grid fine enough for Ratio and for the file's six decimals.  *)
(***************************************************************************)
EXTENDS Integers, Sequences, SequencesExt

CONSTANTS
  Joints,         \* the motors, in the order of the layout: a sequence
  Ratio,          \* [joint -> gear reduction]
  Direction,      \* [joint -> 1 or -1]
  Angles,         \* the joint angles, a set of integers with 0
  HoldPose        \* [joint -> angle]: the command held while torque is on

Joint == ToSet(Joints)

ASSUME FrameAssumption ==
  /\ Joints \in Seq(Joint)
  /\ \A j \in Joint : Ratio[j] \in Nat \ {0} /\ Direction[j] \in {1, -1}
  /\ Angles \subseteq Int /\ 0 \in Angles
  /\ HoldPose \in [Joint -> Int]

VARIABLES
  up,          \* the motor bus node is running
  offset,      \* per joint: MotorSlot.offset
  latest,      \* per joint: MotorSlot.latest.q, motor-side
  has_fresh,   \* per joint
  torque,      \* fill_command lets HoldPose through
  step,        \* the service: the motor to look at, Idle, Opening or Flushing
  missing,     \* some motor was skipped by the capture under way
  reply,       \* the last reply of the service ("none" while it runs)
  file,        \* joint_offsets.yaml: joint -> offset, of no joint while the file
               \* is missing or empty
  powered,     \* environment: the 24 V supply
  angle,       \* environment: the true joint angles
  zero,        \* environment: the angle each motor counts from
  sampled,     \* history: the true angle that `latest` was read at
  homed,       \* history: `offset` was captured at the jig pose for this zero
  homed_file,  \* history: so was the offset in the file
  flush_lost   \* history: the last save was lost when the file was closed

busVars == <<offset, latest, has_fresh, torque, step, missing, reply>>
historyVars == <<sampled, homed, homed_file, flush_lost>>
offsetVars == <<up, busVars, file, powered, angle, zero, historyVars>>

Nobody == [j \in Joint |-> FALSE]
Unset == [j \in Joint |-> 0]
Empty == <<>>
Idle == 0
Opening == Len(Joints) + 1
Flushing == Len(Joints) + 2

OffsetTypeOK ==
  /\ up \in BOOLEAN /\ torque \in BOOLEAN /\ powered \in BOOLEAN
  /\ missing \in BOOLEAN
  /\ offset \in [Joint -> Int] /\ latest \in [Joint -> Int]
  /\ has_fresh \in [Joint -> BOOLEAN]
  /\ step \in Idle..Flushing
  /\ reply \in {"none", "saved", "partial", "failed"}
  /\ file = Empty \/ file \in [Joint -> Int]
  /\ angle \in [Joint -> Angles] /\ zero \in [Joint -> Angles]
  /\ sampled \in [Joint -> Angles]
  /\ homed \in [Joint -> BOOLEAN] /\ homed_file \in [Joint -> BOOLEAN]
  /\ flush_lost \in BOOLEAN

OffsetInit ==
  /\ up = TRUE
  /\ offset = Unset /\ latest = Unset /\ has_fresh = Nobody
  /\ torque = FALSE
  /\ step = Idle /\ missing = FALSE /\ reply = "none"
  /\ file = Empty
  /\ powered = TRUE
  /\ angle \in [Joint -> Angles] /\ zero \in [Joint -> Angles]
  /\ sampled = Unset /\ homed = Nobody /\ homed_file = Nobody /\ flush_lost = FALSE

-----------------------------------------------------------------------------
\* What the encoder of a motor counts, geared and mounted as it is.
MotorQ(j) == Direction[j] * (angle[j] - zero[j]) * Ratio[j]

\* publish_joint_states: the position of a motor that reads q.
Position(j, q) == Direction[j] * (q \div Ratio[j]) - offset[j]

\* Mutant of MotorCommand: the joint-side position is sent without the offset.
MotorCommandNoOffset(j) == Direction[j] * HoldPose[j] * Ratio[j]

\* fill_command: the motor-side position for the joint's command.
MotorCommand(j) == Direction[j] * (HoldPose[j] + offset[j]) * Ratio[j]

\* poll_loop: a motor with power answers, one without does not.
PollMotor(j) ==
  /\ up
  /\ has_fresh' = [has_fresh EXCEPT ![j] = powered]
  /\ latest' = IF powered THEN [latest EXCEPT ![j] = MotorQ(j)] ELSE latest
  /\ sampled' = IF powered THEN [sampled EXCEPT ![j] = angle[j]] ELSE sampled
  /\ UNCHANGED <<up, offset, torque, step, missing, reply, file, powered, angle,
                 zero, homed, homed_file, flush_lost>>

\* on_capture_offsets is called, in whatever pose and state the robot is.
BeginCapture ==
  /\ up /\ step = Idle
  /\ step' = 1
  /\ missing' = FALSE
  /\ reply' = "none"
  /\ UNCHANGED <<up, offset, latest, has_fresh, torque, file, powered, angle,
                 zero, historyVars>>

\* Mutant of Captured: the direction of the motor is not looked at.
CapturedUnsigned(j) == latest[j] \div Ratio[j]

Captured(j) == Direction[j] * (latest[j] \div Ratio[j])

\* Its loop: the next motor's offset, or a skip if the motor is not responding.
CaptureMotor ==
  /\ up /\ step \in DOMAIN Joints
  /\ LET j == Joints[step] IN
       /\ offset' = IF has_fresh[j] THEN [offset EXCEPT ![j] = Captured(j)]
                    ELSE offset
       /\ homed' = IF has_fresh[j] THEN [homed EXCEPT ![j] = sampled[j] = 0]
                   ELSE homed
       /\ missing' = (missing \/ ~has_fresh[j])
  /\ step' = step + 1  \* Opening after the last motor
  /\ UNCHANGED <<up, latest, has_fresh, torque, reply, file, powered, angle, zero,
                 sampled, homed_file, flush_lost>>

\* save_offsets: the file is opened, which truncates it ...
OpenFile ==
  /\ up /\ step = Opening
  /\ file' = Empty
  /\ homed_file' = Nobody
  /\ flush_lost' = FALSE
  /\ step' = Flushing
  /\ UNCHANGED <<up, offset, latest, has_fresh, torque, missing, reply, powered,
                 angle, zero, sampled, homed>>

\* ... or cannot be opened.
OpenFails ==
  /\ up /\ step = Opening
  /\ step' = Idle
  /\ reply' = "failed"
  /\ UNCHANGED <<up, offset, latest, has_fresh, torque, missing, file, powered,
                 angle, zero, historyVars>>

\* The text is buffered until the stream is closed, and the reply is decided by
\* the stream before that: ...
Replied == IF missing THEN "partial" ELSE "saved"

FlushFile ==
  /\ up /\ step = Flushing
  /\ file' = offset
  /\ homed_file' = homed
  /\ reply' = Replied
  /\ step' = Idle
  /\ UNCHANGED <<up, offset, latest, has_fresh, torque, missing, powered, angle,
                 zero, sampled, homed, flush_lost>>

\* ... a flush that fails, on a full disk say, is not noticed.
FlushFails ==
  /\ up /\ step = Flushing
  /\ flush_lost' = TRUE
  /\ reply' = Replied
  /\ step' = Idle
  /\ UNCHANGED <<up, offset, latest, has_fresh, torque, missing, file, powered,
                 angle, zero, sampled, homed, homed_file>>

\* The process ends, between the open and the flush too.
Crash ==
  /\ up
  /\ up' = FALSE
  /\ torque' = FALSE
  /\ UNCHANGED <<offset, latest, has_fresh, step, missing, reply, file, powered,
                 angle, zero, historyVars>>

\* Mutant of LoadOffsets: the sign is wrong.
LoadOffsetsNegated ==
  [j \in Joint |-> IF j \in DOMAIN file THEN -file[j] ELSE 0]

\* load_offsets: without a file, or without entries, the offsets stay 0.0.
LoadOffsets == [j \in Joint |-> IF j \in DOMAIN file THEN file[j] ELSE 0]

Launch ==
  /\ ~up
  /\ up' = TRUE
  /\ offset' = LoadOffsets
  /\ homed' = homed_file
  /\ latest' = Unset /\ has_fresh' = Nobody
  /\ step' = Idle /\ missing' = FALSE
  /\ UNCHANGED <<torque, reply, file, powered, angle, zero, sampled, homed_file,
                 flush_lost>>

-----------------------------------------------------------------------------
\* The operator moves a joint that has no torque.
MoveJoint(j, a) ==
  /\ ~torque
  /\ a # angle[j]
  /\ angle' = [angle EXCEPT ![j] = a]
  /\ UNCHANGED <<up, busVars, file, powered, zero, historyVars>>

\* The gate and the command path turn torque on or off.
SwitchTorque ==
  /\ up /\ powered
  /\ torque' = ~torque
  /\ UNCHANGED <<up, offset, latest, has_fresh, step, missing, reply, file,
                 powered, angle, zero, historyVars>>

\* A motor with torque turns until its encoder counts what it was told.
DriveJoint(j) ==
  /\ torque
  /\ \E a \in Angles :
       /\ Direction[j] * (a - zero[j]) * Ratio[j] = MotorCommand(j)
       /\ angle' = [angle EXCEPT ![j] = a]
  /\ UNCHANGED <<up, busVars, file, powered, zero, historyVars>>

PowerOff ==
  /\ powered
  /\ powered' = FALSE
  /\ torque' = FALSE
  /\ UNCHANGED <<up, offset, latest, has_fresh, step, missing, reply, file, angle,
                 zero, historyVars>>

\* Switching the supply off and on takes longer than polling every motor once.
\* What was homed stays so only if the motor counts from the same angle again.
PowerOn ==
  /\ ~powered
  /\ up => has_fresh = Nobody
  /\ powered' = TRUE
  /\ zero' = angle
  /\ homed' = [j \in Joint |-> homed[j] /\ angle[j] = zero[j]]
  /\ homed_file' = [j \in Joint |-> homed_file[j] /\ angle[j] = zero[j]]
  /\ UNCHANGED <<up, busVars, file, angle, sampled, flush_lost>>

OffsetNext ==
  \/ \E j \in Joint : PollMotor(j) \/ DriveJoint(j)
  \/ \E j \in Joint, a \in Angles : MoveJoint(j, a)
  \/ BeginCapture \/ CaptureMotor \/ OpenFile \/ OpenFails \/ FlushFile
  \/ FlushFails
  \/ Crash \/ Launch
  \/ SwitchTorque \/ PowerOff \/ PowerOn

OffsetSpec == OffsetInit /\ [][OffsetNext]_offsetVars

-----------------------------------------------------------------------------
\* A joint that was homed reads its true angle, whatever happened since: other
\* captures that skipped it, restarts of the node, power cycles at the same pose
\* (on_capture_offsets, load_offsets, publish_joint_states).
HomedJointReadsTrue ==
  \A j \in Joint :
    up /\ has_fresh[j] /\ homed[j] => Position(j, latest[j]) = sampled[j]

\* And it is driven to the true angle it is commanded to (fill_command).
HomedJointGoesTrue ==
  [][\A j \in Joint : torque /\ homed[j] /\ angle'[j] # angle[j]
       => angle'[j] = HoldPose[j]]_offsetVars

\* A capture that reports success has saved what the node now uses, so that no
\* restart changes an offset, unless the text was lost after the reply was
\* decided: on_capture_offsets, save_offsets, load_offsets.
SavedReplyIsTrue == reply = "saved" /\ ~flush_lost => file = offset

\* The parts of the inductive invariant behind the theorems of DriverProofs.
\*
\* A fresh reading is the true angle, counted from where the motor started to.
ReadingInv ==
  \A j \in Joint : up /\ has_fresh[j] =>
    latest[j] = Direction[j] * (sampled[j] - zero[j]) * Ratio[j]

\* The offset of a homed joint is where its motor counts from, in the node as in
\* the file.
HomedInv ==
  \A j \in Joint : /\ homed[j] => offset[j] = -zero[j]
                   /\ homed_file[j] => file # Empty /\ file[j] = -zero[j]

\* While a capture is under way, it has not replied.
ReplyInv == up /\ step # Idle => reply = "none"

OffsetInv ==
  OffsetTypeOK /\ ReadingInv /\ HomedInv /\ ReplyInv /\ SavedReplyIsTrue
=============================================================================
