---------------------------- MODULE DriverProofs ----------------------------
(***************************************************************************)
(* Theorems about what the two driver nodes do below the topics, each for  *)
(* every value of its constants: the homing offsets of the motor bus       *)
(* (JointOffsets), and the frames that the IMU driver finds in its stream  *)
(* (ImuDriver).                                                            *)
(***************************************************************************)
EXTENDS JointOffsets, ImuDriver, TLAPS

-----------------------------------------------------------------------------
\* The homing offsets, for any joints, gear ratios and directions, any poses and
\* any order of captures, saves, restarts and power cycles.

\* A product grows with its factor.
LEMMA ProductOrder ==
  /\ \A r \in Nat, x \in Int : r * x \in Int /\ r * x = x * r
  /\ \A r \in Nat, x, y \in Int : x <= y => r * x <= r * y
OBVIOUS

\* Dividing by the gear ratio undoes multiplying with it.
LEMMA UndoRatio ==
  ASSUME NEW r \in Nat \ {0}, NEW x \in Int
  PROVE  (x * r) \div r = x
<1> DEFINE p == x * r
           q == p \div r
<1>1. p \in Int /\ q \in Int /\ r * q <= p /\ p < r * q + r
  OBVIOUS
<1>2. p = r * x /\ r * (q + 1) = r * q + r
  BY <1>1
<1>3. ~(q + 1 <= x)
  BY <1>1, <1>2, ProductOrder
<1>4. ~(x + 1 <= q)
  <2>1. r * (x + 1) = r * x + r
    OBVIOUS
  <2>2. x + 1 <= q => r * (x + 1) <= r * q
    BY <1>1, ProductOrder
  <2> HIDE DEF p, q
  <2> QED
    BY <1>1, <1>2, <2>1, <2>2
<1> HIDE DEF p, q
<1>5. q = x
  BY <1>1, <1>3, <1>4
<1> QED
  BY <1>5 DEF p, q

\* What a motor counts, read back through its mounting and gears.
LEMMA ReadBack ==
  ASSUME NEW d \in {1, -1}, NEW r \in Nat \ {0}, NEW x \in Int
  PROVE  d * ((d * x * r) \div r) = x
<1>1. d * x \in Int /\ d * (d * x) = x
  OBVIOUS
<1> QED
  BY <1>1, UndoRatio

\* Two angles that a motor counts the same are the same.
LEMMA SameCount ==
  ASSUME NEW d \in {1, -1}, NEW r \in Nat \ {0}, NEW x \in Int, NEW y \in Int,
         d * x * r = d * y * r
  PROVE  x = y
BY ReadBack

\* The joints and their constants, and the steps of a capture.
LEMMA JointFacts ==
  /\ \A j \in Joint : Ratio[j] \in Nat \ {0} /\ Direction[j] \in {1, -1}
  /\ HoldPose \in [Joint -> Int]
  /\ Len(Joints) \in Nat /\ DOMAIN Joints = 1..Len(Joints)
  /\ \A i \in DOMAIN Joints : Joints[i] \in Joint
  /\ 0 \in Angles /\ \A a \in Angles : a \in Int
<1>1. Joints \in Seq(Joint)
  BY FrameAssumption
<1>2. /\ Len(Joints) \in Nat /\ DOMAIN Joints = 1..Len(Joints)
      /\ \A i \in DOMAIN Joints : Joints[i] \in Joint
  BY <1>1
<1>3. /\ HoldPose \in [Joint -> Int]
      /\ 0 \in Angles /\ \A a \in Angles : a \in Int
  BY FrameAssumption
<1> QED
  BY <1>2, <1>3, FrameAssumption, Zenon

\* What a motor counts is a number.
LEMMA GearedInt ==
  ASSUME NEW d \in {1, -1}, NEW r \in Nat \ {0}, NEW x \in Int
  PROVE  d * x * r \in Int
OBVIOUS

\* The steps of a capture.
LEMMA StepFacts ==
  /\ {Idle, 1, Opening, Flushing} \subseteq Idle..Flushing
  /\ DOMAIN Joints \subseteq Idle..Flushing
  /\ \A i \in DOMAIN Joints : i + 1 \in Idle..Flushing /\ i # Idle
  /\ Idle # 1 /\ Opening # Idle /\ Flushing # Idle
BY JointFacts DEF Idle, Opening, Flushing

LEMMA OffsetInvInit == OffsetInit => OffsetInv
<1> SUFFICES ASSUME OffsetInit PROVE OffsetInv
  OBVIOUS
<1> USE JointFacts, StepFacts DEF OffsetInit, Unset, Nobody
<1>1. OffsetTypeOK
  BY DEF OffsetTypeOK
<1>2. ReadingInv /\ HomedInv
  BY DEF ReadingInv, HomedInv
<1>3. ReplyInv /\ SavedReplyIsTrue
  BY DEF ReplyInv, SavedReplyIsTrue
<1> QED
  BY <1>1, <1>2, <1>3 DEF OffsetInv

\* What a capture records for a motor whose reading is fresh.
LEMMA CapturedAngle ==
  ASSUME OffsetInv, up, NEW j \in Joint, has_fresh[j]
  PROVE  Captured(j) = sampled[j] - zero[j]
<1>1. /\ Ratio[j] \in Nat \ {0} /\ Direction[j] \in {1, -1}
      /\ sampled[j] - zero[j] \in Int
  BY JointFacts DEF OffsetInv, OffsetTypeOK
<1>2. latest[j] = Direction[j] * (sampled[j] - zero[j]) * Ratio[j]
  BY DEF OffsetInv, ReadingInv
<1> QED
  BY <1>1, <1>2, ReadBack DEF Captured

\* Every step keeps the types.
LEMMA OffsetTypeStep == OffsetInv /\ [OffsetNext]_offsetVars => OffsetTypeOK'
<1> SUFFICES ASSUME OffsetInv, [OffsetNext]_offsetVars
             PROVE  OffsetTypeOK'
  OBVIOUS
<1> USE JointFacts, StepFacts
        DEF OffsetTypeOK, historyVars, busVars, Unset, Nobody
<1>0. OffsetTypeOK
  BY DEF OffsetInv
<1>1. ASSUME NEW j \in Joint, PollMotor(j)
      PROVE  OffsetTypeOK'
  <2>1. MotorQ(j) \in Int
    <3>1. /\ Ratio[j] \in Nat \ {0} /\ Direction[j] \in {1, -1}
          /\ angle[j] - zero[j] \in Int
      BY <1>0
    <3> QED
      BY <3>1, GearedInt DEF MotorQ
  <2> QED
    BY <1>0, <1>1, <2>1 DEF PollMotor
<1>2. ASSUME NEW j \in Joint, DriveJoint(j)
      PROVE  OffsetTypeOK'
  BY <1>0, <1>2 DEF DriveJoint
<1>3. ASSUME NEW j \in Joint, NEW a \in Angles, MoveJoint(j, a)
      PROVE  OffsetTypeOK'
  BY <1>0, <1>3 DEF MoveJoint
<1>4. CASE BeginCapture
  BY <1>0, <1>4 DEF BeginCapture
<1>5. CASE CaptureMotor
  <2> DEFINE j == Joints[step]
  <2>1. j \in Joint /\ step' \in Idle..Flushing
    BY <1>0, <1>5 DEF CaptureMotor
  <2>2. has_fresh[j] => Captured(j) \in Int
    <3>1. up
      BY <1>5 DEF CaptureMotor
    <3>2. has_fresh[j] => Captured(j) = sampled[j] - zero[j]
      BY <2>1, <3>1, CapturedAngle
    <3> QED
      BY <1>0, <2>1, <3>2
  <2>3. offset' \in [Joint -> Int]
    BY <1>0, <1>5, <2>2 DEF CaptureMotor
  <2>4. homed' \in [Joint -> BOOLEAN] /\ missing' \in BOOLEAN
    BY <1>0, <1>5, <2>1 DEF CaptureMotor
  <2> QED
    BY <1>0, <1>5, <2>1, <2>3, <2>4 DEF CaptureMotor
<1>6. CASE OpenFile
  BY <1>0, <1>6 DEF OpenFile
<1>7. CASE OpenFails
  BY <1>0, <1>7 DEF OpenFails
<1>8. CASE FlushFile
  BY <1>0, <1>8 DEF FlushFile, Replied
<1>9. CASE FlushFails
  BY <1>0, <1>9 DEF FlushFails, Replied
<1>10. CASE Crash
  BY <1>0, <1>10 DEF Crash
<1>11. CASE Launch
  <2>1. LoadOffsets \in [Joint -> Int]
    BY <1>0 DEF LoadOffsets, Empty
  <2> QED
    BY <1>0, <1>11, <2>1 DEF Launch
<1>12. CASE SwitchTorque
  BY <1>0, <1>12 DEF SwitchTorque
<1>13. CASE PowerOff
  BY <1>0, <1>13 DEF PowerOff
<1>14. CASE PowerOn
  BY <1>0, <1>14 DEF PowerOn
<1>15. CASE UNCHANGED offsetVars
  BY <1>0, <1>15 DEF offsetVars
<1> QED
  BY <1>1, <1>2, <1>3, <1>4, <1>5, <1>6, <1>7, <1>8, <1>9, <1>10, <1>11, <1>12,
     <1>13, <1>14, <1>15 DEF OffsetNext

\* Every step keeps the readings true.
LEMMA ReadingStep == OffsetInv /\ [OffsetNext]_offsetVars => ReadingInv'
<1> SUFFICES ASSUME OffsetInv, [OffsetNext]_offsetVars,
                    NEW k \in Joint, up', has_fresh'[k]
             PROVE  latest'[k] = Direction[k] * (sampled'[k] - zero'[k]) * Ratio[k]
  BY DEF ReadingInv
<1> USE DEF OffsetTypeOK, historyVars, busVars
<1>0. /\ OffsetTypeOK
      /\ up /\ has_fresh[k] =>
           latest[k] = Direction[k] * (sampled[k] - zero[k]) * Ratio[k]
  BY DEF OffsetInv, ReadingInv
<1>1. ASSUME NEW j \in Joint, PollMotor(j)
      PROVE  latest'[k] = Direction[k] * (sampled'[k] - zero'[k]) * Ratio[k]
  <2>1. CASE k = j
    BY <1>0, <1>1, <2>1, Zenon DEF PollMotor, MotorQ
  <2>2. CASE k # j
    <3>1. up /\ has_fresh[k] /\ latest'[k] = latest[k]
          /\ sampled'[k] = sampled[k] /\ zero' = zero
      BY <1>0, <1>1, <2>2 DEF PollMotor
    <3> QED
      BY <1>0, <3>1
  <2> QED
    BY <2>1, <2>2
<1>2. CASE Launch
  BY <1>2 DEF Launch, Nobody
<1>3. CASE PowerOn
  BY <1>3 DEF PowerOn, Nobody
<1>4. CASE /\ up /\ has_fresh[k]
           /\ latest' = latest /\ sampled' = sampled /\ zero' = zero
  BY <1>0, <1>4
<1>5. CASE \/ \E j \in Joint : DriveJoint(j)
           \/ \E j \in Joint, a \in Angles : MoveJoint(j, a)
  BY <1>4, <1>5 DEF DriveJoint, MoveJoint
<1>6. CASE \/ BeginCapture \/ CaptureMotor \/ OpenFile \/ OpenFails \/ FlushFile
           \/ FlushFails \/ Crash
  BY <1>4, <1>6 DEF BeginCapture, CaptureMotor, OpenFile, OpenFails, FlushFile,
                    FlushFails, Crash
<1>7. CASE SwitchTorque \/ PowerOff \/ UNCHANGED offsetVars
  BY <1>4, <1>7 DEF SwitchTorque, PowerOff, offsetVars
<1> QED
  BY <1>1, <1>2, <1>3, <1>5, <1>6, <1>7 DEF OffsetNext

\* Every step keeps the offsets of the homed joints, in the node and in the file.
LEMMA HomedStep == OffsetInv /\ [OffsetNext]_offsetVars => HomedInv'
<1> SUFFICES ASSUME OffsetInv, [OffsetNext]_offsetVars, NEW k \in Joint
             PROVE  /\ homed'[k] => offset'[k] = -zero'[k]
                    /\ homed_file'[k] => file' # Empty /\ file'[k] = -zero'[k]
  BY DEF HomedInv
<1> USE DEF historyVars, busVars
<1>0. /\ OffsetTypeOK
      /\ homed[k] => offset[k] = -zero[k]
      /\ homed_file[k] => file # Empty /\ file[k] = -zero[k]
  BY DEF OffsetInv, HomedInv
<1> DEFINE Kept == /\ homed'[k] => offset'[k] = -zero'[k]
                   /\ homed_file'[k] => file' # Empty /\ file'[k] = -zero'[k]
<1>1. CASE CaptureMotor
  <2> DEFINE j == Joints[step]
  <2>1. /\ j \in Joint /\ up /\ zero' = zero
        /\ homed_file' = homed_file /\ file' = file
    BY <1>1, JointFacts DEF CaptureMotor
  <2>2. CASE k = j /\ has_fresh[j]
    <3>1. (homed'[k] => sampled[k] = 0) /\ offset'[k] = Captured(k)
      BY <1>0, <1>1, <2>2 DEF CaptureMotor, OffsetTypeOK
    <3>2. Captured(k) = sampled[k] - zero[k] /\ zero[k] \in Int
      BY <1>0, <2>1, <2>2, CapturedAngle, JointFacts DEF OffsetTypeOK
    <3>3. homed'[k] => offset'[k] = -zero'[k]
      BY <2>1, <3>1, <3>2
    <3>4. homed_file'[k] => file' # Empty /\ file'[k] = -zero'[k]
      BY <1>0, <2>1
    <3> QED
      BY <3>3, <3>4
  <2>3. CASE ~(k = j /\ has_fresh[j])
    <3>1. homed'[k] = homed[k] /\ offset'[k] = offset[k]
      BY <1>0, <1>1, <2>3 DEF CaptureMotor, OffsetTypeOK
    <3> QED
      BY <1>0, <2>1, <3>1
  <2> QED
    BY <2>2, <2>3
<1>2. CASE OpenFile
  BY <1>0, <1>2 DEF OpenFile, Nobody
<1>3. CASE FlushFile
  <2>1. offset # Empty
    BY <1>0, JointFacts DEF OffsetTypeOK, Empty
  <2> QED
    BY <1>0, <1>3, <2>1 DEF FlushFile
<1>4. CASE Launch
  <2>1. homed_file[k] => LoadOffsets[k] = file[k]
    BY <1>0 DEF LoadOffsets, OffsetTypeOK
  <2> QED
    BY <1>0, <1>4, <2>1 DEF Launch
<1>5. CASE PowerOn
  <2>1. /\ homed'[k] = (homed[k] /\ angle[k] = zero[k])
        /\ homed_file'[k] = (homed_file[k] /\ angle[k] = zero[k])
        /\ zero' = angle /\ offset' = offset /\ file' = file
    BY <1>5 DEF PowerOn
  <2> QED
    BY <1>0, <2>1
<1>6. CASE UNCHANGED <<homed, offset, zero, homed_file, file>>
  BY <1>0, <1>6
<1>7. CASE \/ \E j \in Joint : PollMotor(j) \/ DriveJoint(j)
           \/ \E j \in Joint, a \in Angles : MoveJoint(j, a)
  BY <1>6, <1>7 DEF PollMotor, DriveJoint, MoveJoint
<1>8. CASE \/ BeginCapture \/ OpenFails \/ FlushFails \/ Crash
  BY <1>6, <1>8 DEF BeginCapture, OpenFails, FlushFails, Crash
<1>9. CASE SwitchTorque \/ PowerOff \/ UNCHANGED offsetVars
  BY <1>6, <1>9 DEF SwitchTorque, PowerOff, offsetVars
<1> QED
  BY <1>1, <1>2, <1>3, <1>4, <1>5, <1>7, <1>8, <1>9 DEF OffsetNext

\* Every step keeps the promise of the reply.
LEMMA ReplyStep ==
  OffsetInv /\ [OffsetNext]_offsetVars => ReplyInv' /\ SavedReplyIsTrue'
<1> SUFFICES ASSUME OffsetInv, [OffsetNext]_offsetVars
             PROVE  ReplyInv' /\ SavedReplyIsTrue'
  OBVIOUS
<1> USE StepFacts DEF ReplyInv, SavedReplyIsTrue, historyVars, busVars
<1>0. OffsetTypeOK /\ ReplyInv /\ SavedReplyIsTrue
  BY DEF OffsetInv
<1>1. CASE BeginCapture
  BY <1>0, <1>1 DEF BeginCapture
<1>2. CASE CaptureMotor
  BY <1>0, <1>2 DEF CaptureMotor
<1>3. CASE OpenFile \/ OpenFails \/ FlushFile \/ FlushFails
  BY <1>0, <1>3 DEF OpenFile, OpenFails, FlushFile, FlushFails
<1>4. CASE Launch
  <2>1. ASSUME reply = "saved", ~flush_lost
        PROVE  LoadOffsets = file
    <3>1. file \in [Joint -> Int]
      BY <1>0, <2>1 DEF OffsetTypeOK
    <3> QED
      BY <3>1 DEF LoadOffsets
  <2> QED
    BY <1>4, <2>1 DEF Launch
<1>5. CASE Crash
  BY <1>0, <1>5 DEF Crash
<1>6. CASE UNCHANGED <<up, step, reply, flush_lost, file, offset>>
  BY <1>0, <1>6
<1>7. CASE \/ \E j \in Joint : PollMotor(j) \/ DriveJoint(j)
           \/ \E j \in Joint, a \in Angles : MoveJoint(j, a)
  BY <1>6, <1>7 DEF PollMotor, DriveJoint, MoveJoint
<1>8. CASE SwitchTorque \/ PowerOff \/ PowerOn \/ UNCHANGED offsetVars
  BY <1>6, <1>8 DEF SwitchTorque, PowerOff, PowerOn, offsetVars
<1> QED
  BY <1>1, <1>2, <1>3, <1>4, <1>5, <1>7, <1>8 DEF OffsetNext

LEMMA OffsetInvariant == OffsetSpec => []OffsetInv
<1>1. OffsetInv /\ [OffsetNext]_offsetVars => OffsetInv'
  BY OffsetTypeStep, ReadingStep, HomedStep, ReplyStep DEF OffsetInv
<1> QED
  BY <1>1, OffsetInvInit, PTL DEF OffsetSpec

\* A joint homed at the jig pose reads its true angle, through any captures that
\* skipped it, restarts of the node, saves that failed and power cycles at the
\* same pose.
THEOREM HomedReadsTrue == OffsetSpec => []HomedJointReadsTrue
<1>1. OffsetInv => HomedJointReadsTrue
  <2> SUFFICES ASSUME OffsetInv, NEW j \in Joint, up, has_fresh[j], homed[j]
               PROVE  Position(j, latest[j]) = sampled[j]
    BY DEF HomedJointReadsTrue
  <2>1. /\ Direction[j] * (latest[j] \div Ratio[j]) = sampled[j] - zero[j]
        /\ offset[j] = -zero[j]
    BY CapturedAngle DEF Captured, OffsetInv, HomedInv
  <2>2. sampled[j] \in Int /\ zero[j] \in Int
    BY JointFacts DEF OffsetInv, OffsetTypeOK
  <2> QED
    BY <2>1, <2>2 DEF Position
<1> QED
  BY <1>1, OffsetInvariant, PTL

\* A motor with torque turns a homed joint to the angle that was commanded.
THEOREM HomedGoesTrue == OffsetSpec => HomedJointGoesTrue
<1>1. ASSUME OffsetInv, [OffsetNext]_offsetVars
      PROVE  [\A j \in Joint : torque /\ homed[j] /\ angle'[j] # angle[j]
                => angle'[j] = HoldPose[j]]_offsetVars
  <2> SUFFICES ASSUME NEW j \in Joint, torque, homed[j], angle'[j] # angle[j]
               PROVE  angle'[j] = HoldPose[j]
    OBVIOUS
  <2>1. PICK k \in Joint : DriveJoint(k)
    BY <1>1 DEF OffsetNext, offsetVars, historyVars, busVars, PollMotor, MoveJoint,
                BeginCapture, CaptureMotor, OpenFile, OpenFails, FlushFile,
                FlushFails, Crash, Launch, SwitchTorque, PowerOff, PowerOn
  <2>2. PICK a \in Angles :
          /\ Direction[k] * (a - zero[k]) * Ratio[k] = MotorCommand(k)
          /\ angle' = [angle EXCEPT ![k] = a]
    BY <2>1 DEF DriveJoint
  <2>3. k = j /\ angle'[j] = a
    BY <1>1, <2>2 DEF OffsetInv, OffsetTypeOK
  <2>4. offset[j] = -zero[j] /\ offset[j] \in Int /\ zero[j] \in Int
        /\ HoldPose[j] \in Int /\ a \in Int
    BY <1>1, JointFacts DEF OffsetInv, OffsetTypeOK, HomedInv
  <2>5. a - zero[j] = HoldPose[j] + offset[j]
    <3>1. /\ a - zero[j] \in Int /\ HoldPose[j] + offset[j] \in Int
          /\ Ratio[j] \in Nat \ {0} /\ Direction[j] \in {1, -1}
      BY <2>4, JointFacts
    <3>2. Direction[j] * (a - zero[j]) * Ratio[j]
            = Direction[j] * (HoldPose[j] + offset[j]) * Ratio[j]
      BY <2>2, <2>3 DEF MotorCommand
    <3> QED
      BY <3>1, <3>2, SameCount
  <2> QED
    BY <2>3, <2>4, <2>5
<1> QED
  BY <1>1, OffsetInvariant, PTL DEF OffsetSpec, HomedJointGoesTrue

\* A capture that replied success has saved what the node uses, through any
\* restarts since, unless the text was lost after the reply was decided.
THEOREM SavedReplyTrue == OffsetSpec => []SavedReplyIsTrue
<1>1. OffsetInv => SavedReplyIsTrue
  BY DEF OffsetInv
<1> QED
  BY <1>1, OffsetInvariant, PTL

-----------------------------------------------------------------------------
\* The frames of the IMU driver, for any device, frames of any lengths, any number
\* of faults, any length of what the tty holds and any plugging and unplugging.

LEMMA TailFacts ==
  ASSUME NEW S, NEW s \in Seq(S), s # <<>>
  PROVE  /\ Head(s) = s[1] /\ s[1] \in S /\ Len(s) \in Nat \ {0}
         /\ Tail(s) \in Seq(S) /\ Len(Tail(s)) = Len(s) - 1
         /\ DOMAIN Tail(s) = 1..(Len(s) - 1)
         /\ \A i \in 1..(Len(s) - 1) : Tail(s)[i] = s[i + 1]
OBVIOUS

LEMMA ConcatFacts ==
  ASSUME NEW S, NEW s \in Seq(S), NEW t \in Seq(S)
  PROVE  /\ s \o t \in Seq(S) /\ Len(s \o t) = Len(s) + Len(t)
         /\ \A i \in 1..Len(s) : (s \o t)[i] = s[i]
         /\ \A i \in 1..Len(t) : (s \o t)[Len(s) + i] = t[i]
OBVIOUS

\* The lengths of frames.
LEMMA Lengths ==
  /\ PayloadMax \in Nat \ {0} /\ Ids \in Nat \ {0} /\ MaxFaults \in Nat
  /\ Debt = PayloadMax + 2 /\ MissBound = 2 * PayloadMax + 5
  /\ MissedCap = 2 * PayloadMax + 6
  /\ \A k \in Kinds : /\ Payload[k] \in Nat /\ Payload[k] \in 1..PayloadMax
                      /\ FrameLen(k) = Payload[k] + 4
BY WireAssumption DEF Debt, MissBound, MissedCap, FrameLen

LEMMA CellFacts ==
  ASSUME NEW c \in Cell
  PROVE  /\ c.part \in Nat /\ c.kind \in Kinds /\ c.id \in 0..Ids-1
         /\ c.head \in BOOLEAN /\ c.plain \in BOOLEAN
         /\ c.part = 1 => c.head
         /\ c.part <= FrameLen(c.kind) /\ c.part <= PayloadMax + 4
         /\ IsEnd(c) => c.part >= 5 /\ c.part = Payload[c.kind] + 4
BY Lengths DEF Cell, IsEnd

\* What trouble leaves on the wire is no longer plain.
LEMMA TaintedFacts ==
  ASSUME NEW s \in Seq(Cell)
  PROVE  /\ Tainted(s) \in Seq(Cell)
         /\ \A i \in DOMAIN Tainted(s) : ~Tainted(s)[i].plain
<1>1. \A i \in DOMAIN s : /\ [s[i] EXCEPT !.plain = FALSE] \in Cell
                         /\ ~[s[i] EXCEPT !.plain = FALSE].plain
  <2> SUFFICES ASSUME NEW i \in DOMAIN s
               PROVE  /\ [s[i] EXCEPT !.plain = FALSE] \in Cell
                      /\ ~[s[i] EXCEPT !.plain = FALSE].plain
    OBVIOUS
  <2>1. s[i] \in Cell
    OBVIOUS
  <2> QED
    BY <2>1 DEF Cell
<1>2. DOMAIN s = 1..Len(s) /\ Len(s) \in Nat
  OBVIOUS
<1>3. Tainted(s) \in [1..Len(s) -> Cell]
  BY <1>1, <1>2 DEF Tainted
<1>4. Tainted(s) \in Seq(Cell)
  BY <1>2, <1>3
<1> QED
  BY <1>1, <1>4 DEF Tainted

LEMMA DamagedFacts ==
  ASSUME NEW c \in Cell
  PROVE  Damaged(c) \in Cell
<1> DEFINE R == [part : 0..(PayloadMax + 4), kind : Kinds, id : 0..Ids-1,
                 head : BOOLEAN, plain : BOOLEAN]
           d == [c EXCEPT !.part = 0]
           e == [d EXCEPT !.head = FALSE]
<1>1. c \in R
  BY DEF Cell
<1>2. d \in R /\ d.part = 0
  BY <1>1, Lengths
<1> HIDE DEF d
<1>3. e \in R /\ e.part = 0
  BY <1>2
<1>4. 0 <= FrameLen(e.kind)
  BY <1>3, Lengths
<1>5. e \in Cell
  BY <1>3, <1>4 DEF Cell
<1>6. Damaged(c) = e
  BY DEF Damaged, d
<1> QED
  BY <1>5, <1>6

LEMMA FaultTaints ==
  ASSUME ImuTypeOK, Fault
  PROVE  wire' \in Seq(Cell) /\ \A i \in DOMAIN wire' : ~wire'[i].plain
<1>0. wire \in Seq(Cell)
  BY DEF ImuTypeOK
<1>1. PICK i, j \in DOMAIN wire :
        \/ wire' = Tainted(SubSeq(wire, 1, i-1) \o SubSeq(wire, j+1, Len(wire)))
        \/ wire' = Tainted([wire EXCEPT ![i] = Damaged(@)])
  BY DEF Fault
<1>2. SubSeq(wire, 1, i-1) \o SubSeq(wire, j+1, Len(wire)) \in Seq(Cell)
  <2>1. SubSeq(wire, 1, i-1) \in Seq(Cell) /\ SubSeq(wire, j+1, Len(wire)) \in Seq(Cell)
    BY <1>0
  <2> QED
    BY <2>1, ConcatFacts
<1>3. [wire EXCEPT ![i] = Damaged(@)] \in Seq(Cell)
  <2>1. wire[i] \in Cell
    BY <1>0
  <2>2. Damaged(wire[i]) \in Cell
    BY <2>1, DamagedFacts
  <2> QED
    BY <1>0, <2>2
<1> QED
  BY <1>1, <1>2, <1>3, TaintedFacts

\* A frame as the device sends it.
LEMMA FrameFacts ==
  ASSUME NEW k \in Kinds, NEW n \in 0..Ids-1, NEW h \in 0..Payload[k]
  PROVE  /\ FrameOf(k, n, h) \in Seq(Cell) /\ Len(FrameOf(k, n, h)) = FrameLen(k)
         /\ \A i \in 1..FrameLen(k) :
              /\ FrameOf(k, n, h)[i].part = i /\ FrameOf(k, n, h)[i].kind = k
              /\ FrameOf(k, n, h)[i].id = n /\ FrameOf(k, n, h)[i].plain = (h = 0)
              /\ FrameOf(k, n, h)[i].head => i = 1 \/ h > 0
<1> DEFINE L == FrameLen(k)
           hd(i) == i = 1 \/ (h > 0 /\ i = h + 3)
           c(i) == [part |-> i, kind |-> k, id |-> n, head |-> hd(i), plain |-> h = 0]
<1>1. L \in Nat /\ L <= PayloadMax + 4
  BY Lengths
<1>2. FrameOf(k, n, h) = [i \in 1..L |-> c(i)]
  BY DEF FrameOf
<1>3. \A i \in 1..L : hd(i) \in BOOLEAN /\ (h = 0) \in BOOLEAN /\ (i = 1 => hd(i))
                      /\ (hd(i) => i = 1 \/ h > 0)
  OBVIOUS
<1> HIDE DEF hd
<1>4. \A i \in 1..L : /\ c(i).part = i /\ c(i).kind = k /\ c(i).id = n
                      /\ c(i).plain = (h = 0) /\ (c(i).head => i = 1 \/ h > 0)
  BY <1>3
<1>5. \A i \in 1..L : c(i) \in Cell
  <2> SUFFICES ASSUME NEW i \in 1..L PROVE c(i) \in Cell
    OBVIOUS
  <2> DEFINE pl == h = 0
             x == hd(i)
  <2>1. i \in 0..(PayloadMax + 4)
    BY <1>1, Lengths
  <2>4. x \in BOOLEAN /\ (i = 1 => x)
    BY <1>3, Zenon
  <2>5. pl \in BOOLEAN
    BY Zenon
  <2>2. c(i) = [part |-> i, kind |-> k, id |-> n, head |-> x, plain |-> pl]
    OBVIOUS
  <2>3. i <= FrameLen(k)
    BY <1>1
  <2> HIDE DEF c, x, pl
  <2> QED
    BY <2>1, <2>2, <2>3, <2>4, <2>5 DEF Cell
<1> HIDE DEF c, L
<1>6. FrameOf(k, n, h) \in [1..L -> Cell]
  BY <1>2, <1>5
<1>7. FrameOf(k, n, h) \in Seq(Cell) /\ Len(FrameOf(k, n, h)) = L
  BY <1>1, <1>6
<1>8. \A i \in 1..L : FrameOf(k, n, h)[i] = c(i)
  BY <1>2
<1> QED
  BY <1>4, <1>7, <1>8 DEF L

LEMMA ImuInvInit == ImuInit => ImuInv
<1> SUFFICES ASSUME ImuInit PROVE ImuInv
  OBVIOUS
<1> USE Lengths DEF ImuInit
<1>0. /\ wire \in Seq(Cell) /\ missed \in 0..MissedCap /\ id \in 0..Ids-1
      /\ faults \in 0..MaxFaults /\ got \in 0..PayloadMax
  BY Lengths
<1>3. hdr \in [kind : Kinds, id : 0..Ids-1] \cup {NoHeader}
  OBVIOUS
<1>4. /\ running \in BOOLEAN /\ ok \in BOOLEAN /\ have_imu \in BOOLEAN
      /\ plugged \in BOOLEAN /\ thread \in {"run", "done"}
      /\ fd \in {"closed", "open", "failing", "hung"}
      /\ stage \in {"sync", "header", "payload", "end"}
      /\ published \in {"none", "ahrs", "imu"}
  OBVIOUS
<1> HIDE DEF ImuInit
<1>1. ImuTypeOK
  BY <1>0, <1>3, <1>4 DEF ImuTypeOK
<1>2. ResyncsWithinBound
  BY DEF ImuInit, ResyncsWithinBound
<1> QED
  BY <1>1, <1>2 DEF ImuInit, ImuInv, StageInv

-----------------------------------------------------------------------------
\* The parser.  What reading one more cell does to it, stage by stage.
ParseCell(c) ==
  ReadSync(c) \/ ReadHeader(c) \/ ReadCrc(c) \/ ReadPayload(c) \/ ReadEnd(c)

LEMMA ParseFacts ==
  ASSUME ImuTypeOK, StageInv, NEW c \in Cell, ParseCell(c)
  PROVE  /\ stage = "sync" => /\ stage' = (IF c.head THEN "header" ELSE "sync")
                              /\ got' = got /\ hdr' = hdr /\ ok' = ok
         /\ stage = "header" /\ got = 0 =>
              /\ stage' = "header" /\ got' = 1 /\ ok' = (c.part = 2)
              /\ hdr' = [kind |-> c.kind, id |-> c.id]
         /\ stage = "header" /\ got = 1 /\ ok =>
              /\ stage' = "payload" /\ got' = 0 /\ ok' = Matches(c, 3) /\ hdr' = hdr
         /\ stage = "header" /\ got = 1 /\ ~ok => Resync
         /\ stage = "payload" =>
              /\ ok' = (ok /\ Matches(c, 4 + got)) /\ hdr' = hdr
              /\ IF got + 1 = Payload[hdr.kind] THEN stage' = "end" /\ got' = 0
                 ELSE stage' = "payload" /\ got' = got + 1
         /\ stage = "end" => Resync
<1> USE DEF ParseCell, ReadSync, ReadHeader, ReadCrc, ReadPayload, ReadEnd
<1>1. CASE stage = "sync"
  BY <1>1, Zenon DEF LooksLikeHead
<1>2. CASE stage = "header" /\ got = 0
  <2>1. ReadHeader(c)
    BY <1>2
  <2> QED
    BY <1>2, <2>1
<1>3. CASE stage = "header" /\ got = 1
  <2>1. ReadCrc(c)
    BY <1>3
  <2> QED
    BY <1>3, <2>1
<1>4. CASE stage = "payload"
  <2>1. ReadPayload(c)
    BY <1>4
  <2> QED
    BY <1>4, <2>1
<1>5. CASE stage = "end"
  <2>1. ReadEnd(c)
    BY <1>5
  <2> QED
    BY <1>5, <2>1
<1> QED
  BY <1>1, <1>2, <1>3, <1>4, <1>5 DEF ImuTypeOK, StageInv

\* The stages of the parser.
LEMMA Stages ==
  ASSUME ImuTypeOK, StageInv
  PROVE  /\ \/ stage = "sync" /\ got = 0
            \/ stage = "header" /\ got = 0
            \/ stage = "header" /\ got = 1 /\ hdr.kind \in Kinds
            \/ stage = "payload" /\ hdr.kind \in Kinds /\ got < Payload[hdr.kind]
            \/ stage = "end" /\ hdr.kind \in Kinds
         /\ got \in Nat /\ ok \in BOOLEAN /\ missed \in Nat
<1>1. hdr # NoHeader => hdr.kind \in Kinds
  BY DEF ImuTypeOK
<1> QED
  BY <1>1, Lengths DEF ImuTypeOK, StageInv

LEMMA ParseTypes ==
  ASSUME ImuTypeOK, StageInv, NEW c \in Cell, ParseCell(c)
  PROVE  /\ stage' \in {"sync", "header", "payload", "end"} /\ got' \in 0..PayloadMax
         /\ ok' \in BOOLEAN /\ hdr' \in [kind : Kinds, id : 0..Ids-1] \cup {NoHeader}
         /\ have_imu' \in BOOLEAN /\ published' \in {"none", "ahrs", "imu"}
         /\ StageInv'
<1> USE ParseFacts, CellFacts, Lengths DEF Resync
<1>1. /\ hdr \in [kind : Kinds, id : 0..Ids-1] \cup {NoHeader} /\ ok \in BOOLEAN
      /\ got \in 0..PayloadMax
  BY DEF ImuTypeOK
<1>2. have_imu' \in BOOLEAN /\ published' \in {"none", "ahrs", "imu"}
  BY Zenon DEF ImuTypeOK, ParseCell, ReadSync, ReadHeader, ReadCrc, ReadPayload, ReadEnd
<1>3. CASE stage = "sync"
  BY <1>1, <1>2, <1>3, Stages DEF StageInv
<1>4. CASE stage = "header" /\ got = 0
  <2>1. /\ hdr' = [kind |-> c.kind, id |-> c.id] /\ stage' = "header" /\ got' = 1
        /\ ok' \in BOOLEAN
    BY <1>4
  <2>2. hdr' \in [kind : Kinds, id : 0..Ids-1]
    BY <2>1
  <2>3. hdr' # NoHeader
    <3>1. c.kind # "none"
      BY WireAssumption
    <3> QED
      BY <2>1, <3>1 DEF NoHeader
  <2> QED
    BY <1>2, <2>1, <2>2, <2>3 DEF StageInv
<1>5. CASE stage = "header" /\ got = 1
  <2>1. hdr # NoHeader /\ hdr.kind \in Kinds
    BY <1>5, Stages DEF StageInv
  <2>2. CASE ok
    <3>1. stage' = "payload" /\ got' = 0 /\ hdr' = hdr /\ ok' = Matches(c, 3)
      BY <1>5, <2>2
    <3>2. ok' \in BOOLEAN
      BY <3>1 DEF Matches
    <3> QED
      BY <1>1, <1>2, <2>1, <3>1, <3>2 DEF StageInv
  <2>3. CASE ~ok
    <3>1. stage' = "sync" /\ got' = 0 /\ hdr' = NoHeader /\ ok' = TRUE
      BY <1>5, <2>3
    <3> QED
      BY <1>2, <3>1 DEF StageInv
  <2> QED
    BY <2>2, <2>3
<1>6. CASE stage = "payload"
  <2>1. hdr # NoHeader /\ hdr.kind \in Kinds /\ got < Payload[hdr.kind]
    BY <1>6, Stages DEF StageInv
  <2>2. /\ ok' = (ok /\ Matches(c, 4 + got)) /\ hdr' = hdr
        /\ IF got + 1 = Payload[hdr.kind] THEN stage' = "end" /\ got' = 0
           ELSE stage' = "payload" /\ got' = got + 1
    BY <1>6
  <2>3. ok' \in BOOLEAN
    BY <2>2
  <2>4. Payload[hdr.kind] \in 1..PayloadMax /\ got \in Nat
    BY <1>1, <2>1, Lengths
  <2>5. CASE got + 1 = Payload[hdr.kind]
    BY <1>1, <1>2, <2>1, <2>2, <2>3, <2>4, <2>5 DEF StageInv
  <2>6. CASE got + 1 # Payload[hdr.kind]
    <3>1. got + 1 < Payload[hdr.kind] /\ got + 1 \in 0..PayloadMax
      BY <2>1, <2>4, <2>6, Lengths
    <3> QED
      BY <1>1, <1>2, <2>1, <2>2, <2>3, <2>4, <2>6, <3>1 DEF StageInv
  <2> QED
    BY <2>5, <2>6
<1>7. CASE stage = "end"
  <2>1. stage' = "sync" /\ got' = 0 /\ hdr' = NoHeader /\ ok' = TRUE
    BY <1>7
  <2> QED
    BY <1>2, <2>1 DEF StageInv
<1> QED
  BY <1>3, <1>4, <1>5, <1>6, <1>7, Stages

\* Of a whole frame, an aligned parser stays aligned, ...
LEMMA AlignedStep ==
  ASSUME ImuTypeOK, StageInv, NEW c \in Cell, NEW d \in Cell, ParseCell(c),
         c.part > 0, ~IsEnd(c), Follows(c, d), Aligned(c)
  PROVE  Aligned(d)'
<1> USE ParseFacts, CellFacts, Lengths DEF Aligned, IsEnd
<1>1. /\ d.part = c.part + 1 /\ d.kind = c.kind /\ d.id = c.id
      /\ c.part \in 1..(Payload[c.kind] + 3)
      /\ IsEnd(d) <=> c.part = Payload[c.kind] + 3
  BY DEF Follows, IsEnd
<1> HIDE DEF Aligned, IsEnd
<1>6. Payload[c.kind] \in 1..PayloadMax
  OBVIOUS
<1>2. CASE c.part = 1
  <2>1. c.head /\ stage = "sync" /\ got = 0
    BY <1>1, <1>2, Stages DEF Aligned
  <2>2. stage' = "header" /\ got' = 0
    BY <2>1
  <2>3. d.part = 2 /\ ~IsEnd(d)
    BY <1>1, <1>2
  <2> QED
    BY <2>2, <2>3 DEF Aligned, IsEnd
<1>3. CASE c.part = 2
  <2>1. stage = "header" /\ got = 0
    BY <1>1, <1>3 DEF Aligned
  <2>2. stage' = "header" /\ got' = 1 /\ ok' /\ hdr' = [kind |-> c.kind, id |-> c.id]
    BY <1>3, <2>1
  <2>3. d.part = 3 /\ ~IsEnd(d)
    BY <1>1, <1>3
  <2> QED
    BY <1>1, <2>2, <2>3 DEF Aligned, IsEnd
<1>4. CASE c.part = 3
  <2>1. stage = "header" /\ got = 1 /\ ok /\ hdr.kind = c.kind /\ hdr.id = c.id
    BY <1>1, <1>4 DEF Aligned
  <2>2. stage' = "payload" /\ got' = 0 /\ ok' /\ hdr' = hdr
    BY <1>4, <2>1 DEF Matches
  <2>3. d.part = 4 /\ ~IsEnd(d)
    BY <1>1, <1>4, <1>6
  <2> QED
    BY <1>1, <2>1, <2>2, <2>3 DEF Aligned, IsEnd
<1>5. CASE c.part > 3
  <2>1. stage = "payload" /\ got = c.part - 4 /\ ok /\ hdr.kind = c.kind /\ hdr.id = c.id
    BY <1>1, <1>5 DEF Aligned
  <2>2. Matches(c, 4 + got)
    BY <2>1 DEF Matches
  <2>3. ok' /\ hdr' = hdr
    BY <2>1, <2>2
  <2>4. IF got + 1 = Payload[hdr.kind] THEN stage' = "end" /\ got' = 0
        ELSE stage' = "payload" /\ got' = got + 1
    BY <2>1
  <2>5. d.part = got + 5 /\ (IsEnd(d) <=> got + 1 = Payload[hdr.kind])
    BY <1>1, <1>5, <1>6, <2>1
  <2> QED
    BY <1>1, <1>5, <2>1, <2>3, <2>4, <2>5 DEF Aligned, IsEnd
<1> QED
  BY <1>1, <1>2, <1>3, <1>4, <1>5

\* ... and recognizes it at its end.
LEMMA AlignedEnd ==
  ASSUME ImuTypeOK, StageInv, NEW c \in Cell, ParseCell(c), IsEnd(c), Aligned(c)
  PROVE  Recognized(c) /\ stage' = "sync"
<1>1. stage = "end" /\ ok
  BY CellFacts DEF Aligned
<1> QED
  BY <1>1, ParseFacts DEF Recognized, Resync

\* What the parser owes, stage by stage.
LEMMA OwedCases ==
  /\ stage = "sync" => Owed = 0
  /\ stage = "header" /\ got = 0 => Owed = 2
  /\ stage = "header" /\ got = 1 /\ ok => Owed = Payload[hdr.kind] + 2
  /\ stage = "header" /\ got = 1 /\ ~ok => Owed = 1
  /\ stage = "payload" => Owed = Payload[hdr.kind] - got + 1
  /\ stage = "end" => Owed = 1
BY DEF Owed

LEMMA OwedCasesNext ==
  /\ stage' = "sync" => Owed' = 0
  /\ stage' = "header" /\ got' = 0 => Owed' = 2
  /\ stage' = "header" /\ got' = 1 /\ ok' => Owed' = Payload[hdr'.kind] + 2
  /\ stage' = "header" /\ got' = 1 /\ ~ok' => Owed' = 1
  /\ stage' = "payload" => Owed' = Payload[hdr'.kind] - got' + 1
  /\ stage' = "end" => Owed' = 1
BY DEF Owed

\* It is never more than a Debt, ...
LEMMA OwedBound ==
  ASSUME ImuTypeOK, StageInv
  PROVE  Owed \in 0..Debt /\ (Owed = 0 <=> stage = "sync")
BY Stages, Lengths, OwedCases

\* ... and less with each cell that is not what it is looking for.
LEMMA OwedStep ==
  ASSUME ImuTypeOK, StageInv, NEW c \in Cell, ParseCell(c),
         stage # "sync", ~Aligned(c)
  PROVE  Owed' = Owed - 1 /\ (Owed' = 0 <=> stage' = "sync")
<1> USE OwedCases, OwedCasesNext
<1>1. CASE stage = "header" /\ got = 0
  <2>1. stage' = "header" /\ got' = 1 /\ ok' = (c.part = 2)
    BY <1>1, ParseFacts
  <2>2. c.part # 2
    BY <1>1, CellFacts DEF Aligned
  <2>3. ~ok'
    BY <2>1, <2>2
  <2> QED
    BY <1>1, <2>1, <2>3
<1>2. CASE stage = "header" /\ got = 1 /\ ok
  <2>1. hdr.kind \in Kinds /\ stage' = "payload" /\ got' = 0 /\ hdr' = hdr
    BY <1>2, Stages, ParseFacts
  <2>2. Payload[hdr.kind] \in Nat
    BY <2>1, Lengths
  <2> QED
    BY <1>2, <2>1, <2>2
<1>3. CASE stage = "header" /\ got = 1 /\ ~ok
  <2>1. Owed = 1 /\ stage' = "sync"
    BY <1>3, ParseFacts DEF Resync
  <2> QED
    BY <2>1
<1>4. CASE stage = "payload"
  <2>1. hdr.kind \in Kinds /\ got < Payload[hdr.kind] /\ got \in Nat /\ hdr' = hdr
    BY <1>4, Stages, ParseFacts
  <2>2. IF got + 1 = Payload[hdr.kind] THEN stage' = "end" /\ got' = 0
        ELSE stage' = "payload" /\ got' = got + 1
    BY <1>4, ParseFacts
  <2>3. Payload[hdr.kind] \in Nat
    BY <2>1, Lengths
  <2>4. CASE got + 1 = Payload[hdr.kind]
    BY <1>4, <2>1, <2>2, <2>3, <2>4
  <2>5. CASE got + 1 # Payload[hdr.kind]
    BY <1>4, <2>1, <2>2, <2>3, <2>5
  <2> QED
    BY <2>4, <2>5
<1>5. CASE stage = "end"
  <2>1. Owed = 1 /\ stage' = "sync"
    BY <1>5, ParseFacts DEF Resync
  <2> QED
    BY <2>1
<1> QED
  BY <1>1, <1>2, <1>3, <1>4, <1>5, Stages

\* How the count of the cells missed goes on.
LEMMA CountFacts ==
  ASSUME ImuTypeOK, NEW c \in Cell, CountMissed(c)
  PROVE  /\ missed' \in 0..MissedCap
         /\ ~c.plain \/ Recognized(c) => missed' = 0
         /\ c.plain /\ ~IsEnd(c) => missed' = missed
         /\ c.plain /\ IsEnd(c) => missed' = 0 \/ missed' <= missed + c.part
<1>1. missed \in 0..MissedCap /\ c.part \in Nat /\ MissedCap \in Nat
  BY CellFacts, Lengths DEF ImuTypeOK
<1>2. ~IsEnd(c) => ~Recognized(c)
  BY DEF Recognized
<1> QED
  BY <1>1, <1>2 DEF CountMissed

\* The count and what is owed, when a frame has gone by.
LEMMA PaidOff ==
  ASSUME NEW m \in Nat, NEW n \in Nat, NEW part \in Nat, NEW owed \in Nat,
         NEW debt \in Nat, m + (part - 1) + owed <= debt, owed >= 1, part >= 1,
         n = 0 \/ n <= m + part
  PROVE  n + (owed - 1) <= debt
OBVIOUS

\* A plain cell read: the parser stays aligned with its frame, or goes on paying
\* what it owes, or runs on to the end of the frame.
LEMMA PlainStep ==
  ASSUME ImuTypeOK, StageInv, NEW c \in Cell, ParseCell(c), CountMissed(c),
         ResyncsWithinBound, c.plain, c.part > 0, c.head => c.part = 1,
         Aligned(c) \/ Astray(c)
  PROVE  /\ ResyncsWithinBound'
         /\ IsEnd(c) => stage' = "sync" \/ missed' + Owed' <= Debt
         /\ ~IsEnd(c) => \A d \in Cell : Follows(c, d) => Aligned(d)' \/ Astray(d)'
<1> USE CellFacts, CountFacts, Lengths DEF ResyncsWithinBound
<1>1. missed \in Nat /\ missed' \in Nat /\ c.part \in Nat
  BY DEF ImuTypeOK
<1>2. CASE Aligned(c) /\ IsEnd(c)
  BY <1>1, <1>2, AlignedEnd
<1>3. CASE Aligned(c) /\ ~IsEnd(c)
  BY <1>1, <1>3, AlignedStep
<1>4. CASE ~Aligned(c) /\ stage = "sync"
  <2>1. c.part # 1 /\ missed < Debt
    BY <1>4 DEF Aligned, Astray
  <2>2. stage' = "sync"
    BY <1>4, <2>1, ParseFacts
  <2>3. ~IsEnd(c) => \A d : Astray(d)'
    BY <2>1, <2>2 DEF Astray
  <2>4. missed' <= MissBound
    BY <1>1, <2>1
  <2> QED
    BY <2>2, <2>3, <2>4
<1>5. CASE ~Aligned(c) /\ stage # "sync"
  <2>1. missed + (c.part - 1) + Owed <= Debt
    BY <1>5 DEF Astray
  <2>2. Owed \in Nat /\ Owed >= 1 /\ Owed' = Owed - 1 /\ (Owed' = 0 <=> stage' = "sync")
    BY <1>5, OwedBound, OwedStep
  <2>3. Debt <= MissBound /\ Debt \in Nat
    OBVIOUS
  <2> DEFINE o == Owed
             p == Owed'
  <2>4. o \in Nat /\ o >= 1 /\ p = o - 1 /\ missed + (c.part - 1) + o <= Debt
    BY <2>1, <2>2
  <2> HIDE DEF o, p
  <2>5. CASE IsEnd(c)
    <3>1. missed' = 0 \/ missed' <= missed + c.part
      BY <2>5
    <3>2. missed' <= MissBound
      BY <1>1, <2>3, <2>4, <3>1
    <3>3. missed' + p <= Debt
      <4>1. c.part >= 1
        BY <2>5
      <4>2. missed' + (o - 1) <= Debt
        BY ONLY <1>1, <2>3, <2>4, <3>1, <4>1, PaidOff
      <4> QED
        BY <2>4, <4>2
    <3> QED
      BY <2>5, <3>2, <3>3 DEF p
  <2>6. CASE ~IsEnd(c)
    <3>1. missed' = missed
      BY <2>6
    <3>2. ASSUME NEW d \in Cell, Follows(c, d)
          PROVE  Astray(d)'
      <4>1. d.part = c.part + 1
        BY <2>6, <3>2 DEF Follows
      <4>2. CASE stage' = "sync"
        BY <1>1, <2>3, <2>4, <3>1, <4>2 DEF Astray
      <4>3. CASE stage' # "sync"
        <5>1. missed' + (d.part - 1) + p <= Debt
          BY <1>1, <2>3, <2>4, <3>1, <4>1
        <5> QED
          BY <4>3, <5>1 DEF Astray, p
      <4> QED
        BY <4>2, <4>3
    <3> QED
      BY <2>6, <3>1, <3>2
  <2> QED
    BY <2>5, <2>6
<1> QED
  BY <1>2, <1>3, <1>4, <1>5

-----------------------------------------------------------------------------
\* Every step keeps the types.
LEMMA ImuTypeStep ==
  ASSUME ImuTypeOK, StageInv, [ImuNext]_imuVars
  PROVE  ImuTypeOK' /\ StageInv'
<1> USE Lengths DEF ImuTypeOK, driverVars, parserVars, deviceVars
<1>0. <<>> \in Seq(Cell) /\ 0 \in 0..MissedCap /\ 0 \in 0..PayloadMax
  OBVIOUS
<1>1. CASE OpenPort
  <2>1. PICK k \in 0..Len(wire) : wire' = Tainted(SubSeq(wire, k + 1, Len(wire)))
    BY <1>1 DEF OpenPort
  <2>2. SubSeq(wire, k + 1, Len(wire)) \in Seq(Cell)
    OBVIOUS
  <2>3. wire' \in Seq(Cell)
    BY <2>1, <2>2, TaintedFacts
  <2> QED
    BY <1>0, <1>1, <2>3 DEF OpenPort, StageInv
<1>2. CASE ReadCell
  <2> DEFINE c == Head(wire)
  <2>1. c \in Cell /\ wire' \in Seq(Cell)
    BY <1>2, TailFacts DEF ReadCell
  <2>2. ParseCell(c) /\ CountMissed(c)
    BY <1>2 DEF ReadCell, ParseCell
  <2>3. missed' \in 0..MissedCap
    BY <2>1, <2>2, CountFacts
  <2> HIDE DEF c
  <2> QED
    BY <1>2, <2>1, <2>2, <2>3, ParseTypes DEF ReadCell
<1>3. CASE ReadFails
  BY <1>0, <1>3 DEF ReadFails, Resync, StageInv
<1>4. CASE ThreadEnds
  BY <1>0, <1>4 DEF ThreadEnds, Resync, StageInv
<1>5. CASE Shutdown
  <2>1. running' = FALSE /\ UNCHANGED <<thread, fd, driverVars, deviceVars>>
    BY <1>5 DEF Shutdown
  <2>2. ImuTypeOK'
    BY ONLY ImuTypeOK, <2>1
  <2>3. StageInv'
    BY ONLY StageInv, <2>1 DEF StageInv
  <2> QED
    BY <2>2, <2>3
<1>6. ASSUME NEW k \in Kinds, NEW h \in 0..Payload[k], SendFrame(k, h)
      PROVE  ImuTypeOK' /\ StageInv'
  <2>1. wire' \in Seq(Cell)
    BY <1>6, FrameFacts, ConcatFacts DEF SendFrame
  <2>2. id' \in 0..Ids-1
    BY <1>6 DEF SendFrame
  <2> QED
    BY <1>6, <2>1, <2>2 DEF SendFrame, StageInv
<1>7. CASE Fault
  <2>1. wire' \in Seq(Cell)
    BY <1>7, FaultTaints
  <2>2. faults' \in 0..MaxFaults
    <3>1. faults' = faults + 1 /\ faults < MaxFaults
      BY <1>7 DEF Fault
    <3> QED
      BY <3>1
  <2> QED
    BY <1>0, <1>7, <2>1, <2>2 DEF Fault, StageInv
<1>8. CASE Unplug
  BY <1>0, <1>8 DEF Unplug, StageInv
<1>9. CASE Plug
  BY <1>9 DEF Plug, StageInv
<1>10. CASE UNCHANGED imuVars
  BY <1>10 DEF imuVars, StageInv
<1> QED
  BY <1>1, <1>2, <1>3, <1>4, <1>5, <1>6, <1>7, <1>8, <1>9, <1>10 DEF ImuNext

\* What holds of the wire and the parser while the port is open.
OpenInv == ResyncsWithinBound /\ WireInv /\ ParserInv

\* After trouble nothing on the wire is plain, and nothing is known of the parser.
LEMMA TroubleStep ==
  ASSUME ImuTypeOK', StageInv', missed' = 0, \A i \in DOMAIN wire' : ~wire'[i].plain
  PROVE  OpenInv'
<1>1. ResyncsWithinBound' /\ WireInv'
  BY Lengths DEF ResyncsWithinBound, WireInv
<1>2. wire' # <<>> => 1 \in DOMAIN wire'
  BY DEF ImuTypeOK
<1>3. Owed' \in 0..Debt
  <2>1. (ImuTypeOK /\ StageInv)' => (Owed \in 0..Debt)'
    BY OwedBound, PTL
  <2> QED
    BY <2>1
<1>4. ParserInv'
  <2>1. CASE wire' = <<>>
    <3>1. missed' + Owed' <= Debt
      <4>1. \A o \in 0..Debt : 0 + o <= Debt
        BY Lengths
      <4> QED
        BY <1>3, <4>1
    <3> QED
      BY <2>1, <3>1 DEF ParserInv
  <2>2. CASE wire' # <<>>
    BY <1>2, <2>2 DEF ParserInv
  <2> QED
    BY <2>1, <2>2
<1> QED
  BY <1>1, <1>4 DEF OpenInv

\* A cell is read.
LEMMA ReadCellStep ==
  ASSUME ImuInv, fd = "open", ReadCell, ImuTypeOK', StageInv'
  PROVE  OpenInv'
<1> DEFINE c == wire[1]
<1>0. ImuTypeOK /\ StageInv /\ ResyncsWithinBound /\ WireInv /\ ParserInv
  BY DEF ImuInv
<1>1. /\ c \in Cell /\ wire # <<>> /\ Len(wire) \in Nat \ {0} /\ Head(wire) = c
      /\ DOMAIN wire = 1..Len(wire) /\ 1 \in DOMAIN wire /\ Len(wire') = Len(wire) - 1
      /\ DOMAIN wire' = 1..(Len(wire) - 1)
      /\ \A i \in 1..(Len(wire) - 1) : wire'[i] = wire[i + 1] /\ wire[i + 1] \in Cell
  BY <1>0, TailFacts DEF ReadCell, ImuTypeOK
<1>2. ParseCell(c) /\ CountMissed(c)
  BY <1>1 DEF ReadCell, ParseCell
<1>3. WireInv'
  <2> SUFFICES ASSUME NEW i \in DOMAIN wire'
               PROVE  /\ wire'[i].plain =>
                           /\ wire'[i].part > 0
                           /\ wire'[i].head => wire'[i].part = 1
                           /\ IF i = Len(wire') THEN IsEnd(wire'[i])
                              ELSE Follows(wire'[i], wire'[i+1])
                      /\ wire'[i].plain /\ wire'[i].part > 1 /\ i > 1
                           => wire'[i-1].plain
    BY DEF WireInv, IsEnd, Follows
  <2>0. i \in 1..(Len(wire) - 1)
    BY <1>1
  <2>3. i > 1 => wire'[i - 1] = wire[i]
    <3>1. i > 1 => i - 1 \in 1..(Len(wire) - 1) /\ (i - 1) + 1 = i
      BY <1>1, <2>0
    <3> QED
      BY <1>1, <3>1
  <2>4. i # Len(wire') => wire'[i + 1] = wire[(i + 1) + 1]
    <3>1. i # Len(wire') => i + 1 \in 1..(Len(wire) - 1)
      BY <1>1, <2>0
    <3> QED
      BY <1>1, <3>1
  <2>5. /\ i + 1 \in DOMAIN wire /\ i + 1 > 1 /\ (i + 1) - 1 = i
        /\ i = Len(wire') <=> i + 1 = Len(wire)
    <3>1. \A n \in Nat : \A e \in 1..(n - 1) :
            /\ e + 1 \in 1..n /\ e + 1 > 1 /\ (e + 1) - 1 = e
            /\ e = n - 1 <=> e + 1 = n
      OBVIOUS
    <3>2. /\ i + 1 \in 1..Len(wire) /\ i + 1 > 1 /\ (i + 1) - 1 = i
          /\ i = Len(wire) - 1 <=> i + 1 = Len(wire)
      BY ONLY <1>1, <2>0, <3>1
    <3> QED
      BY <1>1, <3>2, Zenon
  <2>1. /\ i + 1 \in DOMAIN wire /\ wire'[i] = wire[i + 1] /\ i + 1 > 1
        /\ (i + 1) - 1 = i /\ (i > 1 => wire'[i - 1] = wire[i])
        /\ i = Len(wire') <=> i + 1 = Len(wire)
        /\ i # Len(wire') => wire'[i + 1] = wire[(i + 1) + 1]
    BY <1>1, <2>0, <2>3, <2>4, <2>5
  <2>2. /\ wire[i + 1].plain =>
             /\ wire[i + 1].part > 0
             /\ wire[i + 1].head => wire[i + 1].part = 1
             /\ IF i + 1 = Len(wire) THEN IsEnd(wire[i + 1])
                ELSE Follows(wire[i + 1], wire[(i + 1) + 1])
        /\ wire[i + 1].plain /\ wire[i + 1].part > 1 => wire[i].plain
    BY <1>0, <2>1 DEF WireInv
  <2> QED
    BY <2>1, <2>2
<1>4. c.plain => /\ c.part > 0 /\ (c.head => c.part = 1)
                 /\ Aligned(c) \/ Astray(c)
                 /\ wire' = <<>> => IsEnd(c)
                 /\ wire' # <<>> => Follows(c, wire'[1])
  <2>1. wire' = <<>> <=> 1 = Len(wire)
    BY <1>1 DEF ReadCell
  <2>2. wire' # <<>> => wire'[1] = wire[1 + 1]
    BY <1>1, <2>1
  <2> QED
    BY <1>0, <1>1, <2>1, <2>2 DEF WireInv, ParserInv
<1>5. wire' # <<>> => /\ wire'[1] \in Cell
                      /\ wire'[1].plain /\ wire'[1].part > 1 => c.plain
  <2> SUFFICES ASSUME wire' # <<>>
               PROVE  /\ wire'[1] \in Cell
                      /\ wire'[1].plain /\ wire'[1].part > 1 => c.plain
    OBVIOUS
  <2>1. 1 \in 1..(Len(wire) - 1) /\ wire'[1] = wire[1 + 1] /\ 1 + 1 \in DOMAIN wire
    BY <1>1 DEF ReadCell
  <2>2. wire[1 + 1].plain /\ wire[1 + 1].part > 1 => wire[(1 + 1) - 1].plain
    BY <1>0, <2>1 DEF WireInv
  <2> QED
    BY <1>1, <2>1, <2>2
<1>6. Owed' \in 0..Debt
  <2>1. (ImuTypeOK /\ StageInv)' => (Owed \in 0..Debt)'
    BY OwedBound, PTL
  <2> QED
    BY <2>1
<1>7. missed' \in Nat
  BY Lengths DEF ImuTypeOK
<1> HIDE DEF c
<1>8. CASE c.plain
  <2>1. /\ ResyncsWithinBound'
        /\ IsEnd(c) => stage' = "sync" \/ missed' + Owed' <= Debt
        /\ ~IsEnd(c) => \A d \in Cell : Follows(c, d) => Aligned(d)' \/ Astray(d)'
    BY <1>0, <1>1, <1>2, <1>4, <1>8, PlainStep
  <2>2. CASE wire' = <<>>
    BY <1>3, <1>4, <1>8, <2>1, <2>2 DEF OpenInv, ParserInv
  <2>3. CASE wire' # <<>> /\ ~IsEnd(c)
    <3>1. PICK d \in Cell : d = wire'[1]
      BY <1>5, <2>3
    <3>2. Follows(c, d)
      BY <1>4, <1>8, <2>3, <3>1
    <3>3. Aligned(d)' \/ Astray(d)'
      BY <2>1, <2>3, <3>2
    <3>4. Aligned(wire[1])' \/ Astray(wire[1])'
      BY <3>1, <3>3 DEF Aligned, Astray, IsEnd
    <3> QED
      BY <1>3, <2>1, <2>3, <3>4 DEF OpenInv, ParserInv
  <2>4. CASE wire' # <<>> /\ IsEnd(c)
    <3>1. wire'[1].part = 1 /\ ~IsEnd(wire'[1])
      BY <1>4, <1>5, <1>8, <2>4, CellFacts DEF Follows
    <3>2. Aligned(wire[1])' \/ Astray(wire[1])'
      BY <1>7, <2>1, <2>4, <3>1 DEF Aligned, Astray, IsEnd
    <3> QED
      BY <1>3, <2>1, <2>4, <3>2 DEF OpenInv, ParserInv
  <2> QED
    BY <2>2, <2>3, <2>4
<1>9. CASE ~c.plain
  <2>1. missed' = 0
    BY <1>0, <1>1, <1>2, <1>9, CountFacts
  <2>2. ResyncsWithinBound'
    BY <2>1, Lengths DEF ResyncsWithinBound
  <2>3. CASE wire' = <<>>
    <3>1. missed' + Owed' <= Debt
      <4>1. \A o \in 0..Debt : 0 + o <= Debt
        BY Lengths
      <4> QED
        BY <1>6, <2>1, <4>1
    <3> QED
      BY <1>3, <2>2, <2>3, <3>1 DEF OpenInv, ParserInv
  <2>4. CASE wire' # <<>>
    <3>1. wire'[1].plain => wire'[1].part \in {0, 1}
      BY <1>5, <1>9, <2>4, CellFacts
    <3>2. 1 \in DOMAIN wire'
      BY <2>4 DEF ImuTypeOK
    <3>3. wire'[1].plain => wire'[1].part = 1
      BY <1>3, <3>1, <3>2 DEF WireInv
    <3>4. wire[1]'.plain => Astray(wire[1])'
      BY <1>6, <2>1, <3>3, Lengths DEF Astray
    <3> QED
      BY <1>3, <2>2, <2>4, <3>4 DEF OpenInv, ParserInv
  <2> QED
    BY <2>3, <2>4
<1> QED
  BY <1>8, <1>9

\* A frame is sent.
LEMMA SendFrameStep ==
  ASSUME ImuInv, fd = "open", NEW k \in Kinds, NEW h \in 0..Payload[k],
         SendFrame(k, h), ImuTypeOK'
  PROVE  OpenInv'
<1> DEFINE n == Len(wire)
           L == FrameLen(k)
           F == FrameOf(k, id, h)
<1>0. ImuTypeOK /\ StageInv /\ ResyncsWithinBound /\ WireInv /\ ParserInv
  BY DEF ImuInv
<1>1. /\ F \in Seq(Cell) /\ Len(F) = L /\ L \in Nat /\ L >= 5
      /\ \A i \in 1..L : /\ F[i].part = i /\ F[i].kind = k /\ F[i].id = id
                         /\ F[i].plain = (h = 0) /\ (F[i].head => i = 1 \/ h > 0)
  <2>1. id \in 0..Ids-1
    BY <1>0 DEF ImuTypeOK
  <2>2. L \in Nat /\ L >= 5
    BY Lengths
  <2> HIDE DEF L
  <2>3. F \in Seq(Cell) /\ Len(F) = L
    BY <2>1, FrameFacts DEF L
  <2>4. \A i \in 1..L : /\ F[i].part = i /\ F[i].kind = k /\ F[i].id = id
                        /\ F[i].plain = (h = 0) /\ (F[i].head => i = 1 \/ h > 0)
    <3>1. \A i \in 1..FrameLen(k) :
            /\ F[i].part = i /\ F[i].kind = k /\ F[i].id = id
            /\ F[i].plain = (h = 0) /\ (F[i].head => i = 1 \/ h > 0)
      <4>1. \A m \in 0..Ids-1 : \A i \in 1..FrameLen(k) :
              /\ FrameOf(k, m, h)[i].part = i /\ FrameOf(k, m, h)[i].kind = k
              /\ FrameOf(k, m, h)[i].id = m /\ FrameOf(k, m, h)[i].plain = (h = 0)
              /\ FrameOf(k, m, h)[i].head => i = 1 \/ h > 0
        BY FrameFacts
      <4> QED
        BY <2>1, <4>1
    <3> QED
      BY <3>1, Zenon DEF L
  <2> QED
    BY <2>2, <2>3, <2>4
<1>2. wire \in Seq(Cell) /\ n \in Nat /\ DOMAIN wire = 1..n /\ wire' = wire \o F
  BY <1>0 DEF ImuTypeOK, SendFrame
<1>end. FrameLen(k) = L
  OBVIOUS
<1> HIDE DEF F, L
<1>3. /\ Len(wire \o F) = n + L
      /\ \A i \in 1..n : (wire \o F)[i] = wire[i]
      /\ \A i \in 1..L : (wire \o F)[n + i] = F[i]
      /\ wire \o F \in Seq(Cell)
  <2>1. \A t \in Seq(Cell) :
          /\ wire \o t \in Seq(Cell) /\ Len(wire \o t) = Len(wire) + Len(t)
          /\ \A i \in 1..Len(wire) : (wire \o t)[i] = wire[i]
          /\ \A i \in 1..Len(t) : (wire \o t)[Len(wire) + i] = t[i]
    BY <1>2, ConcatFacts
  <2> QED
    BY <1>1, <1>2, <2>1
<1> HIDE DEF n
<1>4. /\ Len(wire') = n + L /\ DOMAIN wire' = 1..(n + L) /\ wire' # <<>>
      /\ \A i \in 1..n : wire'[i] = wire[i]
      /\ \A i \in 1..L : wire'[n + i] = F[i]
  <2>1. Len(wire') = n + L /\ wire' \in Seq(Cell)
    BY <1>2, <1>3
  <2>2. DOMAIN wire' = 1..(n + L) /\ wire' # <<>>
    BY <1>1, <1>2, <2>1
  <2> QED
    BY <1>2, <1>3, <2>1, <2>2
<1>5. missed' = missed /\ stage' = stage /\ got' = got /\ hdr' = hdr /\ ok' = ok
  BY DEF SendFrame, driverVars, parserVars
<1>6. WireInv'
  <2> SUFFICES ASSUME NEW i \in DOMAIN wire'
               PROVE  /\ wire'[i].plain =>
                           /\ wire'[i].part > 0
                           /\ wire'[i].head => wire'[i].part = 1
                           /\ IF i = Len(wire') THEN IsEnd(wire'[i])
                              ELSE Follows(wire'[i], wire'[i+1])
                      /\ wire'[i].plain /\ wire'[i].part > 1 /\ i > 1
                           => wire'[i-1].plain
    BY DEF WireInv, IsEnd, Follows
  <2>1. CASE i \in 1..n
    <3>1. /\ wire'[i] = wire[i] /\ i \in DOMAIN wire /\ i # Len(wire')
          /\ i > 1 => wire'[i - 1] = wire[i - 1]
          /\ i # n => wire'[i + 1] = wire[i + 1]
          /\ i = n => wire'[i + 1] = F[1]
      BY <1>1, <1>2, <1>4, <2>1
    <3>2. /\ wire[i].plain =>
               /\ wire[i].part > 0
               /\ wire[i].head => wire[i].part = 1
               /\ IF i = n THEN IsEnd(wire[i]) ELSE Follows(wire[i], wire[i + 1])
          /\ wire[i].plain /\ wire[i].part > 1 /\ i > 1 => wire[i - 1].plain
      BY <1>0, <3>1 DEF WireInv, n
    <3>3. F[1].part = 1
      BY <1>1
    <3>4. wire[i].plain /\ i = n => Follows(wire'[i], wire'[i + 1])
      BY <3>1, <3>2, <3>3 DEF Follows
    <3> QED
      BY <3>1, <3>2, <3>4
  <2>2. CASE i \notin 1..n
    <3>1. PICK m \in 1..L : i = n + m
      <4>1. i - n \in 1..L /\ i = n + (i - n)
        BY <1>1, <1>2, <1>4, <2>2
      <4> QED
        BY <4>1
    <3>2. /\ wire'[i] = F[m] /\ (i = Len(wire') <=> m = L)
          /\ m > 1 => wire'[i - 1] = F[m - 1]
          /\ m < L => wire'[i + 1] = F[m + 1]
      <4>1. m > 1 => m - 1 \in 1..L /\ i - 1 = n + (m - 1)
        BY <1>1, <1>2, <3>1
      <4>2. m < L => m + 1 \in 1..L /\ i + 1 = n + (m + 1)
        BY <1>1, <1>2, <3>1
      <4>3. i = Len(wire') <=> m = L
        BY <1>1, <1>2, <1>4, <3>1
      <4> QED
        BY <1>4, <3>1, <4>1, <4>2, <4>3
    <3>3. F[m].part = m /\ F[m].kind = k /\ F[m].plain = (h = 0) /\ F[m].id = id
      BY <1>1
    <3>4. m = L => IsEnd(F[m])
      BY <1>end, <3>3 DEF IsEnd
    <3>5. m < L => Follows(F[m], F[m + 1])
      <4>1. m < L => /\ F[m + 1].part = m + 1 /\ F[m + 1].kind = k
                     /\ F[m + 1].plain = (h = 0) /\ F[m + 1].id = id
        BY <1>1
      <4>2. m < L => ~IsEnd(F[m])
        BY <1>end, <1>1, <3>3 DEF IsEnd
      <4> QED
        BY <3>3, <4>1, <4>2 DEF Follows
    <3>6. m > 1 => F[m - 1].plain = F[m].plain
      BY <1>1, <3>3
    <3>7. F[m].plain => F[m].part > 0 /\ (F[m].head => F[m].part = 1)
      <4>1. F[m].plain => h = 0
        BY <3>3, Zenon
      <4>2. F[m].head => m = 1 \/ h > 0
        BY <1>1, <3>1
      <4> QED
        BY <1>1, <3>1, <3>3, <4>1, <4>2
    <3>8. m = L \/ m < L
      BY <1>1
    <3>9. F[m].part > 1 => m > 1
      BY <3>3
    <3>10. m = L => i = Len(wire')
      BY <3>2
    <3>11. m < L => i # Len(wire') /\ Follows(wire'[i], wire'[i + 1])
      BY <1>1, <3>2, <3>5
    <3>12. IF i = Len(wire') THEN IsEnd(wire'[i]) ELSE Follows(wire'[i], wire'[i+1])
      BY <3>2, <3>4, <3>8, <3>10, <3>11
    <3> QED
      BY <3>2, <3>6, <3>7, <3>9, <3>12
  <2> QED
    BY <2>1, <2>2
<1>7. CASE wire = <<>>
  <2>1. n = 0
    BY <1>7 DEF n
  <2>2. wire'[1].part = 1 /\ wire'[1].kind = k
    <3>1. 1 \in 1..L /\ wire'[n + 1] = F[1] /\ n + 1 = 1
      BY <1>1, <1>4, <2>1
    <3> QED
      BY <1>1, <3>1
  <2>3. ~IsEnd(wire'[1])
    BY <1>1, <1>end, <2>2 DEF IsEnd
  <2>4. stage = "sync" \/ missed + Owed <= Debt
    BY <1>0, <1>7 DEF ParserInv
  <2>5. Owed' = Owed
    BY <1>5 DEF Owed
  <2>6. missed \in Nat /\ Owed \in Nat
    BY <1>0, OwedBound, Stages, Lengths
  <2>7. Aligned(wire[1])' \/ Astray(wire[1])'
    <3>1. CASE stage = "sync"
      BY <1>5, <2>2, <2>3, <3>1 DEF Aligned, IsEnd
    <3>2. CASE stage # "sync"
      BY <1>5, <2>2, <2>4, <2>5, <2>6, <3>2, Lengths DEF Astray
    <3> QED
      BY <3>1, <3>2
  <2> QED
    BY <1>0, <1>4, <1>5, <1>6, <2>7 DEF OpenInv, ParserInv, ResyncsWithinBound
<1>8. CASE wire # <<>>
  <2>1. wire'[1] = wire[1]
    <3>1. n # 0
      BY <1>2, <1>8 DEF n
    <3> QED
      BY <1>2, <1>4, <3>1
  <2>2. Owed' = Owed
    BY <1>5 DEF Owed
  <2>3. /\ Aligned(wire[1]) => Aligned(wire[1])'
        /\ Astray(wire[1]) => Astray(wire[1])'
    BY <1>5, <2>1, <2>2 DEF Aligned, Astray, IsEnd
  <2> QED
    BY <1>0, <1>4, <1>5, <1>6, <1>8, <2>1, <2>3 DEF OpenInv, ParserInv, ResyncsWithinBound
<1> QED
  BY <1>7, <1>8

\* Every step keeps the invariant.
LEMMA ImuInvStep == ImuInv /\ [ImuNext]_imuVars => ImuInv'
<1> SUFFICES ASSUME ImuInv, [ImuNext]_imuVars
             PROVE  ImuInv'
  OBVIOUS
<1> USE DEF driverVars, parserVars, deviceVars
<1>0. /\ ImuTypeOK /\ StageInv /\ ResyncsWithinBound
      /\ ImuTypeOK' /\ StageInv'
  BY ImuTypeStep DEF ImuInv
<1>1. ASSUME OpenInv'
      PROVE  ImuInv'
  BY <1>0, <1>1 DEF ImuInv, OpenInv
<1>2. ASSUME ResyncsWithinBound', fd' # "open"
      PROVE  ImuInv'
  BY <1>0, <1>2 DEF ImuInv
<1>3. CASE OpenPort
  <2>1. PICK k \in 0..Len(wire) : wire' = Tainted(SubSeq(wire, k + 1, Len(wire)))
    BY <1>3 DEF OpenPort
  <2>2. SubSeq(wire, k + 1, Len(wire)) \in Seq(Cell)
    BY <1>0 DEF ImuTypeOK
  <2>3. \A i \in DOMAIN wire' : ~wire'[i].plain
    BY <2>1, <2>2, TaintedFacts
  <2>4. missed' = 0
    BY <1>3 DEF OpenPort
  <2> QED
    BY <1>0, <1>1, <2>3, <2>4, TroubleStep
<1>4. CASE ReadCell
  BY <1>0, <1>1, <1>4, ReadCellStep DEF ReadCell
<1>5. CASE ReadFails \/ ThreadEnds
  BY <1>0, <1>2, <1>5 DEF ReadFails, ThreadEnds, ResyncsWithinBound
<1>6. ASSUME NEW k \in Kinds, NEW h \in 0..Payload[k], SendFrame(k, h)
      PROVE  ImuInv'
  <2>1. ResyncsWithinBound' /\ fd' = fd
    BY <1>0, <1>6 DEF SendFrame, ResyncsWithinBound
  <2>2. CASE fd = "open"
    BY <1>0, <1>1, <1>6, <2>2, SendFrameStep
  <2>3. CASE fd # "open"
    BY <1>2, <2>1, <2>3
  <2> QED
    BY <2>2, <2>3
<1>7. CASE Fault
  <2>1. \A i \in DOMAIN wire' : ~wire'[i].plain
    BY <1>0, <1>7, FaultTaints
  <2>2. missed' = 0
    BY <1>7 DEF Fault
  <2> QED
    BY <1>0, <1>1, <2>1, <2>2, TroubleStep
<1>8. CASE Unplug
  BY <1>0, <1>2, <1>8 DEF Unplug, ResyncsWithinBound
<1>9. CASE UNCHANGED <<fd, driverVars, wire>>
  BY <1>0, <1>9 DEF ImuInv, StageInv, ResyncsWithinBound, WireInv, ParserInv, Aligned,
                    Astray, Owed, IsEnd, Follows
<1>10. CASE Shutdown \/ Plug \/ UNCHANGED imuVars
  BY <1>9, <1>10 DEF Shutdown, Plug, imuVars
<1> QED
  BY <1>3, <1>4, <1>5, <1>6, <1>7, <1>8, <1>10 DEF ImuNext

LEMMA ImuInvariant == ImuSpec => []ImuInv
BY ImuInvInit, ImuInvStep, PTL DEF ImuSpec

\* After lost or damaged bytes, a start byte inside a payload, or an open in the
\* middle of a frame, the plain frames that then arrive go by unrecognized for no
\* longer than the rest of the longest frame and a frame more, whatever the lengths
\* of the frames, however many wait in the tty and whatever is plugged and
\* unplugged.
THEOREM Resyncs == ImuSpec => []ResyncsWithinBound
<1>1. ImuInv => ResyncsWithinBound
  BY DEF ImuInv
<1> QED
  BY <1>1, ImuInvariant, PTL
=============================================================================
