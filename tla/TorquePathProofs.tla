-------------------------- MODULE TorquePathProofs --------------------------
(***************************************************************************)
(* Theorems about the path from the deadman buttons to the motors, for any *)
(* layout of channels and motors, any timeouts and limits, any readings    *)
(* and joint targets.  Each node of the path is shown to behave as its own *)
(* module says, so what is proved of the nodes alone holds of them here.   *)
(***************************************************************************)
EXTENDS TorquePath, TLAPS

\* The nodes again, with their theorems.
SafetyP == INSTANCE SafetyGateProofs WITH MaxClockStep <- 0
BusP == INSTANCE MotorBusProofs WITH
  PortOk <- Channel, TorqueEnabled <- TRUE, AbsentThreshold <- 1, Reprobe <- 0,
  Links <- {"ok"},
  CommandMsgs <- [MotorSlot -> [q : Pose \cup {NaN}, gain : {CommandGain}]]
PackerP == INSTANCE PdPackerProofs WITH Joint <- MotorSlot

\* The parameters of the path are such as the nodes assume.
LEMMA SafetyAssumptions == SafetyP!TimingAssumption /\ SafetyP!ButtonAssumption
BY SafetyPartAssumption DEF SafetyP!TimingAssumption, SafetyP!ButtonAssumption

LEMMA PackerAssumptions == PackerP!PackerAssumption
BY PackerPartAssumption DEF PackerP!PackerAssumption, PackerP!Position

LEMMA SameSlots == MotorSlot = Bus!Slot /\ MotorSlot = BusP!Slot
BY DEF MotorSlot, Bus!Slot, BusP!Slot

LEMMA BusAssumptions ==
  /\ BusP!LayoutAssumption /\ BusP!CommandAssumption /\ BusP!BusTimingAssumption
<1>1. BusP!LayoutAssumption /\ BusP!BusTimingAssumption
  BY BusPartAssumption
     DEF BusP!LayoutAssumption, BusP!BusTimingAssumption, BusP!LinkState
<1>2. BusP!CommandAssumption
  BY BusPartAssumption, SameSlots DEF BusP!CommandAssumption
<1> QED
  BY <1>1, <1>2

-----------------------------------------------------------------------------
\* The safety node: every step of the path is one of its own, or leaves it alone.
LEMMA SafetyStep == [PathNext]_pathVars => [Safety!SafetyNext]_(Safety!safetyVars)
<1> SUFFICES ASSUME [PathNext]_pathVars
             PROVE  [Safety!SafetyNext]_(Safety!safetyVars)
  OBVIOUS
<1> USE DEF safetyPart, Safety!safetyVars
<1>1. CASE SafetyActs
  BY <1>1 DEF SafetyActs, Joy, Judge, Beat, SafetyCrash, SafetyRelaunch,
              Safety!SafetyNext
<1>2. CASE PackerActs
  BY <1>2 DEF PackerActs, PackerGate, PackerInputs, PackerTick
<1>3. CASE BusActs
  BY <1>3 DEF BusActs, BusGate, BusBeat, BusCommand, BusPoll
<1>4. CASE PathElapse
  BY <1>4 DEF PathElapse, Safety!SafetyNext
<1>5. CASE UNCHANGED pathVars
  BY <1>5 DEF pathVars
<1> QED
  BY <1>1, <1>2, <1>3, <1>4, <1>5 DEF PathNext

\* On the path, the safety node does what SafetyGate says, with a system clock
\* that is not set.
THEOREM PathRunsSafety == PathSpec => Safety!SafetySpec
<1>1. PathInit => Safety!SafetyInit
  BY DEF PathInit
<1> QED
  BY <1>1, SafetyStep, PTL DEF PathSpec, Safety!SafetySpec

\* It is the node that SafetyGateProofs is about.
LEMMA SameSafety == Safety!SafetySpec => SafetyP!SafetySpec
<1>1. Safety!SafetyInit => SafetyP!SafetyInit
  BY DEF Safety!SafetyInit, SafetyP!SafetyInit, Safety!STATE_BOOTING,
         SafetyP!STATE_BOOTING
<1>2. [Safety!SafetyNext]_(Safety!safetyVars) => [SafetyP!SafetyNext]_(SafetyP!safetyVars)
  <2> SUFFICES ASSUME [Safety!SafetyNext]_(Safety!safetyVars)
               PROVE  [SafetyP!SafetyNext]_(SafetyP!safetyVars)
    OBVIOUS
  <2>1. ASSUME NEW n \in Joysticks, NEW pressed \in SUBSET (0..n-1),
               Safety!OnJoy(n, pressed)
        PROVE  SafetyP!OnJoy(n, pressed)
    BY <2>1 DEF Safety!OnJoy, SafetyP!OnJoy, Safety!DeadmanHeld, SafetyP!DeadmanHeld
  <2>2. Safety!Evaluate => SafetyP!Evaluate
    BY DEF Safety!Evaluate, SafetyP!Evaluate, Safety!StayBooting, SafetyP!StayBooting,
           Safety!LinkLost, SafetyP!LinkLost, Safety!Latched, SafetyP!Latched,
           Safety!FollowDeadman, SafetyP!FollowDeadman, Safety!JoyFresh,
           SafetyP!JoyFresh, Safety!STATE_BOOTING, SafetyP!STATE_BOOTING,
           Safety!STATE_HARD_STOPPED, SafetyP!STATE_HARD_STOPPED,
           Safety!STATE_SOFT_STOPPED, SafetyP!STATE_SOFT_STOPPED,
           Safety!STATE_ENABLED, SafetyP!STATE_ENABLED
  <2>3. Safety!Elapse => SafetyP!Elapse
    BY DEF Safety!Elapse, SafetyP!Elapse, Safety!AgeCap, SafetyP!AgeCap
  <2>4. Safety!SetClock => SafetyP!SetClock
    BY DEF Safety!SetClock, SafetyP!SetClock
  <2>5. Safety!Crash => SafetyP!Crash
    BY DEF Safety!Crash, SafetyP!Crash
  <2>6. Safety!Relaunch => SafetyP!Relaunch
    BY DEF Safety!Relaunch, SafetyP!Relaunch, Safety!Boot, SafetyP!Boot,
           Safety!STATE_BOOTING, SafetyP!STATE_BOOTING
  <2>7. UNCHANGED Safety!safetyVars => UNCHANGED SafetyP!safetyVars
    BY DEF Safety!safetyVars, SafetyP!safetyVars
  <2> QED
    BY <2>1, <2>2, <2>3, <2>4, <2>5, <2>6, <2>7
       DEF Safety!SafetyNext, SafetyP!SafetyNext
<1> QED
  BY <1>1, <1>2, PTL DEF Safety!SafetySpec, SafetyP!SafetySpec

\* So its invariants hold on the path.
LEMMA PathSafetyInv == PathSpec => [](SafetyP!SafetyInv /\ SafetyP!JoyAgeInv)
BY PathRunsSafety, SameSafety, SafetyAssumptions, SafetyP!SafetyInvariant,
   SafetyP!JoyAgeInvariant, PTL

\* The verdicts are the same in every module.
LEMMA SameGates ==
  /\ SafetyP!GateState = GateState /\ None \notin GateState
  /\ STATE_BOOTING \in GateState
BY DEF SafetyP!GateState, GateState, None, STATE_ENABLED, STATE_SOFT_STOPPED,
       STATE_HARD_STOPPED, STATE_BOOTING, SafetyP!STATE_ENABLED,
       SafetyP!STATE_SOFT_STOPPED, SafetyP!STATE_HARD_STOPPED, SafetyP!STATE_BOOTING

-----------------------------------------------------------------------------
\* The topics.
LEMMA TopicInit == PathInit => TopicInv /\ GateInv /\ CommandInv
BY SameGates DEF PathInit, TopicInv, GateInv, CommandInv, Safety!SafetyInit,
                 Safety!STATE_BOOTING, STATE_BOOTING, Bus!BusInit

\* A verdict that is published replaces the one that waits; when the bus takes
\* the verdict it is the last.
LEMMA TopicStep ==
  ASSUME TopicInv, GateInv, SafetyP!SafetyInv', [PathNext]_pathVars
  PROVE  TopicInv' /\ GateInv'
<1> USE SameGates
        DEF TopicInv, GateInv, safetyPart, packerPart, busPart, topicVars, PublishGate
<1>1. CASE Joy
  BY <1>1 DEF Joy, Safety!OnJoy
<1>2. CASE Judge
  <2>1. state' \in GateState
    BY DEF SafetyP!SafetyInv, SafetyP!SafetyTypeOK
  <2> QED
    BY <1>2, <2>1 DEF Judge
<1>3. CASE Beat
  BY <1>3 DEF Beat
<1>4. CASE SafetyCrash
  BY <1>4 DEF SafetyCrash, Safety!Crash
<1>5. CASE SafetyRelaunch
  BY <1>5 DEF SafetyRelaunch, Safety!Relaunch, Safety!Boot, Safety!STATE_BOOTING,
              STATE_BOOTING
<1>6. CASE PackerActs
  BY <1>6 DEF PackerActs, PackerGate, PackerInputs, PackerTick
<1>7. CASE BusGate
  BY <1>7 DEF BusGate, Bus!OnGate
<1>8. CASE BusBeat
  BY <1>8 DEF BusBeat, Bus!OnHeartbeat
<1>9. CASE BusCommand
  BY <1>9 DEF BusCommand, Bus!OnMotorCommand
<1>10. CASE BusPoll
  BY <1>10 DEF BusPoll, Bus!Poll, Bus!BeginCycle, Bus!SkipAbsent, Bus!FillCommand,
               Bus!SendRecv, Bus!callbackVars
<1>11. CASE PathElapse
  BY <1>11 DEF PathElapse, Safety!Elapse, Bus!BusElapse
<1>12. CASE UNCHANGED pathVars
  BY <1>12 DEF pathVars
<1> QED
  BY <1>1, <1>2, <1>3, <1>4, <1>5, <1>6, <1>7, <1>8, <1>9, <1>10, <1>11, <1>12
     DEF PathNext, SafetyActs, BusActs

LEMMA PathTopics == PathSpec => [](TopicInv /\ GateInv)
<1>1. /\ PathInit => TopicInv /\ GateInv
      /\ TopicInv /\ GateInv /\ SafetyP!SafetyInv' /\ [PathNext]_pathVars
           => TopicInv' /\ GateInv'
  BY TopicInit, TopicStep
<1> QED
  BY <1>1, PathSafetyInv, PTL DEF PathSpec

-----------------------------------------------------------------------------
\* The packer.
LEMMA PackerStep ==
  ASSUME TopicInv, [PathNext]_pathVars
  PROVE  [Packer!PackerNext]_(Packer!packerVars)
<1> USE DEF packerPart, Packer!packerVars
<1>1. CASE SafetyActs
  BY <1>1 DEF SafetyActs, Joy, Judge, Beat, SafetyCrash, SafetyRelaunch
<1>2. CASE PackerGate
  <2>1. gate_to_packer \in GateState /\ Packer!OnGate(gate_to_packer)
    BY <1>2 DEF PackerGate, TopicInv
  <2>2. GateState = Packer!GateState
    BY DEF GateState, Packer!GateState, STATE_ENABLED, STATE_SOFT_STOPPED,
           STATE_HARD_STOPPED, STATE_BOOTING, Packer!STATE_ENABLED,
           Packer!STATE_SOFT_STOPPED, Packer!STATE_HARD_STOPPED, Packer!STATE_BOOTING
  <2> QED
    BY <2>1, <2>2 DEF Packer!PackerNext
<1>3. CASE PackerTick
  BY <1>3 DEF PackerTick, Packer!PackerNext
<1>4. CASE BusActs
  BY <1>4 DEF BusActs, BusGate, BusBeat, BusCommand, BusPoll
<1>5. CASE PathElapse
  BY <1>5 DEF PathElapse, Packer!PackerNext
<1>6. CASE PackerInputs
  BY <1>6 DEF PackerInputs, Packer!PackerNext
<1>7. CASE UNCHANGED pathVars
  BY <1>7 DEF pathVars
<1> QED
  BY <1>1, <1>2, <1>3, <1>4, <1>5, <1>6, <1>7 DEF PathNext, PackerActs

\* On the path, the packer does what PdPacker says.
THEOREM PathRunsPacker == PathSpec => Packer!PackerSpec
<1>1. PathInit => Packer!PackerInit
  BY DEF PathInit
<1>2. TopicInv /\ [PathNext]_pathVars => [Packer!PackerNext]_(Packer!packerVars)
  BY PackerStep
<1> QED
  BY <1>1, <1>2, PathTopics, PTL DEF PathSpec, Packer!PackerSpec

\* It is the node that PdPackerProofs is about.
LEMMA SameTick == Packer!Tick => PackerP!Tick
BY DEF Packer!Tick, PackerP!Tick, Packer!Desired, PackerP!Desired, Packer!TargetFresh,
       PackerP!TargetFresh, Packer!Blend, PackerP!Blend, Packer!Smoothstep,
       PackerP!Smoothstep, Packer!EaseOne, PackerP!EaseOne, Packer!Clamp,
       PackerP!Clamp, Packer!STATE_ENABLED, PackerP!STATE_ENABLED

LEMMA SamePacker == Packer!PackerSpec => PackerP!PackerSpec
<1>1. Packer!PackerInit => PackerP!PackerInit
  BY DEF Packer!PackerInit, PackerP!PackerInit, Packer!Zeros, PackerP!Zeros,
         Packer!TargetCap, PackerP!TargetCap, Packer!STATE_BOOTING,
         PackerP!STATE_BOOTING
<1>2. [Packer!PackerNext]_(Packer!packerVars) => [PackerP!PackerNext]_(PackerP!packerVars)
  <2> SUFFICES ASSUME [Packer!PackerNext]_(Packer!packerVars)
               PROVE  [PackerP!PackerNext]_(PackerP!packerVars)
    OBVIOUS
  <2>1. ASSUME NEW g \in Packer!GateState, Packer!OnGate(g)
        PROVE  g \in PackerP!GateState /\ PackerP!OnGate(g)
    BY <2>1 DEF Packer!OnGate, PackerP!OnGate, Packer!GateState, PackerP!GateState,
                Packer!STATE_ENABLED, PackerP!STATE_ENABLED,
                Packer!STATE_SOFT_STOPPED, PackerP!STATE_SOFT_STOPPED,
                Packer!STATE_HARD_STOPPED, PackerP!STATE_HARD_STOPPED,
                Packer!STATE_BOOTING, PackerP!STATE_BOOTING
  <2>2. Packer!PackerElapse => PackerP!PackerElapse
    BY DEF Packer!PackerElapse, PackerP!PackerElapse, Packer!TargetCap,
           PackerP!TargetCap
  <2>3. UNCHANGED Packer!packerVars => UNCHANGED PackerP!packerVars
    BY DEF Packer!packerVars, PackerP!packerVars
  <2>4. \A reading : Packer!OnJointStates(reading) => PackerP!OnJointStates(reading)
    BY DEF Packer!OnJointStates, PackerP!OnJointStates
  <2>5. \A t : Packer!OnJointTarget(t) => PackerP!OnJointTarget(t)
    BY DEF Packer!OnJointTarget, PackerP!OnJointTarget
  <2> QED
    BY <2>1, <2>2, <2>3, <2>4, <2>5, SameTick DEF Packer!PackerNext, PackerP!PackerNext
<1> QED
  BY <1>1, <1>2, PTL DEF Packer!PackerSpec, PackerP!PackerSpec

LEMMA SameNumbers == Packer!NumbersOnly <=> PackerP!NumbersOnly
BY DEF Packer!NumbersOnly, PackerP!NumbersOnly

\* So the positions it keeps are numbers as long as nothing that arrives is NaN, ...
LEMMA PathPackerInv == PathSpec => []PackerP!PackerInv
<1>1. /\ PackerP!PackerInit => PackerP!PackerInv
      /\ PackerP!PackerInv /\ [PackerP!PackerNext]_(PackerP!packerVars)
           => PackerP!PackerInv'
  BY PackerAssumptions, PackerP!PackerInvInit, PackerP!PackerInvStep
<1> QED
  BY <1>1, PathRunsPacker, SamePacker, PTL DEF PackerP!PackerSpec

\* ... and so is every command it publishes, which is then within the limits.
LEMMA CommandStep ==
  ASSUME CommandInv, PackerP!PackerInv, [PathNext]_pathVars
  PROVE  CommandInv'
<1>1. CASE PackerTick
  <2>1. PackerP!Tick
    BY <1>1, SameTick DEF PackerTick
  <2>2. \A s \in MotorSlot : \/ q_des'[s] \in PosMin[s]..PosMax[s]
                             \/ q_des'[s] = NaN /\ ~PackerP!NumbersOnly
    BY <2>1, PackerAssumptions, PackerP!TickCommands
  <2> QED
    BY <2>2, SameNumbers DEF CommandInv
<1>2. CASE q_des' = q_des /\ (cmd_to_bus' => cmd_to_bus)
  BY <1>2 DEF CommandInv
<1>3. CASE SafetyActs \/ BusActs \/ UNCHANGED pathVars
  BY <1>2, <1>3 DEF SafetyActs, Joy, Judge, Beat, SafetyCrash, SafetyRelaunch,
                    BusActs, BusGate, BusBeat, BusCommand, BusPoll, topicVars,
                    packerPart, pathVars
<1>4. CASE PackerGate \/ PackerInputs
  <2>1. q_des' = q_des
    BY <1>4, Zenon DEF PackerGate, PackerInputs, Packer!OnGate, Packer!OnJointStates,
                       Packer!OnJointTarget
  <2>2. cmd_to_bus' = cmd_to_bus
    BY <1>4 DEF PackerGate, PackerInputs, topicVars
  <2> QED
    BY <1>2, <2>1, <2>2
<1>5. CASE PathElapse
  BY <1>2, <1>5 DEF PathElapse, Packer!PackerElapse, topicVars
<1> QED
  BY <1>1, <1>3, <1>4, <1>5 DEF PathNext, PackerActs

LEMMA PathCommands == PathSpec => []CommandInv
<1>1. /\ PathInit => CommandInv
      /\ CommandInv /\ PackerP!PackerInv /\ [PathNext]_pathVars => CommandInv'
  BY TopicInit, CommandStep
<1> QED
  BY <1>1, PathPackerInv, PTL DEF PathSpec

-----------------------------------------------------------------------------
\* The motor bus.
LEMMA BusStep ==
  ASSUME GateInv, CommandInv, SafetyP!SafetyInv, [PathNext]_pathVars
  PROVE  [Bus!BusNext]_(Bus!busVars)
<1> USE DEF busPart, Bus!busVars, Bus!callbackVars, Bus!pollVars, Bus!motorVars
<1>1. CASE SafetyActs
  BY <1>1 DEF SafetyActs, Joy, Judge, Beat, SafetyCrash, SafetyRelaunch
<1>2. CASE PackerActs
  BY <1>2 DEF PackerActs, PackerGate, PackerInputs, PackerTick
<1>3. CASE BusGate
  <2>1. gate_to_bus \in SafetyP!GateState
    BY <1>3 DEF BusGate, GateInv, SafetyP!SafetyInv, SafetyP!SafetyTypeOK
  <2>2. SafetyP!GateState = Bus!GateState
    BY DEF SafetyP!GateState, Bus!GateState, SafetyP!STATE_ENABLED,
           SafetyP!STATE_SOFT_STOPPED, SafetyP!STATE_HARD_STOPPED,
           SafetyP!STATE_BOOTING, Bus!STATE_ENABLED, Bus!STATE_SOFT_STOPPED,
           Bus!STATE_HARD_STOPPED, Bus!STATE_BOOTING
  <2> QED
    BY <1>3, <2>1, <2>2 DEF BusGate, Bus!BusNext
<1>4. CASE BusBeat
  BY <1>4 DEF BusBeat, Bus!BusNext
<1>5. CASE BusCommand
  <2> DEFINE msg == [s \in MotorSlot |-> [q |-> q_des[s], gain |-> CommandGain]]
  <2>1. \A s \in MotorSlot : q_des[s] \in Pose \cup {NaN}
    BY <1>5, PackerPartAssumption DEF BusCommand, CommandInv
  <2>2. msg \in [MotorSlot -> [q : Pose \cup {NaN}, gain : {CommandGain}]]
    BY <2>1
  <2>3. Bus!OnMotorCommand(msg)
    BY <1>5 DEF BusCommand
  <2> QED
    BY <2>2, <2>3, Zenon DEF Bus!BusNext
<1>6. CASE BusPoll
  BY <1>6 DEF BusPoll, Bus!BusNext
<1>7. CASE PathElapse
  BY <1>7 DEF PathElapse, Bus!BusNext
<1>8. CASE UNCHANGED pathVars
  BY <1>8 DEF pathVars
<1> QED
  BY <1>1, <1>2, <1>3, <1>4, <1>5, <1>6, <1>7, <1>8 DEF PathNext, BusActs

\* On the path, the motor bus does what MotorBus says, with motors that answer
\* and commands that the packer gives.
THEOREM PathRunsBus == PathSpec => Bus!BusSpec
<1>1. PathInit => Bus!BusInit
  BY DEF PathInit
<1>2. GateInv /\ CommandInv /\ SafetyP!SafetyInv /\ [PathNext]_pathVars
        => [Bus!BusNext]_(Bus!busVars)
  BY BusStep
<1> QED
  BY <1>1, <1>2, PathTopics, PathCommands, PathSafetyInv, PTL
     DEF PathSpec, Bus!BusSpec

\* It is the node that MotorBusProofs is about.
LEMMA SamePoll ==
  ASSUME NEW c \in Channel, Bus!Poll(c)
  PROVE  BusP!Poll(c)
<1> USE DEF Bus!callbackVars, Bus!motorVars, BusP!callbackVars, BusP!motorVars
<1> USE DEF Bus!STATE_ENABLED, BusP!STATE_ENABLED, Bus!STATE_HARD_STOPPED,
            BusP!STATE_HARD_STOPPED, Bus!STATE_BOOTING, BusP!STATE_BOOTING
<1>1. Bus!Slot = BusP!Slot
  BY SameSlots
<1>2. Bus!BeginCycle(c) => BusP!BeginCycle(c)
  BY <1>1 DEF Bus!BeginCycle, BusP!BeginCycle
<1>3. Bus!Advance(c) <=> BusP!Advance(c)
  BY DEF Bus!Advance, BusP!Advance
<1>4. \A s : Bus!Throttled(s) <=> BusP!Throttled(s)
  BY DEF Bus!Throttled, BusP!Throttled
<1>5. Bus!SkipAbsent(c) => BusP!SkipAbsent(c)
  BY <1>3, <1>4 DEF Bus!SkipAbsent, BusP!SkipAbsent
<1>6. Bus!Freewheel = BusP!Freewheel
  BY DEF Bus!Freewheel, BusP!Freewheel
<1>7. \A s : Bus!FrameFor(c, s) = BusP!FrameFor(c, s)
  BY <1>6 DEF Bus!FrameFor, BusP!FrameFor, Bus!NoTorque, BusP!NoTorque, Bus!HbOk,
              BusP!HbOk, Bus!CmdFresh, BusP!CmdFresh
<1>8. Bus!FillCommand(c) => BusP!FillCommand(c)
  BY <1>4, <1>7 DEF Bus!FillCommand, BusP!FillCommand
<1>9. \A s : /\ Bus!PollOk(s) => BusP!PollOk(s)
             /\ Bus!PollFailed(s) => BusP!PollFailed(s)
  BY DEF Bus!PollOk, BusP!PollOk, Bus!PollFailed, BusP!PollFailed
<1>10. Bus!SendRecv(c) => BusP!SendRecv(c)
  BY <1>3, <1>6, <1>9 DEF Bus!SendRecv, BusP!SendRecv
<1> QED
  BY <1>2, <1>5, <1>8, <1>10 DEF Bus!Poll, BusP!Poll

LEMMA SameBusStep ==
  [Bus!BusNext]_(Bus!busVars) => [BusP!BusNext]_(BusP!busVars)
<1> SUFFICES ASSUME [Bus!BusNext]_(Bus!busVars)
             PROVE  [BusP!BusNext]_(BusP!busVars)
  OBVIOUS
<1> USE DEF Bus!busVars, Bus!callbackVars, Bus!pollVars, Bus!motorVars,
            BusP!busVars, BusP!callbackVars, BusP!pollVars, BusP!motorVars
<1> USE DEF Bus!STATE_ENABLED, BusP!STATE_ENABLED, Bus!STATE_SOFT_STOPPED,
            BusP!STATE_SOFT_STOPPED, Bus!STATE_HARD_STOPPED,
            BusP!STATE_HARD_STOPPED, Bus!STATE_BOOTING, BusP!STATE_BOOTING
<1>1. Bus!OnHeartbeat => BusP!OnHeartbeat
  BY DEF Bus!OnHeartbeat, BusP!OnHeartbeat
<1>2. ASSUME NEW g \in Bus!GateState, Bus!OnGate(g)
      PROVE  g \in BusP!GateState /\ BusP!OnGate(g)
  BY <1>2 DEF Bus!OnGate, BusP!OnGate, Bus!GateState, BusP!GateState
<1>3. ASSUME NEW msg, Bus!OnMotorCommand(msg)
      PROVE  BusP!OnMotorCommand(msg)
  BY <1>3 DEF Bus!OnMotorCommand, BusP!OnMotorCommand, Bus!NoNaN, BusP!NoNaN,
              Bus!Slot, BusP!Slot
<1>4. ASSUME NEW c \in Channel, Bus!Poll(c)
      PROVE  BusP!Poll(c)
  BY <1>4, SamePoll
<1>5. ASSUME NEW s \in Bus!Slot, NEW l \in {"ok"}, Bus!ChangeLink(s, l)
      PROVE  s \in BusP!Slot /\ BusP!ChangeLink(s, l)
  BY <1>5, SameSlots DEF Bus!ChangeLink, BusP!ChangeLink, Bus!Freewheel, BusP!Freewheel
<1>6. Bus!Shutdown => BusP!Shutdown
  BY DEF Bus!Shutdown, BusP!Shutdown
<1>7. Bus!BusElapse => BusP!BusElapse
  BY DEF Bus!BusElapse, BusP!BusElapse, Bus!Older, BusP!Older, Bus!HbCap, BusP!HbCap,
         Bus!CmdCap, BusP!CmdCap, Bus!GateCap, BusP!GateCap
<1>8. UNCHANGED Bus!busVars => UNCHANGED BusP!busVars
  OBVIOUS
<1> QED
  BY <1>1, <1>2, <1>3, <1>4, <1>5, <1>6, <1>7, <1>8 DEF Bus!BusNext, BusP!BusNext

LEMMA SameBus == Bus!BusSpec => BusP!BusSpec
<1>1. Bus!BusInit => BusP!BusInit
  BY SameSlots
     DEF Bus!BusInit, BusP!BusInit, Bus!STATE_BOOTING, BusP!STATE_BOOTING,
         Bus!GateCap, BusP!GateCap, Bus!HbCap, BusP!HbCap, Bus!CmdCap, BusP!CmdCap,
         Bus!Freewheel, BusP!Freewheel
<1> QED
  BY <1>1, SameBusStep, PTL DEF Bus!BusSpec, BusP!BusSpec

\* So its watchdogs hold on the path.
LEMMA PathBusInv ==
  PathSpec => [](/\ BusP!BusInv /\ BusP!StopGateCutsTorque /\ BusP!ReleaseEndsDriving
                 /\ BusP!HeartbeatLossCutsTorque)
<1>1. /\ BusP!BusSpec => []BusP!BusInv
      /\ BusP!BusSpec => []BusP!HeartbeatLossCutsTorque
      /\ BusP!BusSpec => []BusP!StopGateCutsTorque
      /\ BusP!BusSpec => []BusP!ReleaseEndsDriving
  BY BusAssumptions, BusP!BusInvariant, BusP!HeartbeatWatchdog, BusP!StopGateWatchdog,
     BusP!ReleaseStopsDriving
<1> QED
  BY <1>1, PathRunsBus, SameBus, PTL
-----------------------------------------------------------------------------
\* What the path promises.

\* The ages that the bus counts up to are beyond what a frame may stand for.
LEMMA SlotPatience ==
  ASSUME NEW s \in BusP!Slot
  PROVE  /\ Bus!GateCap > BusP!Grace(s)
         /\ Bus!HbCap >= HbTimeout + BusP!Grace(s)
BY BusPartAssumption DEF Bus!GateCap, Bus!HbCap, BusP!Grace

\* A verdict that has settled is the one the bus acts on: if it is a stop, the
\* watchdog of the bus has had its two cycles.
LEMMA SettledStop ==
  ASSUME TopicInv, GateInv, SafetyP!SafetyInv, BusP!StopGateCutsTorque,
         VerdictSettled, state = STATE_HARD_STOPPED
  PROVE  NoMotorHasTorque
<1>1. /\ gate_state = state /\ running = TRUE
      /\ \A s \in BusP!Slot : gate_age > BusP!Grace(s)
  BY SameGates, SlotPatience
     DEF TopicInv, GateInv, VerdictSettled, SafetyP!SafetyInv, SafetyP!SafetyTypeOK
<1>2. \A s \in BusP!Slot : ~BusP!TorqueOn(s)
  BY <1>1 DEF BusP!StopGateCutsTorque, BusP!STATE_HARD_STOPPED, STATE_HARD_STOPPED
<1> QED
  BY <1>2, SameSlots
     DEF NoMotorHasTorque, Bus!TorqueOn, BusP!TorqueOn, Bus!Freewheel, BusP!Freewheel

\* Whatever the layout and the timeouts, a controller that has gone silent takes
\* the torque off every motor: the safety node has judged the silence a stop,
\* that verdict is the last, and the bus has obeyed it.
THEOREM SilenceReachesMotors == PathSpec => []LinkLossReachesMotors
<1>1. TopicInv /\ GateInv /\ SafetyP!SafetyInv
        /\ SafetyP!JoyAgeInv /\ BusP!StopGateCutsTorque
        => LinkLossReachesMotors
  <2> SUFFICES ASSUME TopicInv, GateInv, SafetyP!SafetyInv,
                      SafetyP!JoyAgeInv, BusP!StopGateCutsTorque
               PROVE  LinkLossReachesMotors
    OBVIOUS
  <2> SUFFICES ASSUME up, ever_seen_joy, joy_elapsed = Safety!AgeCap, VerdictSettled
               PROVE  NoMotorHasTorque
    BY DEF LinkLossReachesMotors
  <2>1. joy_elapsed = JoyTimeout + EvalPeriod + 1
    BY SafetyPartAssumption DEF Safety!AgeCap
  <2>2. since_eval \in 0..EvalPeriod /\ JoyTimeout \in Nat /\ EvalPeriod \in Nat
    BY SafetyPartAssumption DEF SafetyP!SafetyInv, SafetyP!SafetyTypeOK
  <2>3. state = STATE_HARD_STOPPED
    BY <2>1, <2>2
       DEF SafetyP!JoyAgeInv, SafetyP!STATE_HARD_STOPPED, STATE_HARD_STOPPED
  <2> QED
    BY <2>3, SettledStop
<1> QED
  BY <1>1, PathTopics, PathSafetyInv, PathBusInv, PTL

\* Nor does any motor keep its torque under a safety node that has died.
THEOREM DeadNodeCutsTorque == PathSpec => []DeadNodeReachesMotors
<1>1. TopicInv /\ BusP!HeartbeatLossCutsTorque => DeadNodeReachesMotors
  <2> SUFFICES ASSUME TopicInv, BusP!HeartbeatLossCutsTorque, hb_age = Bus!HbCap
               PROVE  NoMotorHasTorque
    BY DEF DeadNodeReachesMotors
  <2>1. \A s \in BusP!Slot : ~BusP!TorqueOn(s)
    BY SlotPatience DEF TopicInv, BusP!HeartbeatLossCutsTorque
  <2> QED
    BY <2>1, SameSlots
       DEF NoMotorHasTorque, Bus!TorqueOn, BusP!TorqueOn, Bus!Freewheel, BusP!Freewheel
<1> QED
  BY <1>1, PathTopics, PathBusInv, PTL

\* As long as the operator has not let go of the deadman since a stop that found
\* it held, the stop is latched, so nothing on its way to the motors moves them.
THEOREM ReleaseBeforeTorque == PathSpec => []NoTorqueBeforeRelease
<1>1. TopicInv /\ GateInv /\ SafetyP!SafetyInv
        /\ BusP!StopGateCutsTorque
        => NoTorqueBeforeRelease
  <2> SUFFICES ASSUME TopicInv, GateInv, SafetyP!SafetyInv,
                      BusP!StopGateCutsTorque
               PROVE  NoTorqueBeforeRelease
    OBVIOUS
  <2> SUFFICES ASSUME ~armed, VerdictSettled
               PROVE  NoMotorHasTorque
    BY DEF NoTorqueBeforeRelease
  <2>1. state = STATE_HARD_STOPPED
    BY DEF SafetyP!SafetyInv, SafetyP!LatchMatchesVerdict, SafetyP!STATE_HARD_STOPPED,
           STATE_HARD_STOPPED
  <2> QED
    BY <2>1, SettledStop
<1> QED
  BY <1>1, PathTopics, PathSafetyInv, PathBusInv, PTL

\* No motor is driven under a verdict other than ENABLED that has settled.
THEOREM VerdictBeforeDrive == PathSpec => []DriveNeedsVerdict
<1>1. TopicInv /\ GateInv /\ SafetyP!SafetyInv
        /\ BusP!ReleaseEndsDriving
        => DriveNeedsVerdict
  <2> SUFFICES ASSUME TopicInv, GateInv, SafetyP!SafetyInv,
                      BusP!ReleaseEndsDriving
               PROVE  DriveNeedsVerdict
    OBVIOUS
  <2> SUFFICES ASSUME state # STATE_ENABLED, VerdictSettled
               PROVE  \A s \in MotorSlot : sent[s].kind # "drive"
    BY DEF DriveNeedsVerdict
  <2>1. /\ gate_state = state /\ running = TRUE
        /\ \A s \in BusP!Slot : gate_age > BusP!Grace(s)
    BY SameGates, SlotPatience
       DEF TopicInv, GateInv, VerdictSettled, SafetyP!SafetyInv, SafetyP!SafetyTypeOK
  <2> QED
    BY <2>1, SameSlots
       DEF BusP!ReleaseEndsDriving, BusP!STATE_ENABLED, STATE_ENABLED
<1> QED
  BY <1>1, PathTopics, PathSafetyInv, PathBusInv, PTL

\* No position outside the limits ever starts on its way to a motor: the zeros
\* that the bus starts with are not sent, and what is stored, filled into a frame
\* and exchanged is always a command of the packer.
LEMMA LimitPoll ==
  ASSUME LimitInv, BusP!BusTypeOK, NEW c \in Channel, BusP!Poll(c)
  PROVE  LimitInv'
<1> DEFINE Near(s, q) == q \in Commanded(s)
           here == <<c, next[c]>>
<1>1. /\ has_command => \A s \in MotorSlot : Near(s, cmd[s].q)
      /\ \A d \in Channel : pc[d] = "wire" /\ frame[d] # BusP!Freewheel =>
           Near(<<d, next[d]>>, frame[d].q)
      /\ \A s \in MotorSlot : sent[s] # BusP!Freewheel => Near(s, sent[s].q)
  BY DEF LimitInv, TorqueWithinLimits, Bus!TorqueOn, Bus!Freewheel, BusP!Freewheel
<1>2. SUFFICES
        /\ has_command' => \A s \in MotorSlot : Near(s, cmd'[s].q)
        /\ \A d \in Channel : pc'[d] = "wire" /\ frame'[d] # BusP!Freewheel =>
             Near(<<d, next'[d]>>, frame'[d].q)
        /\ \A s \in MotorSlot : sent'[s] # BusP!Freewheel => Near(s, sent'[s].q)
  BY DEF LimitInv, TorqueWithinLimits, Bus!TorqueOn, Bus!Freewheel, BusP!Freewheel
<1>3. here \in MotorSlot
  BY DEF BusP!BusTypeOK, MotorSlot
<1> USE DEF BusP!callbackVars, BusP!motorVars
<1>4. CASE BusP!BeginCycle(c)
  BY <1>1, <1>4 DEF BusP!BeginCycle, BusP!BusTypeOK
<1>5. CASE BusP!SkipAbsent(c)
  BY <1>1, <1>5, BusAssumptions, BusP!AdvanceFacts DEF BusP!SkipAbsent, BusP!BusTypeOK
<1>6. CASE BusP!FillCommand(c)
  <2>1. \/ frame'[c] = BusP!Freewheel
        \/ has_command /\ frame'[c].q = cmd[here].q
    BY <1>6 DEF BusP!FillCommand, BusP!FrameFor, BusP!BusTypeOK
  <2> QED
    BY <1>1, <1>3, <1>6, <2>1 DEF BusP!FillCommand, BusP!BusTypeOK
<1>7. CASE BusP!SendRecv(c)
  <2>1. \/ sent' = sent
        \/ sent' = [sent EXCEPT ![here] = frame[c]] /\ pc[c] = "wire"
    BY <1>7 DEF BusP!SendRecv
  <2>2. \A s \in MotorSlot : sent'[s] # BusP!Freewheel => Near(s, sent'[s].q)
    BY <1>1, <1>3, <2>1, SameSlots DEF BusP!BusTypeOK
  <2>3. BusP!Advance(c) /\ frame' = [frame EXCEPT ![c] = BusP!Freewheel]
    BY <1>7 DEF BusP!SendRecv
  <2>4. \A d \in Channel : pc'[d] = "wire" => d # c /\ pc'[d] = pc[d]
                              /\ next'[d] = next[d] /\ frame'[d] = frame[d]
    BY <2>3, BusAssumptions, BusP!AdvanceFacts DEF BusP!BusTypeOK
  <2> QED
    BY <1>1, <1>7, <2>2, <2>4 DEF BusP!SendRecv
<1> QED
  BY <1>4, <1>5, <1>6, <1>7 DEF BusP!Poll

LEMMA LimitStep ==
  ASSUME LimitInv, CommandInv, BusP!BusTypeOK, [PathNext]_pathVars
  PROVE  LimitInv'
<1>1. CASE BusPoll
  BY <1>1, SamePoll, LimitPoll DEF BusPoll
<1>2. CASE UNCHANGED <<cmd, has_command, pc, next, frame, sent>>
  BY <1>2 DEF LimitInv, TorqueWithinLimits, Bus!TorqueOn
<1>3. CASE BusCommand
  <2>1. \A s \in MotorSlot : cmd'[s].q \in Commanded(s)
    <3> SUFFICES ASSUME NEW s \in MotorSlot
                 PROVE  cmd'[s].q \in Commanded(s)
      OBVIOUS
    <3>1. cmd'[s].q = IF q_des[s] = NaN THEN ZeroPose ELSE q_des[s]
      BY <1>3, SameSlots DEF BusCommand, Bus!OnMotorCommand, Bus!NoNaN
    <3>2. \/ q_des[s] \in PosMin[s]..PosMax[s] /\ q_des[s] # NaN
          \/ q_des[s] = NaN /\ ~Packer!NumbersOnly
      BY <1>3, PackerPartAssumption DEF BusCommand, CommandInv
    <3> QED
      BY <3>1, <3>2 DEF Commanded
  <2>2. UNCHANGED <<pc, next, frame, sent>>
    BY <1>3 DEF BusCommand, Bus!OnMotorCommand, Bus!pollVars, Bus!motorVars
  <2> QED
    BY <1>3, <2>1, <2>2
       DEF LimitInv, CommandInv, BusCommand, TorqueWithinLimits, Bus!TorqueOn
<1>4. CASE SafetyActs \/ PackerActs \/ BusGate \/ BusBeat \/ UNCHANGED pathVars
  BY <1>2, <1>4
     DEF SafetyActs, Joy, Judge, Beat, SafetyCrash, SafetyRelaunch, PackerActs,
         PackerGate, PackerInputs, PackerTick, BusGate, BusBeat, Bus!OnGate, Bus!OnHeartbeat,
         Bus!pollVars, Bus!motorVars, busPart, pathVars
<1>5. CASE PathElapse
  BY <1>2, <1>5 DEF PathElapse, Bus!BusElapse, Bus!motorVars
<1> QED
  BY <1>1, <1>3, <1>4, <1>5 DEF PathNext, BusActs

\* Whatever readings and joint targets reach the packer, in whatever order verdicts,
\* commands and poll cycles interleave and however often the safety node restarts,
\* a motor with torque has been told a position within the limits of its joint, or
\* 0.0 if some motor may be silent or some target has a NaN.
THEOREM TorqueStaysWithinLimits == PathSpec => []TorqueWithinLimits
<1>1. PathInit => LimitInv
  BY SameSlots
     DEF PathInit, LimitInv, TorqueWithinLimits, Bus!BusInit, Bus!TorqueOn
<1>2. LimitInv /\ CommandInv /\ BusP!BusInv /\ [PathNext]_pathVars => LimitInv'
  BY LimitStep DEF BusP!BusInv, BusP!TypeInv
<1>3. LimitInv => TorqueWithinLimits
  BY DEF LimitInv
<1> QED
  BY <1>1, <1>2, <1>3, PathCommands, PathBusInv, PTL DEF PathSpec
=============================================================================
