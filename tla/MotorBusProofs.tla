--------------------------- MODULE MotorBusProofs ---------------------------
(***************************************************************************)
(* Theorems about the motor bus, for every layout of channels and motors,  *)
(* every timeout and every stream of messages.                             *)
(***************************************************************************)
EXTENDS MotorBus, TLAPS

\* A slot is a channel and the index of one of its motors.
LEMMA SlotParts ==
  ASSUME NEW s \in Slot
  PROVE  /\ s[1] \in Channel
         /\ s[2] \in 1..MotorCount[s[1]]
         /\ s = <<s[1], s[2]>>
BY DEF Slot

LEMMA SlotOf ==
  ASSUME NEW c \in Channel, NEW i \in 1..MotorCount[c]
  PROVE  <<c, i>> \in Slot
BY DEF Slot

\* The timing constants are numbers, and so are the caps made of them.
LEMMA Timing ==
  /\ HbTimeout \in Nat /\ CmdTimeout \in Nat /\ Reprobe \in Nat
  /\ CycleMax \in Nat /\ CycleMax > 0
  /\ AbsentThreshold \in Nat /\ AbsentThreshold > 0
  /\ HbCap \in Nat /\ CmdCap \in Nat /\ GateCap \in Nat
BY BusTimingAssumption DEF HbCap, CmdCap, GateCap

\* Where a poll thread is after a motor: at the next one, or done with the cycle.
LEMMA AdvanceFacts ==
  ASSUME BusTypeOK, NEW c \in Channel, Advance(c)
  PROVE  /\ pc' \in [Channel -> {"down", "idle", "poll", "wire"}]
         /\ pc'[c] \in {"idle", "poll"}
         /\ next' \in [Channel -> Nat]
         /\ \A d \in Channel : next'[d] \in 1..MotorCount[d]
         /\ \A d \in Channel \ {c} : pc'[d] = pc[d] /\ next'[d] = next[d]
         /\ pc'[c] = "poll" => next'[c] = next[c] + 1
         /\ pc'[c] = "idle" => next[c] = MotorCount[c]
<1>1. /\ pc \in [Channel -> {"down", "idle", "poll", "wire"}]
      /\ next \in [Channel -> Nat]
      /\ \A d \in Channel : next[d] \in 1..MotorCount[d] /\ MotorCount[d] \in Nat \ {0}
  BY LayoutAssumption DEF BusTypeOK
<1>2. CASE next[c] < MotorCount[c]
  BY <1>1, <1>2 DEF Advance
<1>3. CASE ~(next[c] < MotorCount[c])
  BY <1>1, <1>3 DEF Advance
<1> QED
  BY <1>2, <1>3

\* The motors polled before that, except the last, were so before.
LEMMA AdvancePolled ==
  ASSUME BusTypeOK, NEW c \in Channel, Advance(c),
         NEW i \in 1..MotorCount[c], i # next[c],
         pc'[c] = "idle" \/ i < next'[c]
  PROVE  i < next[c]
<1>1. next[c] \in Nat /\ MotorCount[c] \in Nat
  BY LayoutAssumption DEF BusTypeOK
<1>2. CASE pc'[c] = "idle"
  <2>1. next[c] = MotorCount[c]
    BY <1>2, AdvanceFacts
  <2> QED
    BY <1>1, <2>1
<1>3. CASE pc'[c] = "poll"
  <2>1. next'[c] = next[c] + 1
    BY <1>3, AdvanceFacts
  <2> QED
    BY <1>1, <1>3, <2>1
<1> QED
  BY <1>2, <1>3, AdvanceFacts

\* The frame is one of the three kinds.
LEMMA FrameTyped ==
  ASSUME BusTypeOK, NEW c \in Channel, NEW s \in Slot
  PROVE  FrameFor(c, s) \in Frame
<1>1. cmd[s].q \in Pose /\ cmd[s].gain \in Gain
  BY DEF BusTypeOK
<1> QED
  BY <1>1 DEF FrameFor, Frame

-----------------------------------------------------------------------------
\* The type invariant, and the bookkeeping of the poll threads it rests on.
TypeInv == BusTypeOK /\ PollInv

LEMMA TypeInvInit == BusInit => TypeInv
<1> SUFFICES ASSUME BusInit PROVE TypeInv
  OBVIOUS
<1> USE Timing, LayoutAssumption, CommandAssumption DEF BusInit
<1>1. BusTypeOK
  <2>1. gate_state \in GateState
    BY DEF GateState
  <2>2. Freewheel \in Frame
    BY DEF Frame
  <2>3. cmd \in [Slot -> [q : Pose, gain : Gain]]
    OBVIOUS
  <2>4. next \in [Channel -> Nat] /\ \A c \in Channel : next[c] \in 1..MotorCount[c]
    OBVIOUS
  <2>5. gate_age \in 0..GateCap /\ hb_age \in 0..HbCap /\ cmd_age \in 0..CmdCap
    OBVIOUS
  <2>6. /\ pc \in [Channel -> {"down", "idle", "poll", "wire"}]
        /\ cycle_age \in [Channel -> 0..CycleMax]
        /\ frame \in [Channel -> Frame]
    BY <2>2
  <2>7. /\ fail_streak \in [Slot -> 0..AbsentThreshold]
        /\ absent \in [Slot -> BOOLEAN]
        /\ probe_wait \in [Slot -> 0..Reprobe]
        /\ has_fresh \in [Slot -> BOOLEAN]
        /\ sent \in [Slot -> Frame]
    BY <2>2
  <2> QED
    BY <2>1, <2>3, <2>4, <2>5, <2>6, <2>7, Zenon DEF BusTypeOK
<1>2. PollInv
  BY DEF PollInv
<1> QED
  BY <1>1, <1>2 DEF TypeInv

\* The callbacks, the operator and the passing of time leave the threads alone.
LEMMA TypeInvCallbacks ==
  ASSUME TypeInv,
         \/ OnHeartbeat
         \/ \E g \in GateState : OnGate(g)
         \/ \E msg \in CommandMsgs : OnMotorCommand(msg)
         \/ \E s \in Slot, l \in Links : ChangeLink(s, l)
         \/ Shutdown
  PROVE  TypeInv'
<1> USE Timing DEF TypeInv
<1>1. CASE OnHeartbeat
  BY <1>1 DEF OnHeartbeat, BusTypeOK, PollInv, pollVars, motorVars
<1>2. ASSUME NEW g \in GateState, OnGate(g) PROVE TypeInv'
  BY <1>2 DEF OnGate, BusTypeOK, PollInv, pollVars, motorVars
<1>3. ASSUME NEW msg \in CommandMsgs, OnMotorCommand(msg) PROVE TypeInv'
  <2>1. ASSUME NEW s \in Slot PROVE NoNaN(msg[s]) \in [q : Pose, gain : Gain]
    <3>1. msg[s] \in [q : Pose \cup {NaN}, gain : Gain \cup {NaN}]
      BY CommandAssumption
    <3> QED
      BY <3>1, CommandAssumption DEF NoNaN
  <2>2. cmd' \in [Slot -> [q : Pose, gain : Gain]]
    BY <1>3, <2>1 DEF OnMotorCommand
  <2> QED
    BY <1>3, <2>2 DEF OnMotorCommand, BusTypeOK, PollInv, pollVars, motorVars
<1>4. ASSUME NEW s \in Slot, NEW l \in Links, ChangeLink(s, l) PROVE TypeInv'
  <2>1. sent' \in [Slot -> Frame] /\ link' \in [Slot -> Links]
    BY <1>4 DEF ChangeLink, BusTypeOK, Frame
  <2> QED
    BY <1>4, <2>1 DEF ChangeLink, BusTypeOK, PollInv, callbackVars, pollVars
<1>5. CASE Shutdown
  BY <1>5 DEF Shutdown, BusTypeOK, PollInv, callbackVars, pollVars, motorVars
<1> QED
  BY <1>1, <1>2, <1>3, <1>4, <1>5

\* Each step of a poll thread.
LEMMA TypeInvPoll ==
  ASSUME TypeInv, NEW c \in Channel, Poll(c)
  PROVE  TypeInv'
<1> USE Timing DEF TypeInv
<1> DEFINE s == <<c, next[c]>>
<1>s. s \in Slot
  BY SlotOf DEF BusTypeOK
<1>1. CASE BeginCycle(c)
  <2>1. probe_wait' \in [Slot -> 0..Reprobe]
    <3> SUFFICES ASSUME NEW m \in Slot
                 PROVE  probe_wait'[m] \in 0..Reprobe
      BY <1>1 DEF BeginCycle
    <3>1. m[1] \in Channel /\ probe_wait[m] \in 0..Reprobe /\ cycle_age[c] \in 0..CycleMax
      BY SlotParts DEF BusTypeOK
    <3> QED
      BY <1>1, <3>1 DEF BeginCycle
  <2>2. /\ pc' \in [Channel -> {"down", "idle", "poll", "wire"}]
        /\ next' \in [Channel -> Nat]
        /\ \A d \in Channel : next'[d] \in 1..MotorCount[d]
        /\ cycle_age' \in [Channel -> 0..CycleMax]
    <3>1. \A d \in Channel : 1 \in 1..MotorCount[d]
      BY LayoutAssumption
    <3>2. 0 \in 0..CycleMax
      OBVIOUS
    <3>3. /\ pc' = [pc EXCEPT ![c] = "poll"]
          /\ next' = [next EXCEPT ![c] = 1]
          /\ cycle_age' = [cycle_age EXCEPT ![c] = 0]
      BY <1>1 DEF BeginCycle
    <3>4. /\ pc \in [Channel -> {"down", "idle", "poll", "wire"}]
          /\ next \in [Channel -> Nat]
          /\ \A d \in Channel : next[d] \in 1..MotorCount[d]
          /\ cycle_age \in [Channel -> 0..CycleMax]
      BY DEF BusTypeOK
    <3> QED
      BY <3>1, <3>2, <3>3, <3>4
  <2>3. BusTypeOK'
    BY <1>1, <2>1, <2>2 DEF BeginCycle, BusTypeOK, callbackVars, motorVars
  <2> QED
    BY <1>1, <2>3 DEF BeginCycle, PollInv, BusTypeOK
<1>2. CASE SkipAbsent(c)
  <2>1. Advance(c)
    BY <1>2 DEF SkipAbsent
  <2>2. BusTypeOK'
    BY <1>2, <2>1, AdvanceFacts DEF SkipAbsent, BusTypeOK, callbackVars, motorVars
  <2> QED
    BY <1>2, <2>1, <2>2, AdvanceFacts DEF SkipAbsent, PollInv
<1>3. CASE FillCommand(c)
  <2>1. frame' \in [Channel -> Frame] /\ pc' \in [Channel -> {"down", "idle", "poll", "wire"}]
    BY <1>3, <1>s, FrameTyped DEF FillCommand, BusTypeOK
  <2>2. BusTypeOK'
    BY <1>3, <2>1 DEF FillCommand, BusTypeOK, callbackVars, motorVars
  <2> QED
    BY <1>3, <2>2 DEF FillCommand, PollInv, BusTypeOK
<1>4. CASE SendRecv(c)
  <2>1. Advance(c)
    BY <1>4 DEF SendRecv
  <2>2. sent' \in [Slot -> Frame] /\ frame' \in [Channel -> Frame]
    BY <1>4, <1>s DEF SendRecv, BusTypeOK, Frame
  <2>3. /\ fail_streak' \in [Slot -> 0..AbsentThreshold]
        /\ absent' \in [Slot -> BOOLEAN]
        /\ probe_wait' \in [Slot -> 0..Reprobe]
        /\ has_fresh' \in [Slot -> BOOLEAN]
        /\ \A m \in Slot : ~absent'[m] => fail_streak'[m] < AbsentThreshold
    <3>1. CASE PollOk(s)
      <4>1. 0 \in 0..AbsentThreshold
        OBVIOUS
      <4>2. fail_streak' \in [Slot -> 0..AbsentThreshold]
        BY <1>s, <3>1, <4>1 DEF PollOk, BusTypeOK
      <4>3. absent' \in [Slot -> BOOLEAN] /\ has_fresh' \in [Slot -> BOOLEAN]
        BY <1>s, <3>1, Zenon DEF PollOk, BusTypeOK
      <4>4. \A m \in Slot : ~absent'[m] => fail_streak'[m] < AbsentThreshold
        BY <1>s, <3>1 DEF PollOk, BusTypeOK, PollInv
      <4> QED
        BY <3>1, <4>2, <4>3, <4>4 DEF PollOk, BusTypeOK
    <3>2. CASE PollFailed(s)
      <4>1. fail_streak'[s] \in 0..AbsentThreshold
        BY <1>s, <3>2 DEF PollFailed, BusTypeOK, PollInv
      <4>2. fail_streak' \in [Slot -> 0..AbsentThreshold]
        BY <1>s, <3>2, <4>1 DEF PollFailed, BusTypeOK
      <4>3. absent' \in [Slot -> BOOLEAN]
        BY <1>s, <3>2, Zenon DEF PollFailed, BusTypeOK
      <4>4. has_fresh' \in [Slot -> BOOLEAN] /\ probe_wait' \in [Slot -> 0..Reprobe]
        BY <1>s, <3>2 DEF PollFailed, BusTypeOK
      <4>5. fail_streak'[s] >= AbsentThreshold => absent'[s]
        BY <1>s, <3>2, Zenon DEF PollFailed, BusTypeOK
      <4>6. \A m \in Slot : ~absent'[m] => fail_streak'[m] < AbsentThreshold
        <5> SUFFICES ASSUME NEW m \in Slot, ~absent'[m]
                     PROVE  fail_streak'[m] < AbsentThreshold
          OBVIOUS
        <5>1. CASE m = s
          <6>1. ~(fail_streak'[s] >= AbsentThreshold)
            BY <4>5, <5>1, Zenon
          <6> QED
            BY <4>1, <5>1, <6>1
        <5>2. CASE m # s
          BY <1>s, <3>2, <5>2 DEF PollFailed, BusTypeOK, PollInv
        <5> QED
          BY <5>1, <5>2
      <4> QED
        BY <4>2, <4>3, <4>4, <4>6
    <3> QED
      BY <1>4, <3>1, <3>2 DEF SendRecv
  <2>4. BusTypeOK'
    BY <1>4, <2>1, <2>2, <2>3, AdvanceFacts DEF SendRecv, BusTypeOK, callbackVars
  <2> QED
    BY <1>4, <2>1, <2>3, <2>4, AdvanceFacts DEF SendRecv, PollInv
<1> QED
  BY <1>1, <1>2, <1>3, <1>4 DEF Poll

\* A tick.
LEMMA TypeInvElapse ==
  ASSUME TypeInv, BusElapse
  PROVE  TypeInv'
<1> USE Timing DEF TypeInv, Older
<1>1. gate_age' \in 0..GateCap /\ hb_age' \in 0..HbCap /\ cmd_age' \in 0..CmdCap
  BY DEF BusElapse, BusTypeOK
<1>2. cycle_age' \in [Channel -> 0..CycleMax]
  <2> SUFFICES ASSUME NEW c \in Channel PROVE cycle_age'[c] \in 0..CycleMax
    BY DEF BusElapse
  <2> QED
    BY DEF BusElapse, BusTypeOK
<1>3. BusTypeOK'
  BY <1>1, <1>2 DEF BusElapse, BusTypeOK, motorVars
<1> QED
  BY <1>3 DEF BusElapse, PollInv

LEMMA TypeInvStep == TypeInv /\ [BusNext]_busVars => TypeInv'
<1> SUFFICES ASSUME TypeInv, [BusNext]_busVars
             PROVE  TypeInv'
  OBVIOUS
<1>1. CASE UNCHANGED busVars
  BY <1>1 DEF TypeInv, BusTypeOK, PollInv, busVars, callbackVars, pollVars, motorVars
<1> QED
  BY <1>1, TypeInvCallbacks, TypeInvPoll, TypeInvElapse DEF BusNext

LEMMA TypeInvariant == BusSpec => []TypeInv
BY TypeInvInit, TypeInvStep, PTL DEF BusSpec

\* Every variable of the bus keeps to its type: no counter, age, index or frame
\* leaves its range, in any layout.
THEOREM BusTypeCorrect == BusSpec => []BusTypeOK
BY TypeInvariant, PTL DEF TypeInv

-----------------------------------------------------------------------------
\* Power and torque.
LEMMA LimpInvInit == BusInit => LimpInv
BY DEF BusInit, LimpInv, TorqueOn

\* A motor without power has no frame, and one that is polled has an open port.
LEMMA LimpInvStep ==
  ASSUME TypeInv, LimpInv, [BusNext]_busVars
  PROVE  LimpInv'
<1> USE DEF LimpInv, TorqueOn
<1>1. ASSUME UNCHANGED <<link, sent>>
      PROVE  LimpInv'
  BY <1>1
<1>2. ASSUME NEW m \in Slot, NEW l \in Links, ChangeLink(m, l)
      PROVE  LimpInv'
  BY <1>2 DEF ChangeLink, pollVars, TypeInv, BusTypeOK
<1>3. ASSUME NEW c \in Channel, SendRecv(c)
      PROVE  LimpInv'
  <2> DEFINE m == <<c, next[c]>>
  <2>1. m \in Slot /\ c \in PortOk
    BY <1>3, SlotOf DEF SendRecv, TypeInv, PollInv, BusTypeOK
  <2>2. /\ \A s \in Slot \ {m} : sent'[s] = sent[s]
        /\ link' = link
        /\ link[m] = "dead" => sent' = sent
    BY <1>3, <2>1 DEF SendRecv, TypeInv, BusTypeOK
  <2> QED
    BY <2>1, <2>2
<1>4. CASE UNCHANGED busVars
  BY <1>1, <1>4 DEF busVars, motorVars
<1>5. CASE OnHeartbeat
  BY <1>1, <1>5 DEF OnHeartbeat, motorVars
<1>6. ASSUME NEW g \in GateState, OnGate(g) PROVE LimpInv'
  BY <1>1, <1>6 DEF OnGate, motorVars
<1>7. ASSUME NEW msg \in CommandMsgs, OnMotorCommand(msg) PROVE LimpInv'
  BY <1>1, <1>7 DEF OnMotorCommand, motorVars
<1>8. ASSUME NEW c \in Channel, BeginCycle(c) \/ SkipAbsent(c) \/ FillCommand(c)
      PROVE  LimpInv'
  BY <1>1, <1>8 DEF BeginCycle, SkipAbsent, FillCommand, motorVars
<1>9. CASE Shutdown
  BY <1>1, <1>9 DEF Shutdown, motorVars
<1>10. CASE BusElapse
  BY <1>1, <1>10 DEF BusElapse, motorVars
<1> QED
  BY <1>2, <1>3, <1>4, <1>5, <1>6, <1>7, <1>8, <1>9, <1>10 DEF BusNext, Poll

-----------------------------------------------------------------------------
\* How the age of the frames develops.  Only freewheeling frames need no age.
Kinds == SUBSET {"drive", "hold"}

LEMMA FrameInvInit == BusInit => FrameInv
BY DEF BusInit, FrameInv, FramesSince, Freewheel, Powered

LEMMA StandingTyped ==
  ASSUME TypeInv, NEW s \in Slot
  PROVE  /\ Standing(s) \in Nat /\ cycle_age[s[1]] \in 0..CycleMax
         /\ absent[s] \in BOOLEAN /\ probe_wait[s] \in 0..Reprobe
<1>1. /\ cycle_age[s[1]] \in 0..CycleMax
      /\ absent[s] \in BOOLEAN /\ probe_wait[s] \in 0..Reprobe
  BY SlotParts DEF TypeInv, BusTypeOK
<1> QED
  BY <1>1, Timing DEF Standing

\* It depends on the poll thread only.
LEMMA StandingKept ==
  ASSUME NEW s \in Slot, UNCHANGED <<pc, next, absent, probe_wait>>
  PROVE  Standing(s)' = Standing(s)
BY DEF Standing, Polled, Throttled

\* A callback, the operator and a shutdown send nothing.
LEMMA QuietKeepsFrames ==
  ASSUME NEW K \in Kinds, NEW a \in Int, NEW b \in Int, b <= a,
         TypeInv, FramesSince(K, a),
         UNCHANGED pollVars, running' => running,
         \A s \in Slot : sent'[s] \in {sent[s], Freewheel}
  PROVE  FramesSince(K, b)'
<1>1. \A c \in Channel : cycle_age[c] \in Nat
  BY Timing DEF TypeInv, BusTypeOK
<1>2. \A s \in Slot : sent'[s].kind \in K => sent[s].kind \in K
  BY DEF Kinds, Freewheel
<1>3. ASSUME NEW s \in Slot, Live(s[1])', sent'[s].kind \in K
      PROVE  b < SinceFrame(s)'
  <2>1. a < SinceFrame(s)
    BY <1>2, <1>3 DEF FramesSince, Live, pollVars
  <2>2. SinceFrame(s)' = SinceFrame(s) /\ SinceFrame(s) \in Int
    BY StandingTyped, StandingKept, Timing DEF SinceFrame, pollVars
  <2> QED
    BY <2>1, <2>2
<1>4. ASSUME NEW c \in Channel, pc'[c] = "wire", frame'[c].kind \in K
      PROVE  b < cycle_age'[c]
  BY <1>1, <1>4 DEF FramesSince, pollVars
<1> QED
  BY <1>3, <1>4 DEF FramesSince

\* A tick ages the cycle of every thread that is running.
LEMMA TickAgesFrames ==
  ASSUME NEW K \in Kinds, NEW a \in Int, NEW b \in Int, b <= a + 1,
         TypeInv, LimpInv, FramesSince(K, a), BusElapse
  PROVE  FramesSince(K, b)'
<1>1. /\ \A c \in Channel : cycle_age[c] \in 0..CycleMax
      /\ running' = running /\ pc' = pc /\ next' = next /\ sent' = sent /\ frame' = frame
      /\ absent' = absent /\ probe_wait' = probe_wait
  BY DEF BusElapse, motorVars, TypeInv, BusTypeOK
<1>2. ASSUME NEW c \in Channel, c \in PortOk, Live(c)
      PROVE  cycle_age'[c] = cycle_age[c] + 1
  BY <1>1, <1>2, Timing DEF BusElapse, Older, Live
<1>3. ASSUME NEW s \in Slot, Live(s[1])', sent'[s].kind \in K
      PROVE  b < SinceFrame(s)'
  <2>1. s[1] \in Channel /\ s[1] \in PortOk /\ Live(s[1])
    BY <1>1, <1>3, SlotParts DEF LimpInv, TorqueOn, Freewheel, Kinds, Live
  <2>2. a < SinceFrame(s)
    BY <1>1, <1>3, <2>1 DEF FramesSince
  <2>3. cycle_age'[s[1]] = cycle_age[s[1]] + 1
    BY <1>2, <2>1
  <2>4. SinceFrame(s)' = SinceFrame(s) + 1 /\ SinceFrame(s) \in Int
    BY <1>1, <2>1, <2>3, StandingTyped, StandingKept DEF SinceFrame
  <2> QED
    BY <2>2, <2>4
<1>4. ASSUME NEW c \in Channel, pc'[c] = "wire", frame'[c].kind \in K
      PROVE  b < cycle_age'[c]
  <2>1. c \in PortOk /\ Live(c)
    BY <1>1, <1>4 DEF TypeInv, PollInv, Live
  <2>2. a < cycle_age[c]
    BY <1>1, <1>4 DEF FramesSince
  <2> QED
    BY <1>1, <1>2, <2>1, <2>2
<1> QED
  BY <1>3, <1>4 DEF FramesSince

\* Going on to the next motor changes nothing for those before and after this one.
LEMMA PolledKept ==
  ASSUME TypeInv, NEW c \in Channel, Advance(c), pc[c] # "idle",
         NEW s \in Slot, s[1] = c, s # <<c, next[c]>>
  PROVE  Polled(s)' <=> Polled(s)
<1>1. BusTypeOK /\ s[2] \in 1..MotorCount[c] /\ s[2] # next[c]
  BY SlotParts DEF TypeInv
<1>2. pc'[c] = "idle" \/ s[2] < next'[c] => s[2] < next[c]
  BY <1>1, AdvancePolled
<1>3. s[2] < next[c] => pc'[c] = "idle" \/ s[2] < next'[c]
  BY <1>1, AdvanceFacts DEF BusTypeOK
<1> QED
  BY <1>2, <1>3 DEF Polled

\* The motors of the other channels do not notice a step of this one.
LEMMA OtherChannels ==
  ASSUME TypeInv, NEW c \in Channel, Poll(c), NEW s \in Slot, s[1] # c
  PROVE  SinceFrame(s)' = SinceFrame(s) /\ sent'[s] = sent[s]
<1>1. s[1] \in Channel /\ <<c, next[c]>> \in Slot /\ s # <<c, next[c]>>
  BY SlotParts, SlotOf DEF TypeInv, BusTypeOK
<1>2. /\ pc'[s[1]] = pc[s[1]] /\ next'[s[1]] = next[s[1]]
      /\ cycle_age'[s[1]] = cycle_age[s[1]]
      /\ absent'[s] = absent[s] /\ probe_wait'[s] = probe_wait[s] /\ sent'[s] = sent[s]
  <2>1. CASE BeginCycle(c)
    BY <1>1, <2>1 DEF BeginCycle, motorVars, TypeInv, BusTypeOK
  <2>2. CASE SkipAbsent(c)
    BY <1>1, <2>2, AdvanceFacts DEF SkipAbsent, motorVars, TypeInv, BusTypeOK
  <2>3. CASE FillCommand(c)
    BY <1>1, <2>3 DEF FillCommand, motorVars, TypeInv, BusTypeOK
  <2>4. CASE SendRecv(c)
    BY <1>1, <2>4, AdvanceFacts DEF SendRecv, PollOk, PollFailed, TypeInv, BusTypeOK
  <2> QED
    BY <2>1, <2>2, <2>3, <2>4 DEF Poll
<1> QED
  BY <1>2 DEF SinceFrame, Standing, Polled, Throttled

\* A step of a poll thread: a new cycle is allowed CycleMax, and for a motor that
\* has waited long enough to be probed what it has waited; what is filled now must
\* be young enough.
LEMMA PollKeepsFrames ==
  ASSUME NEW K \in Kinds, NEW a \in Int, NEW c \in Channel,
         TypeInv, LimpInv, FramesSince(K, a), Poll(c),
         FrameFor(c, <<c, next[c]>>).kind \in K => a < cycle_age[c]
  PROVE  FramesSince(K, a)'
<1> USE Timing DEF Live
<1> DEFINE m == <<c, next[c]>>
<1>m. m \in Slot
  BY SlotOf DEF TypeInv, BusTypeOK
<1>ages. \A d \in Channel : cycle_age[d] \in 0..CycleMax
  BY DEF TypeInv, BusTypeOK
<1>old. /\ \A s \in Slot : Live(s[1]) /\ sent[s].kind \in K => a < SinceFrame(s)
        /\ \A d \in Channel : pc[d] = "wire" /\ frame[d].kind \in K => a < cycle_age[d]
  BY DEF FramesSince
<1>live. \A d \in Channel : Live(d)' => Live(d)
  <2>1. running' = running /\ (pc[c] = "idle" => running)
    BY DEF Poll, BeginCycle, SkipAbsent, FillCommand, SendRecv
  <2>2. \A d \in Channel \ {c} : pc'[d] = pc[d]
    BY AdvanceFacts DEF Poll, BeginCycle, SkipAbsent, FillCommand, SendRecv, TypeInv,
                        BusTypeOK
  <2> QED
    BY <2>1, <2>2
<1>frames. SUFFICES
             /\ \A s \in Slot : s[1] = c /\ Live(c)' /\ sent'[s].kind \in K
                               => a < SinceFrame(s)'
             /\ \A d \in Channel : pc'[d] = "wire" /\ frame'[d].kind \in K
                               => a < cycle_age'[d]
  <2>1. ASSUME NEW s \in Slot, s[1] # c, Live(s[1])', sent'[s].kind \in K
        PROVE  a < SinceFrame(s)'
    BY <1>old, <1>live, <2>1, OtherChannels, SlotParts
  <2> QED
    BY <2>1 DEF FramesSince
<1>1. CASE BeginCycle(c)
  <2>1. \A d \in Channel \ {c} : pc'[d] = pc[d] /\ cycle_age'[d] = cycle_age[d]
    BY <1>1 DEF BeginCycle, TypeInv, BusTypeOK
  <2>2. /\ pc'[c] = "poll" /\ next'[c] = 1 /\ cycle_age'[c] = 0 /\ running /\ pc[c] = "idle"
        /\ sent' = sent /\ frame' = frame /\ absent' = absent
    BY <1>1 DEF BeginCycle, motorVars, TypeInv, BusTypeOK
  <2>3. ASSUME NEW s \in Slot, s[1] = c, sent'[s].kind \in K
        PROVE  a < SinceFrame(s)'
    <3>1. a < SinceFrame(s) /\ Polled(s) /\ ~Polled(s)'
      BY <1>old, <2>2, <2>3, SlotParts DEF Polled
    <3>2. /\ cycle_age[c] \in 0..CycleMax /\ probe_wait[s] \in 0..Reprobe
          /\ absent[s] \in BOOLEAN
      BY <2>3, StandingTyped
    <3>3. probe_wait'[s] = IF probe_wait[s] <= cycle_age[c] THEN 0
                           ELSE probe_wait[s] - cycle_age[c]
      BY <1>1, <2>3 DEF BeginCycle
    <3>4. Standing(s)' = IF ~absent[s] THEN CycleMax
                         ELSE IF probe_wait'[s] > 0 THEN Reprobe - probe_wait'[s]
                         ELSE Reprobe + CycleMax
      BY <2>2, <3>1, <3>2 DEF Standing, Throttled
    <3>5. Standing(s) = IF absent[s] THEN Reprobe - probe_wait[s] ELSE 0
      BY <3>1 DEF Standing
    <3>6. SinceFrame(s)' = Standing(s)' /\ SinceFrame(s) = cycle_age[c] + Standing(s)
      <4>1. Standing(s)' \in Int
        BY <3>2, <3>3, <3>4
      <4> QED
        BY <2>2, <2>3, <4>1 DEF SinceFrame
    <3>7. SinceFrame(s)' \in Int /\ SinceFrame(s) \in Int /\ SinceFrame(s)' >= SinceFrame(s)
      BY <3>2, <3>3, <3>4, <3>5, <3>6
    <3> QED
      BY <3>1, <3>7
  <2> QED
    BY <1>old, <2>1, <2>2, <2>3
<1>2. CASE SkipAbsent(c)
  <2>1. /\ Advance(c) /\ Throttled(m) /\ pc[c] = "poll"
        /\ sent' = sent /\ frame' = frame /\ cycle_age' = cycle_age
        /\ absent' = absent /\ probe_wait' = probe_wait
    BY <1>m, <1>2 DEF SkipAbsent, motorVars
  <2>2. ASSUME NEW s \in Slot, s[1] = c
        PROVE  SinceFrame(s)' = SinceFrame(s)
    <3>1. CASE s = m
      BY <2>1, <3>1 DEF SinceFrame, Standing, Throttled
    <3>2. CASE s # m
      BY <2>1, <2>2, <3>2, PolledKept DEF SinceFrame, Standing, Throttled
    <3> QED
      BY <3>1, <3>2
  <2>3. ASSUME NEW d \in Channel, pc'[d] = "wire"
        PROVE  pc[d] = "wire"
    BY <2>1, <2>3, AdvanceFacts DEF TypeInv
  <2> QED
    BY <1>old, <1>live, <2>1, <2>2, <2>3
<1>3. CASE FillCommand(c)
  <2>1. frame'[c].kind \in K => a < cycle_age[c]
    BY <1>3 DEF FillCommand, TypeInv, BusTypeOK
  <2>2. /\ sent' = sent /\ cycle_age' = cycle_age /\ next' = next
        /\ absent' = absent /\ probe_wait' = probe_wait
    BY <1>3 DEF FillCommand, motorVars
  <2>3. /\ pc[c] = "poll" /\ pc'[c] = "wire"
        /\ \A d \in Channel \ {c} : pc'[d] = pc[d] /\ frame'[d] = frame[d]
    BY <1>3 DEF FillCommand, TypeInv, BusTypeOK
  <2>4. ASSUME NEW s \in Slot, s[1] = c
        PROVE  SinceFrame(s)' = SinceFrame(s)
    BY <2>2, <2>3, <2>4 DEF SinceFrame, Standing, Polled, Throttled
  <2> QED
    BY <1>old, <1>live, <2>1, <2>2, <2>3, <2>4
<1>4. CASE SendRecv(c)
  <2>1. Advance(c) /\ pc[c] = "wire" /\ cycle_age' = cycle_age
    BY <1>4 DEF SendRecv
  <2>2. /\ \A s \in Slot \ {m} : /\ sent'[s] = sent[s] /\ absent'[s] = absent[s]
                                 /\ probe_wait'[s] = probe_wait[s]
        /\ \A d \in Channel \ {c} : frame'[d] = frame[d]
    BY <1>4, <1>m DEF SendRecv, PollOk, PollFailed, TypeInv, BusTypeOK
  <2>3. sent'[m].kind \in K => a < cycle_age[c]
    <3>1. CASE link[m] = "dead"
      BY <1>4, <1>m, <3>1 DEF SendRecv, LimpInv, TorqueOn, Freewheel, Kinds
    <3>2. CASE link[m] # "dead"
      <4>1. sent'[m] = frame[c]
        BY <1>4, <1>m, <3>2 DEF SendRecv, TypeInv, BusTypeOK
      <4> QED
        BY <1>old, <2>1, <4>1
    <3> QED
      BY <3>1, <3>2
  <2>4. ASSUME NEW s \in Slot, s[1] = c, Live(c)', sent'[s].kind \in K
        PROVE  a < SinceFrame(s)'
    <3>1. CASE s = m
      <4>1. s[2] = next[c]
        BY <3>1
      <4>2. next[c] \in Nat
        BY DEF TypeInv, BusTypeOK
      <4>3. Polled(s)'
        BY <2>1, <2>4, <4>1, <4>2, AdvanceFacts DEF Polled, TypeInv
      <4>4. \/ absent'[s] = FALSE
            \/ probe_wait'[s] = Reprobe
        <5>1. CASE link[m] = "ok"
          BY <1>4, <3>1, <5>1 DEF SendRecv, PollOk, TypeInv, BusTypeOK
        <5>2. CASE link[m] # "ok"
          BY <1>4, <3>1, <5>2 DEF SendRecv, PollFailed, TypeInv, BusTypeOK
        <5> QED
          BY <5>1, <5>2
      <4>5. Standing(s)' = 0
        BY <4>3, <4>4 DEF Standing
      <4>6. sent'[s].kind \in K => a < cycle_age[c]
        BY <2>3, <3>1
      <4> QED
        BY <1>ages, <2>1, <2>4, <4>5, <4>6 DEF SinceFrame
    <3>2. CASE s # m
      <4>1. SinceFrame(s)' = SinceFrame(s) /\ sent'[s] = sent[s]
        BY <2>1, <2>2, <2>4, <3>2, PolledKept DEF SinceFrame, Standing, Throttled
      <4> QED
        BY <1>old, <1>live, <2>4, <4>1
    <3> QED
      BY <3>1, <3>2
  <2>5. ASSUME NEW d \in Channel, pc'[d] = "wire"
        PROVE  d # c /\ pc[d] = "wire"
    BY <2>1, <2>5, AdvanceFacts DEF TypeInv
  <2> QED
    BY <1>old, <2>1, <2>2, <2>4, <2>5
<1> QED
  BY <1>1, <1>2, <1>3, <1>4 DEF Poll

\* What fill_command lets into a frame, by its age.
LEMMA FilledFrame ==
  ASSUME TypeInv, NEW c \in Channel, NEW s \in Slot
  PROVE  LET f == FrameFor(c, s) IN
         /\ f.kind \in Powered => hb_age - HbTimeout < cycle_age[c] /\ ~Stopped
         /\ f.kind \in {"drive"} =>
              cmd_age - CmdTimeout < cycle_age[c] /\ gate_state = STATE_ENABLED
<1>1. hb_age \in Nat /\ cmd_age \in Nat /\ cycle_age[c] \in Nat
  BY Timing DEF TypeInv, BusTypeOK
<1>2. NoTorque(c) => FrameFor(c, s).kind \notin {"drive", "hold"}
  BY DEF FrameFor, Freewheel
<1>3. FrameFor(c, s).kind = "drive" => gate_state = STATE_ENABLED /\ CmdFresh(c)
  BY DEF FrameFor, Freewheel
<1>4. ~NoTorque(c) => hb_age - HbTimeout < cycle_age[c] /\ ~Stopped
  BY <1>1, Timing DEF NoTorque, HbOk, Stopped
<1>5. CmdFresh(c) => cmd_age - CmdTimeout < cycle_age[c]
  BY <1>1, Timing DEF CmdFresh
<1> QED
  BY <1>2, <1>3, <1>4, <1>5 DEF Powered

\* A difference, as a number of its own.
LEMMA Difference ==
  \A x, t \in Int : \E d \in Int : d = x - t /\ d + t = x
<1> SUFFICES ASSUME NEW x \in Int, NEW t \in Int
             PROVE  \E d \in Int : d = x - t /\ d + t = x
  OBVIOUS
<1>1. x - t \in Int /\ (x - t) + t = x
  OBVIOUS
<1> QED
  BY <1>1

LEMMA FrameInvStep ==
  ASSUME TypeInv, TypeInv', LimpInv, FrameInv, [BusNext]_busVars
  PROVE  FrameInv'
<1> USE Timing DEF Kinds, Powered
<1>ages. /\ hb_age \in Nat /\ gate_age \in Nat /\ cmd_age \in Nat
         /\ hb_age' \in Nat /\ gate_age' \in Nat /\ cmd_age' \in Nat
  BY DEF TypeInv, BusTypeOK
<1>ints. /\ hb_age' \in Int /\ gate_age' \in Int /\ cmd_age' \in Int
         /\ HbTimeout \in Int /\ 1 \in Int /\ CmdTimeout \in Int
  BY <1>ages
<1>h. PICK h \in Int : h = hb_age' - HbTimeout /\ h + HbTimeout = hb_age'
  BY <1>ints, Difference, Zenon
<1>g. PICK g \in Int : g = gate_age' - 1 /\ g + 1 = gate_age'
  BY <1>ints, Difference, Zenon
<1>k. PICK k \in Int : k = cmd_age' - CmdTimeout /\ k + CmdTimeout = cmd_age'
  BY <1>ints, Difference, Zenon
<1> SUFFICES /\ FramesSince(Powered, h)'
             /\ Stopped' => FramesSince(Powered, g)'
             /\ FramesSince({"drive"}, k)'
             /\ gate_state' # STATE_ENABLED => FramesSince({"drive"}, g)'
  BY <1>h, <1>g, <1>k DEF FrameInv, FramesSince
<1>old. /\ FramesSince(Powered, hb_age - HbTimeout)
        /\ Stopped => FramesSince(Powered, gate_age - 1)
        /\ FramesSince({"drive"}, cmd_age - CmdTimeout)
        /\ gate_state # STATE_ENABLED => FramesSince({"drive"}, gate_age - 1)
  BY DEF FrameInv
\* A gate message has age 0, so that no frame is older than it by more than a cycle.
<1>new. ASSUME NEW K \in Kinds PROVE FramesSince(K, -1)
  <2>1. \A s \in Slot : SinceFrame(s) \in Nat
    BY StandingTyped DEF SinceFrame
  <2>2. \A c \in Channel : cycle_age[c] \in Nat
    BY DEF TypeInv, BusTypeOK
  <2> QED
    BY <2>1, <2>2 DEF FramesSince
<1>1. CASE OnHeartbeat
  <2>1. /\ UNCHANGED <<pollVars, running, gate_state, gate_age, cmd_age, sent>>
        /\ hb_age' = 0
    BY <1>1 DEF OnHeartbeat, motorVars
  <2> QED
    BY <1>ages, <1>h, <1>g, <1>k, <1>old, <2>1, QuietKeepsFrames DEF Stopped
<1>2. ASSUME NEW state \in GateState, OnGate(state)
      PROVE  /\ FramesSince(Powered, h)'
             /\ FramesSince(Powered, g)'
             /\ FramesSince({"drive"}, k)'
             /\ FramesSince({"drive"}, g)'
  <2>1. /\ UNCHANGED <<pollVars, running, hb_age, cmd_age, sent>>
        /\ gate_age' = 0
    BY <1>2 DEF OnGate, motorVars
  <2>2. g = -1
    BY <1>g, <2>1
  <2>3. h = hb_age - HbTimeout /\ k = cmd_age - CmdTimeout
    BY <1>h, <1>k, <2>1
  <2>4. \A s \in Slot : sent'[s] \in {sent[s], Freewheel}
    BY <2>1
  <2>5. \A K \in Kinds : FramesSince(K, -1)'
    BY <1>new, <2>1, <2>4, QuietKeepsFrames
  <2>6. FramesSince(Powered, h)' /\ FramesSince({"drive"}, k)'
    BY <1>old, <2>1, <2>3, <2>4, QuietKeepsFrames
  <2> QED
    BY <2>2, <2>5, <2>6
<1>3. ASSUME NEW msg \in CommandMsgs, OnMotorCommand(msg)
      PROVE  /\ FramesSince(Powered, h)'
             /\ Stopped' => FramesSince(Powered, g)'
             /\ FramesSince({"drive"}, k)'
             /\ gate_state' # STATE_ENABLED => FramesSince({"drive"}, g)'
  <2>1. /\ UNCHANGED <<pollVars, running, gate_state, gate_age, hb_age, sent>>
        /\ cmd_age' = 0
    BY <1>3 DEF OnMotorCommand, motorVars
  <2> QED
    BY <1>ages, <1>h, <1>g, <1>k, <1>old, <2>1, QuietKeepsFrames DEF Stopped
<1>4. CASE \/ \E s \in Slot, l \in Links : ChangeLink(s, l)
           \/ Shutdown
           \/ UNCHANGED busVars
  <2>1. /\ UNCHANGED <<pollVars, callbackVars>>
        /\ running' => running
        /\ \A s \in Slot : sent'[s] \in {sent[s], Freewheel}
    BY <1>4 DEF ChangeLink, Shutdown, busVars, motorVars, TypeInv, BusTypeOK
  <2>2. UNCHANGED <<gate_state, gate_age, hb_age, cmd_age>>
    BY <2>1 DEF callbackVars
  <2> QED
    BY <1>ages, <1>h, <1>g, <1>k, <1>old, <2>1, <2>2, QuietKeepsFrames DEF Stopped
<1>5. CASE BusElapse
  <2>1. gate_state' = gate_state
    BY <1>5 DEF BusElapse
  <2>a. hb_age' <= hb_age + 1
    BY <1>5, <1>ages DEF BusElapse, Older
  <2>b. gate_age' <= gate_age + 1
    BY <1>5, <1>ages DEF BusElapse, Older
  <2>c. cmd_age' <= cmd_age + 1
    BY <1>5, <1>ages DEF BusElapse, Older
  <2>2. /\ hb_age - HbTimeout \in Int /\ h <= (hb_age - HbTimeout) + 1
        /\ gate_age - 1 \in Int /\ g <= (gate_age - 1) + 1
        /\ cmd_age - CmdTimeout \in Int /\ k <= (cmd_age - CmdTimeout) + 1
    <3>1. hb_age - HbTimeout \in Int
      BY <1>ages
    <3>2. h <= (hb_age - HbTimeout) + 1
      <4>1. h + HbTimeout = hb_age'
        BY <1>h
      <4> QED
        BY <1>ages, <4>1, <2>a
    <3>3. gate_age - 1 \in Int
      BY <1>ages
    <3>4. g <= (gate_age - 1) + 1
      <4>1. g + 1 = gate_age'
        BY <1>g
      <4> QED
        BY <1>ages, <4>1, <2>b
    <3>5. cmd_age - CmdTimeout \in Int
      BY <1>ages
    <3>6. k <= (cmd_age - CmdTimeout) + 1
      <4>1. k + CmdTimeout = cmd_age'
        BY <1>k
      <4> QED
        BY <1>ages, <4>1, <2>c
    <3> QED
      BY <3>1, <3>2, <3>3, <3>4, <3>5, <3>6
  <2>3. FramesSince(Powered, h)' /\ FramesSince({"drive"}, k)'
    BY <1>5, <1>old, <2>2, TickAgesFrames
  <2>4. Stopped => FramesSince(Powered, g)'
    BY <1>5, <1>old, <2>2, TickAgesFrames
  <2>5. gate_state # STATE_ENABLED => FramesSince({"drive"}, g)'
    BY <1>5, <1>old, <2>2, TickAgesFrames
  <2> QED
    BY <2>1, <2>3, <2>4, <2>5 DEF Stopped
<1>6. ASSUME NEW c \in Channel, Poll(c)
      PROVE  /\ FramesSince(Powered, h)'
             /\ Stopped' => FramesSince(Powered, g)'
             /\ FramesSince({"drive"}, k)'
             /\ gate_state' # STATE_ENABLED => FramesSince({"drive"}, g)'
  <2>1. UNCHANGED <<gate_state, gate_age, hb_age, cmd_age>>
    BY <1>6 DEF Poll, BeginCycle, SkipAbsent, FillCommand, SendRecv, callbackVars
  <2>2. <<c, next[c]>> \in Slot
    BY SlotOf DEF TypeInv, BusTypeOK
  <2>3. h = hb_age - HbTimeout /\ g = gate_age - 1 /\ k = cmd_age - CmdTimeout
    BY <1>h, <1>g, <1>k, <2>1
  <2> DEFINE filled == FrameFor(c, <<c, next[c]>>).kind
  <2>4. /\ filled \in Powered => h < cycle_age[c] /\ ~Stopped
        /\ filled \in {"drive"} => k < cycle_age[c] /\ gate_state = STATE_ENABLED
    BY <2>2, <2>3, FilledFrame
  <2> HIDE DEF filled
  <2>5. ASSUME NEW K \in Kinds, NEW a \in Int, FramesSince(K, a),
               filled \in K => a < cycle_age[c]
        PROVE  FramesSince(K, a)'
    BY <1>6, <2>5, PollKeepsFrames DEF filled
  <2>6. FramesSince(Powered, h)' /\ FramesSince({"drive"}, k)'
    BY <1>old, <2>3, <2>4, <2>5
  <2>7. Stopped => FramesSince(Powered, g)'
    BY <1>old, <2>3, <2>4, <2>5
  <2>8. gate_state # STATE_ENABLED => FramesSince({"drive"}, g)'
    BY <1>old, <2>3, <2>4, <2>5
  <2> QED
    BY <2>1, <2>6, <2>7, <2>8 DEF Stopped
<1> QED
  BY <1>1, <1>2, <1>3, <1>4, <1>5, <1>6 DEF BusNext

-----------------------------------------------------------------------------
BusInv == TypeInv /\ LimpInv /\ FrameInv

LEMMA BusInvariant == BusSpec => []BusInv
<1>1. BusInit => BusInv
  BY TypeInvInit, LimpInvInit, FrameInvInit DEF BusInv
<1>2. BusInv /\ [BusNext]_busVars => BusInv'
  BY TypeInvStep, LimpInvStep, FrameInvStep DEF BusInv
<1> QED
  BY <1>1, <1>2, PTL DEF BusSpec

\* No frame with torque, or that drives, outlives the grace of its motor.
LEMMA FramesExpire ==
  ASSUME TypeInv, NEW K \in Kinds, NEW a \in Int, NEW s \in Slot, a >= Grace(s),
         FramesSince(K, a), running
  PROVE  sent[s].kind \notin K
<1>1. /\ cycle_age[s[1]] \in 0..CycleMax /\ probe_wait[s] \in 0..Reprobe
      /\ absent[s] \in BOOLEAN
  BY StandingTyped
<1>2. SinceFrame(s) <= Grace(s) /\ SinceFrame(s) \in Int /\ Grace(s) \in Int
  BY <1>1, Timing DEF SinceFrame, Standing, Grace
<1> QED
  BY <1>2 DEF FramesSince, Live

LEMMA UnpoweredIsFreewheel ==
  ASSUME TypeInv, NEW s \in Slot, sent[s].kind \notin Powered
  PROVE  ~TorqueOn(s)
BY DEF TypeInv, BusTypeOK, Frame, Powered, TorqueOn

\* Once the heartbeat is lost every motor is limp within two poll cycles of the
\* timeout, or a re-probe period later if it is silent and given up, on every
\* channel and however many motors it has.
THEOREM HeartbeatWatchdog == BusSpec => []HeartbeatLossCutsTorque
<1>1. BusInv => HeartbeatLossCutsTorque
  <2> SUFFICES ASSUME BusInv, running, NEW s \in Slot, hb_age >= HbTimeout + Grace(s)
               PROVE  ~TorqueOn(s)
    BY DEF HeartbeatLossCutsTorque
  <2>1. hb_age - HbTimeout \in Int /\ hb_age - HbTimeout >= Grace(s)
    BY Timing DEF Grace, BusInv, TypeInv, BusTypeOK
  <2>2. Powered \in Kinds
    BY DEF Powered, Kinds
  <2>3. sent[s].kind \notin Powered
    BY <2>1, <2>2, FramesExpire DEF BusInv, FrameInv
  <2> QED
    BY <2>3, UnpoweredIsFreewheel DEF BusInv
<1> QED
  BY <1>1, BusInvariant, PTL

\* A hard stop or a restarted safety node leaves every motor limp within its grace.
THEOREM StopGateWatchdog == BusSpec => []StopGateCutsTorque
<1>1. BusInv => StopGateCutsTorque
  <2> SUFFICES ASSUME BusInv, running, Stopped, NEW s \in Slot, gate_age > Grace(s)
               PROVE  ~TorqueOn(s)
    BY DEF StopGateCutsTorque, Stopped
  <2>1. gate_age - 1 \in Int /\ gate_age - 1 >= Grace(s)
    BY Timing DEF Grace, BusInv, TypeInv, BusTypeOK
  <2>2. Powered \in Kinds
    BY DEF Powered, Kinds
  <2>3. sent[s].kind \notin Powered
    BY <2>1, <2>2, FramesExpire DEF BusInv, FrameInv
  <2> QED
    BY <2>3, UnpoweredIsFreewheel DEF BusInv
<1> QED
  BY <1>1, BusInvariant, PTL

\* A stale command drives no motor for longer than its grace.
THEOREM CommandWatchdog == BusSpec => []StaleCommandNotDriven
<1>1. BusInv => StaleCommandNotDriven
  <2> SUFFICES ASSUME BusInv, running, NEW s \in Slot, cmd_age >= CmdTimeout + Grace(s)
               PROVE  sent[s].kind # "drive"
    BY DEF StaleCommandNotDriven
  <2>1. cmd_age - CmdTimeout \in Int /\ cmd_age - CmdTimeout >= Grace(s)
    BY Timing DEF Grace, BusInv, TypeInv, BusTypeOK
  <2>2. sent[s].kind \notin {"drive"}
    BY <2>1, FramesExpire DEF BusInv, FrameInv, Kinds
  <2> QED
    BY <2>2
<1> QED
  BY <1>1, BusInvariant, PTL

\* Neither does any command once the gate is not ENABLED.
THEOREM ReleaseStopsDriving == BusSpec => []ReleaseEndsDriving
<1>1. BusInv => ReleaseEndsDriving
  <2> SUFFICES ASSUME BusInv, running, gate_state # STATE_ENABLED, NEW s \in Slot,
                      gate_age > Grace(s)
               PROVE  sent[s].kind # "drive"
    BY DEF ReleaseEndsDriving
  <2>1. gate_age - 1 \in Int /\ gate_age - 1 >= Grace(s)
    BY Timing DEF Grace, BusInv, TypeInv, BusTypeOK
  <2>2. sent[s].kind \notin {"drive"}
    BY <2>1, FramesExpire DEF BusInv, FrameInv, Kinds
  <2> QED
    BY <2>2
<1> QED
  BY <1>1, BusInvariant, PTL

=============================================================================
