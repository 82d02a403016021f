------------------------- MODULE CalibSessionProofs -------------------------
(***************************************************************************)
(* Theorems about the calibration sessions.  First the static windows of   *)
(* the bus jitter and IMU noise protocols, for any rates, queues, delays,  *)
(* durations and clocks; then the friction protocol and its analyzer, for  *)
(* any number of trials, any thresholds and any operator; and the actuator *)
(* latency protocol, for any joints, durations and releases of the deadman *)
(***************************************************************************)
EXTENDS StaticCalib, FrictionCalib, ActuatorCalib, TLAPS

LEMMA AppendFacts ==
  ASSUME NEW S, NEW s \in Seq(S), NEW e \in S
  PROVE  /\ Append(s, e) \in Seq(S)
         /\ Len(Append(s, e)) = Len(s) + 1
         /\ Append(s, e)[Len(s) + 1] = e
         /\ \A i \in 1..Len(s) : Append(s, e)[i] = s[i]
OBVIOUS

LEMMA TailFacts ==
  ASSUME NEW S, NEW s \in Seq(S), s # <<>>
  PROVE  /\ Tail(s) \in Seq(S) /\ Head(s) \in S /\ Head(s) = s[1]
         /\ Len(s) \in Nat /\ Len(s) > 0
         /\ Len(Tail(s)) = Len(s) - 1
         /\ \A i \in 1..Len(Tail(s)) : Tail(s)[i] = s[i + 1]
OBVIOUS

LEMMA EmptyFacts ==
  ASSUME NEW S
  PROVE  /\ <<>> \in Seq(S) /\ Len(<<>>) = 0
         /\ \A s \in Seq(S) : Len(s) = 0 => s = <<>>
OBVIOUS

\* Without its first reading a queue has what it had, one place earlier.
LEMMA InsideAfterTail ==
  ASSUME NEW s, NEW q, NEW k \in Nat, Len(s) \in Nat, Len(q) = Len(s) - 1,
         \A i \in 1..Len(q) : q[i] = s[i + 1],
         \A i \in 1..Len(s) : i > k => s[i].inside
  PROVE  \A i \in 1..Len(q) : i + 1 > k => q[i].inside
<1> TAKE i \in 1..Len(q)
<1>1. i + 1 \in 1..Len(s) /\ q[i] = s[i + 1]
  OBVIOUS
<1> QED
  BY <1>1

\* A queue with a reading more.
LEMMA QueuedFacts ==
  ASSUME NEW s \in Seq(Reading), Len(s) <= QueueDepth, NEW r \in Reading
  PROVE  /\ Queued(s, r) \in Seq(Reading)
         /\ Len(Queued(s, r)) <= QueueDepth
         /\ \/ /\ Len(Queued(s, r)) = Len(s) + 1
               /\ \A i \in 1..Len(s) : Queued(s, r)[i] = s[i]
               /\ Queued(s, r)[Len(s) + 1] = r
            \/ /\ Len(Queued(s, r)) = Len(s) /\ Len(s) > 0
               /\ \A i \in 1..(Len(s) - 1) : Queued(s, r)[i] = s[i + 1]
               /\ Queued(s, r)[Len(s)] = r
<1> USE StaticAssumption
<1>1. CASE Len(s) < QueueDepth
  <2>1. Queued(s, r) = Append(s, r)
    BY <1>1 DEF Queued
  <2>2. /\ Append(s, r) \in Seq(Reading) /\ Len(Append(s, r)) = Len(s) + 1
        /\ Append(s, r)[Len(s) + 1] = r
        /\ \A i \in 1..Len(s) : Append(s, r)[i] = s[i]
    BY AppendFacts
  <2>3. Len(s) \in Nat
    OBVIOUS
  <2> QED
    BY <1>1, <2>1, <2>2, <2>3
<1>2. CASE ~(Len(s) < QueueDepth)
  <2>1. s # <<>>
    BY <1>2
  <2>2. /\ Tail(s) \in Seq(Reading) /\ Len(Tail(s)) = Len(s) - 1 /\ Len(s) > 0
        /\ \A i \in 1..(Len(s) - 1) : Tail(s)[i] = s[i + 1]
    BY <2>1, TailFacts
  <2>3. Queued(s, r) = Append(Tail(s), r)
    BY <1>2 DEF Queued
  <2> DEFINE t == Tail(s)
  <2>4. t \in Seq(Reading) /\ Len(t) = Len(s) - 1
    BY <2>2
  <2> HIDE DEF t
  <2>5. /\ Append(t, r) \in Seq(Reading) /\ Len(Append(t, r)) = Len(t) + 1
        /\ Append(t, r)[Len(t) + 1] = r
        /\ \A i \in 1..Len(t) : Append(t, r)[i] = t[i]
    BY <2>4, AppendFacts
  <2>6. Queued(s, r) = Append(t, r)
    BY <2>3 DEF t
  <2>7. \A i \in 1..(Len(s) - 1) : t[i] = s[i + 1]
    BY <2>2 DEF t
  <2> QED
    <3> DEFINE q == Append(t, r)
    <3>1. /\ q \in Seq(Reading) /\ Len(q) = Len(s) /\ q[Len(s)] = r
          /\ \A i \in 1..(Len(s) - 1) : q[i] = s[i + 1]
      BY <2>2, <2>4, <2>5, <2>7
    <3> HIDE DEF q
    <3>2. Queued(s, r) = q
      BY <2>6 DEF q
    <3> QED
      BY <2>2, <3>1, <3>2
<1> QED
  BY <1>1, <1>2

\* The mark that is emitted joins those under way, or is lost on a recorder that is late.
LEMMA EmitFacts ==
  ASSUME StaticTypeOK, lag <= BagDelay, NEW label \in Labels, Emit(label)
  PROVE  /\ marks' \in Seq(Labels) /\ lag' \in Nat /\ lag' <= BagDelay
         /\ recorder # "recording" => marks' = marks
         /\ recorder = "recording" =>
              /\ Len(marks') = Len(marks) + 1 /\ marks'[Len(marks) + 1] = label
              /\ \A i \in 1..Len(marks) : marks'[i] = marks[i]
         /\ Len(marks) = 0 => lag' = 0
<1> USE StaticAssumption DEF StaticTypeOK, Emit
<1>1. recorder = "recording" => marks' = Append(marks, label)
  OBVIOUS
<1>2. /\ Append(marks, label) \in Seq(Labels)
      /\ Len(Append(marks, label)) = Len(marks) + 1
      /\ Append(marks, label)[Len(marks) + 1] = label
      /\ \A i \in 1..Len(marks) : Append(marks, label)[i] = marks[i]
  BY AppendFacts
<1>3. recorder # "recording" => marks' = marks
  OBVIOUS
<1>4. lag' \in Nat /\ lag' <= BagDelay
  OBVIOUS
<1>5. Len(marks) = 0 => lag' = 0
  BY EmptyFacts
<1> QED
  BY <1>1, <1>2, <1>3, <1>4, <1>5

\* What every step keeps of the types and of the bounds on what is under way.
LEMMA TypeStep ==
  ASSUME StaticTypeOK, Len(wire) <= BagDelay, lag <= BagDelay, [StaticNext]_staticVars
  PROVE  StaticTypeOK' /\ Len(wire)' <= BagDelay /\ lag' <= BagDelay
<1> USE StaticAssumption DEF StaticTypeOK, nodeVars, bagVars, transitVars, Count
<1>1. ASSUME NEW bad \in BOOLEAN, Publish(bad)
      PROVE  StaticTypeOK' /\ Len(wire)' <= BagDelay /\ lag' <= BagDelay
  <2> DEFINE r == [inside |-> stage = "collect", bad |-> bad]
  <2>1. r \in Reading
    BY DEF Reading
  <2>2. /\ UNCHANGED <<nodeVars, bagVars, marks, alone>>
        /\ wire' = IF recorder = "recording" THEN Append(wire, r) ELSE wire
        /\ inbox' = Queued(inbox, r)
        /\ lag' = IF marks = <<>> THEN 0 ELSE lag + 1
        /\ recorder = "recording" => Len(wire) < BagDelay
        /\ marks # <<>> => lag < BagDelay
    BY <1>1 DEF Publish
  <2> HIDE DEF r
  <2>3. inbox' \in Seq(Reading)
    <3>1. inbox = <<>> \/ Tail(inbox) \in Seq(Reading)
      BY TailFacts
    <3>2. Append(<<>>, r) \in Seq(Reading)
      BY <2>1
    <3> QED
      BY <2>1, <2>2, <3>1 DEF Queued
  <2>4. wire' \in Seq(Reading) /\ Len(wire)' <= BagDelay
    BY <2>1, <2>2
  <2>5. lag' \in Nat /\ lag' <= BagDelay
    BY <2>2
  <2> QED
    BY <2>2, <2>3, <2>4, <2>5
<1>2. CASE OnReading
  BY <1>2 DEF OnReading, Reading
<1>3. ASSUME NEW lapse \in Lapses, TickWaiting(lapse)
      PROVE  StaticTypeOK' /\ Len(wire)' <= BagDelay /\ lag' <= BagDelay
  BY <1>3 DEF TickWaiting
<1>4. ASSUME NEW lapse \in Lapses, TickBegin(lapse)
      PROVE  StaticTypeOK' /\ Len(wire)' <= BagDelay /\ lag' <= BagDelay
  BY <1>4, EmitFacts DEF TickBegin, Labels
<1>5. ASSUME NEW lapse \in Lapses, TickEnd(lapse)
      PROVE  StaticTypeOK' /\ Len(wire)' <= BagDelay /\ lag' <= BagDelay
  BY <1>5, EmitFacts DEF TickEnd, Labels
<1>6. CASE RecorderStarts
  BY <1>6 DEF RecorderStarts
<1>7. CASE RecordReading
  BY <1>7, TailFacts DEF RecordReading
<1>8. CASE RecordMark
  BY <1>8, TailFacts DEF RecordMark
<1>9. ASSUME NEW label \in Labels, ForeignMark(label)
      PROVE  StaticTypeOK' /\ Len(wire)' <= BagDelay /\ lag' <= BagDelay
  BY <1>9, EmitFacts DEF ForeignMark
<1>10. CASE StopLaunch
  BY <1>10 DEF StopLaunch
<1>11. CASE UNCHANGED staticVars
  BY <1>11 DEF staticVars
<1> QED
  BY <1>1, <1>2, <1>3, <1>4, <1>5, <1>6, <1>7, <1>8, <1>9, <1>10, <1>11
  DEF StaticNext, StaticTick, Labels

\* A reading of the node's queue: at most the first are from before the window.
LEMMA PublishQueue ==
  ASSUME StaticTypeOK, QueueInv, NEW bad \in BOOLEAN, Publish(bad)
  PROVE  QueueInv'
<1> USE StaticAssumption DEF StaticTypeOK
<1> DEFINE r == [inside |-> stage = "collect", bad |-> bad]
           q == Queued(inbox, r)
<1>1. r \in Reading /\ (stage = "collect" => r.inside)
  BY DEF Reading
<1>2. inbox' = q /\ n_outside' = n_outside /\ stage' = stage
  BY DEF Publish, nodeVars
<1>3. Len(inbox) <= QueueDepth /\ Len(inbox) \in Nat
  BY DEF QueueInv
<1> HIDE DEF r
<1>4. /\ q \in Seq(Reading) /\ Len(q) <= QueueDepth
      /\ \/ /\ Len(q) = Len(inbox) + 1
            /\ \A i \in 1..Len(inbox) : q[i] = inbox[i]
            /\ q[Len(inbox) + 1] = r
         \/ /\ Len(q) = Len(inbox) /\ Len(inbox) > 0
            /\ \A i \in 1..(Len(inbox) - 1) : q[i] = inbox[i + 1]
            /\ q[Len(inbox)] = r
  BY <1>1, <1>3, QueuedFacts
<1> HIDE DEF q
<1>5. ASSUME stage = "collect"
      PROVE  \E k \in 0..QueueDepth :
               /\ n_outside + k <= QueueDepth
               /\ \A i \in 1..Len(q) : i > k => q[i].inside
  <2>1. PICK k \in 0..QueueDepth :
          /\ n_outside + k <= QueueDepth
          /\ \A i \in 1..Len(inbox) : i > k => inbox[i].inside
    BY <1>5 DEF QueueInv
  <2>2. ASSUME NEW i \in 1..Len(q), i > k
        PROVE  q[i].inside
    <3>1. CASE Len(q) = Len(inbox) + 1 /\ i \in 1..Len(inbox)
      <4>1. q[i] = inbox[i]
        BY <1>3, <1>4, <3>1
      <4> QED
        BY <2>1, <2>2, <3>1, <4>1
    <3>2. CASE Len(q) = Len(inbox) /\ i \in 1..(Len(inbox) - 1)
      <4>1. q[i] = inbox[i + 1]
        BY <1>3, <1>4, <3>2
      <4>2. i + 1 \in 1..Len(inbox) /\ i + 1 > k
        BY <1>3, <2>2, <3>2
      <4> QED
        BY <2>1, <4>1, <4>2
    <3>3. CASE q[i] = r
      BY <1>1, <1>5, <3>3, Zenon
    <3> QED
      BY <1>3, <1>4, <2>2, <3>1, <3>2, <3>3
  <2> QED
    BY <2>1, <2>2
<1> QED
  BY <1>2, <1>4, <1>5 DEF QueueInv

LEMMA OnReadingQueue ==
  ASSUME StaticTypeOK, QueueInv, OnReading
  PROVE  QueueInv'
<1> USE StaticAssumption DEF StaticTypeOK
<1> DEFINE q == Tail(inbox)
<1>1. /\ inbox' = q /\ stage' = stage
      /\ n_outside' = IF stage = "collect" /\ ~Head(inbox).inside
                     THEN n_outside + 1 ELSE n_outside
  BY DEF OnReading, Count, Collects
<1>2. /\ q \in Seq(Reading) /\ Len(q) = Len(inbox) - 1 /\ Head(inbox) = inbox[1]
      /\ Len(inbox) \in Nat /\ Len(inbox) > 0
      /\ \A i \in 1..Len(q) : q[i] = inbox[i + 1]
  BY TailFacts DEF OnReading
<1> HIDE DEF q
<1>3. CASE stage # "collect"
  BY <1>1, <1>2, <1>3 DEF QueueInv
<1>4. CASE stage = "collect"
  <2>1. PICK k \in 0..QueueDepth :
          /\ n_outside + k <= QueueDepth
          /\ \A i \in 1..Len(inbox) : i > k => inbox[i].inside
    BY <1>4 DEF QueueInv
  <2>a. k \in Int /\ 0 <= k /\ n_outside + k <= QueueDepth /\ n_outside \in Int
    BY <2>1
  <2>c. \A i \in 1..Len(q) : i + 1 > k => q[i].inside
    <3>1. k \in Nat
      BY <2>a
    <3> QED
      BY ONLY <1>2, <2>1, <3>1, InsideAfterTail
  <2> DEFINE m == n_outside'
  <2>b. ASSUME NEW j \in 0..QueueDepth, m + j <= QueueDepth, m <= QueueDepth,
               \A i \in 1..Len(q) : i > j => q[i].inside
        PROVE  QueueInv'
    <3>1. /\ Len(q) <= QueueDepth /\ inbox' = q /\ n_outside' = m
          /\ stage' = "collect" /\ stage' # "settle"
      BY <1>1, <1>2, <1>4 DEF QueueInv
    <3> HIDE DEF m
    <3>2. \E k1 \in 0..QueueDepth :
            m + k1 <= QueueDepth /\ \A i \in 1..Len(q) : i > k1 => q[i].inside
      BY <2>b
    <3> QED
      BY <2>b, <3>1, <3>2, Zenon DEF QueueInv
  <2>2. CASE k = 0
    <3>1. inbox[1].inside
      BY <1>2, <2>1, <2>2
    <3>2. m = n_outside
      BY <1>1, <1>2, <3>1
    <3>3. \A i \in 1..Len(q) : i > k => q[i].inside
      BY <1>2, <2>2, <2>c
    <3> HIDE DEF m
    <3>4. m + k <= QueueDepth /\ m <= QueueDepth
      BY <2>a, <2>2, <3>2
    <3> QED
      BY <2>b, <2>2, <3>3, <3>4
  <2>3. CASE k > 0
    <3>1. m \in Nat /\ m <= n_outside + 1
      BY <1>1
    <3> HIDE DEF m
    <3>2. k - 1 \in 0..QueueDepth /\ m + (k - 1) <= QueueDepth
      BY <2>a, <2>3, <3>1
    <3>3. \A i \in 1..Len(q) : i > k - 1 => q[i].inside
      BY <1>2, <2>a, <2>c
    <3>4. m <= QueueDepth
      BY <2>a, <2>3, <3>1
    <3> QED
      BY <2>b, <3>2, <3>3, <3>4
  <2> QED
    BY <2>2, <2>3
<1> QED
  BY <1>3, <1>4

LEMMA QueueStep ==
  ASSUME StaticTypeOK, QueueInv, [StaticNext]_staticVars
  PROVE  QueueInv'
<1> USE StaticAssumption
<1>1. ASSUME NEW lapse \in Lapses, TickWaiting(lapse)
      PROVE  QueueInv'
  BY <1>1 DEF TickWaiting, QueueInv
<1>2. ASSUME NEW lapse \in Lapses, TickBegin(lapse)
      PROVE  QueueInv'
  <2>1. /\ stage = "settle" /\ stage' = "collect"
        /\ inbox' = inbox /\ n_outside' = n_outside
    BY <1>2 DEF TickBegin
  <2>2. Len(inbox) \in Nat /\ Len(inbox) <= QueueDepth /\ n_outside = 0
    BY <2>1 DEF StaticTypeOK, QueueInv
  <2> QED
    BY <2>1, <2>2 DEF QueueInv
<1>3. ASSUME NEW lapse \in Lapses, TickEnd(lapse)
      PROVE  QueueInv'
  BY <1>3, EmptyFacts DEF TickEnd, QueueInv
<1>4. CASE RecorderStarts \/ RecordReading \/ RecordMark
  BY <1>4 DEF RecorderStarts, RecordReading, RecordMark, nodeVars, QueueInv
<1>5. ASSUME NEW label \in Labels, ForeignMark(label)
      PROVE  QueueInv'
  BY <1>5 DEF ForeignMark, nodeVars, QueueInv
<1>6. CASE StopLaunch
  BY <1>6, EmptyFacts DEF StopLaunch, QueueInv
<1>7. CASE UNCHANGED staticVars
  BY <1>7 DEF staticVars, QueueInv
<1> QED
  BY <1>1, <1>2, <1>3, <1>4, <1>5, <1>6, <1>7, PublishQueue, OnReadingQueue
  DEF StaticNext, StaticTick, Labels

\* One mark of each kind, in order, as long as no other node marks.
LEMMA MarksStep ==
  ASSUME StaticTypeOK, lag <= BagDelay, MarksInv, [StaticNext]_staticVars,
         \A label \in Labels : ~ForeignMark(label)
  PROVE  MarksInv'
<1> USE DEF StaticTypeOK, nodeVars, bagVars, transitVars
<1> DEFINE len == Len(marks)
<1>a. len \in Nat
  OBVIOUS
<1>1. ASSUME NEW bad \in BOOLEAN, Publish(bad)
      PROVE  MarksInv'
  <2>1. /\ UNCHANGED <<stage, recorder, marks, began, over>>
        /\ recorder # "recording" => wire' = wire
    BY <1>1, Zenon DEF Publish
  <2> QED
    BY <2>1 DEF MarksInv
<1>2. CASE OnReading
  BY <1>2 DEF OnReading, MarksInv
<1>3. ASSUME NEW lapse \in Lapses, TickWaiting(lapse)
      PROVE  MarksInv'
  BY <1>3 DEF TickWaiting, MarksInv
<1>4. ASSUME NEW lapse \in Lapses, TickBegin(lapse)
      PROVE  MarksInv'
  <2>1. /\ stage = "settle" /\ stage' = "collect"
        /\ UNCHANGED <<recorder, began, over, wire>>
        /\ Emit("static_begin")
    BY <1>4, Zenon DEF TickBegin
  <2>2. "static_begin" \in Labels
    BY DEF Labels
  <2>3. /\ recorder # "recording" => marks' = marks
        /\ recorder = "recording" => Len(marks') = 1 /\ marks'[1] = "static_begin"
    BY <2>1, <2>2, EmitFacts DEF MarksInv
  <2> QED
    BY <2>1, <2>3 DEF MarksInv
<1>5. ASSUME NEW lapse \in Lapses, TickEnd(lapse)
      PROVE  MarksInv'
  <2>1. /\ stage = "collect" /\ stage' = "done"
        /\ UNCHANGED <<recorder, began, over, wire>>
        /\ Emit("static_end")
    BY <1>5, Zenon DEF TickEnd
  <2>2. "static_end" \in Labels
    BY DEF Labels
  <2>3. /\ recorder # "recording" => marks' = marks
        /\ recorder = "recording" =>
             /\ Len(marks') = len + 1 /\ marks'[len + 1] = "static_end"
             /\ \A i \in 1..len : marks'[i] = marks[i]
    BY <2>1, <2>2, EmitFacts
  <2>4. recorder # "closed" /\ ~over
    BY <2>1 DEF MarksInv
  <2>5. CASE recorder = "late"
    <3>1. Len(marks') = 0 /\ ~began /\ Len(wire) = 0
      BY <2>3, <2>5 DEF MarksInv
    <3> QED
      BY <2>1, <2>4, <2>5, <3>1 DEF MarksInv
  <2>6. CASE recorder = "recording"
    <3>1. \/ Len(marks') = 1 /\ marks'[1] = "static_end"
          \/ /\ Len(marks') = 2 /\ marks'[1] = "static_begin"
             /\ marks'[2] = "static_end" /\ ~began
      <4>1. CASE len = 0
        BY <2>3, <2>6, <4>1
      <4>2. CASE len = 1 /\ marks[1] = "static_begin" /\ ~began
        BY <2>3, <2>6, <4>2
      <4> QED
        BY <2>1, <4>1, <4>2 DEF MarksInv
    <3> QED
      BY <2>1, <2>4, <2>6, <3>1 DEF MarksInv
  <2> QED
    BY <2>4, <2>5, <2>6
<1>6. CASE RecorderStarts
  BY <1>6 DEF RecorderStarts, MarksInv
<1>7. CASE RecordReading
  BY <1>7 DEF RecordReading, MarksInv
<1>8. CASE RecordMark
  <2>1. /\ recorder = "recording" /\ marks # <<>> /\ marks' = Tail(marks)
        /\ UNCHANGED <<stage, recorder, wire>>
        /\ began' = (began \/ Head(marks) = "static_begin")
        /\ over' = (over \/ Head(marks) = "static_end")
    BY <1>8, Zenon DEF RecordMark
  <2>2. /\ Len(marks') = len - 1 /\ len > 0 /\ Head(marks) = marks[1]
        /\ \A i \in 1..Len(marks') : marks'[i] = marks[i + 1]
    BY <2>1, TailFacts
  <2>3. CASE stage = "collect"
    <3>1. len = 1 /\ marks[1] = "static_begin" /\ ~over
      BY <2>2, <2>3 DEF MarksInv
    <3>2. ~over' /\ Len(marks') = 0
      BY <2>1, <2>2, <3>1
    <3> QED
      BY <2>1, <2>3, <3>2 DEF MarksInv
  <2>4. CASE stage = "done"
    <3>1. CASE len = 1 /\ marks[1] = "static_end"
      <4>1. over'
        BY <2>1, <2>2, <3>1, Zenon
      <4>2. Len(marks') = 0
        BY <2>2, <3>1
      <4> QED
        BY <2>1, <2>4, <4>1, <4>2 DEF MarksInv
    <3>2. CASE len = 2 /\ marks[2] = "static_end"
      <4>1. Len(marks') = 1 /\ marks'[1] = "static_end"
        BY <2>2, <3>2
      <4> QED
        BY <2>1, <2>4, <4>1 DEF MarksInv
    <3> QED
      BY <2>1, <2>2, <2>4, <3>1, <3>2 DEF MarksInv
  <2> QED
    BY <2>1, <2>2, <2>3, <2>4 DEF MarksInv
<1>9. CASE StopLaunch
  BY <1>9, EmptyFacts DEF StopLaunch, MarksInv
<1>10. CASE UNCHANGED staticVars
  BY <1>10 DEF staticVars, MarksInv
<1> QED
  BY <1>1, <1>2, <1>3, <1>4, <1>5, <1>6, <1>7, <1>8, <1>9, <1>10
  DEF StaticNext, StaticTick, Labels

\* A reading joins the wire, from inside the window or behind it; one is recorded.
LEMMA CrossingAppend ==
  ASSUME NEW w \in Seq(Reading), NEW r \in Reading, NEW k \in Nat, NEW p \in Nat,
         k + p <= Len(w), Crossing(w, k, p)
  PROVE  /\ Crossing(Append(w, r), k, p + 1)
         /\ p = 0 /\ r.inside => Crossing(Append(w, r), k, 0)
<1> DEFINE v == Append(w, r)
<1>1. /\ Len(w) \in Nat /\ Len(v) = Len(w) + 1 /\ v[Len(w) + 1] = r
      /\ \A i \in 1..Len(w) : v[i] = w[i]
  BY AppendFacts
<1> HIDE DEF v
<1>2. Crossing(v, k, p + 1)
  <2> SUFFICES ASSUME NEW i \in 1..Len(v), k < i, i <= Len(v) - (p + 1)
               PROVE  v[i].inside
    BY DEF Crossing
  <2>1. i \in 1..Len(w) /\ i <= Len(w) - p
    BY <1>1
  <2> QED
    BY <1>1, <2>1 DEF Crossing
<1>3. ASSUME p = 0, r.inside
      PROVE  Crossing(v, k, 0)
  <2> SUFFICES ASSUME NEW i \in 1..Len(v), k < i
               PROVE  v[i].inside
    BY DEF Crossing
  <2>1. CASE i \in 1..Len(w)
    BY <1>1, <1>3, <2>1 DEF Crossing
  <2>2. CASE i = Len(w) + 1
    BY <1>1, <1>3, <2>2
  <2> QED
    BY <1>1, <2>1, <2>2
<1> QED
  BY <1>2, <1>3 DEF v

LEMMA CrossingTail ==
  ASSUME NEW w \in Seq(Reading), w # <<>>, NEW k \in Nat, NEW p \in Nat,
         k + p <= Len(w), Crossing(w, k, p)
  PROVE  /\ k > 0 => Crossing(Tail(w), k - 1, p)
         /\ k = 0 /\ p < Len(w) => w[1].inside /\ Crossing(Tail(w), 0, p)
         /\ k = 0 /\ p = Len(w) => p > 0 /\ Crossing(Tail(w), 0, p - 1)
<1> DEFINE v == Tail(w)
<1>1. /\ Len(w) \in Nat /\ Len(w) > 0 /\ Len(v) = Len(w) - 1
      /\ \A i \in 1..Len(v) : v[i] = w[i + 1]
  BY TailFacts
<1> HIDE DEF v
<1>2. ASSUME k > 0
      PROVE  Crossing(v, k - 1, p)
  <2> SUFFICES ASSUME NEW i \in 1..Len(v), k - 1 < i, i <= Len(v) - p
               PROVE  v[i].inside
    BY DEF Crossing
  <2>1. i + 1 \in 1..Len(w) /\ k < i + 1 /\ i + 1 <= Len(w) - p
    BY <1>1
  <2> QED
    BY <1>1, <2>1 DEF Crossing
<1>3. ASSUME k = 0, p < Len(w)
      PROVE  w[1].inside /\ Crossing(v, 0, p)
  <2>1. w[1].inside
    <3>1. 1 \in 1..Len(w) /\ k < 1 /\ 1 <= Len(w) - p
      BY <1>1, <1>3
    <3> QED
      BY <3>1 DEF Crossing
  <2>2. ASSUME NEW i \in 1..Len(v), 0 < i, i <= Len(v) - p
        PROVE  v[i].inside
    <3>1. i + 1 \in 1..Len(w) /\ k < i + 1 /\ i + 1 <= Len(w) - p
      BY <1>1, <1>3, <2>2
    <3> QED
      BY <1>1, <2>2, <3>1 DEF Crossing
  <2> QED
    BY <2>1, <2>2 DEF Crossing
<1>4. ASSUME k = 0, p = Len(w)
      PROVE  p > 0 /\ Crossing(v, 0, p - 1)
  BY <1>1, <1>4 DEF Crossing
<1> QED
  BY <1>2, <1>3, <1>4 DEF v

\* A foreign reading gets into the bag's window only by crossing one of its marks.
LEMMA PublishWindow ==
  ASSUME StaticTypeOK, Len(wire) <= BagDelay, MarksInv, WindowInv,
         NEW bad \in BOOLEAN, Publish(bad)
  PROVE  WindowInv'
<1> USE StaticAssumption DEF StaticTypeOK
<1> DEFINE r == [inside |-> stage = "collect", bad |-> bad]
           v == Append(wire, r)
           l == lag'
<1>1. /\ r \in Reading /\ (stage = "collect" => r.inside)
      /\ Len(wire) \in Nat
  <2>1. r \in Reading /\ (stage = "collect" => r.inside)
    BY DEF Reading
  <2>2. Len(wire) \in Nat
    OBVIOUS
  <2> QED
    BY <2>1, <2>2
<1>2. /\ UNCHANGED <<stage, recorder, marks, began, over, bag_outside>>
      /\ wire' = IF recorder = "recording" THEN v ELSE wire
      /\ l = IF marks = <<>> THEN 0 ELSE lag + 1
      /\ recorder = "recording" => Len(wire) < BagDelay
  BY DEF Publish, nodeVars, bagVars
<1> HIDE DEF r
<1>3. v \in Seq(Reading) /\ Len(v) = Len(wire) + 1
  BY <1>1, AppendFacts
<1> HIDE DEF l
<1>4. ASSUME stage = "collect", began
      PROVE  \E k \in 0..BagDelay :
               bag_outside + k <= BagDelay /\ k <= Len(wire') /\ Crossing(wire', k, 0)
  <2>1. PICK k \in 0..BagDelay :
          bag_outside + k <= BagDelay /\ k <= Len(wire) /\ Crossing(wire, k, 0)
    BY <1>4 DEF WindowInv
  <2>2. recorder = "recording"
    BY <1>4 DEF MarksInv
  <2>3. Crossing(v, k, 0)
    BY <1>1, <1>4, <2>1, CrossingAppend
  <2> HIDE DEF v
  <2> QED
    BY <1>1, <1>2, <1>3, <2>1, <2>2, <2>3
<1>5. ASSUME stage = "done", recorder # "closed", began, ~over
      PROVE  \E k, p \in 0..BagDelay :
               /\ bag_outside + k + p <= BagDelay + l
               /\ k + p <= Len(wire') /\ Crossing(wire', k, p)
  <2>1. PICK k \in 0..BagDelay, p \in 0..BagDelay :
          /\ bag_outside + k + p <= BagDelay + lag
          /\ k + p <= Len(wire) /\ Crossing(wire, k, p)
    BY <1>5 DEF WindowInv
  <2>2. recorder = "recording" /\ marks # <<>>
    <3>1. recorder = "recording" /\ Len(marks) = 1
      BY <1>5 DEF MarksInv
    <3>2. marks = <<>> => Len(marks) = 0
      OBVIOUS
    <3> QED
      BY <3>1, <3>2
  <2>3. Crossing(v, k, p + 1)
    BY <1>1, <2>1, CrossingAppend
  <2> HIDE DEF v
  <2>4. wire' = v /\ l = lag + 1 /\ Len(wire) < BagDelay
    BY <1>2, <2>2
  <2>5. /\ p + 1 \in 0..BagDelay
        /\ bag_outside + k + (p + 1) <= BagDelay + l
        /\ k + (p + 1) <= Len(v)
    BY <1>1, <1>3, <2>1, <2>4
  <2> QED
    BY <2>1, <2>3, <2>4, <2>5
<1>6. ~began => bag_outside = 0
  BY DEF WindowInv
<1> QED
  BY <1>2, <1>4, <1>5, <1>6 DEF WindowInv, l

LEMMA RecordReadingWindow ==
  ASSUME StaticTypeOK, lag <= BagDelay, MarksInv, WindowInv, RecordReading
  PROVE  WindowInv'
<1> USE StaticAssumption DEF StaticTypeOK
<1> DEFINE v == Tail(wire)
           b == bag_outside'
<1>1. /\ UNCHANGED <<stage, recorder, marks, began, over, lag>>
      /\ recorder = "recording" /\ wire # <<>> /\ wire' = v
      /\ b = IF (began /\ ~over) /\ ~Head(wire).inside
             THEN bag_outside + 1 ELSE bag_outside
  BY DEF RecordReading, nodeVars, Count, InWindow
<1>2. /\ v \in Seq(Reading) /\ Len(v) = Len(wire) - 1 /\ Head(wire) = wire[1]
      /\ Len(wire) \in Nat /\ Len(wire) > 0
  BY <1>1, TailFacts
<1>3. b \in Nat /\ b <= bag_outside + 1
  BY <1>1
<1>4. /\ ~(began /\ ~over) => b = bag_outside
      /\ wire[1].inside => b = bag_outside
  BY <1>1, <1>2
<1> HIDE DEF b
<1>5. ASSUME stage = "collect", began
      PROVE  \E k \in 0..BagDelay : b + k <= BagDelay /\ k <= Len(v) /\ Crossing(v, k, 0)
  <2>1. PICK k \in 0..BagDelay :
          bag_outside + k <= BagDelay /\ k <= Len(wire) /\ Crossing(wire, k, 0)
    BY <1>5 DEF WindowInv
  <2>2. /\ k > 0 => Crossing(v, k - 1, 0)
        /\ k = 0 => wire[1].inside /\ Crossing(v, 0, 0)
    BY <1>1, <1>2, <2>1, CrossingTail
  <2> HIDE DEF v
  <2>3. CASE k > 0
    <3>1. k - 1 \in 0..BagDelay /\ b + (k - 1) <= BagDelay /\ k - 1 <= Len(v)
      BY <1>2, <1>3, <2>1, <2>3
    <3> QED
      BY <2>2, <2>3, <3>1
  <2>4. CASE k = 0
    <3>1. k \in 0..BagDelay /\ b + k <= BagDelay /\ k <= Len(v)
      BY <1>2, <1>4, <2>1, <2>2, <2>4
    <3> QED
      BY <2>2, <2>4, <3>1
  <2> QED
    BY <2>1, <2>3, <2>4
<1>6. ASSUME stage = "done", recorder # "closed", began, ~over
      PROVE  \E k, p \in 0..BagDelay :
               b + k + p <= BagDelay + lag /\ k + p <= Len(v) /\ Crossing(v, k, p)
  <2>1. PICK k \in 0..BagDelay, p \in 0..BagDelay :
          /\ bag_outside + k + p <= BagDelay + lag
          /\ k + p <= Len(wire) /\ Crossing(wire, k, p)
    BY <1>6 DEF WindowInv
  <2>2. /\ k > 0 => Crossing(v, k - 1, p)
        /\ k = 0 /\ p < Len(wire) => wire[1].inside /\ Crossing(v, 0, p)
        /\ k = 0 /\ p = Len(wire) => p > 0 /\ Crossing(v, 0, p - 1)
    BY <1>1, <2>1, CrossingTail
  <2> HIDE DEF v
  <2>3. CASE k > 0
    <3>1. k - 1 \in 0..BagDelay /\ b + (k - 1) + p <= BagDelay + lag /\ (k - 1) + p <= Len(v)
      BY <1>2, <1>3, <2>1, <2>3
    <3> QED
      BY <2>1, <2>2, <2>3, <3>1
  <2>4. CASE k = 0 /\ p < Len(wire)
    <3>1. b + 0 + p <= BagDelay + lag /\ 0 + p <= Len(v) /\ 0 \in 0..BagDelay
      BY <1>2, <1>4, <2>1, <2>2, <2>4
    <3> QED
      BY <2>1, <2>2, <2>4, <3>1
  <2>5. CASE k = 0 /\ p = Len(wire)
    <3>1. /\ b + 0 + (p - 1) <= BagDelay + lag /\ 0 + (p - 1) <= Len(v)
          /\ 0 \in 0..BagDelay /\ p - 1 \in 0..BagDelay
      BY <1>2, <1>3, <2>1, <2>2, <2>5
    <3> QED
      BY <2>2, <2>5, <3>1
  <2> QED
    BY <1>2, <2>1, <2>3, <2>4, <2>5
<1>7. ~began => b = 0
  BY <1>4 DEF WindowInv
<1>8. b <= 2 * BagDelay
  <2>1. CASE ~(began /\ ~over)
    BY <1>4, <2>1 DEF WindowInv
  <2>2. CASE began /\ ~over /\ stage = "collect"
    BY <1>3, <1>5, <2>2
  <2>3. CASE began /\ ~over /\ stage = "done"
    <3>1. recorder # "closed"
      BY <1>1
    <3>2. PICK k \in 0..BagDelay, p \in 0..BagDelay : b + k + p <= BagDelay + lag
      BY <1>6, <2>3, <3>1
    <3> QED
      BY <1>3, <3>2
  <2> QED
    BY <1>1, <2>1, <2>2, <2>3 DEF MarksInv
<1> QED
  BY <1>1, <1>5, <1>6, <1>7, <1>8 DEF WindowInv, b

\* The mark that begins the window finds at most what the wire holds, the one that
\* ends it none that came after.
LEMMA RecordMarkWindow ==
  ASSUME StaticTypeOK, Len(wire) <= BagDelay, MarksInv, WindowInv, RecordMark
  PROVE  WindowInv'
<1> USE StaticAssumption DEF StaticTypeOK
<1> DEFINE l == lag'
<1>1. /\ UNCHANGED <<stage, recorder, wire, bag_outside>>
      /\ recorder = "recording" /\ marks # <<>> /\ l = 0
  BY DEF RecordMark, nodeVars
<1>2. began' = (began \/ Head(marks) = "static_begin")
  BY DEF RecordMark
<1>3. over' = (over \/ Head(marks) = "static_end")
  BY DEF RecordMark
<1>4. Head(marks) = marks[1] /\ Len(marks) > 0 /\ Len(wire) \in Nat
  BY <1>1, TailFacts
<1> HIDE DEF l
<1>5. Crossing(wire, Len(wire), 0) /\ Len(wire) \in 0..BagDelay
  BY <1>4 DEF Crossing
<1>6. bag_outside <= 2 * BagDelay /\ (~began' => bag_outside = 0)
  <2>1. ~began' => ~began
    BY <1>2, Zenon
  <2> QED
    BY <2>1 DEF WindowInv
<1>7. ASSUME stage = "collect"
      PROVE  \E k \in 0..BagDelay :
               bag_outside + k <= BagDelay /\ k <= Len(wire) /\ Crossing(wire, k, 0)
  <2>1. bag_outside = 0
    BY <1>4, <1>7 DEF MarksInv, WindowInv
  <2>2. bag_outside + Len(wire) <= BagDelay
    BY <1>5, <2>1
  <2> QED
    BY <1>4, <1>5, <2>2
<1>8. ASSUME stage = "done", began', ~over'
      PROVE  \E k, p \in 0..BagDelay :
               /\ bag_outside + k + p <= BagDelay + l
               /\ k + p <= Len(wire) /\ Crossing(wire, k, p)
  <2>1. marks[1] # "static_end"
    BY <1>3, <1>4, <1>8, Zenon
  <2>2. ~began
    BY <1>1, <1>4, <1>8, <2>1 DEF MarksInv
  <2>3. bag_outside = 0
    BY <2>2 DEF WindowInv
  <2>4. 0 \in 0..BagDelay /\ bag_outside + Len(wire) + 0 <= BagDelay + l
        /\ Len(wire) + 0 <= Len(wire)
    BY <1>1, <1>5, <2>3
  <2> QED
    BY <1>5, <2>4
<1> QED
  BY <1>1, <1>6, <1>7, <1>8 DEF WindowInv, l

LEMMA TickWindow ==
  ASSUME StaticTypeOK, lag <= BagDelay, MarksInv, WindowInv, NEW lapse \in Lapses,
         TickBegin(lapse) \/ TickEnd(lapse)
  PROVE  WindowInv'
<1> USE StaticAssumption DEF StaticTypeOK
<1> DEFINE l == lag'
<1>1. UNCHANGED <<recorder, wire, began, over, bag_outside>>
  BY DEF TickBegin, TickEnd, bagVars
<1>2. CASE TickBegin(lapse)
  <2>1. stage' = "collect" /\ ~began
    BY <1>2 DEF TickBegin, MarksInv
  <2> QED
    BY <1>1, <2>1 DEF WindowInv
<1>3. CASE TickEnd(lapse)
  <2>1. stage = "collect" /\ stage' = "done"
    BY <1>3 DEF TickEnd
  <2>2. ASSUME began
        PROVE  \E k, p \in 0..BagDelay :
                 /\ bag_outside + k + p <= BagDelay + l
                 /\ k + p <= Len(wire) /\ Crossing(wire, k, p)
    <3>1. PICK k \in 0..BagDelay :
            bag_outside + k <= BagDelay /\ k <= Len(wire) /\ Crossing(wire, k, 0)
      BY <2>1, <2>2 DEF WindowInv
    <3>2. l \in Nat
      BY <1>3 DEF TickEnd, Emit
    <3> HIDE DEF l
    <3>3. /\ 0 \in 0..BagDelay /\ bag_outside + k + 0 <= BagDelay + l
          /\ k + 0 <= Len(wire)
      BY <3>1, <3>2
    <3> QED
      BY <3>1, <3>3
  <2>3. (~began => bag_outside = 0) /\ bag_outside <= 2 * BagDelay
    BY DEF WindowInv
  <2> QED
    BY <1>1, <2>1, <2>2, <2>3 DEF WindowInv
<1> QED
  BY <1>2, <1>3

LEMMA WindowStep ==
  ASSUME StaticTypeOK, Len(wire) <= BagDelay, lag <= BagDelay, MarksInv, WindowInv,
         [StaticNext]_staticVars, \A label \in Labels : ~ForeignMark(label)
  PROVE  WindowInv'
<1> USE DEF nodeVars, bagVars, transitVars
<1>1. CASE OnReading
  BY <1>1 DEF OnReading, WindowInv
<1>2. ASSUME NEW lapse \in Lapses, TickWaiting(lapse)
      PROVE  WindowInv'
  BY <1>2 DEF TickWaiting, WindowInv
<1>3. CASE RecorderStarts
  <2>1. ~began
    BY <1>3 DEF RecorderStarts, MarksInv
  <2> QED
    BY <1>3, <2>1 DEF RecorderStarts, WindowInv
<1>4. CASE StopLaunch
  BY <1>4 DEF StopLaunch, WindowInv
<1>5. CASE UNCHANGED staticVars
  BY <1>5 DEF staticVars, WindowInv
<1> QED
  BY <1>1, <1>2, <1>3, <1>4, <1>5, PublishWindow, RecordReadingWindow, RecordMarkWindow,
     TickWindow
  DEF StaticNext, StaticTick, Labels

\* Every reading of a window that has the channel up comes from outside the window.
LEMMA DownStep ==
  ASSUME StaticTypeOK, down => DownInv, [StaticNext]_staticVars, down'
  PROVE  DownInv'
<1> USE DEF StaticTypeOK, nodeVars, bagVars, transitVars
<1>1. ASSUME NEW bad \in BOOLEAN, Publish(bad)
      PROVE  DownInv'
  <2> DEFINE r == [inside |-> stage = "collect", bad |-> bad]
  <2>1. /\ down /\ (r.inside => r.bad)
        /\ wire' = IF recorder = "recording" THEN Append(wire, r) ELSE wire
        /\ UNCHANGED <<bag_n, bag_bad, bag_outside>>
    BY <1>1 DEF Publish
  <2>2. r \in Reading
    BY DEF Reading
  <2> HIDE DEF r
  <2> DEFINE v == Append(wire, r)
  <2>3. /\ Len(wire) \in Nat /\ Len(v) = Len(wire) + 1 /\ v[Len(wire) + 1] = r
        /\ \A i \in 1..Len(wire) : v[i] = wire[i]
    BY <2>2, AppendFacts
  <2> HIDE DEF v
  <2>4. \A i \in 1..Len(wire) : wire[i].inside => wire[i].bad
    BY <2>1 DEF DownInv
  <2>5. \A i \in 1..Len(v) : v[i].inside => v[i].bad
    <3> SUFFICES ASSUME NEW i \in 1..Len(v)
                 PROVE  v[i].inside => v[i].bad
      OBVIOUS
    <3>1. CASE i \in 1..Len(wire)
      BY <2>3, <2>4, <3>1
    <3>2. CASE i = Len(wire) + 1
      BY <2>1, <2>3, <3>2
    <3> QED
      BY <2>3, <3>1, <3>2
  <2>6. wire' = v \/ wire' = wire
    BY <2>1 DEF v
  <2> QED
    BY <2>1, <2>4, <2>5, <2>6 DEF DownInv
<1>2. CASE RecordReading
  <2> DEFINE v == Tail(wire)
             in == began /\ ~over
  <2>1. /\ down /\ wire # <<>> /\ wire' = v
        /\ bag_n' = IF in THEN bag_n + 1 ELSE bag_n
        /\ bag_bad' = IF in /\ Head(wire).bad THEN bag_bad + 1 ELSE bag_bad
        /\ bag_outside' = IF in /\ ~Head(wire).inside
                         THEN bag_outside + 1 ELSE bag_outside
    BY <1>2 DEF RecordReading, Count, InWindow
  <2>2. /\ Len(wire) \in Nat /\ Len(wire) > 0 /\ Len(v) = Len(wire) - 1
        /\ Head(wire) = wire[1] /\ \A i \in 1..Len(v) : v[i] = wire[i + 1]
    BY <2>1, TailFacts
  <2> HIDE DEF v, in
  <2>3. \A i \in 1..Len(wire) : wire[i].inside => wire[i].bad
    BY <2>1 DEF DownInv
  <2>4. \A i \in 1..Len(v) : v[i].inside => v[i].bad
    BY <2>2, <2>3
  <2>5. Head(wire).inside => Head(wire).bad
    BY <2>2, <2>3
  <2>6. bag_n <= bag_bad + bag_outside
    BY <2>1 DEF DownInv
  <2>7. bag_n' <= bag_bad' + bag_outside'
    <3>1. CASE ~in
      BY <2>1, <2>6, <3>1
    <3>2. CASE in /\ Head(wire).bad
      <4>1. /\ bag_n' = bag_n + 1 /\ bag_bad' = bag_bad + 1
            /\ bag_outside' = bag_outside \/ bag_outside' = bag_outside + 1
        BY <2>1, <3>2
      <4> QED
        BY <2>6, <4>1
    <3>3. CASE in /\ ~Head(wire).inside
      <4>1. /\ bag_n' = bag_n + 1 /\ bag_outside' = bag_outside + 1
            /\ bag_bad' = bag_bad \/ bag_bad' = bag_bad + 1
        BY <2>1, <3>3
      <4> QED
        BY <2>6, <4>1
    <3> QED
      BY <2>5, <3>1, <3>2, <3>3
  <2> QED
    BY <2>1, <2>4, <2>7 DEF DownInv
<1>3. CASE OnReading \/ RecorderStarts \/ RecordMark
  BY <1>3 DEF OnReading, RecorderStarts, RecordMark, DownInv
<1>4. ASSUME NEW lapse \in Lapses, TickWaiting(lapse) \/ TickBegin(lapse) \/ TickEnd(lapse)
      PROVE  DownInv'
  BY <1>4 DEF TickWaiting, TickBegin, TickEnd, DownInv
<1>5. ASSUME NEW label \in Labels, ForeignMark(label)
      PROVE  DownInv'
  BY <1>5 DEF ForeignMark, DownInv
<1>6. CASE StopLaunch
  BY <1>6 DEF StopLaunch, DownInv
<1>7. CASE UNCHANGED staticVars
  BY <1>7 DEF staticVars, DownInv
<1> QED
  BY <1>1, <1>2, <1>3, <1>4, <1>5, <1>6, <1>7 DEF StaticNext, StaticTick, Labels

LEMMA StaticInvStep == StaticInv /\ [StaticNext]_staticVars => StaticInv'
<1> SUFFICES ASSUME StaticInv, [StaticNext]_staticVars
             PROVE  StaticInv'
  OBVIOUS
<1>1. /\ StaticTypeOK /\ QueueInv /\ Len(wire) <= BagDelay /\ lag <= BagDelay
      /\ alone => MarksInv /\ WindowInv
      /\ down => DownInv
  BY DEF StaticInv
<1>2. StaticTypeOK' /\ Len(wire)' <= BagDelay /\ lag' <= BagDelay
  BY <1>1, TypeStep
<1>3. QueueInv'
  BY <1>1, QueueStep
<1>4. ASSUME alone'
      PROVE  MarksInv' /\ WindowInv'
  <2>1. alone
    BY <1>4, Zenon DEF StaticNext, Publish, OnReading, StaticTick, TickWaiting, TickBegin, TickEnd,
       RecorderStarts, RecordReading, RecordMark, ForeignMark, StopLaunch, staticVars
  <2>2. \A label \in Labels : ~ForeignMark(label)
    BY <1>4, Zenon DEF ForeignMark
  <2> QED
    BY <1>1, <2>1, <2>2, MarksStep, WindowStep
<1>5. down' => DownInv'
  BY <1>1, DownStep
<1> QED
  BY <1>2, <1>3, <1>4, <1>5, Zenon DEF StaticInv

\* A recording that has just been started.
LEMMA NothingRecordedYet ==
  ASSUME stage = "settle", inbox = <<>>, n = 0, n_outside = 0, wire = <<>>, marks = <<>>,
         lag = 0, recorder = "late", began = FALSE, over = FALSE, bag_n = 0, bag_bad = 0,
         bag_outside = 0
  PROVE  StaticInv
<1> USE StaticAssumption
<1>1. began \in BOOLEAN /\ over \in BOOLEAN /\ ~began /\ ~over
  BY Zenon
<1>2. Len(inbox) = 0 /\ Len(wire) = 0 /\ Len(marks) = 0
  OBVIOUS
<1>3. inbox \in Seq(Reading) /\ wire \in Seq(Reading) /\ marks \in Seq(Labels)
  OBVIOUS
<1>4. /\ stage \in {"settle", "collect", "done", "killed"}
      /\ recorder \in {"late", "recording", "closed"}
      /\ n \in Nat /\ n_outside \in Nat /\ lag \in Nat
      /\ bag_n \in Nat /\ bag_bad \in Nat /\ bag_outside \in Nat
  OBVIOUS
<1>5. StaticTypeOK
  BY <1>1, <1>3, <1>4, Zenon DEF StaticTypeOK
<1>6. QueueInv
  BY <1>2 DEF QueueInv
<1>7. MarksInv
  BY <1>1, <1>2 DEF MarksInv
<1>8. WindowInv
  BY <1>1 DEF WindowInv
<1>9. DownInv
  BY <1>2 DEF DownInv
<1>10. Len(wire) <= BagDelay /\ lag <= BagDelay
  BY <1>2
<1> QED
  BY <1>5, <1>6, <1>7, <1>8, <1>9, <1>10 DEF StaticInv

LEMMA StaticInvInit == StaticInit => StaticInv
BY NothingRecordedYet DEF StaticInit

\* Putting the recording away starts afresh.
LEMMA StaticClearedInv == StaticCleared => StaticInv'
<1>1. StaticCleared => StaticInit'
  BY DEF StaticCleared, StaticInit
<1> QED
  BY <1>1, StaticInvInit, PTL

LEMMA StaticInvariant == StaticSpec => []StaticInv
BY StaticInvInit, StaticInvStep, PTL DEF StaticSpec

\* What the robot did while it settled stays out of the node's summary and, but for what
\* crossed a mark on the way, out of the bag's window.
THEOREM SettlingDiscarded == StaticSpec => []SettlingIsDiscarded
<1>1. StaticInv => SettlingIsDiscarded
  BY DEF StaticInv, QueueInv, WindowInv, SettlingIsDiscarded
<1> QED
  BY <1>1, StaticInvariant, PTL

-----------------------------------------------------------------------------
\* A session without a slip yet, and the board at rest.
LEMMA NoSlipYet ==
  ASSUME state = "arming", max_tilt = 0, tilt \in Tilts, bag_max = tilt,
         slip_angles = <<>>, bag_angles = <<>>, true_angles = <<>>,
         levelled = FALSE, careful \in BOOLEAN, careful => tilt < RearmTilt
  PROVE  FrictionInv
<1> USE FrictionAssumption DEF Tilts
<1>1. FrictionTypeOK
  <2>1. /\ slip_angles \in Seq(Tilts) /\ bag_angles \in Seq(Tilts)
        /\ true_angles \in Seq(Tilts) /\ Len(bag_angles) = Len(slip_angles)
    OBVIOUS
  <2>2. max_tilt \in Tilts /\ bag_max \in Tilts
    OBVIOUS
  <2>3. levelled \in BOOLEAN
    BY Zenon
  <2> QED
    BY <2>1, <2>2, <2>3, Zenon DEF FrictionTypeOK
<1>2. AnglesAreBreakaways /\ PeaksAreOfTwoSlips
  BY DEF AnglesAreBreakaways, PeaksAreOfTwoSlips
<1>3. careful => bag_max <= LastAngle /\ tilt <= LastAngle
  <2> SUFFICES ASSUME careful
               PROVE  bag_max <= RearmTilt
    BY DEF LastAngle
  <2>1. tilt < RearmTilt
    OBVIOUS
  <2> QED
    BY <2>1
<1> QED
  BY <1>1, <1>2, <1>3 DEF FrictionInv

LEMMA FrictionInvInit == FrictionInit => FrictionInv
<1> SUFFICES ASSUME FrictionInit
             PROVE  FrictionInv
  OBVIOUS
<1>1. careful \in BOOLEAN /\ (careful => tilt < RearmTilt)
  <2>1. careful = (tilt < RearmTilt)
    BY DEF FrictionInit
  <2>2. (tilt < RearmTilt) \in BOOLEAN
    OBVIOUS
  <2> QED
    BY <2>1, <2>2, Zenon
<1> QED
  BY <1>1, NoSlipYet DEF FrictionInit

\* The invariant does not look at an interrupted or finished session but for its angles.
LEMMA ArmingKeepsInv ==
  ASSUME FrictionInv, NEW now \in Tilts, Arming(now)
  PROVE  FrictionInv'
<1> USE FrictionAssumption DEF Tilts
<1>1. FrictionTypeOK'
  BY DEF FrictionInv, FrictionTypeOK, Arming, Moves, Greater
<1>2. LastAngle' = LastAngle /\ LastAngle \in Nat
  BY DEF FrictionInv, FrictionTypeOK, Arming, LastAngle
<1>a. tilt' <= bag_max' /\ (careful' => bag_max' <= LastAngle' /\ tilt' <= LastAngle')
  <2>1. /\ tilt' = now /\ bag_max' = Greater(bag_max, now)
        /\ tilt \in Tilts /\ bag_max \in Tilts
    BY DEF FrictionInv, FrictionTypeOK, Arming, Moves
  <2>2. careful' => now <= tilt /\ bag_max <= LastAngle /\ tilt <= LastAngle
    BY Zenon DEF FrictionInv, Arming, Moves
  <2> QED
    BY <1>2, <2>1, <2>2 DEF Greater
<1>3. state' = "ready" =>
        /\ levelled' /\ tilt' <= bag_max' /\ max_tilt' <= bag_max'
        /\ careful' => max_tilt' <= tilt' /\ bag_max' <= Greater(LastAngle', tilt')
  <2> SUFFICES ASSUME state' = "ready"
               PROVE  /\ levelled' /\ max_tilt' <= bag_max'
                      /\ careful' => max_tilt' <= tilt'
                                     /\ bag_max' <= Greater(LastAngle', tilt')
    BY <1>a
  <2>1. now < RearmTilt
    BY DEF Arming
  <2>2. max_tilt' = 0 /\ levelled'
    BY <2>1 DEF Arming
  <2>3. tilt' \in Nat /\ bag_max' \in Nat
    BY <1>1 DEF FrictionTypeOK
  <2> QED
    BY <1>a, <1>2, <2>2, <2>3 DEF Greater
<1>4. state' = "arming" /\ careful' => bag_max' <= LastAngle' /\ tilt' <= LastAngle'
  BY <1>a
<1>5. AnglesAreBreakaways' /\ PeaksAreOfTwoSlips'
  BY DEF FrictionInv, FrictionTypeOK, AnglesAreBreakaways,
     PeaksAreOfTwoSlips, PeakOfTwoSlips, Arming, Moves
<1> QED
  BY <1>1, <1>3, <1>4, <1>5 DEF FrictionInv

LEMMA TiltingKeepsInv ==
  ASSUME FrictionInv, NEW now \in Tilts, NEW shaken \in BOOLEAN, Tilting(now, shaken)
  PROVE  FrictionInv'
<1> USE FrictionAssumption DEF Tilts
<1>1. FrictionTypeOK'
  BY DEF FrictionInv, FrictionTypeOK, Tilting, Moves, Greater
<1>2. LastAngle' = LastAngle /\ LastAngle \in Nat
  BY DEF FrictionInv, FrictionTypeOK, Tilting, LastAngle
<1>3. state' = "ready" /\ levelled'
  BY DEF FrictionInv, Tilting
<1>4. tilt' <= bag_max' /\ max_tilt' <= bag_max'
  BY DEF FrictionInv, FrictionTypeOK, Tilting, Moves, Greater
<1>5. careful' => max_tilt' <= tilt' /\ bag_max' <= Greater(LastAngle', tilt')
  <2>1. /\ tilt' = now /\ bag_max' = Greater(bag_max, now)
        /\ max_tilt' = Greater(max_tilt, now)
        /\ tilt \in Tilts /\ bag_max \in Tilts /\ max_tilt \in Tilts
    BY DEF FrictionInv, FrictionTypeOK, Tilting, Moves
  <2>2. careful' => /\ tilt <= now /\ max_tilt <= tilt
                    /\ bag_max <= Greater(LastAngle, tilt)
    <3>1. careful' = (careful /\ now >= tilt)
      BY DEF Tilting, Moves
    <3>2. now >= tilt => tilt <= now
      BY <2>1
    <3> QED
      BY <3>1, <3>2, Zenon DEF FrictionInv, Tilting
  <2> QED
    BY <1>2, <2>1, <2>2 DEF Greater
<1>6. AnglesAreBreakaways' /\ PeaksAreOfTwoSlips'
  BY DEF FrictionInv, FrictionTypeOK, AnglesAreBreakaways,
     PeaksAreOfTwoSlips, PeakOfTwoSlips, Tilting, Moves
<1> QED
  BY <1>1, <1>3, <1>4, <1>5, <1>6 DEF FrictionInv

\* A sequence with one more element.
LEMMA Appended ==
  ASSUME NEW S, NEW s \in Seq(S), NEW e \in S
  PROVE  /\ Len(Append(s, e)) = Len(s) + 1
         /\ DOMAIN Append(s, e) = 1..(Len(s) + 1)
         /\ Append(s, e)[Len(s) + 1] = e
         /\ \A i \in 1..Len(s) : Append(s, e)[i] = s[i]
OBVIOUS

\* The angles taken at a slip: the node's, the bag's, and the true one.
LEMMA SlipKeepsInv ==
  ASSUME FrictionInv, NEW now \in Tilts, NEW late \in BOOLEAN, Slip(now, late)
  PROVE  FrictionInv'
<1> USE FrictionAssumption DEF Tilts
<1> DEFINE angle == Greater(max_tilt, now)
           bag   == IF late THEN bag_max ELSE Greater(bag_max, now)
           k     == Len(slip_angles)
<1>1. /\ FrictionTypeOK /\ AnglesAreBreakaways /\ PeaksAreOfTwoSlips
      /\ tilt <= bag_max /\ max_tilt <= bag_max
      /\ careful => max_tilt <= tilt /\ bag_max <= Greater(LastAngle, tilt)
  BY DEF FrictionInv, Slip
<1>2. /\ angle \in Tilts /\ now <= angle /\ bag \in Tilts
      /\ slip_angles' = Append(slip_angles, angle)
      /\ bag_angles' = Append(bag_angles, bag)
      /\ true_angles' = Append(true_angles, now)
      /\ bag_max' \in {now, 0} /\ tilt' = now
      /\ max_tilt' = angle /\ levelled' = FALSE
      /\ now \in (tilt - 1)..(tilt + 1) /\ now > MinTilt
  BY <1>1 DEF FrictionTypeOK, Slip, Moves, Greater, NextWindow
<1>a. careful' => careful /\ tilt <= now
  <2>1. careful' = (careful /\ now >= tilt)
    BY DEF Slip, Moves
  <2>2. now >= tilt => tilt <= now
    BY <1>1 DEF FrictionTypeOK
  <2> QED
    BY <2>1, <2>2, Zenon
<1>b. careful' \in BOOLEAN
  BY DEF Slip, Moves
<1>c. /\ k \in Nat /\ Len(bag_angles) = k
      /\ slip_angles' # <<>> /\ Len(slip_angles') = k + 1
      /\ DOMAIN slip_angles' = 1..(k + 1)
      /\ slip_angles'[k + 1] = angle /\ bag_angles'[k + 1] = bag
      /\ \A i \in 1..k : slip_angles'[i] = slip_angles[i] /\ bag_angles'[i] = bag_angles[i]
  <2> HIDE DEF angle, bag
  <2>1. /\ k \in Nat /\ Len(bag_angles) = k
        /\ slip_angles \in Seq(Tilts) /\ bag_angles \in Seq(Tilts)
    BY <1>1 DEF FrictionTypeOK
  <2>2. angle \in Tilts /\ bag \in Tilts
    BY <1>2
  <2> DEFINE s == Append(slip_angles, angle)
             b == Append(bag_angles, bag)
  <2>3. /\ Len(s) = k + 1 /\ DOMAIN s = 1..(k + 1) /\ s[k + 1] = angle
        /\ \A i \in 1..k : s[i] = slip_angles[i]
    BY <2>1, <2>2, Appended
  <2>6. s # <<>>
    BY <2>1, <2>3
  <2>4. b[k + 1] = bag /\ \A i \in 1..k : b[i] = bag_angles[i]
    <3>1. /\ b[Len(bag_angles) + 1] = bag
          /\ \A i \in 1..Len(bag_angles) : b[i] = bag_angles[i]
      BY <2>1, <2>2, Appended
    <3> QED
      BY <2>1, <3>1
  <2>5. slip_angles' = s /\ bag_angles' = b
    BY <1>2
  <2> HIDE DEF s, b, k
  <2> QED
    BY <2>1, <2>3, <2>4, <2>5, <2>6
<1>3. state' \in {"finished", "arming"}
  BY DEF Slip, AfterSlip
<1>4. FrictionTypeOK'
  <2> HIDE DEF angle, bag
  <2>1. /\ slip_angles' \in Seq(Tilts) /\ bag_angles' \in Seq(Tilts)
        /\ true_angles' \in Seq(Tilts) /\ Len(bag_angles') = Len(slip_angles')
    BY <1>1, <1>2 DEF FrictionTypeOK
  <2>2. max_tilt' \in Tilts /\ bag_max' \in Tilts /\ tilt' \in Tilts
    BY <1>1, <1>2 DEF FrictionTypeOK
  <2>3. levelled' \in BOOLEAN
    BY <1>2, Zenon
  <2> QED
    BY <1>3, <1>b, <2>1, <2>2, <2>3, Zenon DEF FrictionTypeOK
<1>5. LastAngle' = angle
  <2> HIDE DEF angle
  <2> QED BY <1>c DEF LastAngle
<1>6. bag_max' <= LastAngle' /\ tilt' <= LastAngle'
  BY <1>2, <1>5
<1>7. careful' => angle = now
  <2>1. careful' => max_tilt <= now
    BY <1>1, <1>2, <1>a DEF FrictionTypeOK
  <2> QED
    BY <2>1, <1>1 DEF FrictionTypeOK, Greater
<1>8. angle <= bag + 1
  BY <1>1, <1>2 DEF FrictionTypeOK, Greater
<1>9. careful' => bag <= IF k = 0 THEN angle ELSE Greater(slip_angles[k], angle)
  <2>1. CASE k = 0
    <3>1. LastAngle = RearmTilt
      BY <2>1, <1>1 DEF LastAngle, FrictionTypeOK
    <3> QED
      BY <2>1, <3>1, <1>1, <1>2, <1>7, <1>a DEF FrictionTypeOK, Greater
  <2>2. CASE k # 0
    <3>1. LastAngle = slip_angles[k] /\ slip_angles[k] \in Tilts
      BY <2>2, <1>1 DEF LastAngle, FrictionTypeOK
    <3> QED
      BY <2>2, <3>1, <1>1, <1>2, <1>7, <1>a DEF FrictionTypeOK, Greater
  <2> QED
    BY <2>1, <2>2
<1>10. AnglesAreBreakaways' /\ PeaksAreOfTwoSlips'
  <2> HIDE DEF angle, bag
  <2>1. careful' => slip_angles' = true_angles'
    BY <1>1, <1>2, <1>7, <1>a, Zenon DEF AnglesAreBreakaways
  <2>2. ASSUME NEW i \in DOMAIN slip_angles'
        PROVE  PeakOfTwoSlips(i)'
    <3>1. CASE i = k + 1
      <4>1. i - 1 = k /\ (i = 1 <=> k = 0) /\ (k # 0 => k \in 1..k)
        BY <3>1, <1>c
      <4>2. k # 0 => slip_angles'[k] = slip_angles[k]
        BY <4>1, <1>c
      <4> QED
        BY <3>1, <4>1, <4>2, <1>c, <1>8, <1>9 DEF PeakOfTwoSlips, Greater
    <3>2. CASE i \in 1..k
      <4>1. PeakOfTwoSlips(i)
        BY <3>2, <1>1 DEF FrictionTypeOK, PeaksAreOfTwoSlips
      <4>2. /\ slip_angles'[i] = slip_angles[i] /\ bag_angles'[i] = bag_angles[i]
            /\ i # 1 => slip_angles'[i - 1] = slip_angles[i - 1]
        BY <3>2, <1>c
      <4> QED
        BY <4>1, <4>2, <1>a, Zenon DEF PeakOfTwoSlips, Greater
    <3> QED
      BY <2>2, <1>c, <3>1, <3>2
  <2> QED
    BY <2>1, <2>2 DEF AnglesAreBreakaways, PeaksAreOfTwoSlips
<1> QED
  BY <1>3, <1>4, <1>6, <1>10 DEF FrictionInv

LEMMA FrictionInvStep == FrictionInv /\ [FrictionNext]_frictionVars => FrictionInv'
<1> SUFFICES ASSUME FrictionInv, [FrictionNext]_frictionVars
             PROVE  FrictionInv'
  OBVIOUS
<1>1. CASE SensorMoves
  BY <1>1, ArmingKeepsInv, TiltingKeepsInv, SlipKeepsInv DEF SensorMoves
<1>2. CASE Interrupt
  BY <1>2 DEF Interrupt, FrictionInv, FrictionTypeOK, AnglesAreBreakaways,
     PeaksAreOfTwoSlips, PeakOfTwoSlips
<1>3. CASE UNCHANGED frictionVars
  BY <1>3 DEF frictionVars, FrictionInv, FrictionTypeOK, AnglesAreBreakaways,
              PeaksAreOfTwoSlips, PeakOfTwoSlips, LastAngle
<1> QED
  BY <1>1, <1>2, <1>3 DEF FrictionNext

LEMMA FrictionInvariant == FrictionSpec => []FrictionInv
BY FrictionInvInit, FrictionInvStep, PTL DEF FrictionSpec

\* Putting the recording away starts afresh.
LEMMA FrictionClearedInv == FrictionCleared => FrictionInv'
<1> SUFFICES ASSUME FrictionCleared
             PROVE  FrictionInv'
  OBVIOUS
<1> USE FrictionAssumption DEF FrictionCleared
<1>1. FrictionTypeOK'
  <2>1. /\ slip_angles' \in Seq(Tilts) /\ bag_angles' \in Seq(Tilts)
        /\ true_angles' \in Seq(Tilts) /\ Len(bag_angles') = Len(slip_angles')
    OBVIOUS
  <2>2. max_tilt' \in Tilts /\ bag_max' \in Tilts /\ tilt' \in Tilts
    BY DEF Tilts
  <2>3. levelled' \in BOOLEAN /\ careful' \in BOOLEAN
    BY Zenon
  <2> QED
    BY <2>1, <2>2, <2>3, Zenon DEF FrictionTypeOK
<1>2. AnglesAreBreakaways' /\ PeaksAreOfTwoSlips'
  BY DEF AnglesAreBreakaways, PeaksAreOfTwoSlips
<1>3. bag_max' <= LastAngle' /\ tilt' <= LastAngle'
  BY DEF LastAngle
<1> QED
  BY <1>1, <1>2, <1>3 DEF FrictionInv

\* One slide is one trial: the board has been level since the trial before.
LEMMA SlipAfterLevel ==
  FrictionInv /\ [FrictionNext]_frictionVars =>
    (Len(slip_angles') > Len(slip_angles) => levelled)
<1> SUFFICES ASSUME FrictionInv, [FrictionNext]_frictionVars,
                    Len(slip_angles') > Len(slip_angles)
             PROVE  levelled
  OBVIOUS
<1>1. ASSUME NEW now \in Tilts, NEW late \in BOOLEAN, Slip(now, late)
      PROVE  levelled
  BY <1>1 DEF FrictionInv, Slip
<1>2. Len(slip_angles) \in Nat
  BY DEF FrictionInv, FrictionTypeOK
<1> QED
  BY <1>1, <1>2 DEF FrictionNext, SensorMoves, Arming, Tilting, Interrupt, frictionVars

\* The angle that the node takes for each trial of a careful operator is the tilt at
\* which its slip was seen; the theorem says nothing of the analyzer's angle.
THEOREM AnglesTrue == FrictionSpec => []AnglesAreBreakaways
<1>1. FrictionInv => AnglesAreBreakaways
  BY DEF FrictionInv
<1> QED
  BY <1>1, FrictionInvariant, PTL

\* The peak the analyzer takes for a trial is of that trial's slip or of the one before.
THEOREM PeaksOfTwoSlips == FrictionSpec => []PeaksAreOfTwoSlips
<1>1. FrictionInv => PeaksAreOfTwoSlips
  BY DEF FrictionInv
<1> QED
  BY <1>1, FrictionInvariant, PTL

\* However long a slide is and however the sensor is shaken, it is one trial.
THEOREM TrialsSeparate == FrictionSpec => TrialsAreSeparate
BY FrictionInvariant, SlipAfterLevel, PTL DEF FrictionSpec, TrialsAreSeparate

-----------------------------------------------------------------------------
\* The actuator latency protocol.

\* Products with the length of a cycle, and quotients by that of a half.
LEMMA CycleLess ==
  ASSUME NEW k \in Nat, NEW i \in Nat, k < i, NEW d \in Nat
  PROVE  k * d + d <= i * d
<1>1. PICK m \in Nat : i = k + 1 + m
  <2>1. i - k - 1 \in Nat /\ i = k + 1 + (i - k - 1)
    OBVIOUS
  <2> QED
    BY <2>1
<1>2. i * d = k * d + d + m * d
  BY <1>1
<1>3. m * d \in Nat /\ k * d \in Nat
  OBVIOUS
<1> QED
  BY <1>2, <1>3

LEMMA HalfCycle ==
  ASSUME NEW h \in Nat, NEW d \in Nat \ {0}, NEW r \in 0..(d - 1)
  PROVE  (h * d + r) \div d = h
OBVIOUS

\* The constants are numbers, and so is the length of a block.
LEMMA ActuatorTiming ==
  /\ Settle \in Nat /\ Hold \in Nat /\ Hold > 0 /\ NSteps \in Nat /\ NSteps > 0
  /\ MotorDelay \in Nat /\ MotorDelay < Hold
  /\ Block \in Nat
<1>1. /\ Settle \in Nat /\ Hold \in Nat /\ Hold > 0 /\ NSteps \in Nat /\ NSteps > 0
      /\ MotorDelay \in Nat /\ MotorDelay < Hold
  BY ActuatorAssumption
<1>2. NSteps * 2 * Hold \in Nat
  BY <1>1
<1> QED
  BY <1>1, <1>2 DEF Block

LEMMA BlockLength ==
  NSteps * (2 * Hold) \in Nat /\ Block = Settle + NSteps * (2 * Hold)
<1>1. NSteps * (2 * Hold) \in Nat /\ NSteps * 2 * Hold = NSteps * (2 * Hold)
  BY ActuatorTiming
<1> QED
  BY <1>1, ActuatorTiming DEF Block

\* The command is up in the second half of each cycle.
LEMMA UpInSecondHalf ==
  ASSUME NEW i \in Nat, NEW r \in 0..(2 * Hold - 1)
  PROVE  IsUp(PhaseAt(Settle + i * (2 * Hold) + r)) <=> r >= Hold
<1> DEFINE t == Settle + i * (2 * Hold) + r
<1>1. i * (2 * Hold) \in Nat /\ (2 * i) * Hold = i * (2 * Hold)
      /\ (2 * i + 1) * Hold = i * (2 * Hold) + Hold
  BY ActuatorTiming
<1>2. t >= Settle /\ t - Settle = i * (2 * Hold) + r
  BY <1>1, ActuatorTiming
<1>3. CASE r < Hold
  <2>1. PhaseAt(t) = ((2 * i) * Hold + r) \div Hold
    BY <1>1, <1>2, ActuatorTiming DEF PhaseAt
  <2>2. ((2 * i) * Hold + r) \div Hold = 2 * i
    BY <1>3, HalfCycle, ActuatorTiming
  <2> QED
    BY <1>3, <2>1, <2>2, (2 * i) % 2 = 0, ActuatorTiming DEF IsUp
<1>4. CASE r >= Hold
  <2>1. PhaseAt(t) = ((2 * i + 1) * Hold + (r - Hold)) \div Hold
    <3>1. (2 * i + 1) * Hold + (r - Hold) = t - Settle
      BY <1>1, <1>2, ActuatorTiming
    <3> QED
      BY <1>2, <3>1, ActuatorTiming DEF PhaseAt
  <2>2. ((2 * i + 1) * Hold + (r - Hold)) \div Hold = 2 * i + 1
    <3>1. r - Hold \in 0..(Hold - 1) /\ 2 * i + 1 \in Nat
      BY <1>4, ActuatorTiming
    <3> QED
      BY <3>1, HalfCycle, ActuatorTiming
  <2> QED
    BY <1>4, <2>1, <2>2, (2 * i + 1) % 2 = 1, 2 * i + 1 >= 0, ActuatorTiming DEF IsUp
<1> QED
  BY <1>3, <1>4, ActuatorTiming

\* The block is over after the last cycle, and not before.
LEMMA LastCycle ==
  ASSUME NEW i \in 0..NSteps, NEW r \in 0..(2 * Hold - 1), InCycle(i, r)
  PROVE  BlockOver <=> i = NSteps
<1> DEFINE d == 2 * Hold
<1>1. d \in Nat /\ i \in Nat /\ i * d \in Nat /\ protocol_t = Settle + i * d + r
  BY ActuatorTiming DEF InCycle
<1>2. CASE i = NSteps
  BY <1>1, <1>2, ActuatorTiming, BlockLength DEF BlockOver
<1>3. CASE i < NSteps
  <2>1. i * d + d <= NSteps * d
    BY <1>1, <1>3, CycleLess, ActuatorTiming
  <2> QED
    BY <1>1, <1>3, <2>1, ActuatorTiming, BlockLength DEF BlockOver
<1> QED
  BY <1>2, <1>3, ActuatorTiming

-----------------------------------------------------------------------------
\* A joint whose block begins.
LEMMA BlockBegins == protocol_t = 0 /\ AtHome => JointInv
<1> SUFFICES ASSUME protocol_t = 0, AtHome
             PROVE  JointInv
  OBVIOUS
<1>1. AnswerInv
  BY DEF AtHome, AnswerInv
<1>2. CASE Settle > 0
  BY <1>1, <1>2 DEF JointInv, Settling
<1>3. CASE Settle = 0
  <2>1. InCycle(0, 0)
    BY <1>3, ActuatorTiming DEF AtHome, InCycle, StepsInv, FollowInv, LateUp
  <2> QED
    BY <1>1, <2>1, ActuatorTiming DEF JointInv
<1> QED
  BY <1>2, <1>3, ActuatorTiming

LEMMA ActuatorInvInit == CalibInit => ActuatorInv
<1> SUFFICES ASSUME CalibInit
             PROVE  ActuatorInv
  OBVIOUS
<1>1. ActuatorTypeOK
  <2>1. /\ 0 \in 0..Block /\ 0 \in 0..(NSteps + 1) /\ WindowCap \in 0..WindowCap
        /\ 1 \in Nat \ {0} /\ 0 \in Nat
    BY ActuatorTiming DEF WindowCap
  <2> QED
    BY <2>1, Zenon DEF CalibInit, ActuatorTypeOK
<1>2. protocol_t = 0 /\ AtHome
  BY DEF CalibInit, AtHome
<1> QED
  BY <1>1, <1>2, BlockBegins DEF ActuatorInv

\* Putting the recording away starts afresh.
LEMMA ActuatorClearedInv == CalibCleared => ActuatorInv'
<1>1. CalibCleared => CalibInit'
  BY DEF CalibCleared, CalibInit
<1> QED
  BY <1>1, ActuatorInvInit, PTL

\* What the analyzer makes of the next joint state, by cases of the command.
LEMMA AnalyzeFacts ==
  ASSUME ActuatorTypeOK, AnswerInv, NEW now_up \in BOOLEAN, Command(now_up),
         UNCHANGED cur_joint
  PROVE  /\ up' = now_up /\ away' \in BOOLEAN /\ behind' \in Nat
         /\ rises' \in 0..NSteps+1 /\ since_edge' \in 0..WindowCap
         /\ base' \in BOOLEAN /\ answered' \in BOOLEAN
         /\ ~HasRoom(cur_joint)' => ~away' /\ rises' = 0
         /\ rises' > 0 /\ away' # base' => answered'
         /\ HasRoom(cur_joint)' <=> HasRoom(cur_joint)
<1> USE ActuatorTiming DEF ActuatorTypeOK, Command
<1>1. HasRoom(cur_joint)' <=> HasRoom(cur_joint)
  BY DEF HasRoom, Clamped
<1>2. /\ away' \in BOOLEAN /\ behind' \in Nat
      /\ ~HasRoom(cur_joint) /\ ~away => ~away'
  BY DEF Follows
<1>3. Rose(now_up) => now_up /\ ~up /\ HasRoom(cur_joint)
  BY DEF Rose
<1> USE DEF Analyze, Baseline, WindowCap, AnswerInv
<1>4. rises' \in 0..NSteps+1 /\ since_edge' \in 0..WindowCap /\ base' \in BOOLEAN
  BY <1>2
<1>5. answered' \in BOOLEAN
  BY <1>2, <1>4
<1>6. ~HasRoom(cur_joint) => ~away' /\ rises' = 0
  BY <1>2, <1>3
<1>7. rises' > 0 /\ away' # base' => answered'
  OBVIOUS
<1> QED
  BY <1>1, <1>2, <1>4, <1>5, <1>6, <1>7

\* A pause withdraws a step that was under way, and nothing else.
LEMMA PausedKeepsInv ==
  ASSUME ActuatorInv, TickPaused
  PROVE  ActuatorInv'
<1> USE ActuatorTiming
<1>1. /\ ActuatorTypeOK /\ JointInv /\ AnswerInv /\ ~done /\ ~enabled
      /\ Command(FALSE) /\ UNCHANGED <<protocolVars, up_ticks>>
      /\ interrupted' = (interrupted \/ up)
      /\ disturbed' = (disturbed \/ up \/ away)
  BY DEF ActuatorInv, JointInv, TickPaused
<1> USE DEF protocolVars
<1>2. /\ up' = FALSE /\ away' \in BOOLEAN /\ behind' \in Nat
      /\ rises' \in 0..NSteps+1 /\ since_edge' \in 0..WindowCap
      /\ base' \in BOOLEAN /\ answered' \in BOOLEAN
      /\ ~HasRoom(cur_joint)' => ~away' /\ rises' = 0
      /\ rises' > 0 /\ away' # base' => answered'
      /\ HasRoom(cur_joint)' <=> HasRoom(cur_joint)
  BY <1>1, AnalyzeFacts
<1>3. /\ rises' = rises /\ base' = base
      /\ behind' = 0 /\ (away' => away)
  BY <1>1 DEF Command, Analyze, Baseline, Rose, Follows, ActuatorTypeOK
<1>4. ActuatorTypeOK'
  BY <1>1, <1>2 DEF ActuatorTypeOK
<1>5. AnswerInv'
  BY <1>1, <1>2 DEF AnswerInv
<1>6. CASE Settling
  BY <1>1, <1>2, <1>3, <1>4, <1>5, <1>6 DEF Settling, AtHome, ActuatorInv, JointInv
<1>7. ASSUME NEW i \in 0..NSteps, NEW r \in 0..(2 * Hold - 1), InCycle(i, r)
      PROVE  InCycle(i, r)'
  <2>1. StepsInv(i, r)'
    BY <1>1, <1>2, <1>3, <1>7 DEF InCycle, StepsInv, LateUp
  <2>2. ~disturbed' => ~disturbed /\ ~up /\ ~away
    BY <1>1
  <2>3. ~disturbed' /\ HasRoom(cur_joint)' => FollowInv(r)'
    BY <1>2, <1>3, <1>7, <2>2 DEF InCycle, FollowInv
  <2> QED
    BY <1>1, <1>7, <2>1, <2>3 DEF InCycle
<1> QED
  BY <1>1, <1>4, <1>5, <1>6, <1>7 DEF ActuatorInv, JointInv

\* The facts about a tick of the protocol in its block.
LEMMA RunningFacts ==
  ASSUME ActuatorInv, TickRunning, NEW now_up \in BOOLEAN,
         now_up <=> IsUp(PhaseAt(protocol_t))
  PROVE  /\ ActuatorTypeOK' /\ AnswerInv'
         /\ JointInv /\ ~BlockOver /\ enabled
         /\ up' = now_up /\ protocol_t' = protocol_t + 1
         /\ up_ticks' = IF now_up THEN up_ticks + 1 ELSE up_ticks
         /\ (HasRoom(cur_joint)' <=> HasRoom(cur_joint))
         /\ Follows(now_up) /\ Analyze(now_up)
         /\ UNCHANGED <<enabled, cur_joint, done, interrupted, disturbed>>
<1> USE ActuatorTiming
<1>1. /\ ActuatorTypeOK /\ JointInv /\ AnswerInv /\ ~done /\ enabled /\ ~BlockOver
      /\ protocol_t' = protocol_t + 1
      /\ up_ticks' = IF now_up THEN up_ticks + 1 ELSE up_ticks
      /\ Command(IsUp(PhaseAt(protocol_t)))
      /\ UNCHANGED <<enabled, cur_joint, done, interrupted, disturbed>>
  BY DEF ActuatorInv, JointInv, TickRunning
<1>2. IsUp(PhaseAt(protocol_t)) \in BOOLEAN /\ now_up = IsUp(PhaseAt(protocol_t))
  BY DEF IsUp
<1>3. Command(now_up)
  BY <1>1, <1>2
<1>4. /\ up' = now_up /\ away' \in BOOLEAN /\ behind' \in Nat
      /\ rises' \in 0..NSteps+1 /\ since_edge' \in 0..WindowCap
      /\ base' \in BOOLEAN /\ answered' \in BOOLEAN
      /\ ~HasRoom(cur_joint)' => ~away' /\ rises' = 0
      /\ rises' > 0 /\ away' # base' => answered'
      /\ HasRoom(cur_joint)' <=> HasRoom(cur_joint)
  BY <1>1, <1>3, AnalyzeFacts
<1>5. protocol_t' \in 0..Block
  BY <1>1 DEF ActuatorTypeOK, BlockOver
<1>6. up_ticks' \in Nat
  BY <1>1 DEF ActuatorTypeOK
<1>7. ActuatorTypeOK'
  BY <1>1, <1>4, <1>5, <1>6 DEF ActuatorTypeOK
<1>8. AnswerInv'
  BY <1>1, <1>4 DEF AnswerInv
<1> QED
  BY <1>1, <1>3, <1>4, <1>7, <1>8 DEF Command

\* A tick of the protocol while the joint settles.
LEMMA SettlingTick ==
  ASSUME ActuatorInv, TickRunning, Settling
  PROVE  ActuatorInv'
<1> USE ActuatorTiming
<1>1. ~IsUp(PhaseAt(protocol_t))
  BY DEF Settling, IsUp, PhaseAt, SettlePhase
<1>2. /\ ActuatorTypeOK /\ ActuatorTypeOK' /\ AnswerInv'
      /\ up' = FALSE /\ protocol_t' = protocol_t + 1 /\ up_ticks' = up_ticks
      /\ Follows(FALSE) /\ Analyze(FALSE)
      /\ UNCHANGED <<enabled, cur_joint, done, interrupted, disturbed>>
  BY <1>1, RunningFacts DEF ActuatorInv
<1>3. ~away' /\ behind' = 0 /\ rises' = 0 /\ ~base'
  BY <1>2 DEF Settling, AtHome, Follows, Analyze, Baseline, Rose, ActuatorTypeOK
<1>4. CASE protocol_t' < Settle
  BY <1>2, <1>3, <1>4 DEF Settling, AtHome, ActuatorInv, JointInv
<1>5. CASE protocol_t' = Settle
  <2>1. InCycle(0, 0)'
    BY <1>2, <1>3, <1>5 DEF Settling, AtHome, InCycle, StepsInv, FollowInv, LateUp
  <2> QED
    BY <1>2, <2>1 DEF ActuatorInv, JointInv
<1> QED
  BY <1>2, <1>4, <1>5 DEF Settling, ActuatorTypeOK

\* A tick in the first half of a cycle: the command goes down, or stays there.
LEMMA DownTick ==
  ASSUME ActuatorInv, TickRunning, NEW i \in 0..NSteps, NEW r \in 0..(2 * Hold - 1),
         InCycle(i, r), r < Hold
  PROVE  InCycle(i, r + 1)' /\ r + 1 \in 0..(2 * Hold - 1)
<1> USE ActuatorTiming
<1>1. i \in Nat /\ i * (2 * Hold) \in Nat /\ i * Hold \in Nat
      /\ protocol_t = Settle + i * (2 * Hold) + r
  BY DEF InCycle
<1>2. ~IsUp(PhaseAt(protocol_t))
  <2>1. IsUp(PhaseAt(Settle + i * (2 * Hold) + r)) <=> r >= Hold
    BY <1>1, UpInSecondHalf
  <2> QED
    BY <1>1, <2>1
<1>3. /\ ActuatorTypeOK /\ ActuatorTypeOK' /\ AnswerInv /\ ~BlockOver /\ enabled
      /\ up' = FALSE /\ protocol_t' = protocol_t + 1 /\ up_ticks' = up_ticks
      /\ (HasRoom(cur_joint)' <=> HasRoom(cur_joint))
      /\ Follows(FALSE) /\ Analyze(FALSE)
      /\ UNCHANGED <<enabled, cur_joint, done, interrupted, disturbed>>
  BY <1>2, RunningFacts DEF ActuatorInv, JointInv, TickRunning
<1>4. i < NSteps
  BY <1>3, LastCycle
<1>5. rises' = rises /\ base' = base
  BY <1>3 DEF Analyze, Baseline, Rose, ActuatorTypeOK
<1>6. protocol_t' = Settle + i * (2 * Hold) + (r + 1)
  BY <1>1, <1>3
<1>7. StepsInv(i, r + 1)'
  BY <1>1, <1>3, <1>4, <1>5 DEF InCycle, StepsInv, LateUp, ActuatorTypeOK
<1>8. ASSUME ~disturbed', HasRoom(cur_joint)'
      PROVE  FollowInv(r + 1)'
  <2>1. /\ FollowInv(r) /\ StepsInv(i, r) /\ ~interrupted /\ HasRoom(cur_joint)
    BY <1>3, <1>8 DEF InCycle, AnswerInv
  <2>2. CASE up
    <3>1. r = 0 /\ (~away => behind = Hold)
      BY <1>1, <2>1, <2>2 DEF StepsInv, LateUp, FollowInv
    <3>2. away /\ behind = 0
      BY <1>3, <2>1, <2>2, <3>1 DEF FollowInv, ActuatorTypeOK
    <3> QED
      BY <1>3, <1>5, <2>1, <3>1, <3>2 DEF FollowInv, Follows, ActuatorTypeOK
  <2>3. CASE ~up /\ away
    <3>1. behind = r
      BY <2>1, <2>3 DEF FollowInv
    <3> QED
      BY <1>3, <1>5, <2>1, <2>3, <3>1 DEF FollowInv, Follows, ActuatorTypeOK
  <2>4. CASE ~up /\ ~away
    BY <1>3, <1>5, <2>1, <2>4 DEF FollowInv, Follows, ActuatorTypeOK
  <2> QED
    BY <2>2, <2>3, <2>4
<1> QED
  BY <1>4, <1>6, <1>7, <1>8 DEF InCycle

\* A joint that is driven either arrives or falls another tick behind.
LEMMA DrivenJoint ==
  ASSUME ActuatorTypeOK, enabled, HasRoom(cur_joint), ~away, Follows(TRUE)
  PROVE  \/ away' = TRUE /\ behind' = 0
         \/ away' = FALSE /\ behind' = behind + 1 /\ behind < MotorDelay
<1>1. PICK follow \in BOOLEAN :
        /\ ~follow /\ enabled /\ HasRoom(cur_joint) /\ away # TRUE => behind < MotorDelay
        /\ away' = IF follow THEN TRUE ELSE away
        /\ behind' = IF ~enabled \/ away' = TRUE THEN 0 ELSE behind + 1
  BY DEF Follows
<1>2. away = FALSE
  BY DEF ActuatorTypeOK
<1>3. CASE follow
  BY <1>1, <1>3
<1>4. CASE ~follow
  <2>1. away' = FALSE
    BY <1>1, <1>2, <1>4
  <2>2. behind < MotorDelay
    BY <1>1, <1>2, <1>4
  <2>3. behind' = behind + 1
    BY <1>1, <2>1
  <2> QED
    BY <2>1, <2>2, <2>3
<1> QED
  BY <1>3, <1>4

\* A tick in the second half: the command goes up, or stays there, and the cycle may
\* be complete.
LEMMA UpTick ==
  ASSUME ActuatorInv, TickRunning, NEW i \in 0..NSteps, NEW r \in 0..(2 * Hold - 1),
         InCycle(i, r), r >= Hold
  PROVE  /\ r + 1 < 2 * Hold => InCycle(i, r + 1)'
         /\ r + 1 = 2 * Hold => i + 1 \in 0..NSteps /\ InCycle(i + 1, 0)'
<1> USE ActuatorTiming
<1>1. /\ i \in Nat /\ i * (2 * Hold) \in Nat /\ i * Hold \in Nat
      /\ protocol_t = Settle + i * (2 * Hold) + r
      /\ (i + 1) * Hold = i * Hold + Hold
      /\ (i + 1) * (2 * Hold) = i * (2 * Hold) + 2 * Hold
  BY DEF InCycle
<1>2. IsUp(PhaseAt(protocol_t))
  BY <1>1, UpInSecondHalf
<1>3. /\ ActuatorTypeOK /\ ActuatorTypeOK' /\ AnswerInv /\ ~BlockOver /\ enabled
      /\ up' = TRUE /\ protocol_t' = protocol_t + 1 /\ up_ticks' = up_ticks + 1
      /\ (HasRoom(cur_joint)' <=> HasRoom(cur_joint))
      /\ Follows(TRUE) /\ Analyze(TRUE)
      /\ UNCHANGED <<enabled, cur_joint, done, interrupted, disturbed>>
  BY <1>2, RunningFacts DEF ActuatorInv, JointInv, TickRunning
<1>4. i < NSteps
  BY <1>3, LastCycle
<1> DEFINE m  == IF r + 1 < 2 * Hold THEN i ELSE i + 1
           r2 == IF r + 1 < 2 * Hold THEN r + 1 ELSE 0
<1>5. /\ protocol_t' = Settle + m * (2 * Hold) + r2
      /\ r2 \in Nat /\ (IF r2 > Hold THEN r2 - Hold ELSE Hold) = r + 1 - Hold
  BY <1>1, <1>3
<1>6. StepsInv(i, r) /\ (r = Hold => ~up)
  BY <1>1 DEF InCycle, StepsInv, LateUp
<1>7. /\ up_ticks' = i * Hold + (r + 1 - Hold)
      /\ up_ticks' = m * Hold + (IF r2 > Hold THEN r2 - Hold ELSE 0)
  BY <1>1, <1>3, <1>6 DEF StepsInv
<1>8. HasRoom(cur_joint) =>
        rises' >= i + 1 /\ (~interrupted => rises' = i + 1)
  <2> SUFFICES ASSUME HasRoom(cur_joint)
               PROVE  rises' >= i + 1 /\ (~interrupted => rises' = i + 1)
    OBVIOUS
  <2>1. rises' = IF ~up /\ rises <= NSteps THEN rises + 1 ELSE rises
    BY <1>3 DEF Analyze, Rose
  <2>2. CASE r = Hold
    BY <1>1, <1>3, <1>4, <1>6, <2>1, <2>2 DEF StepsInv, ActuatorTypeOK
  <2>3. CASE r > Hold
    BY <1>1, <1>3, <1>4, <1>6, <2>1, <2>3 DEF StepsInv, LateUp, ActuatorTypeOK
  <2> QED
    BY <2>2, <2>3
<1>9. StepsInv(m, r2)'
  BY <1>1, <1>3, <1>7, <1>8 DEF StepsInv, LateUp
<1>10. ASSUME ~disturbed', HasRoom(cur_joint)', NEW q \in Nat,
              (IF q > Hold THEN q - Hold ELSE Hold) = r + 1 - Hold
       PROVE  FollowInv(q)'
  <2>1. /\ FollowInv(r) /\ ~interrupted /\ HasRoom(cur_joint)
    BY <1>3, <1>10 DEF InCycle, AnswerInv
  <2>2. CASE ~up
    <3>1. r = Hold
      BY <1>6, <2>1, <2>2 DEF StepsInv, LateUp
    <3>2. ~away /\ behind = 0
      BY <1>3, <2>1, <2>2, <3>1 DEF FollowInv, ActuatorTypeOK
    <3>3. ~base' /\ since_edge' = 1
      BY <1>3, <2>1, <2>2, <3>2 DEF Analyze, Baseline, Rose
    <3>4. \/ away' = TRUE /\ behind' = 0
          \/ away' = FALSE /\ behind' = behind + 1 /\ behind < MotorDelay
      BY <1>3, <2>1, <3>2, DrivenJoint, Zenon
    <3> QED
      BY <1>3, <1>10, <3>1, <3>2, <3>3, <3>4 DEF FollowInv
  <2>3. CASE up /\ ~away
    <3>1. r > Hold /\ behind = since_edge /\ behind = r - Hold
      BY <1>1, <1>3, <1>6, <2>1, <2>3 DEF FollowInv, StepsInv, LateUp, ActuatorTypeOK
    <3>2. ~base' /\ since_edge' = since_edge + 1
      BY <1>3, <2>1, <2>3, <3>1
         DEF Analyze, Baseline, Rose, FollowInv, WindowCap, ActuatorTypeOK
    <3>3. \/ away' = TRUE /\ behind' = 0
          \/ away' = FALSE /\ behind' = behind + 1 /\ behind < MotorDelay
      BY <1>3, <2>1, <2>3, DrivenJoint, Zenon
    <3>4. behind \in Nat /\ since_edge \in Nat /\ up' = TRUE
      BY <1>3 DEF ActuatorTypeOK, WindowCap
    <3>5. ~away' => /\ behind' = since_edge' /\ behind' <= MotorDelay
                    /\ behind' = r + 1 - Hold
      <4>1. CASE away' = FALSE /\ behind' = behind + 1 /\ behind < MotorDelay
        <5>1. behind' = r - Hold + 1 /\ since_edge' = behind'
          BY <3>1, <3>2, <4>1
        <5>2. behind' <= MotorDelay
          BY <3>4, <4>1
        <5> QED
          BY <5>1, <5>2
      <4> QED
        BY <3>3, <4>1
    <3> QED
      BY <1>10, <3>2, <3>3, <3>4, <3>5 DEF FollowInv
  <2>4. CASE up /\ away
    <3>1. ~base'
      BY <1>3, <2>1, <2>4 DEF Analyze, Baseline, Rose, FollowInv
    <3> QED
      BY <1>3, <2>1, <2>4, <3>1 DEF FollowInv, Follows, ActuatorTypeOK
  <2> QED
    BY <2>2, <2>3, <2>4
<1>11. ~disturbed' /\ HasRoom(cur_joint)' => FollowInv(r2)'
  BY <1>5, <1>10
<1>12. InCycle(m, r2)'
  BY <1>4, <1>5, <1>9, <1>11 DEF InCycle
<1> QED
  BY <1>4, <1>12

LEMMA RunningKeepsInv ==
  ASSUME ActuatorInv, TickRunning
  PROVE  ActuatorInv'
<1>1. ActuatorTypeOK' /\ AnswerInv' /\ JointInv
  <2>1. IsUp(PhaseAt(protocol_t)) \in BOOLEAN
    BY DEF IsUp
  <2> QED
    BY <2>1, RunningFacts
<1>2. CASE Settling
  BY <1>2, SettlingTick
<1>3. ASSUME NEW i \in 0..NSteps, NEW r \in 0..(2 * Hold - 1), InCycle(i, r)
      PROVE  \E m \in 0..NSteps, q \in 0..(2 * Hold - 1) : InCycle(m, q)'
  <2>1. CASE r < Hold
    BY <1>3, <2>1, DownTick
  <2>2. CASE r >= Hold /\ r + 1 < 2 * Hold
    <3>1. r + 1 \in 0..(2 * Hold - 1) /\ InCycle(i, r + 1)'
      BY <1>3, <2>2, UpTick, ActuatorTiming
    <3> QED
      BY <3>1
  <2>3. CASE r >= Hold /\ r + 1 = 2 * Hold
    <3>1. 0 \in 0..(2 * Hold - 1) /\ i + 1 \in 0..NSteps /\ InCycle(i + 1, 0)'
      BY <1>3, <2>3, UpTick, ActuatorTiming
    <3> QED
      BY <3>1
  <2> QED
    BY <2>1, <2>2, <2>3, ActuatorTiming
<1> QED
  BY <1>1, <1>2, <1>3 DEF ActuatorInv, JointInv

\* The end of a block: all its steps have been taken.
LEMMA BlockDone ==
  ASSUME ActuatorInv, TickBlockDone
  PROVE  InCycle(NSteps, 0) /\ AnswerInv
<1>1. JointInv /\ BlockOver
  BY DEF ActuatorInv, TickBlockDone
<1>2. ~Settling
  BY <1>1, ActuatorTiming, BlockLength DEF Settling, BlockOver, ActuatorInv, ActuatorTypeOK
<1>3. PICK i \in 0..NSteps, r \in 0..(2 * Hold - 1) : InCycle(i, r)
  BY <1>1, <1>2 DEF JointInv
<1>4. i = NSteps
  BY <1>1, <1>3, LastCycle
<1>5. r = 0
  BY <1>3, <1>4, ActuatorTiming DEF InCycle
<1> QED
  BY <1>1, <1>3, <1>4, <1>5 DEF JointInv

LEMMA BlockDoneBegins ==
  ActuatorInv /\ TickBlockDone => (protocol_t = 0 /\ AtHome)' /\ ActuatorTypeOK'
<1> SUFFICES ASSUME ActuatorInv, TickBlockDone
             PROVE  (protocol_t = 0 /\ AtHome)' /\ ActuatorTypeOK'
  OBVIOUS
<1>1. ~IsUp(PhaseAt(protocol_t))
  <2>1. protocol_t = Settle + NSteps * (2 * Hold) + 0
    BY BlockDone DEF InCycle
  <2>2. 0 \in 0..(2 * Hold - 1) /\ NSteps \in Nat /\ ~(0 >= Hold)
    BY ActuatorTiming
  <2>3. ~IsUp(PhaseAt(Settle + NSteps * (2 * Hold) + 0))
    BY <2>2, UpInSecondHalf
  <2> QED
    BY <2>1, <2>3
<1>2. up' = FALSE
  <2>1. IsUp(PhaseAt(protocol_t)) \in BOOLEAN
    BY DEF IsUp
  <2> QED
    BY <1>1, <2>1 DEF TickBlockDone
<1>3. (protocol_t = 0 /\ AtHome)'
  BY <1>2 DEF TickBlockDone, AtHome
<1>4. /\ 0 \in 0..Block /\ 0 \in 0..(NSteps + 1) /\ WindowCap \in 0..WindowCap
      /\ 0 \in Nat
  BY ActuatorTiming DEF WindowCap
<1>5. cur_joint' \in Nat \ {0} /\ done' \in BOOLEAN /\ enabled' \in BOOLEAN
  BY DEF ActuatorInv, ActuatorTypeOK, TickBlockDone, NextJoint
<1> QED
  BY <1>2, <1>3, <1>4, <1>5, Zenon DEF ActuatorTypeOK, TickBlockDone

LEMMA BlockDoneKeepsInv == ActuatorInv /\ TickBlockDone => ActuatorInv'
<1>1. ActuatorTypeOK /\ JointInv => ActuatorInv
  BY DEF ActuatorInv
<1> QED
  BY <1>1, BlockDoneBegins, BlockBegins, PTL

LEMMA ActuatorInvStep == ActuatorInv /\ [CalibNext]_calibVars => ActuatorInv'
<1> SUFFICES ASSUME ActuatorInv, [CalibNext]_calibVars
             PROVE  ActuatorInv'
  OBVIOUS
<1>1. CASE TickPaused
  BY <1>1, PausedKeepsInv
<1>2. CASE TickRunning
  BY <1>2, RunningKeepsInv
<1>3. CASE TickBlockDone
  BY <1>3, BlockDoneKeepsInv
<1>4. CASE (\E g \in GateState : OnGate(g)) \/ UNCHANGED calibVars
  <2>1. enabled' \in BOOLEAN
    BY <1>4 DEF OnGate, ActuatorInv, ActuatorTypeOK, calibVars, protocolVars
  <2>2. UNCHANGED <<protocol_t, cur_joint, done, up, away, behind, rises, since_edge, base,
                    answered, up_ticks, interrupted, disturbed>>
    BY <1>4 DEF OnGate, calibVars, protocolVars, edgeVars
  <2>3. ActuatorTypeOK'
    BY <2>1, <2>2 DEF ActuatorInv, ActuatorTypeOK
  <2>4. AnswerInv' <=> AnswerInv
    BY <2>2 DEF AnswerInv, HasRoom, Clamped
  <2>5. Settling' <=> Settling
    BY <2>2 DEF Settling, AtHome
  <2>6. \A i, r : InCycle(i, r) => InCycle(i, r)'
    BY <2>2 DEF InCycle, StepsInv, FollowInv, LateUp, HasRoom, Clamped
  <2> QED
    BY <2>2, <2>3, <2>4, <2>5, <2>6 DEF ActuatorInv, JointInv
<1> QED
  BY <1>1, <1>2, <1>3, <1>4 DEF CalibNext, Tick

LEMMA ActuatorInvariant == CalibSpec => []ActuatorInv
BY ActuatorInvInit, ActuatorInvStep, PTL DEF CalibSpec

\* What a joint has been through when its block ends.
LEMMA StepsStep ==
  ActuatorInv /\ [CalibNext]_calibVars =>
    (cur_joint' > cur_joint =>
       /\ up_ticks = NSteps * Hold
       /\ HasRoom(cur_joint) =>
            rises >= NSteps /\ (~interrupted => rises = NSteps)
       /\ ~HasRoom(cur_joint) => rises = 0)
<1> SUFFICES ASSUME ActuatorInv, [CalibNext]_calibVars, cur_joint' > cur_joint
             PROVE  /\ up_ticks = NSteps * Hold
                    /\ HasRoom(cur_joint) =>
                         rises >= NSteps /\ (~interrupted => rises = NSteps)
                    /\ ~HasRoom(cur_joint) => rises = 0
  OBVIOUS
<1>1. cur_joint \in Nat /\ (cur_joint' = cur_joint \/ TickBlockDone)
  BY DEF ActuatorInv, ActuatorTypeOK, CalibNext, OnGate, Tick, TickPaused, TickRunning,
         calibVars, protocolVars
<1>2. StepsInv(NSteps, 0) /\ AnswerInv
  BY <1>1, BlockDone DEF InCycle
<1>3. NSteps * Hold \in Nat
  BY ActuatorTiming
<1> QED
  BY <1>2, <1>3, ActuatorTiming DEF StepsInv, AnswerInv

\* When the first motion of a window is seen.
LEMMA LatencyStep ==
  ActuatorInv /\ [CalibNext]_calibVars =>
    (~answered /\ answered' /\ ~disturbed => away' /\ since_edge' <= MotorDelay + 1)
<1> SUFFICES ASSUME ActuatorInv, [CalibNext]_calibVars, ~answered, answered', ~disturbed
             PROVE  away' /\ since_edge' <= MotorDelay + 1
  OBVIOUS
<1>1. ActuatorTypeOK /\ (~done => JointInv /\ AnswerInv)
  BY DEF ActuatorInv, JointInv
<1>2. PICK now_up \in BOOLEAN : Tick /\ Command(now_up)
                             /\ (now_up => IsUp(PhaseAt(protocol_t)))
  <2>1. TickPaused \/ TickRunning
    BY DEF CalibNext, OnGate, Tick, TickBlockDone, calibVars, edgeVars
  <2>2. IsUp(PhaseAt(protocol_t)) \in BOOLEAN
    BY DEF IsUp
  <2> QED
    BY <2>1, <2>2 DEF Tick, TickPaused, TickRunning
<1>3. JointInv /\ AnswerInv /\ ~done
  BY <1>1, <1>2 DEF Tick, TickPaused, TickRunning, TickBlockDone
<1>4. rises' > 0 /\ away' # base'
  BY <1>2 DEF Command, Analyze
<1>5. HasRoom(cur_joint) /\ (Rose(now_up) <=> now_up /\ ~up)
  BY <1>1, <1>2, <1>3, <1>4 DEF Command, Analyze, Rose, AnswerInv, ActuatorTypeOK
<1>6. ~base /\ (up /\ ~away => since_edge <= MotorDelay) /\ (now_up /\ ~up => ~away)
  <2>1. CASE Settling
    BY <2>1 DEF Settling, AtHome
  <2>2. CASE ~Settling
    <3>1. PICK i \in 0..NSteps, r \in 0..(2 * Hold - 1) : InCycle(i, r)
      BY <1>3, <2>2 DEF JointInv
    <3>2. FollowInv(r)
      BY <1>5, <3>1 DEF InCycle
    <3>3. now_up => r >= Hold
      <4>1. IsUp(PhaseAt(Settle + i * (2 * Hold) + r)) <=> r >= Hold
        BY ActuatorTiming, UpInSecondHalf
      <4>2. protocol_t = Settle + i * (2 * Hold) + r
        BY <3>1 DEF InCycle
      <4> QED
        BY <1>2, <4>1, <4>2
    <3>4. ~up /\ away => r < Hold
      BY <3>2, ActuatorTiming DEF FollowInv
    <3>5. ~(now_up /\ ~up /\ away)
      BY <3>3, <3>4, ActuatorTiming
    <3> QED
      BY <3>2, <3>5 DEF FollowInv
  <2> QED
    BY <2>1, <2>2
<1>7. /\ away \in BOOLEAN /\ base \in BOOLEAN /\ since_edge \in 0..WindowCap
      /\ WindowCap \in Nat /\ MotorDelay \in Nat
  BY <1>1, ActuatorTiming DEF ActuatorTypeOK, WindowCap
<1>8. CASE ~now_up
  <2>1. base' = base /\ rises' = rises
    BY <1>2, <1>5, <1>8 DEF Command, Analyze, Baseline
  <2>2. away' = FALSE \/ away' = away
    BY <1>2, <1>7, <1>8 DEF Command, Follows
  <2> QED
    BY <1>3, <1>4, <1>6, <1>7, <2>1, <2>2 DEF AnswerInv
<1>9. CASE now_up /\ ~up
  <2>1. base' = away /\ ~away /\ since_edge' = 1
    BY <1>2, <1>5, <1>6, <1>9 DEF Command, Analyze, Baseline
  <2>2. away' = TRUE \/ away' = away
    BY <1>2, <1>9 DEF Command, Follows
  <2> QED
    BY <1>4, <1>7, <2>1, <2>2
<1>10. CASE now_up /\ up
  <2>1. base' = base /\ rises' = rises /\ since_edge' <= since_edge + 1
    BY <1>2, <1>5, <1>7, <1>10 DEF Command, Analyze, Baseline
  <2>2. ~away
    BY <1>3, <1>4, <1>6, <1>7, <2>1 DEF AnswerInv
  <2>3. away' = TRUE \/ away' = away
    BY <1>2, <1>10 DEF Command, Follows
  <2>4. since_edge <= MotorDelay /\ since_edge' \in Nat
    BY <1>2, <1>5, <1>6, <1>7, <1>10, <2>2 DEF Command, Analyze
  <2> QED
    BY <1>4, <1>6, <1>7, <2>1, <2>2, <2>3, <2>4
<1> QED
  BY <1>8, <1>9, <1>10

\* However often the deadman is released and in whichever tick, every joint is held up
\* for as long as the protocol says, and the analyzer finds its steps.
THEOREM StepsFound == CalibSpec => StepsAreFound
BY ActuatorInvariant, StepsStep, PTL DEF CalibSpec, StepsAreFound

\* For any joint that follows within half a cycle, the first motion that is found after
\* an edge is the answer to that edge.
THEOREM LatencyTrue == CalibSpec => LatencyIsOfTheStep
BY ActuatorInvariant, LatencyStep, PTL DEF CalibSpec, LatencyIsOfTheStep
=============================================================================
