------------------------- MODULE CalibCampaignProofs -------------------------
(***************************************************************************)
(* Theorems about a day of calibration: for any sessions, recordings of    *)
(* other days and analyzers, what the sessions guarantee still holds when  *)
(* they are put away and taken up, and what the diff prints is earned.     *)
(***************************************************************************)
EXTENDS CalibCampaign, CalibSessionProofs

\* With no NaN behind the first axis, the maximum is in range only if every axis is; a
\* NaN in the first place makes the maximum NaN, which nothing is in range of.
LEMMA MaxOfAxesIsMax ==
  ASSUME NEW v \in Axes, NEW bound \in Int, LessEq(MaxOfAxes(v), bound),
         v[2] # NaN, v[3] # NaN
  PROVE  AllAtMost(v, bound)
<1> USE DiffAssumption DEF Axes
<1>1. /\ DOMAIN v = 1..3
      /\ v[1] \in Int \cup {NaN} /\ v[2] \in Int \cup {NaN} /\ v[3] \in Int \cup {NaN}
  OBVIOUS
<1>2. 1..3 = {1, 2, 3}
  OBVIOUS
<1>3. \A i \in {1, 2, 3} : v[i] # NaN /\ bound # NaN /\ v[i] <= bound
  BY <1>1 DEF LessEq, MaxOfAxes, Larger
<1> QED
  BY <1>1, <1>2, <1>3 DEF AllAtMost, LessEq

LEMMA ImuGreen ==
  ASSUME NEW row \in ImuRow, NEW l \in ImuLines(row), l.green,
         ~NaNIsPassedOver("imu_noise_mount", row)
  PROVE  Earned("imu_noise_mount", row, l.line)
<1> USE DiffAssumption
<1>1. /\ row.gyro_std \in Axes /\ row.projg_std \in Axes
      /\ row.gyro_std[2] # NaN /\ row.gyro_std[3] # NaN
      /\ row.projg_std[2] # NaN /\ row.projg_std[3] # NaN
  BY DEF ImuRow, NaNIsPassedOver
<1>2. CASE l = [line |-> "ang_vel", green |-> LessEq(MaxOfAxes(row.gyro_std), Refs.ang_vel)]
           /\ Refs.ang_vel # None
  <2>1. Refs.ang_vel \in Int /\ l.line = "ang_vel"
    BY <1>2
  <2>2. LessEq(MaxOfAxes(row.gyro_std), Refs.ang_vel)
    BY <1>2, Zenon
  <2> QED
    BY <1>1, <2>1, <2>2, MaxOfAxesIsMax DEF Earned
<1>3. CASE l = [line |-> "proj_gravity",
                green |-> LessEq(MaxOfAxes(row.projg_std), Refs.proj_gravity)]
           /\ Refs.proj_gravity # None
  <2>1. Refs.proj_gravity \in Int /\ l.line = "proj_gravity"
    BY <1>3
  <2>2. LessEq(MaxOfAxes(row.projg_std), Refs.proj_gravity)
    BY <1>3, Zenon
  <2> QED
    BY <1>1, <2>1, <2>2, MaxOfAxesIsMax DEF Earned
<1> QED
  BY <1>2, <1>3, Zenon DEF ImuLines, Line

LEMMA BusGreen ==
  ASSUME NEW row \in BusRow, NEW l \in BusLines(row), l.green
  PROVE  Earned("bus_jitter", row, l.line)
<1> USE DiffAssumption
<1>1. row.n \in Nat /\ row.bad \in Nat /\ row.rate \in Int \cup {NaN, None}
  BY DEF BusRow
<1> DEFINE shown == IF row.rate = None THEN 0 ELSE row.rate
<1>2. CASE l = [line |-> "rate", green |-> LessEq(Refs.policy_rate, shown)]
  <2>1. LessEq(Refs.policy_rate, shown)
    BY <1>2, Zenon
  <2>2. row.rate # None /\ Refs.policy_rate <= row.rate
    BY <1>1, <2>1 DEF LessEq
  <2>3. l.line = "rate"
    BY <1>2
  <2> QED
    BY <2>2, <2>3 DEF Earned
<1>3. CASE l = [line |-> "nan_fraction", green |-> ~Dropping(row)]
  <2>1. ~Dropping(row)
    BY <1>3, Zenon
  <2>2. 20000 * (row.n - row.bad) >= (19999 - 200 * NaNPercent) * row.n
    <3> DEFINE m == row.n
               b == row.bad
               c == 200 * NaNPercent
    <3>1. m \in Nat /\ b \in Nat /\ c \in Nat
      BY <1>1
    <3>2. ~(b * 20000 > (c + 1) * m)
      BY <2>1 DEF Dropping
    <3> HIDE DEF m, b, c
    <3>3. (c + 1) * m = c * m + m /\ (19999 - c) * m = 19999 * m - c * m /\ c * m \in Int
      BY <3>1
    <3>4. 20000 * (m - b) >= (19999 - c) * m
      BY <3>1, <3>2, <3>3
    <3> QED
      BY <3>4 DEF m, b, c
  <2>3. l.line = "nan_fraction"
    BY <1>3
  <2> QED
    BY <2>2, <2>3 DEF Earned
<1> QED
  BY <1>2, <1>3, Zenon DEF BusLines, Line

LEMMA ActuatorGreen ==
  ASSUME NEW row \in ActuatorRow, NEW l \in ActuatorLines(row), l.green
  PROVE  Earned("actuator_latency", row, l.line)
<1> USE DiffAssumption
<1>1. /\ row.latency \in Nat \cup {NaN, None} /\ row.kp_effective \in Int \cup {None}
      /\ row.kp_commanded \in Int
  BY DEF ActuatorRow
<1>2. CASE l = [line |-> "latency", green |-> LatencyCovered(row.latency)]
           /\ row.latency # None
  <2>1. LatencyCovered(row.latency)
    BY <1>2, Zenon
  <2>2. row.latency \in 0..Refs.delay
    BY <1>1, <1>2, <2>1 DEF LatencyCovered, LessEq
  <2>3. l.line = "latency"
    BY <1>2
  <2> QED
    BY <2>2, <2>3 DEF Earned
<1>3. CASE /\ row.kp_effective # None
           /\ l = [line |-> "kp",
                   green |-> Distance(row.kp_effective, row.kp_commanded) * 5
                               <= Magnitude(row.kp_commanded)]
  <2>1. Distance(row.kp_effective, row.kp_commanded) * 5 <= Magnitude(row.kp_commanded)
    BY <1>3, Zenon
  <2>2. WithinAFifth(row.kp_effective, row.kp_commanded)
    <3> DEFINE x == row.kp_effective
               c == row.kp_commanded
    <3>1. x \in Int /\ c \in Int
      BY <1>1, <1>3
    <3>2. Distance(x, c) * 5 <= Magnitude(c)
      BY <2>1
    <3> HIDE DEF x, c
    <3>3. \/ 4 * c <= 5 * x /\ 5 * x <= 6 * c
          \/ 6 * c <= 5 * x /\ 5 * x <= 4 * c
      <4>1. CASE c >= 0
        BY <3>1, <3>2, <4>1 DEF Distance, Magnitude
      <4>2. CASE c < 0
        BY <3>1, <3>2, <4>2 DEF Distance, Magnitude
      <4> QED
        BY <3>1, <4>1, <4>2
    <3>4. WithinAFifth(x, c)
      BY <3>1, <3>3 DEF WithinAFifth
    <3> QED
      BY <3>4 DEF x, c
  <2>3. l.line = "kp"
    BY <1>3
  <2> QED
    BY <2>2, <2>3 DEF Earned
<1> QED
  BY <1>2, <1>3, Zenon DEF ActuatorLines, Line

LEMMA FrictionGreen ==
  ASSUME NEW row, NEW l \in FrictionLines(row), l.green
  PROVE  Earned("friction", row, l.line)
<1>1. CASE l = [line |-> "static", green |-> Within(row.mu_static, Refs.static_range)]
  <2>1. Within(row.mu_static, Refs.static_range)
    BY <1>1, Zenon
  <2>2. l.line = "static"
    BY <1>1
  <2> QED
    BY <2>1, <2>2 DEF Earned, Within, LessEq
<1>2. CASE l = [line |-> "kinetic", green |-> Within(row.mu_kinetic, Refs.dynamic_range)]
  <2>1. Within(row.mu_kinetic, Refs.dynamic_range)
    BY <1>2, Zenon
  <2>2. l.line = "kinetic"
    BY <1>2
  <2> QED
    BY <2>1, <2>2 DEF Earned, Within, LessEq
<1> QED
  BY <1>1, <1>2, Zenon DEF FrictionLines, Line

\* A GREEN line is earned by its row, unless an axis of it was passed over.
LEMMA LinesAreEarned ==
  ASSUME NEW key \in Measurements, NEW row, key # "friction" => row \in RowsOf(key),
         NEW l \in Lines(key, row), l.green, ~NaNIsPassedOver(key, row)
  PROVE  Earned(key, row, l.line)
<1>1. CASE key = "imu_noise_mount"
  BY <1>1, ImuGreen DEF Lines, RowsOf
<1>2. CASE key = "bus_jitter"
  BY <1>2, BusGreen DEF Lines, RowsOf
<1>3. CASE key = "actuator_latency"
  BY <1>3, ActuatorGreen DEF Lines, RowsOf
<1>4. CASE key = "friction"
  BY <1>4, FrictionGreen DEF Lines
<1> QED
  BY <1>1, <1>2, <1>3, <1>4 DEF Measurements

-----------------------------------------------------------------------------
\* Of n readings all but a few foreign ones are bad: more than a per cent are.
LEMMA BadEnough ==
  ASSUME NEW m \in Nat, NEW bad \in Nat, NEW foreign \in Nat,
         m >= MinSamples, m <= bad + foreign, foreign <= 2 * BagDelay
  PROVE  bad * 20000 > (200 * NaNPercent + 1) * m
<1> DEFINE c == 200 * NaNPercent + 1
           d == 20000 - c
<1>1. /\ c \in Nat /\ d \in Int /\ MinSamples \in Nat /\ BagDelay \in Nat /\ MinSamples > 0
      /\ (MinSamples - 2 * BagDelay) * 20000 > c * MinSamples
  BY StaticAssumption, DiffAssumption, CampaignAssumption
<1>2. c = 20000 - d
  BY <1>1
<1> HIDE DEF c, d
<1>3. MinSamples * d > 40000 * BagDelay
  <2>1. c * MinSamples = 20000 * MinSamples - MinSamples * d /\ MinSamples * d \in Int
    BY <1>1, <1>2
  <2> QED
    BY <1>1, <2>1
<1>4. d > 0
  <2>1. d <= 0 => MinSamples * d <= 0
    BY <1>1
  <2> QED
    BY <1>1, <1>3, <2>1
<1>5. m * d >= MinSamples * d /\ m * d \in Int
  BY <1>1, <1>4
<1>6. c * m = 20000 * m - m * d
  BY <1>1, <1>2
<1>7. bad * 20000 > c * m
  BY <1>1, <1>3, <1>5, <1>6
<1> QED
  BY <1>7 DEF c

\* What the analyzers make of a recording is a row of its measurement.
LEMMA StaticBagsAreBags ==
  ASSUME StaticInv, NEW b \in StaticBags
  PROVE  IsBag(b)
<1> USE DiffAssumption DEF Measurements
<1>1. HasRow
  BY DEF StaticBags
<1>2. CASE \E rate \in Rates : b = [key |-> "bus_jitter", row |-> BusRowOf(rate)]
  <2>1. PICK rate \in Rates : b = [key |-> "bus_jitter", row |-> BusRowOf(rate)]
    BY <1>2
  <2> DEFINE dead == down /\ alone
             row == [n |-> bag_n, bad |-> bag_bad, rate |-> rate, dead |-> dead]
  <2>2. b.key = "bus_jitter" /\ b.row = row
    BY <2>1 DEF BusRowOf
  <2>3. /\ bag_n \in Nat /\ bag_bad \in Nat /\ bag_outside \in Nat
        /\ bag_n >= MinSamples
    BY <1>1 DEF StaticInv, StaticTypeOK, HasRow
  <2>4. dead \in BOOLEAN
    OBVIOUS
  <2>5. rate \in Int \cup {NaN, None}
    BY CampaignAssumption
  <2>6. dead => bag_n <= bag_bad + bag_outside /\ bag_outside <= 2 * BagDelay
    BY DEF StaticInv, WindowInv, DownInv
  <2> HIDE DEF dead
  <2>7. row \in BusRow
    BY <2>3, <2>4, <2>5 DEF BusRow
  <2>8. DeadIsDropping(row)
    <3> SUFFICES ASSUME dead
                 PROVE  bag_bad * 20000 > (200 * NaNPercent + 1) * bag_n
      BY DEF DeadIsDropping, Dropping
    <3> QED
      BY <2>3, <2>6, BadEnough
  <2> HIDE DEF row
  <2> QED
    BY <2>2, <2>7, <2>8 DEF IsBag, RowsOf
<1>3. CASE \E row \in ImuRows : b = [key |-> "imu_noise_mount", row |-> row]
  BY <1>3, CampaignAssumption DEF IsBag, RowsOf
<1> QED
  BY <1>1, <1>2, <1>3 DEF StaticBags

LEMMA OtherBagsAreBags ==
  ASSUME NEW b \in ActuatorBags \cup FrictionBags
  PROVE  IsBag(b)
<1> USE DEF Measurements, IsBag
<1>1. CASE b \in ActuatorBags
  BY <1>1, CampaignAssumption DEF ActuatorBags, RowsOf
<1>2. CASE b \in FrictionBags
  BY <1>2 DEF FrictionBags
<1> QED
  BY <1>1, <1>2

\* A row joins those of its measurement.
LEMMA WithRowIsData ==
  ASSUME NEW data, IsData(data), NEW j, IsBag(j)
  PROVE  IsData(WithRow(data, j))
<1> DEFINE new == WithRow(data, j)
<1>1. DOMAIN new = Measurements
  BY DEF IsData, WithRow
<1>2. ASSUME NEW key \in Measurements \ {"friction"}
      PROVE  new[key] \in Seq(RowsOf(key))
  <2>1. data[key] \in Seq(RowsOf(key))
    BY <1>2 DEF IsData
  <2>2. CASE key = j.key
    <3>1. new[key] = Append(data[key], j.row)
      BY <2>2 DEF WithRow, IsData
    <3>2. j.row \in RowsOf(key)
      BY <1>2, <2>2 DEF IsBag
    <3> QED
      BY <2>1, <3>1, <3>2, AppendFacts
  <2>3. CASE key # j.key
    <3>1. new[key] = data[key]
      BY <2>3 DEF WithRow, IsData
    <3> QED
      BY <2>1, <3>1
  <2> QED
    BY <2>2, <2>3
<1> QED
  BY <1>1, <1>2 DEF IsData

LEMMA NoRowsIsData == IsData(NoRows)
<1>1. DOMAIN NoRows = Measurements /\ \A key \in Measurements : NoRows[key] = <<>>
  BY DEF NoRows
<1>2. \A S : <<>> \in Seq(S)
  OBVIOUS
<1> QED
  BY <1>1, <1>2 DEF IsData

-----------------------------------------------------------------------------
\* Nothing but a row of a recording is ever in the file or on its way there.
LEMMA GoneKeepsData ==
  ASSUME DataInv, NEW a \in Analyzers, Gone(a)
  PROVE  /\ pc' \in [Analyzers -> {"idle", "analyzed", "loaded", "opened"}]
         /\ DOMAIN job' = Analyzers /\ DOMAIN loaded' = Analyzers
         /\ \A c \in Analyzers : IsData(loaded'[c]) /\ (pc'[c] # "idle" => IsBag(job'[c]))
<1>1. /\ pc' = [pc EXCEPT ![a] = "idle"]
      /\ loaded' = [loaded EXCEPT ![a] = NoRows] /\ job' = [job EXCEPT ![a] = NoJob]
  BY DEF Gone
<1>2. pc' \in [Analyzers -> {"idle", "analyzed", "loaded", "opened"}]
  BY <1>1 DEF DataInv
<1>3. DOMAIN job' = Analyzers /\ DOMAIN loaded' = Analyzers
  BY <1>1 DEF DataInv
<1>4. ASSUME NEW c \in Analyzers
      PROVE  IsData(loaded'[c]) /\ (pc'[c] # "idle" => IsBag(job'[c]))
  <2>1. CASE c = a
    BY <1>1, <2>1, NoRowsIsData DEF DataInv
  <2>2. CASE c # a
    BY <1>1, <2>2 DEF DataInv
  <2> QED
    BY <2>1, <2>2
<1> QED
  BY <1>2, <1>3, <1>4

LEMMA ResultsKeepData ==
  ASSUME DataInv, ResultsStep, bags' = bags
  PROVE  DataInv'
<1>1. ASSUME NEW a \in Analyzers, Load(a)
      PROVE  DataInv'
  <2>1. UNCHANGED <<bags, rows, diff>>
    BY <1>1 DEF Load
  <2>2. CASE file = "torn"
    <3>1. Gone(a)
      BY <1>1, <2>2 DEF Load
    <3> QED
      BY <2>1, <3>1, GoneKeepsData DEF DataInv
  <2>3. CASE file # "torn"
    <3>1. /\ pc' = [pc EXCEPT ![a] = "loaded"] /\ pc[a] = "analyzed"
          /\ loaded' = [loaded EXCEPT ![a] = rows] /\ job' = job
      BY <1>1, <2>3 DEF Load
    <3>2. ASSUME NEW c \in Analyzers
          PROVE  IsData(loaded'[c]) /\ (pc'[c] # "idle" => IsBag(job'[c]))
      <4>1. CASE c = a
        BY <3>1, <4>1 DEF DataInv
      <4>2. CASE c # a
        BY <3>1, <4>2 DEF DataInv
      <4> QED
        BY <4>1, <4>2
    <3> QED
      BY <2>1, <3>1, <3>2 DEF DataInv
  <2> QED
    BY <2>2, <2>3
<1>2. ASSUME NEW a \in Analyzers, Open(a)
      PROVE  DataInv'
  <2>1. /\ UNCHANGED <<bags, diff, job, loaded>> /\ rows' = NoRows
        /\ pc' = [pc EXCEPT ![a] = "opened"] /\ pc[a] = "loaded"
    BY <1>2 DEF Open
  <2>2. \A c \in Analyzers : pc'[c] # "idle" => pc[c] # "idle"
    BY <2>1 DEF DataInv
  <2> QED
    BY <2>1, <2>2, NoRowsIsData DEF DataInv
<1>3. ASSUME NEW a \in Analyzers, Dump(a)
      PROVE  DataInv'
  <2>1. /\ UNCHANGED <<bags, diff>> /\ Gone(a) /\ pc[a] = "opened"
        /\ rows' = WithRow(loaded[a], job[a])
    BY <1>3 DEF Dump
  <2>2. IsData(rows')
    BY <2>1, WithRowIsData DEF DataInv
  <2> QED
    BY <2>1, <2>2, GoneKeepsData DEF DataInv
<1>4. ASSUME NEW a \in Analyzers, Die(a)
      PROVE  DataInv'
  <2>1. UNCHANGED <<bags, diff>> /\ Gone(a) /\ rows' \in {rows, NoRows}
    BY <1>4 DEF Die
  <2>2. IsData(rows')
    BY <2>1, NoRowsIsData DEF DataInv
  <2> QED
    BY <2>1, <2>2, GoneKeepsData DEF DataInv
<1>5. CASE DiffStarts
  BY <1>5 DEF DiffStarts, DataInv, Measurements
<1>6. CASE DiffReads
  <2>1. UNCHANGED <<bags, rows, pc, job, loaded>> /\ diff' \in Measurements \cup {"off"}
    BY <1>6 DEF DiffReads, DataInv, Measurements, After
  <2> QED
    BY <2>1 DEF DataInv
<1> QED
  BY <1>1, <1>2, <1>3, <1>4, <1>5, <1>6 DEF ResultsStep

LEMMA AnalyzedKeepsData ==
  ASSUME DataInv, bags' = bags, NEW a \in Analyzers, NEW b \in bags,
         Analyzed(a, b.key, b.row)
  PROVE  DataInv'
<1> DEFINE j == [key |-> b.key, row |-> b.row]
<1>1. /\ pc' = [pc EXCEPT ![a] = "analyzed"] /\ job' = [job EXCEPT ![a] = j]
      /\ UNCHANGED <<rows, loaded, diff>>
  BY DEF Analyzed
<1>2. IsBag(j)
  BY DEF DataInv, IsBag
<1> HIDE DEF j
<1>3. ASSUME NEW c \in Analyzers
      PROVE  pc'[c] # "idle" => IsBag(job'[c])
  <2>1. CASE c = a
    BY <1>1, <1>2, <2>1 DEF DataInv
  <2>2. CASE c # a
    BY <1>1, <2>2 DEF DataInv
  <2> QED
    BY <2>1, <2>2
<1> QED
  BY <1>1, <1>3 DEF DataInv

LEMMA PutAwayKeepsData ==
  ASSUME DataInv, NEW found, PutAway(found), \A b \in found : IsBag(b)
  PROVE  DataInv'
<1>1. UNCHANGED <<rows, pc, job, loaded, diff>>
  BY DEF PutAway, resultsVars
<1>2. \A b \in bags' : IsBag(b)
  BY DEF PutAway, DataInv
<1> QED
  BY <1>1, <1>2 DEF DataInv

LEMMA DataStep ==
  ASSUME StaticInv, DataInv, [CampaignNext]_campaignVars
  PROVE  DataInv'
<1>1. CASE StaticSession \/ ActuatorSession \/ FrictionSession \/ UNCHANGED campaignVars
  BY <1>1 DEF StaticSession, ActuatorSession, FrictionSession, campaignVars, resultsVars, DataInv
<1>2. CASE PutStaticAway
  BY <1>2, StaticBagsAreBags, PutAwayKeepsData DEF PutStaticAway
<1>3. CASE PutActuatorAway \/ PutFrictionAway
  BY <1>3, OtherBagsAreBags, PutAwayKeepsData DEF PutActuatorAway, PutFrictionAway
<1>4. CASE StartAnalyzer
  BY <1>4, AnalyzedKeepsData DEF StartAnalyzer
<1>5. CASE AtTheDesk
  BY <1>5, ResultsKeepData DEF AtTheDesk
<1> QED
  BY <1>1, <1>2, <1>3, <1>4, <1>5 DEF CampaignNext

-----------------------------------------------------------------------------
\* One analyzer at a time has all the rows in memory while the file is being written.
LEMMA LoadKeepsLone ==
  ASSUME DataInv, lone => LoneInv, NEW a \in Analyzers, Load(a), lone'
  PROVE  LoneInv'
<1>1. UNCHANGED <<rows, issued>>
  BY DEF Load
<1>2. CASE file = "torn"
  <2>1. pc' = [pc EXCEPT ![a] = "idle"] /\ loaded' = [loaded EXCEPT ![a] = NoRows]
        /\ pc[a] = "analyzed"
    BY <1>2 DEF Load, Gone
  <2>2. lone
    BY <1>2, Zenon DEF Load
  <2>3. /\ \A c \in Analyzers : pc'[c] = "opened" <=> pc[c] = "opened"
        /\ \A c \in Analyzers : Busy(c)' => Busy(c) /\ loaded'[c] = loaded[c]
    BY <2>1 DEF DataInv, Busy
  <2> QED
    BY <1>1, <2>2, <2>3 DEF LoneInv
<1>3. CASE file # "torn"
  <2>1. /\ pc' = [pc EXCEPT ![a] = "loaded"] /\ loaded' = [loaded EXCEPT ![a] = rows]
        /\ pc[a] = "analyzed"
    BY <1>3 DEF Load
  <2>2. lone /\ \A c \in Analyzers : ~Busy(c)
    BY <1>3, Zenon DEF Load
  <2>3. \A c \in Analyzers : pc[c] # "opened"
    BY <2>2 DEF Busy
  <2>4. rows = issued
    BY <2>2, <2>3 DEF LoneInv
  <2>5. \A c \in Analyzers : Busy(c)' => c = a /\ loaded'[c] = issued
    BY <2>1, <2>2, <2>4 DEF DataInv, Busy
  <2> QED
    BY <1>1, <2>4, <2>5 DEF LoneInv
<1> QED
  BY <1>2, <1>3

LEMMA OpenKeepsLone ==
  ASSUME DataInv, lone => LoneInv, NEW a \in Analyzers, Open(a), lone'
  PROVE  LoneInv'
<1>1. /\ pc' = [pc EXCEPT ![a] = "opened"] /\ pc[a] = "loaded"
      /\ UNCHANGED <<loaded, issued, lone>>
  BY DEF Open
<1>2. LoneInv
  BY <1>1, Zenon
<1>3. pc'[a] = "opened" /\ \A c \in Analyzers : Busy(c)' => Busy(c)
  BY <1>1 DEF DataInv, Busy
<1> QED
  BY <1>1, <1>2, <1>3 DEF LoneInv

LEMMA DumpKeepsLone ==
  ASSUME DataInv, lone => LoneInv, NEW a \in Analyzers, Dump(a), lone'
  PROVE  LoneInv'
<1>1. /\ pc' = [pc EXCEPT ![a] = "idle"] /\ pc[a] = "opened"
      /\ rows' = WithRow(loaded[a], job[a])
      /\ issued' = [issued EXCEPT ![job[a].key] = Append(@, job[a].row)]
      /\ lone' = lone
  BY DEF Dump, Gone
<1>2. LoneInv
  BY <1>1, Zenon
<1>3. Busy(a) /\ loaded[a] = issued
  BY <1>1, <1>2 DEF Busy, LoneInv
<1>4. rows' = issued'
  BY <1>1, <1>3 DEF WithRow
<1>5. \A c \in Analyzers : ~Busy(c)'
  BY <1>1, <1>2, <1>3 DEF DataInv, Busy, LoneInv
<1> QED
  BY <1>4, <1>5 DEF LoneInv

LEMMA DieKeepsLone ==
  ASSUME DataInv, lone => LoneInv, NEW a \in Analyzers, Die(a), lone'
  PROVE  LoneInv'
<1>1. lone /\ pc[a] # "opened"
  BY Zenon DEF Die
<1>2. /\ pc' = [pc EXCEPT ![a] = "idle"] /\ loaded' = [loaded EXCEPT ![a] = NoRows]
      /\ rows' = rows /\ issued' = issued
  BY <1>1 DEF Die, Gone
<1>3. /\ \A c \in Analyzers : pc'[c] = "opened" <=> pc[c] = "opened"
      /\ \A c \in Analyzers : Busy(c)' => Busy(c) /\ loaded'[c] = loaded[c]
  BY <1>1, <1>2 DEF DataInv, Busy
<1> QED
  BY <1>1, <1>2, <1>3 DEF LoneInv

LEMMA LoneStep ==
  ASSUME DataInv, lone => LoneInv, [CampaignNext]_campaignVars, lone'
  PROVE  LoneInv'
<1>1. CASE UNCHANGED <<rows, pc, loaded, issued, lone>>
  <2>1. LoneInv
    BY <1>1, Zenon
  <2> QED
    BY <1>1, <2>1 DEF LoneInv, Busy
<1>2. CASE StartAnalyzer
  <2>1. PICK a \in Analyzers, b \in bags : Analyzed(a, b.key, b.row)
    BY <1>2 DEF StartAnalyzer
  <2>2. /\ pc' = [pc EXCEPT ![a] = "analyzed"] /\ pc[a] = "idle"
        /\ UNCHANGED <<rows, loaded, issued, lone>>
    BY <2>1 DEF Analyzed
  <2>3. LoneInv
    BY <2>2, Zenon
  <2>4. /\ \A c \in Analyzers : pc'[c] = "opened" <=> pc[c] = "opened"
        /\ \A c \in Analyzers : Busy(c)' => Busy(c)
    BY <2>2 DEF DataInv, Busy
  <2> QED
    BY <2>2, <2>3, <2>4 DEF LoneInv
<1>3. CASE AtTheDesk
  <2>1. CASE DiffStarts \/ DiffReads
    BY <1>1, <2>1 DEF DiffStarts, DiffReads
  <2> QED
    BY <1>3, <2>1, LoadKeepsLone, OpenKeepsLone, DumpKeepsLone, DieKeepsLone
    DEF AtTheDesk, ResultsStep
<1>4. CASE StaticSession \/ ActuatorSession \/ FrictionSession \/ UNCHANGED campaignVars
  BY <1>1, <1>4 DEF StaticSession, ActuatorSession, FrictionSession, campaignVars, resultsVars
<1>5. CASE PutStaticAway \/ PutActuatorAway \/ PutFrictionAway
  BY <1>1, <1>5 DEF PutStaticAway, PutActuatorAway, PutFrictionAway, PutAway, resultsVars
<1> QED
  BY <1>2, <1>3, <1>4, <1>5 DEF CampaignNext

-----------------------------------------------------------------------------
LEMMA CampaignInvInit == CampaignInit => CampaignInv
<1> SUFFICES ASSUME CampaignInit
             PROVE  CampaignInv
  OBVIOUS
<1>1. StaticInv /\ FrictionInv /\ ActuatorInv
  BY StaticInvInit, FrictionInvInit, ActuatorInvInit DEF CampaignInit
<1>2. /\ rows = NoRows /\ issued = NoRows /\ diff = "off" /\ bags = OldBags
      /\ pc = [a \in Analyzers |-> "idle"] /\ job = [a \in Analyzers |-> NoJob]
      /\ loaded = [a \in Analyzers |-> NoRows]
  BY DEF CampaignInit, ResultsInit
<1>3. \A b \in bags : IsBag(b)
  BY <1>2, CampaignAssumption
<1>4. DataInv
  BY <1>2, <1>3, NoRowsIsData DEF DataInv
<1>5. LoneInv
  BY <1>2 DEF LoneInv, Busy
<1> QED
  BY <1>1, <1>4, <1>5 DEF CampaignInv

\* Every step of the day is one of the actuator protocol, puts it away, or leaves it.
LEMMA ActuatorSteps ==
  ASSUME [CampaignNext]_campaignVars
  PROVE  [CalibNext]_calibVars \/ CalibCleared
BY Zenon DEF CampaignNext, StaticSession, ActuatorSession, FrictionSession, PutStaticAway,
   PutActuatorAway, PutFrictionAway, StartAnalyzer, AtTheDesk, campaignVars

LEMMA CampaignInvStep == CampaignInv /\ [CampaignNext]_campaignVars => CampaignInv'
<1> SUFFICES ASSUME CampaignInv, [CampaignNext]_campaignVars
             PROVE  CampaignInv'
  OBVIOUS
<1>1. StaticInv /\ FrictionInv /\ ActuatorInv /\ DataInv /\ (lone => LoneInv)
  BY DEF CampaignInv
<1>2. StaticInv'
  <2>1. [StaticNext]_staticVars \/ StaticCleared
    BY Zenon DEF CampaignNext, StaticSession, ActuatorSession, FrictionSession, PutStaticAway,
       PutActuatorAway, PutFrictionAway, StartAnalyzer, AtTheDesk, campaignVars
  <2> QED
    BY <1>1, <2>1, StaticInvStep, StaticClearedInv
<1>3. FrictionInv'
  <2>1. [FrictionNext]_frictionVars \/ FrictionCleared
    BY Zenon DEF CampaignNext, StaticSession, ActuatorSession, FrictionSession, PutStaticAway,
       PutActuatorAway, PutFrictionAway, StartAnalyzer, AtTheDesk, campaignVars
  <2> QED
    BY <1>1, <2>1, FrictionInvStep, FrictionClearedInv
<1>4. ActuatorInv'
  BY <1>1, ActuatorSteps, ActuatorInvStep, ActuatorClearedInv
<1>5. DataInv'
  BY <1>1, DataStep
<1>6. lone' => LoneInv'
  BY <1>1, LoneStep
<1> QED
  BY <1>2, <1>3, <1>4, <1>5, <1>6 DEF CampaignInv

LEMMA CampaignInvariant == CampaignSpec => []CampaignInv
BY CampaignInvInit, CampaignInvStep, PTL DEF CampaignSpec

\* A day of sessions, however they are put away, mixes no settling into a recording.
THEOREM CampaignSettlingDiscarded == CampaignSpec => []SettlingIsDiscarded
<1>1. CampaignInv => SettlingIsDiscarded
  BY DEF CampaignInv, StaticInv, QueueInv, WindowInv, SettlingIsDiscarded
<1> QED
  BY <1>1, CampaignInvariant, PTL

\* A day of sessions leaves every friction angle the node takes a breakaway angle, ...
THEOREM CampaignAnglesTrue == CampaignSpec => []AnglesAreBreakaways
<1>1. CampaignInv => AnglesAreBreakaways
  BY DEF CampaignInv, FrictionInv
<1> QED
  BY <1>1, CampaignInvariant, PTL

\* ... and every angle of the analyzer one of the slips its window touches.
THEOREM CampaignPeaksOfTwoSlips == CampaignSpec => []PeaksAreOfTwoSlips
<1>1. CampaignInv => PeaksAreOfTwoSlips
  BY DEF CampaignInv, FrictionInv
<1> QED
  BY <1>1, CampaignInvariant, PTL

\* Appends that do not overlap are all kept, as long as none is cut off.
THEOREM AppendsKept == CampaignSpec => []LoneAppendsAreKept
<1>1. CampaignInv => LoneAppendsAreKept
  BY DEF CampaignInv, LoneInv, LoneAppendsAreKept
<1> QED
  BY <1>1, CampaignInvariant, PTL

\* What the diff prints in GREEN is earned by the row appended last, whatever rows, gains
\* of either sign and missing values it has: all but a NaN behind a number among the axes
\* of an IMU row, which the diff passes over.
THEOREM GreenEarned == CampaignSpec => []GreenIsEarned
<1>1. ASSUME CampaignInv, lone, diff # "off", \A a \in Analyzers : pc[a] # "opened",
             NEW l \in Printed(diff), l.green
      PROVE  /\ issued[diff] # <<>>
             /\ \/ NaNIsPassedOver(diff, issued[diff][Len(issued[diff])])
                \/ Earned(diff, issued[diff][Len(issued[diff])], l.line)
  <2>1. rows = issued /\ diff \in Measurements /\ IsData(rows)
    BY <1>1 DEF CampaignInv, LoneInv, DataInv
  <2>2. rows[diff] # <<>> /\ l \in Lines(diff, Latest(diff))
    BY <1>1 DEF Printed
  <2>3. diff # "friction" => Latest(diff) \in RowsOf(diff)
    <3> SUFFICES ASSUME diff # "friction"
                 PROVE  Latest(diff) \in RowsOf(diff)
      OBVIOUS
    <3> DEFINE s == rows[diff]
    <3>1. s \in Seq(RowsOf(diff)) /\ s # <<>>
      BY <2>1, <2>2 DEF IsData
    <3> HIDE DEF s
    <3>2. s[Len(s)] \in RowsOf(diff)
      BY <3>1
    <3> QED
      BY <3>2 DEF Latest, s
  <2>4. NaNIsPassedOver(diff, Latest(diff)) \/ Earned(diff, Latest(diff), l.line)
    BY <1>1, <2>1, <2>2, <2>3, LinesAreEarned
  <2> QED
    BY <2>1, <2>2, <2>4 DEF Latest
<1>2. CampaignInv => GreenIsEarned
  BY <1>1, Zenon DEF GreenIsEarned
<1> QED
  BY <1>2, CampaignInvariant, PTL

\* A channel that was down while it was recorded is reported RED.
THEOREM DeadRed == CampaignSpec => []DeadChannelIsRed
<1>1. ASSUME CampaignInv, diff = "bus_jitter", NEW l \in Printed(diff),
             l.line = "nan_fraction", l.green
      PROVE  ~Latest(diff).dead
  <2> DEFINE s == rows[diff]
             row == Latest(diff)
  <2>1. IsData(rows) /\ diff \in Measurements \ {"friction"}
    BY <1>1 DEF CampaignInv, DataInv, Measurements
  <2>2. s # <<>> /\ l \in Lines(diff, row)
    BY <1>1 DEF Printed
  <2>3. row \in RowsOf(diff)
    <3>1. s \in Seq(RowsOf(diff)) /\ row = s[Len(s)]
      BY <2>1 DEF IsData, Latest
    <3> HIDE DEF s, row
    <3> QED
      BY <2>2, <3>1
  <2> HIDE DEF s, row
  <2>4. DeadIsDropping(row)
    BY <1>1, <2>3 DEF RowsOf
  <2>5. l \in BusLines(row)
    BY <1>1, <2>2 DEF Lines
  <2>6. l = [line |-> "nan_fraction", green |-> ~Dropping(row)]
    BY <1>1, <2>5 DEF BusLines, Line
  <2>7. ~Dropping(row)
    BY <1>1, <2>6, Zenon
  <2>8. ~row.dead
    BY <2>4, <2>7, Zenon DEF DeadIsDropping
  <2> QED
    BY <2>8 DEF row
<1>2. CampaignInv => DeadChannelIsRed
  BY <1>1, Zenon DEF DeadChannelIsRed
<1> QED
  BY <1>2, CampaignInvariant, PTL

\* Putting a session away adds no trial to it.
THEOREM CampaignTrialsSeparate == CampaignSpec => TrialsAreSeparate
<1>1. ASSUME CampaignInv, [CampaignNext]_campaignVars
      PROVE  [Len(slip_angles') > Len(slip_angles) => levelled]_frictionVars
  <2>1. FrictionInv
    BY <1>1 DEF CampaignInv
  <2>2. [FrictionNext]_frictionVars \/ FrictionCleared
    BY <1>1, Zenon DEF CampaignNext, StaticSession, ActuatorSession, FrictionSession, PutStaticAway,
       PutActuatorAway, PutFrictionAway, StartAnalyzer, AtTheDesk, campaignVars
  <2>3. CASE FrictionCleared
    <3>1. Len(slip_angles') = 0 /\ Len(slip_angles) \in Nat
      BY <2>1, <2>3 DEF FrictionCleared, FrictionInv, FrictionTypeOK
    <3> QED
      BY <3>1
  <2> QED
    BY <2>1, <2>2, <2>3, SlipAfterLevel
<1> QED
  BY <1>1, CampaignInvariant, PTL DEF CampaignSpec, TrialsAreSeparate

\* Nor does it end a joint's block, ...
THEOREM CampaignStepsFound == CampaignSpec => StepsAreFound
<1>1. ASSUME CampaignInv, [CampaignNext]_campaignVars
      PROVE  [cur_joint' > cur_joint =>
                /\ up_ticks = NSteps * Hold
                /\ HasRoom(cur_joint) =>
                     rises >= NSteps /\ (~interrupted => rises = NSteps)
                /\ ~HasRoom(cur_joint) => rises = 0]_calibVars
  <2>1. ActuatorInv
    BY <1>1 DEF CampaignInv
  <2>2. CASE CalibCleared
    <3>1. cur_joint' = 1 /\ cur_joint \in Nat \ {0}
      BY <2>1, <2>2 DEF CalibCleared, ActuatorInv, ActuatorTypeOK
    <3> QED
      BY <3>1
  <2> QED
    BY <1>1, <2>1, <2>2, ActuatorSteps, StepsStep
<1> QED
  BY <1>1, CampaignInvariant, PTL DEF CampaignSpec, StepsAreFound

\* ... or show a motion.
THEOREM CampaignLatencyTrue == CampaignSpec => LatencyIsOfTheStep
<1>1. ASSUME CampaignInv, [CampaignNext]_campaignVars
      PROVE  [~answered /\ answered' /\ ~disturbed =>
                away' /\ since_edge' <= MotorDelay + 1]_calibVars
  <2>1. ActuatorInv
    BY <1>1 DEF CampaignInv
  <2>2. CASE CalibCleared
    BY <2>2 DEF CalibCleared
  <2> QED
    BY <1>1, <2>1, <2>2, ActuatorSteps, LatencyStep
<1> QED
  BY <1>1, CampaignInvariant, PTL DEF CampaignSpec, LatencyIsOfTheStep
=============================================================================
