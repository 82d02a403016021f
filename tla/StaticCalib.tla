---------------------------- MODULE StaticCalib ----------------------------
(***************************************************************************)
(* qmini_calibration: bus_jitter_calib.py and imu_noise_calib.py.  Both    *)
(* let the robot settle, mark the beginning of a static window on          *)
(* /calibration/event, collect one topic for a while, mark the end, write  *)
(* a summary and shut down, while a recorder writes the same topic and the *)
(* marks into a bag.  analyze_bus_jitter_bag.py and analyze_imu_bag.py     *)
(* make a row of what the bag holds between the marks.                     *)
(*                                                                         *)
(* A reading is kept as whether it was published while the node collected  *)
(* and whether the channel looked at was down (a NaN in /joint_states);    *)
(* the statistics of the node's own summary are left out.                  *)
(* Times are firings of the 0.1 s timer.                                   *)
(***************************************************************************)
EXTENDS Integers, Sequences

CONSTANTS
  SettleTicks,  \* parameter settle_s
  CollectTicks, \* parameter duration_s
  MinSamples,   \* 10
  QueueDepth,   \* qos_profile_sensor_data keeps the last so many readings
  BagDelay,     \* readings that may overtake a mark, or be overtaken by one, on
                \* their way to the recorder
  PerTick,      \* readings published between two firings of the timer (a bound)
  Lapses,       \* what the node's clock may show to have passed between two firings
  MaxSetBacks   \* times the clock is set back in a session (a bound)

ASSUME StaticAssumption ==
  /\ SettleTicks \in Nat /\ CollectTicks \in Nat
  /\ MinSamples \in Nat \ {0} /\ QueueDepth \in Nat \ {0}
  /\ BagDelay \in Nat /\ PerTick \in Nat /\ MaxSetBacks \in Nat
  /\ Lapses \subseteq Int

VARIABLES
  stage,      \* phase: settle, collect, done; ended: a summary or an error came of it;
              \* killed: Ctrl-C
  elapsed,    \* now() - t0, now() - t_collect
  inbox,      \* readings in the node's subscription
  n,          \* n
  summary,    \* what came of finish
  made,       \* environment: readings published since the timer fired
  set_backs,  \* environment: times the clock was set back
  wire,       \* environment: readings on their way to the recorder
  marks,      \* environment: marks on their way to the recorder
  lag,        \* environment: readings published while the first of them is
  recorder,   \* environment: late, recording or closed
  began, over,     \* the bag holds static_begin, static_end
  bag_n, bag_bad,  \* readings the bag holds between the two, and with the channel down
  n_outside, bag_outside,  \* history: of n and bag_n, published when not collecting
  down,       \* history: no reading published while collecting has the channel up
  alone       \* history: no other node has marked on the topic

staticVars == <<stage, elapsed, inbox, n, summary, made, set_backs, wire, marks, lag,
                recorder, began, over, bag_n, bag_bad, n_outside, bag_outside, down, alone>>

nodeVars == <<stage, elapsed, n, summary, set_backs, n_outside>>
bagVars == <<recorder, began, over, bag_n, bag_bad, bag_outside>>
transitVars == <<made, wire, marks, lag>>

StaticInit ==
  /\ stage = "settle" /\ elapsed = 0
  /\ inbox = <<>> /\ n = 0 /\ n_outside = 0 /\ summary = "none"
  /\ made = 0 /\ set_backs = 0
  /\ wire = <<>> /\ marks = <<>> /\ lag = 0
  /\ recorder = "late" /\ began = FALSE /\ over = FALSE
  /\ bag_n = 0 /\ bag_bad = 0 /\ bag_outside = 0
  /\ down = TRUE /\ alone = TRUE

-----------------------------------------------------------------------------
\* KEEP_LAST: the oldest reading makes room.
Queued(s, r) == IF Len(s) < QueueDepth THEN Append(s, r) ELSE Append(Tail(s), r)

\* The motor bus or the IMU publishes a reading.
Publish(bad) ==
  LET r == [inside |-> stage = "collect", bad |-> bad] IN
  /\ made < PerTick
  /\ recorder = "recording" => Len(wire) < BagDelay
  /\ marks # <<>> => lag < BagDelay
  /\ made' = made + 1
  /\ inbox' = Queued(inbox, r)
  /\ wire' = IF recorder = "recording" THEN Append(wire, r) ELSE wire
  /\ lag' = IF marks = <<>> THEN 0 ELSE lag + 1
  /\ down' = (down /\ (r.inside => bad))
  /\ UNCHANGED <<nodeVars, bagVars, marks, alone>>

\* Mutant of Collects: readings are taken from the start.
CollectsAlways == stage \in {"settle", "collect"}

Collects == stage = "collect"

Count(counter, condition) == IF condition THEN counter + 1 ELSE counter

\* on_js, on_imu.
OnReading ==
  LET r == Head(inbox) IN
  /\ stage \in {"settle", "collect"} /\ inbox # <<>>
  /\ inbox' = Tail(inbox)
  /\ n' = Count(n, Collects)
  /\ n_outside' = Count(n_outside, Collects /\ ~r.inside)
  /\ UNCHANGED <<stage, elapsed, summary, set_backs, transitVars, bagVars, down, alone>>

\* The clock between two firings of the timer: late firings and a clock set forward
\* let more pass than one, a clock set back less than none.
Clock(lapse) ==
  /\ lapse < 1 => set_backs < MaxSetBacks
  /\ set_backs' = Count(set_backs, lapse < 1)
  /\ made' = 0

Emit(label) ==
  /\ marks' = IF recorder = "recording" THEN Append(marks, label) ELSE marks
  /\ lag' = IF marks = <<>> THEN 0 ELSE lag

\* tick: nothing is due.
TickWaiting(lapse) ==
  /\ \/ stage = "settle" /\ elapsed + lapse < SettleTicks
     \/ stage = "collect" /\ elapsed + lapse < CollectTicks
  /\ Clock(lapse)
  /\ elapsed' = elapsed + lapse
  /\ UNCHANGED <<stage, inbox, n, summary, n_outside, wire, marks, lag, bagVars,
                 down, alone>>

TickBegin(lapse) ==
  /\ stage = "settle" /\ elapsed + lapse >= SettleTicks
  /\ Clock(lapse)
  /\ stage' = "collect" /\ elapsed' = 0
  /\ Emit("static_begin")
  /\ UNCHANGED <<inbox, n, summary, n_outside, wire, bagVars, down, alone>>

\* finish: too few readings make an error, not a summary.
Finish == summary' = IF n < MinSamples THEN "too_few" ELSE "written"

TickEnd(lapse) ==
  /\ stage = "collect" /\ elapsed + lapse >= CollectTicks
  /\ Clock(lapse)
  /\ stage' = "done" /\ elapsed' = 0
  /\ Emit("static_end")
  /\ Finish
  /\ inbox' = <<>>
  /\ UNCHANGED <<n, n_outside, wire, bagVars, down, alone>>

StaticTick == \E lapse \in Lapses : TickWaiting(lapse) \/ TickBegin(lapse) \/ TickEnd(lapse)

-----------------------------------------------------------------------------
(* The recorder and what analyze makes of its bag.                         *)

RecorderStarts ==
  /\ recorder = "late"
  /\ recorder' = "recording"
  /\ UNCHANGED <<nodeVars, transitVars, inbox, began, over, bag_n, bag_bad, bag_outside,
                 down, alone>>

\* Mutant of InWindow: the beginning of the window is not looked for.
BeforeTheEnd == ~over

\* begin <= t <= end
InWindow == began /\ ~over

RecordReading ==
  LET r == Head(wire) IN
  /\ recorder = "recording" /\ wire # <<>>
  /\ wire' = Tail(wire)
  /\ bag_n' = Count(bag_n, InWindow)
  /\ bag_bad' = Count(bag_bad, InWindow /\ r.bad)
  /\ bag_outside' = Count(bag_outside, InWindow /\ ~r.inside)
  /\ UNCHANGED <<nodeVars, inbox, made, marks, lag, recorder, began, over, down, alone>>

\* The first mark of either kind counts.
RecordMark ==
  /\ recorder = "recording" /\ marks # <<>>
  /\ marks' = Tail(marks)
  /\ lag' = 0
  /\ began' = (began \/ Head(marks) = "static_begin")
  /\ over' = (over \/ Head(marks) = "static_end")
  /\ UNCHANGED <<nodeVars, inbox, made, wire, recorder, bag_n, bag_bad, bag_outside,
                 down, alone>>

\* Another calibration node marks on the same topic.
ForeignMark(label) ==
  /\ recorder = "recording" /\ alone
  /\ alone' = FALSE
  /\ Emit(label)
  /\ UNCHANGED <<nodeVars, inbox, made, wire, bagVars, down>>

\* Ctrl-C ends the launch: the node, if it still runs, without a summary.
StopLaunch ==
  /\ recorder = "recording"
  /\ recorder' = "closed"
  /\ stage' = IF stage = "done" THEN "done" ELSE "killed"
  /\ wire' = <<>> /\ marks' = <<>> /\ inbox' = <<>> /\ lag' = 0 /\ made' = 0
  /\ UNCHANGED <<elapsed, n, summary, set_backs, n_outside, began, over, bag_n,
                 bag_bad, bag_outside, down, alone>>

\* The recording is put away.
StaticCleared ==
  /\ stage' = "settle" /\ elapsed' = 0 /\ inbox' = <<>> /\ n' = 0 /\ summary' = "none"
  /\ made' = 0 /\ set_backs' = 0 /\ wire' = <<>> /\ marks' = <<>> /\ lag' = 0
  /\ recorder' = "late" /\ began' = FALSE /\ over' = FALSE /\ bag_n' = 0 /\ bag_bad' = 0
  /\ n_outside' = 0 /\ bag_outside' = 0 /\ down' = TRUE /\ alone' = TRUE

\* analyze finds both marks and readings enough.
HasRow == recorder = "closed" /\ began /\ over /\ bag_n >= MinSamples

StaticNext ==
  \/ \E bad \in BOOLEAN : Publish(bad)
  \/ OnReading
  \/ StaticTick
  \/ RecorderStarts
  \/ RecordReading
  \/ RecordMark
  \/ \E label \in {"static_begin", "static_end"} : ForeignMark(label)
  \/ StopLaunch

StaticSpec == StaticInit /\ [][StaticNext]_staticVars

-----------------------------------------------------------------------------
\* What was measured while the robot was still settling stays out: the node counts
\* at most the readings that waited in its queue when the window began, the bag's
\* window has at most those that crossed one of its own two marks on the way.
SettlingIsDiscarded ==
  /\ n_outside <= QueueDepth
  /\ alone => bag_outside <= 2 * BagDelay

Labels == {"static_begin", "static_end"}
Reading == [inside : BOOLEAN, bad : BOOLEAN]

StaticTypeOK ==
  /\ stage \in {"settle", "collect", "done", "killed"}
  /\ recorder \in {"late", "recording", "closed"}
  /\ inbox \in Seq(Reading) /\ wire \in Seq(Reading) /\ marks \in Seq(Labels)
  /\ began \in BOOLEAN /\ over \in BOOLEAN
  /\ n \in Nat /\ n_outside \in Nat /\ lag \in Nat
  /\ bag_n \in Nat /\ bag_bad \in Nat /\ bag_outside \in Nat

\* At most the first k readings of the queue are from before the window.
QueueInv ==
  /\ Len(inbox) <= QueueDepth
  /\ n_outside <= QueueDepth
  /\ stage = "settle" => n_outside = 0
  /\ stage = "collect" =>
       \E k \in 0..QueueDepth :
         /\ n_outside + k <= QueueDepth
         /\ \A i \in 1..Len(inbox) : i > k => inbox[i].inside

\* Of the readings w on the wire only the first k and the last p are from outside the
\* window.
Crossing(w, k, p) == \A i \in 1..Len(w) : k < i /\ i <= Len(w) - p => w[i].inside

\* Where the two marks are, while no other node marks.
MarksInv ==
  /\ recorder = "late" => Len(marks) = 0 /\ ~began /\ ~over
  /\ recorder # "recording" => Len(wire) = 0
  /\ stage = "settle" => Len(marks) = 0 /\ ~began /\ ~over
  /\ stage = "collect" =>
       /\ ~over
       /\ Len(marks) = 0 \/ (Len(marks) = 1 /\ marks[1] = "static_begin" /\ ~began)
  /\ stage = "done" /\ recorder # "closed" =>
       /\ \/ Len(marks) = 0
          \/ Len(marks) = 1 /\ marks[1] = "static_end"
          \/ /\ Len(marks) = 2 /\ marks[1] = "static_begin" /\ marks[2] = "static_end"
             /\ ~began /\ ~over
       /\ began /\ ~over => Len(marks) = 1
  /\ stage = "killed" => recorder = "closed"
  /\ stage \in {"settle", "collect"} => recorder # "closed"

\* The foreign readings in the bag's window and on the wire, while no other node marks.
WindowInv ==
  /\ stage = "collect" /\ began =>
       \E k \in 0..BagDelay :
         bag_outside + k <= BagDelay /\ k <= Len(wire) /\ Crossing(wire, k, 0)
  /\ stage = "done" /\ recorder # "closed" /\ began /\ ~over =>
       \E k, p \in 0..BagDelay :
         bag_outside + k + p <= BagDelay + lag /\ k + p <= Len(wire) /\ Crossing(wire, k, p)
  /\ ~began => bag_outside = 0
  /\ bag_outside <= 2 * BagDelay

\* While the channel is down, every reading of the window that is not bad is foreign.
DownInv ==
  /\ \A i \in 1..Len(wire) : wire[i].inside => wire[i].bad
  /\ bag_n <= bag_bad + bag_outside

\* The inductive invariant of StaticCalibProofs.
StaticInv ==
  /\ StaticTypeOK
  /\ QueueInv
  /\ Len(wire) <= BagDelay /\ lag <= BagDelay
  /\ alone => MarksInv /\ WindowInv
  /\ down => DownInv
=============================================================================
