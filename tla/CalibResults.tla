---------------------------- MODULE CalibResults ----------------------------
(***************************************************************************)
(* calibration_results.yaml and those who use it: the analyzers            *)
(* (analyze_*_bag.py), which append a row each, and the diff, which looks  *)
(* up the latest row of one measurement after the other.                   *)
(*                                                                         *)
(* append_row reads the whole file, adds its row to what it has read, and  *)
(* writes the whole file in place: nothing keeps another analyzer, or a    *)
(* diff, out between these steps, nor the process alive.                   *)
(***************************************************************************)
EXTENDS IsaacDiff, Sequences

CONSTANTS
  Analyzers,  \* analyzer processes
  MaxRows     \* rows ever appended (a bound)

ASSUME ResultsAssumption == MaxRows \in Nat

VARIABLES
  file,     \* whole, empty (opened for writing, or not there) or torn
  rows,     \* what is read of it: the rows of each measurement
  pc,       \* idle, analyzed, loaded, opened
  job,      \* the measurement and the row an analyzer is to append
  loaded,   \* what an analyzer has read
  diff,     \* the measurement the diff is at, or "off"
  issued,   \* history: the rows appended to each measurement, in order
  lone      \* history: no analyzer died while writing or began before another ended

resultsVars == <<file, rows, pc, job, loaded, diff, issued, lone>>

NoRows == [k \in Measurements |-> <<>>]
NoJob == [key |-> "none"]

ResultsInit ==
  /\ file = "empty" /\ rows = NoRows
  /\ pc = [a \in Analyzers |-> "idle"]
  /\ job = [a \in Analyzers |-> NoJob]
  /\ loaded = [a \in Analyzers |-> NoRows]
  /\ diff = "off"
  /\ issued = NoRows
  /\ lone = TRUE

-----------------------------------------------------------------------------
\* How many rows there are or will be.
Rows == Len(issued["imu_noise_mount"]) + Len(issued["bus_jitter"])
          + Len(issued["actuator_latency"]) + Len(issued["friction"])

\* analyze has made a row of a bag.
Analyzed(a, key, row) ==
  /\ pc[a] = "idle"
  /\ Rows < MaxRows
  /\ pc' = [pc EXCEPT ![a] = "analyzed"]
  /\ job' = [job EXCEPT ![a] = [key |-> key, row |-> row]]
  /\ UNCHANGED <<file, rows, loaded, diff, issued, lone>>

\* The process is gone, and what it had in memory with it.
Gone(a) ==
  /\ pc' = [pc EXCEPT ![a] = "idle"]
  /\ job' = [job EXCEPT ![a] = NoJob]
  /\ loaded' = [loaded EXCEPT ![a] = NoRows]

Busy(a) == pc[a] \in {"loaded", "opened"}

\* append_row: the file as it is now; what is torn cannot be read and ends the analyzer.
Load(a) ==
  /\ pc[a] = "analyzed"
  /\ IF file = "torn"
     THEN Gone(a) /\ UNCHANGED lone
     ELSE /\ pc' = [pc EXCEPT ![a] = "loaded"]
          /\ loaded' = [loaded EXCEPT ![a] = rows]
          /\ lone' = (lone /\ \A b \in Analyzers : ~Busy(b))
          /\ UNCHANGED job
  /\ UNCHANGED <<file, rows, diff, issued>>

\* append_row: the file is opened for writing, which empties it.
Open(a) ==
  /\ pc[a] = "loaded"
  /\ pc' = [pc EXCEPT ![a] = "opened"]
  /\ file' = "empty" /\ rows' = NoRows
  /\ UNCHANGED <<job, loaded, diff, issued, lone>>

\* Mutant of WithRow: setdefault with the new row, which is there only at first.
WithFirstRow(data, j) ==
  [data EXCEPT ![j.key] = IF @ = <<>> THEN <<j.row>> ELSE @]

WithRow(data, j) == [data EXCEPT ![j.key] = Append(@, j.row)]

\* append_row: the rows that were read and the new one are written.
Dump(a) ==
  /\ pc[a] = "opened"
  /\ Gone(a)
  /\ file' = "whole"
  /\ rows' = WithRow(loaded[a], job[a])
  /\ issued' = [issued EXCEPT ![job[a].key] = Append(@, job[a].row)]
  /\ UNCHANGED <<diff, lone>>

\* The process dies.  What it was writing is lost, or cut off where no reader can
\* make sense of it.
Die(a) ==
  /\ pc[a] # "idle"
  /\ Gone(a)
  /\ lone' = (lone /\ pc[a] # "opened")
  /\ file' \in IF pc[a] = "opened" THEN {"empty", "torn"} ELSE {file}
  /\ rows' = IF pc[a] = "opened" THEN NoRows ELSE rows
  /\ UNCHANGED <<diff, issued>>

-----------------------------------------------------------------------------
\* The diff takes the measurements in this order and opens the file for each.
DiffStarts ==
  /\ diff = "off"
  /\ diff' = "imu_noise_mount"
  /\ UNCHANGED <<file, rows, pc, job, loaded, issued, lone>>

After(key) ==
  CASE key = "imu_noise_mount"  -> "bus_jitter"
    [] key = "bus_jitter"       -> "actuator_latency"
    [] key = "actuator_latency" -> "friction"
    [] key = "friction"         -> "off"

\* Mutant of Latest: the first row of a measurement.
Earliest(key) == rows[key][1]

\* latest_row
Latest(key) == rows[key][Len(rows[key])]

\* The lines printed for a measurement; without rows it is skipped.
Printed(key) == IF rows[key] = <<>> THEN {} ELSE Lines(key, Latest(key))

\* The script ends at a file it cannot read, and at the first row there is to judge
\* if Isaac Lab, which has the ranges, cannot be imported.
DiffReads ==
  /\ diff # "off"
  /\ \/ file # "torn" /\ diff' = After(diff)
     \/ (file = "torn" \/ rows[diff] # <<>>) /\ diff' = "off"
  /\ UNCHANGED <<file, rows, pc, job, loaded, issued, lone>>

ResultsStep ==
  \/ \E a \in Analyzers : Load(a) \/ Open(a) \/ Dump(a) \/ Die(a)
  \/ DiffStarts
  \/ DiffReads

-----------------------------------------------------------------------------
\* As long as analyzers run one at a time and none dies while it writes, the file
\* holds every row ever appended, in order, whenever it is not being written.
LoneAppendsAreKept ==
  lone /\ (\A a \in Analyzers : pc[a] # "opened") => rows = issued

\* Under the condition of LoneAppendsAreKept a GREEN line is earned by the row appended
\* last: of an older row, or of one with a missing value, no line is GREEN.  The exception
\* is an axis of the IMU that is not a number behind one that is (MaxOfAxes).
GreenIsEarned ==
  lone /\ diff # "off" /\ (\A a \in Analyzers : pc[a] # "opened") =>
    \A l \in Printed(diff) : l.green =>
      /\ issued[diff] # <<>>
      /\ LET row == issued[diff][Len(issued[diff])]
         IN  NaNIsPassedOver(diff, row) \/ Earned(diff, row, l.line)

\* While analyzers run one at a time, the one that has read the file has all the rows.
LoneInv ==
  /\ \A a, b \in Analyzers : Busy(a) /\ Busy(b) => a = b
  /\ \A a \in Analyzers : Busy(a) => loaded[a] = issued
  /\ (\A a \in Analyzers : pc[a] # "opened") => rows = issued
=============================================================================
