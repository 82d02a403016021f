---------------------------- MODULE CalibCampaign ----------------------------
(***************************************************************************)
(* A day of calibration as docs/7-CALIBRATION.md lays it out: one of the   *)
(* sessions is recorded (StaticCalib, ActuatorCalib or FrictionCalib), the *)
(* recording is put away, the analyzers make rows of it and of the         *)
(* recordings of other days, and the diff compares the latest rows with    *)
(* the simulation (CalibResults, IsaacDiff).                               *)
(*                                                                         *)
(* The statistics of a row that no session here computes (a rate, standard *)
(* deviations, latencies, gains, kinetic friction) are any of a set.       *)
(***************************************************************************)
EXTENDS StaticCalib, ActuatorCalib, FrictionCalib, CalibResults, SequencesExt

CONSTANTS
  OldBags,       \* recordings of other days, as what is appended for them
  Rates,         \* rate_hz_mean, or None
  ImuRows,       \* rows of imu_noise_mount
  ActuatorRows,  \* rows of actuator_latency, of the joint looked at
  Kinetics,      \* mu_kinetic_mean, or None
  Tangent        \* mu of each whole tilt, in the units of a row

\* A recording makes a row of its measurement, and a channel that was down all the
\* while has dropped enough of the samples to be reported.
DeadIsDropping(row) == row.dead => Dropping(row)
RowsOf(key) ==
  CASE key = "imu_noise_mount"  -> ImuRow
    [] key = "bus_jitter"       -> {row \in BusRow : DeadIsDropping(row)}
    [] key = "actuator_latency" -> ActuatorRow
IsBag(b) == b.key \in Measurements /\ (b.key # "friction" => b.row \in RowsOf(b.key))

ASSUME CampaignAssumption ==
  /\ Tangent \in [0..TiltMax -> Nat]
  /\ Rates \subseteq Int \cup {NaN, None}
  /\ ImuRows \subseteq ImuRow /\ ActuatorRows \subseteq ActuatorRow
  /\ \A b \in OldBags : IsBag(b)
  /\ (MinSamples - 2 * BagDelay) * 20000 > (200 * NaNPercent + 1) * MinSamples

VARIABLES
  station,  \* where the operator is: static, actuator, friction or desk
  bags      \* the recordings that can be analyzed

campaignVars == <<station, bags, staticVars, calibVars, frictionVars, resultsVars>>

CampaignInit ==
  /\ station \in {"static", "actuator", "friction"}
  /\ bags = OldBags
  /\ StaticInit /\ CalibInit /\ FrictionInit /\ ResultsInit
  /\ station # "friction" => tilt = 0

-----------------------------------------------------------------------------
(* The sessions.                                                           *)

StaticSession ==
  /\ station = "static" /\ StaticNext
  /\ UNCHANGED <<station, bags, calibVars, frictionVars, resultsVars>>

ActuatorSession ==
  /\ station = "actuator" /\ CalibNext
  /\ UNCHANGED <<station, bags, staticVars, frictionVars, resultsVars>>

FrictionSession ==
  /\ station = "friction" /\ FrictionNext
  /\ UNCHANGED <<station, bags, staticVars, calibVars, resultsVars>>

\* What analyze makes of a static recording.  dead is history: it was the only node
\* on /calibration/event, and the channel was down all the while it collected.
BusRowOf(rate) == [n |-> bag_n, bad |-> bag_bad, rate |-> rate, dead |-> down /\ alone]
StaticBags ==
  IF ~HasRow THEN {}
  ELSE {[key |-> "bus_jitter", row |-> BusRowOf(rate)] : rate \in Rates}
         \cup {[key |-> "imu_noise_mount", row |-> row] : row \in ImuRows}

\* Without a rising edge there is no row.
ActuatorBags ==
  IF in_row = {} THEN {} ELSE {[key |-> "actuator_latency", row |-> row] : row \in ActuatorRows}

\* mu_static_mean
MeanOfTangents(angles) ==
  FoldSeq(LAMBDA angle, sum : Tangent[angle] + sum, 0, angles) \div Len(angles)

\* Without a slip there is no row; an interrupted session has one of the slips so far.
FrictionBags ==
  IF bag_angles = <<>> THEN {}
  ELSE {[key |-> "friction",
         row |-> [mu_static |-> MeanOfTangents(bag_angles), mu_kinetic |-> mu]] : mu \in Kinetics}

\* The recording ends and the operator sits down with it; the processes of the
\* launch are gone.
PutAway(found) ==
  /\ station' = "desk"
  /\ \/ found = {} /\ bags' = bags
     \/ \E b \in found : bags' = bags \cup {b}
  /\ UNCHANGED resultsVars

PutStaticAway ==
  /\ station = "static" /\ recorder = "closed"
  /\ PutAway(StaticBags)
  /\ StaticCleared
  /\ UNCHANGED <<calibVars, frictionVars>>

\* Ctrl-C at any time.
PutActuatorAway ==
  /\ station = "actuator"
  /\ PutAway(ActuatorBags)
  /\ CalibCleared
  /\ UNCHANGED <<staticVars, frictionVars>>

PutFrictionAway ==
  /\ station = "friction" /\ state \in {"finished", "interrupted"}
  /\ PutAway(FrictionBags)
  /\ FrictionCleared
  /\ UNCHANGED <<staticVars, calibVars>>

-----------------------------------------------------------------------------
(* The desk.                                                               *)

StartAnalyzer ==
  /\ station = "desk"
  /\ \E a \in Analyzers, b \in bags : Analyzed(a, b.key, b.row)
  /\ UNCHANGED <<station, bags, staticVars, calibVars, frictionVars>>

AtTheDesk ==
  /\ station = "desk" /\ ResultsStep
  /\ UNCHANGED <<station, bags, staticVars, calibVars, frictionVars>>

CampaignNext ==
  \/ StaticSession \/ ActuatorSession \/ FrictionSession
  \/ PutStaticAway \/ PutActuatorAway \/ PutFrictionAway
  \/ StartAnalyzer \/ AtTheDesk

\* The timers of the nodes that run.
StaticTimer ==
  /\ station = "static" /\ StaticTick
  /\ UNCHANGED <<station, bags, calibVars, frictionVars, resultsVars>>
ActuatorTimer ==
  /\ station = "actuator" /\ Tick
  /\ UNCHANGED <<station, bags, staticVars, frictionVars, resultsVars>>

CampaignSpec ==
  /\ CampaignInit /\ [][CampaignNext]_campaignVars
  /\ WF_campaignVars(StaticTimer) /\ WF_campaignVars(ActuatorTimer)

-----------------------------------------------------------------------------
\* A static recording ends with a summary or an error however its clock is set, and
\* the actuator protocol ends once the deadman stays held, unless it is put away.
SessionsEnd ==
  /\ station = "static" => <>(summary # "none" \/ stage = "killed")
  /\ station = "actuator" /\ <>[](enabled \/ station = "desk") => <>(done \/ station = "desk")

\* A channel that was down all the while a recorder collected is never reported clean:
\* with at most 2 * BagDelay foreign readings in the window, the marks of the recorder
\* alone, and the rows appended one by one, the diff prints no GREEN for it.
DeadChannelIsRed ==
  diff = "bus_jitter" =>
    \A l \in Printed(diff) : l.line = "nan_fraction" /\ l.green => ~Latest(diff).dead

\* The rows of the measurements, whether in the file or in memory.
IsData(data) ==
  /\ DOMAIN data = Measurements
  /\ \A key \in Measurements \ {"friction"} : data[key] \in Seq(RowsOf(key))

DataInv ==
  /\ pc \in [Analyzers -> {"idle", "analyzed", "loaded", "opened"}]
  /\ DOMAIN job = Analyzers /\ DOMAIN loaded = Analyzers
  /\ diff \in Measurements \cup {"off"}
  /\ \A b \in bags : IsBag(b)
  /\ IsData(rows)
  /\ \A a \in Analyzers : IsData(loaded[a]) /\ (pc[a] # "idle" => IsBag(job[a]))

\* The inductive invariant of CalibCampaignProofs.
CampaignInv ==
  /\ StaticInv /\ FrictionInv /\ ActuatorInv
  /\ DataInv
  /\ lone => LoneInv
=============================================================================
