----------------------------- MODULE IsaacDiff -----------------------------
(***************************************************************************)
(* diff_against_isaaclab.py: the verdicts it prints, GREEN or RED, for the *)
(* latest row of each measurement, against the ranges the policy was       *)
(* trained in.                                                             *)
(*                                                                         *)
(* A row keeps the numbers a verdict depends on, in whole units.  NaN is a *)
(* number that every comparison is false of; None is a missing value.      *)
(***************************************************************************)
EXTENDS Integers

CONSTANTS
  NaN, None,
  Refs,       \* the ranges read from the Isaac Lab configuration
  NaNPercent  \* 1

ASSUME DiffAssumption ==
  /\ NaN # None /\ NaN \notin Int /\ None \notin Int
  /\ {"ang_vel", "proj_gravity", "policy_rate", "delay", "static_range", "dynamic_range"}
       \subseteq DOMAIN Refs
  /\ {Refs.ang_vel, Refs.proj_gravity, Refs.delay} \subseteq Int \cup {None}
  /\ Refs.policy_rate \in Nat \ {0}
  /\ NaNPercent \in Nat

Measurements == {"imu_noise_mount", "bus_jitter", "actuator_latency", "friction"}

\* The rows of the measurements but for friction.
Axes == [1..3 -> Int \cup {NaN}]
ImuRow == [gyro_std : Axes, projg_std : Axes]
BusRow == [n : Nat, bad : Nat, rate : Int \cup {NaN, None}, dead : BOOLEAN]
ActuatorRow == [latency : Nat \cup {NaN, None}, kp_effective : Int \cup {None},
                kp_commanded : Int]

LessEq(a, b) == a # NaN /\ b # NaN /\ a <= b
Within(x, range) == LessEq(range[1], x) /\ LessEq(x, range[2])

\* Python's max keeps what it has unless the next is greater.
Larger(m, x) == IF m # NaN /\ x # NaN /\ x > m THEN x ELSE m
MaxOfAxes(v) == Larger(Larger(v[1], v[2]), v[3])

\* A line of the report, if there is anything to print it from.
Line(name, shown, ok) == IF shown THEN {[line |-> name, green |-> ok]} ELSE {}

ImuLines(row) ==
  Line("ang_vel", Refs.ang_vel # None, LessEq(MaxOfAxes(row.gyro_std), Refs.ang_vel))
  \cup Line("proj_gravity", Refs.proj_gravity # None,
            LessEq(MaxOfAxes(row.projg_std), Refs.proj_gravity))

\* The channel drops more than a per cent of the samples, as a fraction of four digits.
Dropping(row) == row.bad * 20000 > (200 * NaNPercent + 1) * row.n

BusLines(row) ==
  Line("rate", TRUE, LessEq(Refs.policy_rate, IF row.rate = None THEN 0 ELSE row.rate))
  \cup Line("nan_fraction", TRUE, ~Dropping(row))

\* A measured latency is RED if the simulation has no delay at all.
LatencyCovered(lat) == Refs.delay # None /\ LessEq(lat, Refs.delay)

Distance(a, b) == IF a < b THEN b - a ELSE a - b
Magnitude(x) == Distance(x, 0)

\* A joint without a latency, or without a gain, has no line for it.
ActuatorLines(row) ==
  Line("latency", row.latency # None, LatencyCovered(row.latency))
  \cup Line("kp", row.kp_effective # None /\ row.kp_commanded # 0,
            Distance(row.kp_effective, row.kp_commanded) * 5 <= Magnitude(row.kp_commanded))

FrictionLines(row) ==
  Line("static", Refs.static_range # None, Within(row.mu_static, Refs.static_range))
  \cup Line("kinetic", Refs.dynamic_range # None /\ row.mu_kinetic # None,
            Within(row.mu_kinetic, Refs.dynamic_range))

Lines(key, row) ==
  CASE key = "imu_noise_mount"  -> ImuLines(row)
    [] key = "bus_jitter"       -> BusLines(row)
    [] key = "actuator_latency" -> ActuatorLines(row)
    [] key = "friction"         -> FrictionLines(row)

-----------------------------------------------------------------------------
(* What GREEN is worth, stated without the script's way to it.             *)

\* Every axis has been measured, and is in range.
AllAtMost(v, bound) == \A i \in DOMAIN v : LessEq(v[i], bound)

\* A commanded gain is realized within a fifth.
WithinAFifth(x, of) == 5 * x \in (4 * of)..(6 * of) \cup (6 * of)..(4 * of)

Earned(key, row, line) ==
  CASE line = "ang_vel"      -> AllAtMost(row.gyro_std, Refs.ang_vel)
    [] line = "proj_gravity" -> AllAtMost(row.projg_std, Refs.proj_gravity)
    [] line = "rate"         -> row.rate # None /\ Refs.policy_rate <= row.rate
    [] line = "nan_fraction" -> 20000 * (row.n - row.bad) >= (19999 - 200 * NaNPercent) * row.n
    [] line = "latency"      -> row.latency \in 0..Refs.delay
    [] line = "kp"           -> WithinAFifth(row.kp_effective, row.kp_commanded)
    [] line = "static"       -> /\ row.mu_static >= Refs.static_range[1]
                                /\ row.mu_static <= Refs.static_range[2]
    [] line = "kinetic"      -> /\ row.mu_kinetic >= Refs.dynamic_range[1]
                                /\ row.mu_kinetic <= Refs.dynamic_range[2]

\* The rows in which max passes over an axis that is not a number.
NaNIsPassedOver(key, row) ==
  key = "imu_noise_mount" /\ \E i \in {2, 3} : NaN \in {row.gyro_std[i], row.projg_std[i]}
=============================================================================
