----------------------------- MODULE MCMotorBus -----------------------------
(***************************************************************************)
(* Small instances of MotorBus: layouts, and the commands that arrive.     *)
(***************************************************************************)
EXTENDS MotorBus, TLC

CONSTANTS c1, p1, g1

\* One channel with two motors.
OneChannel == {c1}
TwoOnOne == c1 :> 2

\* The same target for every motor.
Uniform(q, g) == [s \in Slot |-> [q |-> q, gain |-> g]]
TargetMsgs == {Uniform(p1, g1)}
=============================================================================
