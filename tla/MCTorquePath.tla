---------------------------- MODULE MCTorquePath ----------------------------
(***************************************************************************)
(* A small instance of TorquePath: one channel with one motor.             *)
(***************************************************************************)
EXTENDS TorquePath, TLC

CONSTANT c1

OneMotor == c1 :> 1

\* The only position within the limits is 1, apart from the 0 the bus starts with;
\* the home pose and the readings of the encoder lie beyond them.
AtOne == <<c1, 1>> :> 1
AtThree == <<c1, 1>> :> 3
FarReadings == {AtThree}
=============================================================================
