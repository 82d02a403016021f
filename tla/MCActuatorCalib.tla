-------------------------- MODULE MCActuatorCalib --------------------------
(***************************************************************************)
(* A small instance of ActuatorCalib: two joints, one after the other, the *)
(* second too close to its limit for a whole step.                         *)
(***************************************************************************)
EXTENDS ActuatorCalib

TwoJoints == <<"knee_pitch_l", "ankle_pitch_l">>
HomePose == [knee_pitch_l |-> 4, ankle_pitch_l |-> -2]
LimitsLo == [knee_pitch_l |-> 0, ankle_pitch_l |-> -4]
LimitsHi == [knee_pitch_l |-> 9, ankle_pitch_l |-> -1]
=============================================================================
