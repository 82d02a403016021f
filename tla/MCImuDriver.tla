---------------------------- MODULE MCImuDriver ----------------------------
(***************************************************************************)
(* ImuDriver for TLC: as in the code, two of the shortest frames are longer *)
(* than what the driver takes for the rest of the longest, one is not.      *)
(***************************************************************************)
EXTENDS ImuDriver

PayloadCells == [k \in Kinds |-> CASE k = "ahrs" -> 1
                                   [] k = "imu" -> 2
                                   [] k = "other" -> 4]
=============================================================================
