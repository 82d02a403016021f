-------------------------- MODULE MCCalibCampaign --------------------------
(***************************************************************************)
(* A small day of calibration: two analyzers, rows on either side of the   *)
(* verdicts, two joints of which the second has no room for a step.        *)
(***************************************************************************)
EXTENDS CalibCampaign

ClockLapses == {-1, 1}

TwoJoints == <<"knee_pitch_l", "ankle_pitch_l">>
HomePose == [knee_pitch_l |-> 4, ankle_pitch_l |-> -2]
LimitsLo == [knee_pitch_l |-> 0, ankle_pitch_l |-> -4]
LimitsHi == [knee_pitch_l |-> 9, ankle_pitch_l |-> -1]

Trained == [ang_vel |-> 4, proj_gravity |-> None, policy_rate |-> 50, delay |-> 2,
            static_range |-> <<60, 100>>, dynamic_range |-> <<40, 80>>]

BusRates == {60}
SomeImuRows == {[gyro_std |-> g, projg_std |-> <<1, 1, 1>>] :
                  g \in {<<1, NaN, 5>>, <<NaN, 9, 9>>, <<1, 4, NaN>>}}
SomeActuatorRows == {[latency |-> 3, kp_effective |-> 7, kp_commanded |-> 10],
                     [latency |-> 1, kp_effective |-> 12, kp_commanded |-> 10],
                     [latency |-> None, kp_effective |-> None, kp_commanded |-> 0]}
SomeKinetics == {None, 39, 80}
Tangents == [a \in 0..TiltMax |-> 20 * a]

OtherDays == {[key |-> "bus_jitter", row |-> [n |-> 3, bad |-> 0, rate |-> None, dead |-> FALSE]]}
=============================================================================
