----------------------------- MODULE MotionGate -----------------------------
(***************************************************************************)
(* The states of qmini_msgs/MotionGate, the safety verdict that the safety *)
(* node publishes and that the packer, the policy and the motor bus obey.  *)
(* The numeric codes of the message are never compared by order, so each   *)
(* state is a string.                                                      *)
(***************************************************************************)

STATE_ENABLED      == "ENABLED"
STATE_SOFT_STOPPED == "SOFT_STOPPED"
STATE_HARD_STOPPED == "HARD_STOPPED"
STATE_BOOTING      == "BOOTING"

GateState == {STATE_ENABLED, STATE_SOFT_STOPPED, STATE_HARD_STOPPED,
              STATE_BOOTING}
=============================================================================
