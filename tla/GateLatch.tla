----------------------------- MODULE GateLatch ------------------------------
(***************************************************************************)
(* What the safety node promises to the rest of the robot about the        *)
(* sequence of MotionGate states, whatever its clock, its timers and the   *)
(* /joy traffic do: a hard stop is latched.  It can only be left towards   *)
(* SOFT_STOPPED, and a stop that hit while the deadman buttons were held   *)
(* is followed by ENABLED only after the operator has let go of them.  The *)
(* one way round it is a node that starts over: the latch is not kept.     *)
(***************************************************************************)
EXTENDS MotionGate

VARIABLES
  gate,   \* the safety verdict
  armed   \* the operator has let go of the deadman since the last hard stop
          \* that was decided while it was held, in this life of the node

latchVars == <<gate, armed>>

LatchInit == gate = STATE_BOOTING /\ armed = TRUE

\* The operator lets go of the deadman buttons.
LetGo == armed' = TRUE /\ gate' = gate

\* The controller link is lost.  It may disarm, it can never arm.
HardStop == gate' = STATE_HARD_STOPPED /\ armed' \in {armed, FALSE}

\* Holding position is only ever offered to an operator who has let go.
SoftStop == armed /\ gate' = STATE_SOFT_STOPPED /\ UNCHANGED armed

\* Motion is permitted: never straight out of a hard stop.
Enable ==
  /\ gate # STATE_HARD_STOPPED
  /\ armed
  /\ gate' = STATE_ENABLED
  /\ UNCHANGED armed

\* The node is relaunched and has forgotten everything.
Reboot == gate' = STATE_BOOTING /\ armed' = TRUE

LatchNext ==
  \/ LetGo
  \/ HardStop
  \/ SoftStop
  \/ Enable
  \/ Reboot

LatchSpec == LatchInit /\ [][LatchNext]_latchVars
=============================================================================
