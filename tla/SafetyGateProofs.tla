-------------------------- MODULE SafetyGateProofs --------------------------
(***************************************************************************)
(* Theorems about the safety node, for every joystick, timeout, timer      *)
(* period and clock behaviour.                                             *)
(***************************************************************************)
EXTENDS SafetyGate, TLAPS

\* The distinct states of MotionGate.
LEMMA GateDistinct ==
  /\ STATE_ENABLED # STATE_HARD_STOPPED
  /\ STATE_SOFT_STOPPED # STATE_HARD_STOPPED
  /\ STATE_BOOTING # STATE_HARD_STOPPED
  /\ STATE_BOOTING # STATE_ENABLED
  /\ STATE_SOFT_STOPPED # STATE_ENABLED
  /\ {STATE_ENABLED, STATE_SOFT_STOPPED, STATE_HARD_STOPPED, STATE_BOOTING}
       \subseteq GateState
BY DEF STATE_ENABLED, STATE_SOFT_STOPPED, STATE_HARD_STOPPED, STATE_BOOTING,
       GateState

\* The inductive invariant holds initially.
LEMMA SafetyInvInit == SafetyInit => SafetyInv
<1> SUFFICES ASSUME SafetyInit PROVE SafetyInv
  OBVIOUS
<1> USE DEF SafetyInit
<1>1. SafetyTypeOK
  <2>1. /\ 0 \in 0..AgeCap
        /\ 0 \in -MaxClockStep..MaxClockStep
        /\ 0 \in 0..EvalPeriod
        /\ 0 \in 0..MaxRestarts
    BY TimingAssumption DEF AgeCap
  <2> QED
    BY <2>1, GateDistinct, Zenon DEF SafetyTypeOK
<1>2. LatchMatchesVerdict
  BY GateDistinct, Zenon DEF LatchMatchesVerdict
<1> QED
  BY <1>1, <1>2 DEF SafetyInv

\* Every step of the node preserves the inductive invariant.
LEMMA SafetyInvStep == SafetyInv /\ [SafetyNext]_safetyVars => SafetyInv'
<1> SUFFICES ASSUME SafetyInv, [SafetyNext]_safetyVars
             PROVE  SafetyInv'
  OBVIOUS
<1> USE TimingAssumption, GateDistinct
        DEF SafetyInv, SafetyTypeOK, LatchMatchesVerdict, AgeCap
<1>1. ASSUME NEW n \in Joysticks, NEW pressed \in SUBSET (0..n-1),
             OnJoy(n, pressed)
      PROVE  SafetyInv'
  <2>1. deadman_held' \in BOOLEAN
    BY <1>1 DEF OnJoy, DeadmanHeld
  <2>2. armed' \in BOOLEAN /\ (~deadman_held' => armed') /\ (armed => armed')
    BY <1>1, <2>1 DEF OnJoy
  <2> QED
    BY <1>1, <2>1, <2>2 DEF OnJoy
<1>2. CASE Evaluate
  <2> USE <1>2 DEF Evaluate
  <2>1. CASE StayBooting
    BY <2>1 DEF StayBooting
  <2>2. CASE LinkLost
    BY <2>2 DEF LinkLost
  <2>3. CASE Latched
    BY <2>3 DEF Latched, JoyFresh
  <2>4. CASE FollowDeadman
    BY <2>4 DEF FollowDeadman, JoyFresh
  <2> QED
    BY <2>1, <2>2, <2>3, <2>4
<1>3. CASE Elapse
  BY <1>3 DEF Elapse
<1>4. CASE SetClock
  BY <1>4 DEF SetClock
<1>5. CASE Crash
  BY <1>5 DEF Crash
<1>6. CASE Relaunch
  <2> USE <1>6 DEF Relaunch, Boot
  <2>1. /\ 0 \in 0..AgeCap
        /\ 0 \in -MaxClockStep..MaxClockStep
        /\ 0 \in 0..EvalPeriod
        /\ restarts' \in 0..MaxRestarts
    OBVIOUS
  <2>2. SafetyTypeOK'
    BY <2>1, Zenon
  <2>3. LatchMatchesVerdict'
    BY Zenon
  <2> QED
    BY <2>1, <2>2, <2>3, Zenon
<1>7. CASE UNCHANGED safetyVars
  BY <1>7 DEF safetyVars
<1> QED
  BY <1>1, <1>2, <1>3, <1>4, <1>5, <1>6, <1>7 DEF SafetyNext

\* SafetyInv holds in every reachable state.
LEMMA SafetyInvariant == SafetySpec => []SafetyInv
BY SafetyInvInit, SafetyInvStep, PTL DEF SafetySpec

\* Every variable of the node keeps its type.
THEOREM SafetyTypeCorrect == SafetySpec => []SafetyTypeOK
BY SafetyInvariant, PTL DEF SafetyInv

\* The published verdict is HARD_STOPPED exactly while hard_latched_ is set.
THEOREM SafetyLatchConsistent == SafetySpec => []LatchMatchesVerdict
BY SafetyInvariant, PTL DEF SafetyInv

\* Motion is enabled only after the operator has let go of the deadman since a
\* hard stop of this process that found it held, however the clock is set and
\* whenever /joy messages come.
THEOREM NoSilentReenable == SafetySpec => []EnabledOnlyAfterRelease
<1>1. SafetyInv => EnabledOnlyAfterRelease
  BY GateDistinct
     DEF SafetyInv, SafetyTypeOK, LatchMatchesVerdict, EnabledOnlyAfterRelease
<1> QED
  BY <1>1, SafetyInvariant, PTL

-----------------------------------------------------------------------------
\* The age of the /joy message behind a verdict that is not a hard stop, measured
\* since the evaluation that gave it.
JoyAgeInv ==
  up /\ ever_seen_joy /\ state # STATE_HARD_STOPPED
    => joy_elapsed <= JoyTimeout + MaxClockStep + since_eval

\* Every step keeps that age in bounds.
LEMMA JoyAgeStep ==
  SafetyInv /\ JoyAgeInv /\ [SafetyNext]_safetyVars => JoyAgeInv'
<1> SUFFICES ASSUME SafetyInv, JoyAgeInv, [SafetyNext]_safetyVars
             PROVE  JoyAgeInv'
  OBVIOUS
<1> USE TimingAssumption, GateDistinct
        DEF SafetyInv, SafetyTypeOK, JoyAgeInv, AgeCap
<1>1. ASSUME NEW n \in Joysticks, NEW pressed \in SUBSET (0..n-1),
             OnJoy(n, pressed)
      PROVE  JoyAgeInv'
  BY <1>1 DEF OnJoy
<1>2. CASE Evaluate
  <2> USE <1>2 DEF Evaluate
  <2>1. CASE StayBooting
    BY <2>1 DEF StayBooting
  <2>2. CASE LinkLost
    BY <2>2 DEF LinkLost
  <2>3. CASE Latched
    BY <2>3 DEF Latched, JoyFresh
  <2>4. CASE FollowDeadman
    BY <2>4 DEF FollowDeadman, JoyFresh
  <2> QED
    BY <2>1, <2>2, <2>3, <2>4
<1>3. CASE Elapse
  BY <1>3 DEF Elapse
<1>4. CASE SetClock
  BY <1>4 DEF SetClock
<1>5. CASE Crash
  BY <1>5 DEF Crash
<1>6. CASE Relaunch
  BY <1>6 DEF Relaunch, Boot
<1>7. CASE UNCHANGED safetyVars
  BY <1>7 DEF safetyVars
<1> QED
  BY <1>1, <1>2, <1>3, <1>4, <1>5, <1>6, <1>7 DEF SafetyNext

LEMMA JoyAgeInvariant == SafetySpec => []JoyAgeInv
<1>1. SafetyInit => JoyAgeInv
  BY DEF SafetyInit, JoyAgeInv
<1> QED
  BY <1>1, JoyAgeStep, SafetyInvariant, PTL DEF SafetySpec

\* Motion is never enabled on a /joy message older than the timeout plus one
\* evaluation period plus the most the system clock may be set back by.
THEOREM JoyWatchdogBound == SafetySpec => []EnabledOnlyOnRecentJoy
<1>1. SafetyInv /\ JoyAgeInv => EnabledOnlyOnRecentJoy
  BY TimingAssumption, GateDistinct
     DEF SafetyInv, SafetyTypeOK, JoyAgeInv, EnabledOnlyOnRecentJoy, AgeCap
<1> QED
  BY <1>1, JoyAgeInvariant, SafetyInvariant, PTL

-----------------------------------------------------------------------------
\* Every step of the node is a step of the abstract latch, or leaves it alone.
LEMMA LatchStep ==
  SafetyInv /\ [SafetyNext]_safetyVars => [Latch!LatchNext]_(Latch!latchVars)
<1> SUFFICES ASSUME SafetyInv, [SafetyNext]_safetyVars
             PROVE  [Latch!LatchNext]_(Latch!latchVars)
  OBVIOUS
<1> USE TimingAssumption, GateDistinct
        DEF SafetyInv, SafetyTypeOK, LatchMatchesVerdict, Latch!latchVars
<1>1. ASSUME NEW n \in Joysticks, NEW pressed \in SUBSET (0..n-1),
             OnJoy(n, pressed)
      PROVE  [Latch!LatchNext]_(Latch!latchVars)
  <2>1. state' = state /\ armed' \in {armed, TRUE}
    <3>1. deadman_held' \in BOOLEAN
      BY <1>1 DEF OnJoy, DeadmanHeld
    <3> QED
      BY <1>1, <3>1 DEF OnJoy
  <2> QED
    BY <2>1 DEF Latch!LatchNext, Latch!LetGo
<1>2. CASE Evaluate
  <2> USE <1>2 DEF Evaluate, Latch!LatchNext
  <2>1. CASE StayBooting
    BY <2>1 DEF StayBooting
  <2>2. CASE LinkLost
    BY <2>2 DEF LinkLost, Latch!HardStop,
                Latch!STATE_HARD_STOPPED, STATE_HARD_STOPPED
  <2>3. CASE Latched
    BY <2>3 DEF Latched, Latch!SoftStop,
                Latch!STATE_SOFT_STOPPED, STATE_SOFT_STOPPED
  <2>4. CASE FollowDeadman
    BY <2>4 DEF FollowDeadman, Latch!SoftStop, Latch!Enable,
                Latch!STATE_SOFT_STOPPED, STATE_SOFT_STOPPED,
                Latch!STATE_ENABLED, STATE_ENABLED,
                Latch!STATE_HARD_STOPPED, STATE_HARD_STOPPED
  <2> QED
    BY <2>1, <2>2, <2>3, <2>4
<1>3. CASE Elapse
  BY <1>3 DEF Elapse
<1>4. CASE SetClock
  BY <1>4 DEF SetClock
<1>5. CASE Crash
  BY <1>5 DEF Crash
<1>6. CASE Relaunch
  BY <1>6 DEF Relaunch, Boot, Latch!LatchNext, Latch!Reboot,
              Latch!STATE_BOOTING, STATE_BOOTING
<1>7. CASE UNCHANGED safetyVars
  BY <1>7 DEF safetyVars
<1> QED
  BY <1>1, <1>2, <1>3, <1>4, <1>5, <1>6, <1>7 DEF SafetyNext

\* The safety node implements the abstract latch.
THEOREM LatchRefinement == SafetySpec => LatchImplemented
<1>1. SafetyInit => Latch!LatchInit
  BY DEF SafetyInit, Latch!LatchInit, Latch!STATE_BOOTING, STATE_BOOTING
<1> QED
  BY <1>1, LatchStep, SafetyInvariant, PTL
     DEF SafetySpec, LatchImplemented, Latch!LatchSpec
=============================================================================
