----------------------------- MODULE SafetyGate -----------------------------
(***************************************************************************)
(* qmini_safety: the deadman and watchdog state machine of safety_node.cpp *)
(* The node's executor is single-threaded, so each callback (on_joy, the   *)
(* evaluation timer) is one atomic action.                                 *)
(*                                                                         *)
(* Time is counted in ticks.  Instead of the absolute last_joy_ns_ the     *)
(* model keeps the age of the last /joy message, which is all evaluate()   *)
(* looks at: the ticks that really elapsed since it arrived, plus the net  *)
(* step the system clock has made meanwhile (now() is the ROS clock, i.e.  *)
(* the adjustable system clock, not a steady one).                         *)
(***************************************************************************)
EXTENDS Integers, MotionGate

CONSTANTS
  DeadmanButtons,  \* parameter deadman_buttons: set of button indices
  Joysticks,       \* the possible lengths of Joy.buttons
  JoyTimeout,      \* parameter joy_timeout_s, in ticks
  EvalPeriod,      \* ticks within which the evaluation timer fires again
  MaxClockStep,    \* bound on the net step of the system clock (0: never set)
  MaxRestarts      \* bound on how often the process is relaunched

ASSUME TimingAssumption ==
  /\ JoyTimeout \in Nat /\ EvalPeriod \in Nat \ {0}
  /\ MaxClockStep \in Nat /\ MaxRestarts \in Nat
ASSUME ButtonAssumption == DeadmanButtons \subseteq Int /\ Joysticks \subseteq Nat

VARIABLES
  up,             \* the process is running
  state,          \* state_, which is also the last MotionGate published
  hard_latched,   \* hard_latched_
  ever_seen_joy,  \* last_joy_ns_ # 0
  joy_elapsed,    \* ticks since on_joy last ran (saturates at AgeCap)
  clock_step,     \* net step of the system clock since then
  deadman_held,   \* deadman_held_
  since_eval,     \* ticks since evaluate() last ran
  restarts,       \* relaunches so far
  armed           \* history: see GateLatch

safetyVars == <<up, state, hard_latched, ever_seen_joy, joy_elapsed,
                clock_step, deadman_held, since_eval, restarts, armed>>

\* Ages above this are not told apart: stale whatever the clock does.
AgeCap == JoyTimeout + EvalPeriod + MaxClockStep + 1

SafetyTypeOK ==
  /\ up \in BOOLEAN
  /\ state \in GateState
  /\ hard_latched \in BOOLEAN
  /\ ever_seen_joy \in BOOLEAN
  /\ joy_elapsed \in 0..AgeCap
  /\ clock_step \in -MaxClockStep..MaxClockStep
  /\ deadman_held \in BOOLEAN
  /\ since_eval \in 0..EvalPeriod
  /\ restarts \in 0..MaxRestarts
  /\ armed \in BOOLEAN

-----------------------------------------------------------------------------
\* The state of a freshly started process.
Boot ==
  /\ up' = TRUE
  /\ state' = STATE_BOOTING
  /\ hard_latched' = FALSE
  /\ ever_seen_joy' = FALSE
  /\ joy_elapsed' = 0
  /\ clock_step' = 0
  /\ deadman_held' = FALSE
  /\ since_eval' = 0
  /\ armed' = TRUE

SafetyInit ==
  /\ up = TRUE
  /\ state = STATE_BOOTING
  /\ hard_latched = FALSE
  /\ ever_seen_joy = FALSE
  /\ joy_elapsed = 0
  /\ clock_step = 0
  /\ deadman_held = FALSE
  /\ since_eval = 0
  /\ restarts = 0
  /\ armed = TRUE

\* Every configured button index is present in the message and pressed.
DeadmanHeld(n, pressed) ==
  DeadmanButtons # {} /\ \A b \in DeadmanButtons : b \in 0..n-1 /\ b \in pressed

\* on_joy: a Joy message with n buttons, of which `pressed` are down.
OnJoy(n, pressed) ==
  /\ up
  /\ ever_seen_joy' = TRUE
  /\ joy_elapsed' = 0
  /\ clock_step' = 0
  /\ deadman_held' = DeadmanHeld(n, pressed)
  /\ armed' = (armed \/ ~deadman_held')
  /\ UNCHANGED <<up, state, hard_latched, since_eval, restarts>>

\* Mutant of JoyFresh: any /joy message ever seen counts as fresh.
JoyFreshForever == ever_seen_joy

\* (now_ns - last_joy) <= joy_timeout_ns_
JoyFresh == ever_seen_joy /\ joy_elapsed + clock_step <= JoyTimeout

\* The four outcomes of evaluate(), in the order of its conditions.
StayBooting ==
  ~ever_seen_joy /\ state' = STATE_BOOTING /\ UNCHANGED <<hard_latched, armed>>

LinkLost ==
  /\ ever_seen_joy /\ ~JoyFresh
  /\ state' = STATE_HARD_STOPPED
  /\ hard_latched' = TRUE
  /\ armed' = ~deadman_held

\* Mutant of Latched: the latch is cleared by the link coming back.
LatchClearedByLink ==
  /\ JoyFresh /\ hard_latched
  /\ state' = IF deadman_held THEN STATE_ENABLED ELSE STATE_SOFT_STOPPED
  /\ hard_latched' = FALSE
  /\ UNCHANGED armed

\* Mutant of Latched: nothing ever clears the latch.
LatchNeverCleared ==
  /\ JoyFresh /\ hard_latched
  /\ state' = STATE_HARD_STOPPED
  /\ UNCHANGED <<hard_latched, armed>>

Latched ==
  /\ JoyFresh /\ hard_latched
  /\ state' = IF deadman_held THEN STATE_HARD_STOPPED ELSE STATE_SOFT_STOPPED
  /\ hard_latched' = deadman_held
  /\ UNCHANGED armed

\* Mutant of FollowDeadman: the latch is not looked at.
FollowDeadmanUnlatched ==
  /\ JoyFresh
  /\ state' = IF deadman_held THEN STATE_ENABLED ELSE STATE_SOFT_STOPPED
  /\ hard_latched' = FALSE
  /\ UNCHANGED armed

FollowDeadman ==
  /\ JoyFresh /\ ~hard_latched
  /\ state' = IF deadman_held THEN STATE_ENABLED ELSE STATE_SOFT_STOPPED
  /\ UNCHANGED <<hard_latched, armed>>

\* evaluate(): the verdict is published whenever it changes.
Evaluate ==
  /\ up
  /\ StayBooting \/ LinkLost \/ Latched \/ FollowDeadman
  /\ since_eval' = 0
  /\ UNCHANGED <<up, ever_seen_joy, joy_elapsed, clock_step, deadman_held,
                 restarts>>

-----------------------------------------------------------------------------
\* One tick of real time.  The evaluation timer is never later than EvalPeriod.
Elapse ==
  /\ up => since_eval < EvalPeriod
  /\ joy_elapsed' = IF joy_elapsed < AgeCap THEN joy_elapsed + 1 ELSE AgeCap
  /\ since_eval' = IF up THEN since_eval + 1 ELSE since_eval
  /\ UNCHANGED <<up, state, hard_latched, ever_seen_joy, clock_step,
                 deadman_held, restarts, armed>>

\* The system clock is set (NTP, an operator) while the node runs.
SetClock ==
  /\ clock_step' \in -MaxClockStep..MaxClockStep
  /\ clock_step' # clock_step
  /\ UNCHANGED <<up, state, hard_latched, ever_seen_joy, joy_elapsed,
                 deadman_held, since_eval, restarts, armed>>

\* The process dies: nothing is published any more, nobody is told.
Crash ==
  /\ up /\ restarts < MaxRestarts
  /\ up' = FALSE
  /\ UNCHANGED <<state, hard_latched, ever_seen_joy, joy_elapsed, clock_step,
                 deadman_held, since_eval, restarts, armed>>

\* It is launched again; nothing of its state was saved.
Relaunch ==
  /\ ~up
  /\ Boot
  /\ restarts' = restarts + 1

SafetyNext ==
  \/ \E n \in Joysticks : \E pressed \in SUBSET (0..n-1) : OnJoy(n, pressed)
  \/ Evaluate
  \/ Elapse
  \/ SetClock
  \/ Crash
  \/ Relaunch

SafetySpec == SafetyInit /\ [][SafetyNext]_safetyVars

\* The timer keeps firing and time keeps passing; /joy promises nothing.
SafetyFairSpec ==
  SafetySpec /\ WF_safetyVars(Evaluate) /\ WF_safetyVars(Elapse)

-----------------------------------------------------------------------------
\* The latch flag and the verdict never disagree: HARD_STOPPED is published
\* exactly while hard_latched_ keeps motion out (evaluate, the two writers of
\* hard_latched_ and the four of state_).
LatchMatchesVerdict == hard_latched <=> state = STATE_HARD_STOPPED

\* A controller blip cannot re-energize the robot while the buttons are still
\* held: motion is enabled only if the operator has let go of the deadman since
\* the last hard stop of this process that found it held (safety_node.cpp, lines
\* 19-22; a relaunched process knows of no stop before it).
EnabledOnlyAfterRelease == up /\ state = STATE_ENABLED => armed

\* The watchdog bound a subscriber can rely on: motion is never enabled on a
\* /joy message older than the timeout plus one evaluation period plus what the
\* system clock was set back by meanwhile (evaluate reads now(), not a steady
\* clock).
EnabledOnlyOnRecentJoy ==
  up /\ state = STATE_ENABLED
    => joy_elapsed <= JoyTimeout + EvalPeriod + MaxClockStep

\* The inductive invariant behind the theorems of SafetyGateProofs: the latch
\* agrees with the verdict, the node only leaves BOOTING by a /joy message, a
\* dead process may still be relaunched, and whenever the deadman is released or
\* there is no latch, the operator is armed.
SafetyInv ==
  /\ SafetyTypeOK
  /\ LatchMatchesVerdict
  /\ up /\ ~ever_seen_joy => state = STATE_BOOTING
  /\ ~up => restarts < MaxRestarts
  /\ ~deadman_held \/ ~hard_latched => armed

\* The abstract latch is implemented.
Latch == INSTANCE GateLatch WITH gate <- state
LatchImplemented == Latch!LatchSpec

\* A controller that stays silent stops the robot for good.
SilentJoyStops ==
  <>[](up /\ ever_seen_joy /\ joy_elapsed = AgeCap)
    => <>[](state = STATE_HARD_STOPPED)

\* The latch is no trap: a controller that is back with the deadman released
\* always brings the robot out of the hard stop.
ReleaseRecovers ==
  <>[](up /\ JoyFresh /\ ~deadman_held) => <>[](state = STATE_SOFT_STOPPED)
=============================================================================
