---------------------------- MODULE PolicyRunner ----------------------------
(***************************************************************************)
(* qmini_rl: policy_runner_node.cpp.  Every timer tick the policy network  *)
(* turns the readings, its own previous action and the gait phase into a   *)
(* /joint_target.                                                          *)
(*                                                                         *)
(* Single-threaded executor: callbacks and tick are atomic.  A vector of   *)
(* numbers is kept as what matters downstream: "number", or "nan" when one *)
(* of its entries is NaN, as /joint_states has for a motor that does not   *)
(* answer.  The network is a dense one: a NaN input makes every output NaN.*)
(* Time stamps are ages in ticks of the system clock, which can be set, so *)
(* that an age may be negative.  Ages are capped where no setting of the   *)
(* clock can make them recent again; the cap also stands for a topic never *)
(* heard.                                                                  *)
(***************************************************************************)
EXTENDS Integers, MotionGate

CONSTANTS
  InputTimeout,  \* parameter input_timeout_s
  GateRequired,  \* parameter gate_required
  Stride,        \* gait_frequency * step_dt, in units of 1 / PhaseMod
  PhaseMod,      \* units of a whole gait cycle
  ClockSteps,    \* what the system clock may be set by, in ticks
  MaxSetBack,    \* ticks it is set back in all in the life of the process (a bound)
  Commands       \* what /cmd_vel can ask for; "stand" is the zero command, and "nan"
                 \* any with a NaN

ASSUME PolicyAssumption ==
  /\ InputTimeout \in Nat /\ GateRequired \in BOOLEAN
  /\ PhaseMod \in Nat \ {0} /\ Stride \in 0..(PhaseMod - 1)
  /\ "stand" \in Commands
  /\ ClockSteps \subseteq Int /\ MaxSetBack \in Nat

VARIABLES
  imu_age,      \* now() - last_imu_time_
  js_age,       \* now() - last_js_time_
  imu,          \* ang_vel_, quat_
  cur_pos,      \* cur_pos_, cur_vel_
  policy_on,    \* enabled_
  cmd,          \* cmd_vx_, cmd_vy_, cmd_wz_
  phase,        \* phase_
  last_action,  \* last_action_
  published,    \* the last target published
  steps,        \* history: targets since the gate opened, modulo PhaseMod
  first,        \* history: none has been published since the gate opened
  set_back      \* history: ticks the clock has been set back since the process started

policyVars == <<imu_age, js_age, imu, cur_pos, policy_on, cmd, phase, last_action,
                published, steps, first, set_back>>

AgeCap == InputTimeout + MaxSetBack + 1

PolicyInit ==
  /\ imu_age = AgeCap /\ js_age = AgeCap
  /\ imu = "number"       \* no rotation
  /\ cur_pos = "number"   \* zeros
  /\ policy_on = FALSE
  /\ cmd = "stand"
  /\ phase = 0
  /\ last_action = "zero"
  /\ published = "nothing"
  /\ steps = 0
  /\ first = TRUE
  /\ set_back = 0

\* The process has been launched again.
PolicyRelaunch ==
  /\ imu_age' = AgeCap /\ js_age' = AgeCap
  /\ imu' = "number"
  /\ cur_pos' = "number"
  /\ policy_on' = FALSE
  /\ cmd' = "stand"
  /\ phase' = 0
  /\ last_action' = "zero"
  /\ published' = "nothing"
  /\ steps' = 0
  /\ first' = TRUE
  /\ set_back' = 0

-----------------------------------------------------------------------------
OnImu(reading) ==
  /\ imu_age' = 0
  /\ imu' = reading
  /\ UNCHANGED <<js_age, cur_pos, policy_on, cmd, phase, last_action, published,
                 steps, first, set_back>>

OnJointStates(reading) ==
  /\ js_age' = 0
  /\ cur_pos' = reading
  /\ UNCHANGED <<imu_age, imu, policy_on, cmd, phase, last_action, published, steps, first,
                 set_back>>

OnCmdVel(c) ==
  /\ cmd' = c
  /\ UNCHANGED <<imu_age, js_age, imu, cur_pos, policy_on, phase, last_action, published,
                 steps, first, set_back>>

\* Mutant of OnGate: the gait phase is carried over from the last session.
OnGateKeepingPhase(g) ==
  LET entering == g = STATE_ENABLED /\ ~policy_on IN
  /\ policy_on' = (g = STATE_ENABLED)
  /\ last_action' = IF entering THEN "zero" ELSE last_action
  /\ steps' = IF entering THEN 0 ELSE steps
  /\ first' = (first \/ entering)
  /\ UNCHANGED <<imu_age, js_age, imu, cur_pos, cmd, phase, published, set_back>>

\* Mutant of OnGate: the last action is carried over from the last session.
OnGateKeepingAction(g) ==
  LET entering == g = STATE_ENABLED /\ ~policy_on IN
  /\ policy_on' = (g = STATE_ENABLED)
  /\ phase' = IF entering THEN 0 ELSE phase
  /\ steps' = IF entering THEN 0 ELSE steps
  /\ first' = (first \/ entering)
  /\ UNCHANGED <<imu_age, js_age, imu, cur_pos, cmd, last_action, published, set_back>>

\* on_gate: entering ENABLED resets the policy to its state in simulation.
OnGate(g) ==
  LET entering == g = STATE_ENABLED /\ ~policy_on IN
  /\ policy_on' = (g = STATE_ENABLED)
  /\ phase' = IF entering THEN 0 ELSE phase
  /\ last_action' = IF entering THEN "zero" ELSE last_action
  /\ steps' = IF entering THEN 0 ELSE steps
  /\ first' = (first \/ entering)
  /\ UNCHANGED <<imu_age, js_age, imu, cur_pos, cmd, published, set_back>>

\* Mutant of InputsFresh: only the IMU is looked at.
ImuFresh == imu_age <= InputTimeout

InputsFresh == imu_age <= InputTimeout /\ js_age <= InputTimeout

\* The clamp of the command lets a NaN through.
Action == IF "nan" \in {imu, cur_pos, cmd, last_action} THEN "nan" ELSE "number"

NextPhase == (phase + Stride) % PhaseMod

\* tick: one inference, unless gated or short of inputs.
Tick ==
  /\ GateRequired => policy_on
  /\ InputsFresh
  /\ published' = Action
  /\ last_action' = Action
  /\ phase' = NextPhase
  /\ steps' = (steps + 1) % PhaseMod
  /\ first' = FALSE
  /\ UNCHANGED <<imu_age, js_age, imu, cur_pos, policy_on, cmd, set_back>>

Older(age) == IF age < AgeCap THEN age + 1 ELSE AgeCap

PolicyElapse ==
  /\ imu_age' = Older(imu_age)
  /\ js_age' = Older(js_age)
  /\ UNCHANGED <<imu, cur_pos, policy_on, cmd, phase, last_action, published, steps,
                 first, set_back>>

\* The system clock is set: every time stamp is that much older, or younger.
Shifted(age, by) == IF age + by < AgeCap THEN age + by ELSE AgeCap

SetClock(by) ==
  /\ set_back' = IF by < 0 THEN set_back - by ELSE set_back
  /\ set_back' <= MaxSetBack
  /\ imu_age' = Shifted(imu_age, by)
  /\ js_age' = Shifted(js_age, by)
  /\ UNCHANGED <<imu, cur_pos, policy_on, cmd, phase, last_action, published, steps, first>>

PolicyNext ==
  \/ \E reading \in {"number", "nan"} : OnImu(reading) \/ OnJointStates(reading)
  \/ \E c \in Commands : OnCmdVel(c)
  \/ \E g \in GateState : OnGate(g)
  \/ Tick
  \/ PolicyElapse
  \/ \E by \in ClockSteps : SetClock(by)

PolicySpec == PolicyInit /\ [][PolicyNext]_policyVars

-----------------------------------------------------------------------------
\* Each session starts as an episode of the simulation does, and the gait phase
\* is the number of steps taken since: neither an aborted session nor a repeated
\* ENABLED nor ticks without inputs put the two out of step.
GaitCountsSteps == phase = (Stride * steps) % PhaseMod

\* A NaN that got into the feedback of the last action is gone once the operator
\* has released and pressed again: the first target of a session depends on the
\* readings and the command only.
FirstTargetIsClean ==
  [][first /\ Tick /\ "nan" \notin {imu, cur_pos, cmd} => published' = "number"]_policyVars
=============================================================================
