--------------------------- MODULE PolicySession ---------------------------
(***************************************************************************)
(* The policy runner among the processes it depends on: launched, killed   *)
(* and launched again, with its sources of readings coming and going.      *)
(*                                                                         *)
(* The policy runner followed here is the one of the terminal Main; every  *)
(* other process counts by what it publishes.  A message may still arrive  *)
(* in the tick its publisher ends.  Time passes and sensors are missed by  *)
(* a steady clock, while the policy runner goes by the one that is set.    *)
(***************************************************************************)
EXTENDS Bringup, PolicyRunner

CONSTANT Main

ASSUME MainAssumption == Main \in Terminals

VARIABLES
  imu_gone,  \* history: ticks since a process published /imu/data
  js_gone    \* history: ticks since a process published /joint_states

goneVars == <<imu_gone, js_gone>>
sessionVars == <<bringupVars, policyVars, goneVars>>

PolicyAlive == "policy_runner_node" \in alive[Main]

SessionInit ==
  /\ BringupInit /\ PolicyInit
  /\ imu_gone = AgeCap /\ js_gone = AgeCap

-----------------------------------------------------------------------------
\* A process that runs, before or after this step, is not gone.
Tracked(gone, topic) == IF Publishing(topic) \/ Publishing(topic)' THEN 0 ELSE gone

\* Processes come and go; a policy runner's state goes with it.
Operate ==
  /\ BringupNext
  /\ IF PolicyAlive /\ ~PolicyAlive'
     THEN PolicyRelaunch
     ELSE UNCHANGED policyVars
  /\ imu_gone' = Tracked(imu_gone, "imu_data")
  /\ js_gone' = Tracked(js_gone, "joint_states")

\* What arrives at the policy runner.
Receive ==
  \/ imu_gone = 0 /\ \E reading \in {"number", "nan"} : OnImu(reading)
  \/ js_gone = 0 /\ \E reading \in {"number", "nan"} : OnJointStates(reading)
  \/ \E c \in Commands : OnCmdVel(c)
  \/ Publishing("motion_gate") /\ \E g \in GateState : OnGate(g)

Run ==
  /\ PolicyAlive
  /\ Receive \/ Tick \/ \E by \in ClockSteps : SetClock(by)
  /\ UNCHANGED <<bringupVars, goneVars>>

GoneFor(gone, topic) == IF Publishing(topic) THEN 0 ELSE Older(gone)

TimePasses ==
  /\ IF PolicyAlive THEN PolicyElapse ELSE UNCHANGED policyVars
  /\ imu_gone' = GoneFor(imu_gone, "imu_data")
  /\ js_gone' = GoneFor(js_gone, "joint_states")
  /\ UNCHANGED bringupVars

SessionNext == Operate \/ Run \/ TimePasses

SessionSpec == SessionInit /\ [][SessionNext]_sessionVars

-----------------------------------------------------------------------------
\* Whichever process ends, crashed or with its terminal, the policy publishes no
\* target on readings of a sensor that has not been there for the input timeout and
\* whatever the clock was set back by; on a bench without sensors it never publishes
\* at all.
DeadSensorsStopPolicy ==
  [][Run /\ Tick =>
       /\ imu_gone <= InputTimeout + set_back
       /\ js_gone <= InputTimeout + set_back]_sessionVars
=============================================================================
