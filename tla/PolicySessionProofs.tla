------------------------- MODULE PolicySessionProofs -------------------------
(***************************************************************************)
(* Theorems about the policy runner among the processes of any launches,   *)
(* in any number of terminals, for any gait, timeout and commands.         *)
(***************************************************************************)
EXTENDS PolicySession, FiniteSetTheorems, TLAPS

\* What has gone by since the sensors were there has gone by since the last reading, as
\* far as the clock shows it.  A policy runner that does not run has heard of nothing.
AgesInv ==
  /\ set_back \in 0..MaxSetBack
  /\ imu_age \in Int /\ imu_age <= AgeCap /\ js_age \in Int /\ js_age <= AgeCap
  /\ imu_gone \in 0..AgeCap /\ js_gone \in 0..AgeCap
  /\ imu_gone <= imu_age + set_back /\ js_gone <= js_age + set_back
  /\ ~PolicyAlive => imu_age = AgeCap /\ js_age = AgeCap

LEMMA OlderIsLater ==
  ASSUME NEW a \in 0..AgeCap, NEW b \in Int, b <= AgeCap, NEW back \in Nat, a <= b + back
  PROVE  /\ Older(a) \in 0..AgeCap
         /\ Older(b) \in Int /\ Older(b) <= AgeCap
         /\ Older(a) <= Older(b) + back
         /\ b = AgeCap => Older(a) <= b
BY PolicyAssumption DEF Older, AgeCap

\* Setting the clock makes nothing younger by more than it is set back.
LEMMA ShiftedBySteps ==
  ASSUME NEW gone \in 0..AgeCap, NEW age \in Int, age <= AgeCap, NEW back \in Nat,
         NEW by \in Int, gone <= age + back
  PROVE  /\ Shifted(age, by) \in Int /\ Shifted(age, by) <= AgeCap
         /\ gone <= Shifted(age, by) + (IF by < 0 THEN back - by ELSE back)
BY PolicyAssumption DEF Shifted, AgeCap

LEMMA AgesInit == SessionInit => AgesInv
BY PolicyAssumption DEF SessionInit, PolicyInit, AgesInv, AgeCap

LEMMA AgesStep == AgesInv /\ [SessionNext]_sessionVars => AgesInv'
<1> SUFFICES ASSUME AgesInv, [SessionNext]_sessionVars
             PROVE  AgesInv'
  OBVIOUS
<1> USE DEF AgesInv
<1>1. AgeCap \in Nat /\ AgeCap' = AgeCap /\ set_back \in Nat
  BY PolicyAssumption DEF AgeCap
<1>2. CASE Operate
  <2>1. imu_gone' \in {0, imu_gone} /\ js_gone' \in {0, js_gone}
    BY <1>2 DEF Operate, Tracked
  <2>2. CASE PolicyAlive /\ ~PolicyAlive'
    <3>1. imu_age' = AgeCap /\ js_age' = AgeCap /\ set_back' = 0
      BY <1>2, <2>2 DEF Operate, PolicyRelaunch
    <3> QED
      BY <1>1, <2>1, <3>1, PolicyAssumption
  <2>3. CASE ~(PolicyAlive /\ ~PolicyAlive')
    <3>1. imu_age' = imu_age /\ js_age' = js_age /\ set_back' = set_back
      BY <1>2, <2>3 DEF Operate, policyVars
    <3> QED
      BY <1>1, <2>1, <2>3, <3>1
  <2> QED
    BY <2>2, <2>3
<1>3. CASE Run
  <2>1. PolicyAlive' /\ PolicyAlive /\ imu_gone' = imu_gone /\ js_gone' = js_gone
    BY <1>3 DEF Run, bringupVars, goneVars, PolicyAlive
  <2>2. CASE Receive \/ Tick
    <3>1. /\ imu_age' = imu_age \/ (imu_age' = 0 /\ imu_gone = 0)
          /\ js_age' = js_age \/ (js_age' = 0 /\ js_gone = 0)
          /\ set_back' = set_back
      BY <2>2 DEF Receive, OnImu, OnJointStates, OnCmdVel, OnGate, Tick
    <3> QED
      BY <1>1, <2>1, <3>1
  <2>3. ASSUME NEW by \in ClockSteps, SetClock(by)
        PROVE  AgesInv'
    <3>1. by \in Int
      BY PolicyAssumption
    <3>2. /\ imu_age' = Shifted(imu_age, by) /\ js_age' = Shifted(js_age, by)
          /\ set_back' = IF by < 0 THEN set_back - by ELSE set_back
          /\ set_back' <= MaxSetBack
      BY <2>3 DEF SetClock
    <3>3. set_back' \in 0..MaxSetBack
      BY <1>1, <3>1, <3>2, PolicyAssumption
    <3>4. /\ imu_age' \in Int /\ imu_age' <= AgeCap /\ imu_gone' <= imu_age' + set_back'
          /\ js_age' \in Int /\ js_age' <= AgeCap /\ js_gone' <= js_age' + set_back'
      BY <1>1, <2>1, <3>1, <3>2, ShiftedBySteps
    <3> QED
      BY <1>1, <2>1, <3>3, <3>4
  <2> QED
    BY <1>3, <2>2, <2>3 DEF Run
<1>4. CASE TimePasses
  <2>1. /\ PolicyAlive' = PolicyAlive
        /\ imu_gone' \in {0, Older(imu_gone)} /\ js_gone' \in {0, Older(js_gone)}
    BY <1>4 DEF TimePasses, GoneFor, bringupVars, PolicyAlive
  <2>2. CASE PolicyAlive
    <3>1. imu_age' = Older(imu_age) /\ js_age' = Older(js_age) /\ set_back' = set_back
      BY <1>4, <2>2 DEF TimePasses, PolicyElapse
    <3>2. 0 <= Older(imu_age) + set_back /\ 0 <= Older(js_age) + set_back
      BY <1>1 DEF Older
    <3> QED
      BY <1>1, <2>1, <2>2, <3>1, <3>2, OlderIsLater
  <2>3. CASE ~PolicyAlive
    <3>1. imu_age' = AgeCap /\ js_age' = AgeCap /\ set_back' = set_back
      BY <1>4, <2>3 DEF TimePasses, policyVars
    <3> QED
      BY <1>1, <2>1, <3>1, OlderIsLater
  <2> QED
    BY <2>2, <2>3
<1>5. CASE UNCHANGED sessionVars
  BY <1>1, <1>5 DEF sessionVars, bringupVars, policyVars, goneVars, PolicyAlive
<1> QED
  BY <1>2, <1>3, <1>4, <1>5 DEF SessionNext

\* However the processes come and go, no target is published on the readings of a
\* sensor that has been gone for the input timeout and what the clock was set back by.
THEOREM DeadSensors == SessionSpec => DeadSensorsStopPolicy
<1>1. ASSUME AgesInv, [SessionNext]_sessionVars
      PROVE  [Run /\ Tick => /\ imu_gone <= InputTimeout + set_back
                            /\ js_gone <= InputTimeout + set_back]_sessionVars
  <2> SUFFICES ASSUME Tick
               PROVE  imu_gone <= InputTimeout + set_back /\ js_gone <= InputTimeout + set_back
    OBVIOUS
  <2>1. imu_age <= InputTimeout /\ js_age <= InputTimeout
    BY DEF Tick, InputsFresh
  <2> QED
    BY <1>1, <2>1, PolicyAssumption DEF AgesInv, AgeCap
<1> QED
  BY <1>1, AgesInit, AgesStep, PTL DEF SessionSpec, DeadSensorsStopPolicy

-----------------------------------------------------------------------------
\* A step of the policy runner alone, or its end.
LEMMA PolicyStep ==
  ASSUME [SessionNext]_sessionVars
  PROVE  \/ PolicyElapse \/ Tick \/ PolicyRelaunch \/ UNCHANGED policyVars
         \/ \E reading \in {"number", "nan"} : OnImu(reading) \/ OnJointStates(reading)
         \/ \E c \in Commands : OnCmdVel(c)
         \/ \E g \in GateState : OnGate(g)
         \/ \E by \in ClockSteps : SetClock(by)
BY DEF SessionNext, Operate, Run, Receive, TimePasses, sessionVars

\* Until the first target of a session nothing is fed back.
LEMMA FirstHasNoFeedback ==
  SessionSpec => [](first \in BOOLEAN /\ (first => last_action = "zero"))
<1> DEFINE I == first \in BOOLEAN /\ (first => last_action = "zero")
<1>1. SessionInit => I
  BY DEF SessionInit, PolicyInit
<1>2. I /\ [SessionNext]_sessionVars => I'
  <2> SUFFICES ASSUME I, [SessionNext]_sessionVars
               PROVE  I'
    OBVIOUS
  <2>1. CASE Tick \/ PolicyRelaunch
    <3>1. (first' = FALSE \/ first' = TRUE) /\ (first' = FALSE \/ last_action' = "zero")
      BY <2>1 DEF Tick, PolicyRelaunch
    <3> QED
      BY <3>1, Zenon
  <2>2. ASSUME NEW g \in GateState, OnGate(g)
        PROVE  I'
    <3> DEFINE entering == g = STATE_ENABLED /\ ~policy_on
    <3>1. /\ first' = (first \/ entering)
          /\ last_action' = IF entering THEN "zero" ELSE last_action
      BY <2>2 DEF OnGate
    <3> HIDE DEF entering
    <3>2. first' \in BOOLEAN
      BY <3>1
    <3>3. first' => last_action' = "zero"
      BY <3>1, Zenon
    <3> QED
      BY <3>2, <3>3
  <2>3. CASE UNCHANGED <<first, last_action>>
    BY <2>3
  <2>4. \/ UNCHANGED <<first, last_action>> \/ Tick \/ PolicyRelaunch
        \/ \E g \in GateState : OnGate(g)
    BY PolicyStep DEF OnImu, PolicyElapse, OnJointStates, OnCmdVel, SetClock, policyVars
  <2> QED
    BY <2>1, <2>2, <2>3, <2>4
<1> QED
  BY <1>1, <1>2, PTL DEF SessionSpec

\* Released and pressed again, the operator gets a policy without a trace of the NaN
\* that was fed back before.
THEOREM FirstClean == SessionSpec => FirstTargetIsClean
<1>1. ASSUME first \in BOOLEAN /\ (first => last_action = "zero")
      PROVE  [first /\ Tick /\ "nan" \notin {imu, cur_pos, cmd}
                => published' = "number"]_policyVars
  <2> SUFFICES ASSUME first, Tick, "nan" \notin {imu, cur_pos, cmd}
               PROVE  published' = "number"
    OBVIOUS
  <2>1. last_action = "zero"
    BY <1>1, Zenon
  <2> QED
    BY <2>1 DEF Tick, Action
<1> QED
  BY <1>1, FirstHasNoFeedback, PTL DEF FirstTargetIsClean

-----------------------------------------------------------------------------
LEMMA ModFacts ==
  ASSUME NEW a \in Int, NEW m \in Nat \ {0}
  PROVE  /\ a % m \in 0..(m - 1) /\ a \div m \in Int
         /\ a = m * (a \div m) + (a % m)
OBVIOUS

LEMMA ModUnique ==
  ASSUME NEW m \in Nat \ {0}, NEW q \in Int, NEW r \in 0..(m - 1)
  PROVE  (m * q + r) % m = r
<1> DEFINE a == m * q + r
           d == a \div m
           s == a % m
<1>1. a \in Int
  OBVIOUS
<1>2. s \in 0..(m - 1) /\ d \in Int /\ a = m * d + s
  BY <1>1, ModFacts
<1>3. m * (q - d) = s - r
  BY <1>2
<1> HIDE DEF d, s
<1>4. q - d >= 1 => m * (q - d) >= m
  BY <1>2
<1>5. q - d <= -1 => m * (q - d) <= -m
  BY <1>2
<1>6. q = d
  BY <1>2, <1>3, <1>4, <1>5
<1> QED
  BY <1>2, <1>3, <1>6 DEF s

LEMMA ModAdd ==
  ASSUME NEW a \in Int, NEW b \in Int, NEW m \in Nat \ {0}
  PROVE  ((a % m) + b) % m = (a + b) % m
<1> DEFINE c == (a % m) + b
           q == (c \div m) + (a \div m)
<1>1. a % m \in 0..(m - 1) /\ a \div m \in Int /\ a = m * (a \div m) + (a % m)
  BY ModFacts
<1>2. c \in Int
  BY <1>1
<1>3. c % m \in 0..(m - 1) /\ c \div m \in Int /\ c = m * (c \div m) + (c % m)
  BY <1>2, ModFacts
<1>4. a + b = m * q + (c % m)
  BY <1>1, <1>3
<1>5. (m * q + (c % m)) % m = c % m
  <2> DEFINE r == c % m
  <2>1. q \in Int /\ r \in 0..(m - 1)
    BY <1>1, <1>3
  <2> HIDE DEF q, r
  <2>2. (m * q + r) % m = r
    BY <2>1, ModUnique
  <2> QED
    BY <2>2 DEF r
<1> QED
  BY <1>4, <1>5

\* The gait phase is the one of the steps taken since the gate opened.
LEMMA GaitStep ==
  ASSUME steps \in 0..(PhaseMod - 1), GaitCountsSteps, Tick
  PROVE  steps' \in 0..(PhaseMod - 1) /\ GaitCountsSteps'
<1> USE PolicyAssumption
<1> DEFINE s == steps'
           x == Stride * steps
<1>1. steps + 1 \in Int /\ s = (steps + 1) % PhaseMod /\ phase' = (phase + Stride) % PhaseMod
      /\ phase = x % PhaseMod /\ x \in Int
  BY DEF Tick, NextPhase, GaitCountsSteps
<1>2. s \in 0..(PhaseMod - 1)
  BY <1>1, ModFacts
<1>3. phase' = (x + Stride) % PhaseMod
  <2> HIDE DEF x
  <2>a. x \in Int /\ Stride \in Int /\ PhaseMod \in Nat \ {0}
    BY <1>1
  <2>1. ((x % PhaseMod) + Stride) % PhaseMod = (x + Stride) % PhaseMod
    BY ONLY <2>a, ModAdd
  <2> QED
    BY <1>1, <2>1, Zenon
<1>4. CASE steps + 1 < PhaseMod
  <2>1. s = steps + 1
    <3>1. (PhaseMod * 0 + (steps + 1)) % PhaseMod = steps + 1
      BY <1>4, ModUnique
    <3> QED
      BY <1>1, <3>1
  <2>2. Stride * s = x + Stride
    BY <2>1
  <2> QED
    BY <1>2, <1>3, <2>2 DEF GaitCountsSteps
<1>5. CASE steps + 1 = PhaseMod
  <2>1. x + Stride = PhaseMod * Stride
    BY <1>5
  <2>2. (PhaseMod * Stride + 0) % PhaseMod = 0 /\ (PhaseMod * 1 + 0) % PhaseMod = 0
        /\ (PhaseMod * 0 + 0) % PhaseMod = 0
    BY ModUnique
  <2>3. s = 0 /\ phase' = 0
    BY <1>1, <1>3, <1>5, <2>1, <2>2
  <2>4. Stride * s = 0 /\ 0 % PhaseMod = 0
    BY <2>2, <2>3
  <2> QED
    BY <1>2, <2>3, <2>4 DEF GaitCountsSteps
<1> QED
  BY <1>4, <1>5

THEOREM GaitInStep == SessionSpec => []GaitCountsSteps
<1> DEFINE I == steps \in 0..(PhaseMod - 1) /\ GaitCountsSteps
<1> USE PolicyAssumption
<1>a. 0 \in 0..(PhaseMod - 1) /\ 0 = (Stride * 0) % PhaseMod
  <2>1. (PhaseMod * 0 + 0) % PhaseMod = 0
    BY ModUnique
  <2> QED
    BY <2>1
<1>1. SessionInit => I
  BY <1>a DEF SessionInit, PolicyInit, GaitCountsSteps
<1>2. I /\ [SessionNext]_sessionVars => I'
  <2> SUFFICES ASSUME I, [SessionNext]_sessionVars
               PROVE  I'
    OBVIOUS
  <2>1. CASE Tick
    BY <2>1, GaitStep
  <2>2. CASE steps' = 0 /\ phase' = 0
    BY <1>a, <2>2 DEF GaitCountsSteps
  <2>3. CASE UNCHANGED <<steps, phase>>
    BY <2>3 DEF GaitCountsSteps
  <2> QED
    BY <2>1, <2>2, <2>3, PolicyStep
    DEF OnImu, PolicyElapse, OnJointStates, OnCmdVel, OnGate, SetClock, PolicyRelaunch,
        policyVars
<1> QED
  BY <1>1, <1>2, PTL DEF SessionSpec

-----------------------------------------------------------------------------
LEMMA RealLaunch ==
  ASSUME NEW l \in Launches
  PROVE  l.file \in LaunchFiles /\ l # Idle
<1>1. l.file \in LaunchFiles
  BY BringupAssumption
<1>2. Idle.file = "none" /\ "none" \notin LaunchFiles
  BY DEF Idle, LaunchFiles
<1> QED
  BY <1>1, <1>2, Zenon

\* A process of a terminal is one of its launch.
LEMMA BringupTypeStep == BringupTypeOK /\ [BringupNext]_bringupVars => BringupTypeOK'
<1> SUFFICES ASSUME BringupTypeOK, [BringupNext]_bringupVars
             PROVE  BringupTypeOK'
  OBVIOUS
<1>1. ASSUME NEW t \in Terminals, NEW l \in Launches, Launch(t, l)
      PROVE  BringupTypeOK'
  <2>1. /\ shell' = [shell EXCEPT ![t] = l]
        /\ pending' = [pending EXCEPT ![t] = Processes(l) \cap Sweeps]
        /\ alive' = [alive EXCEPT ![t] = Processes(l) \ Sweeps]
    BY <1>1 DEF Launch
  <2> QED
    BY <2>1, RealLaunch DEF BringupTypeOK
<1>2. ASSUME NEW t \in Terminals, NEW p \in pending[t], NEW found \in SUBSET PolicyUp,
             Construct(t, p, found)
      PROVE  BringupTypeOK'
  BY <1>2 DEF Construct, BringupTypeOK
<1>3. ASSUME NEW t \in Terminals, NEW p \in alive[t], FinishSweep(t, p) \/ Crash(t, p)
      PROVE  BringupTypeOK'
  BY <1>3 DEF FinishSweep, Crash, BringupTypeOK
<1>4. ASSUME NEW t \in Terminals, CtrlC(t)
      PROVE  BringupTypeOK'
  BY <1>4 DEF CtrlC, BringupTypeOK
<1>5. CASE UNCHANGED bringupVars
  BY <1>5 DEF bringupVars, BringupTypeOK
<1> QED
  BY <1>1, <1>2, <1>3, <1>4, <1>5 DEF BringupNext

\* No launch file brings up two publishers of a topic.
LEMMA OnePublisher ==
  ASSUME NEW l \in Launches, NEW topic \in DOMAIN Publishers,
         NEW p \in Processes(l) \cap Publishers[topic],
         NEW q \in Processes(l) \cap Publishers[topic]
  PROVE  p = q
<1>1. l.file \in LaunchFiles
  BY RealLaunch
<1>2. topic \in {"joy", "motion_gate", "heartbeat", "imu_data", "joint_states",
                "joint_target", "motor_command", "event"}
  BY DEF Publishers
<1> USE <1>1 DEF LaunchFiles, Processes, HardwareLaunch, PolicyLaunch, RlPolicyLaunch,
    ImuLaunch, MotorBusTestLaunch, ControllerTestLaunch, ViewRobotLaunch, ActuatorCalibLaunch,
    BusJitterLaunch, ImuNoiseLaunch, FrictionLaunch, If, Sweeps
<1>3. CASE topic \in {"joy", "motion_gate", "heartbeat", "imu_data", "joint_target"}
  <2>1. p = q
    BY <1>3 DEF Publishers
  <2> QED
    BY <2>1
<1>4. CASE topic = "joint_states"
  <2>1. Publishers[topic] = {"motor_bus_node", "joint_state_publisher_gui"}
    BY <1>4 DEF Publishers
  <2> QED
    BY <2>1
<1>5. CASE topic = "motor_command"
  <2>1. Publishers[topic] = {"pd_packer_node", "actuator_latency_calib"}
    BY <1>5 DEF Publishers
  <2> QED
    BY <2>1
<1>6. CASE topic = "event"
  <2>1. Publishers[topic] = Sweeps
    BY <1>6 DEF Publishers
  <2> QED
    BY <2>1
<1> QED
  BY <1>2, <1>3, <1>4, <1>5, <1>6

\* A launch that may have torque brings what gates it.
LEMMA TorqueIsGated ==
  ASSUME NEW l \in Launches, EnablesTorque(l)
  PROVE  {"joy_node", "qmini_safety"} \subseteq Processes(l)
BY RealLaunch DEF EnablesTorque, TakesTorque, Processes, HardwareLaunch, PolicyLaunch,
   ControllerTestLaunch, ActuatorCalibLaunch, If

LEMMA AtMostOne ==
  ASSUME NEW S, \A p, q \in S : p = q
  PROVE  Cardinality(S) <= 1
<1>1. CASE S = {}
  BY <1>1, FS_EmptySet
<1>2. ASSUME NEW p \in S
      PROVE  Cardinality(S) <= 1
  <2>1. S = {p}
    OBVIOUS
  <2>2. Cardinality({p}) = 1
    BY FS_Singleton
  <2> QED
    BY <2>1, <2>2
<1> QED
  BY <1>1, <1>2

\* Whatever has crashed or finished, no launch by itself has two publishers of a topic,
\* or torque without what gates it.
THEOREM LaunchesComplete == SessionSpec => []LaunchesAreComplete
<1>1. SessionInit => BringupTypeOK
  BY DEF SessionInit, BringupInit, BringupTypeOK
<1>2. BringupTypeOK /\ [SessionNext]_sessionVars => BringupTypeOK'
  <2>1. [SessionNext]_sessionVars => [BringupNext]_bringupVars
    BY DEF SessionNext, Operate, Run, TimePasses, sessionVars
  <2> QED
    BY <2>1, BringupTypeStep
<1>3. ASSUME BringupTypeOK
      PROVE  LaunchesAreComplete
  <2> SUFFICES ASSUME NEW t \in Terminals
               PROVE  /\ \A topic \in DOMAIN Publishers :
                           Cardinality(alive[t] \cap Publishers[topic]) <= 1
                      /\ "motor_bus_node" \in alive[t] /\ EnablesTorque(shell[t]) =>
                           {"joy_node", "qmini_safety"} \subseteq Processes(shell[t])
    BY DEF LaunchesAreComplete
  <2>1. CASE shell[t] = Idle
    <3>1. alive[t] = {}
      BY <1>3, <2>1 DEF BringupTypeOK
    <3> QED
      BY <3>1, AtMostOne
  <2>2. CASE shell[t] # Idle
    <3>1. shell[t] \in Launches /\ alive[t] \subseteq Processes(shell[t])
      BY <1>3, <2>2 DEF BringupTypeOK
    <3>2. ASSUME NEW topic \in DOMAIN Publishers
          PROVE  Cardinality(alive[t] \cap Publishers[topic]) <= 1
      <4>1. \A p, q \in alive[t] \cap Publishers[topic] : p = q
        BY <3>1, OnePublisher
      <4> QED
        BY <4>1, AtMostOne
    <3> QED
      BY <3>1, <3>2, TorqueIsGated
  <2> QED
    BY <2>1, <2>2
<1> QED
  BY <1>1, <1>2, <1>3, PTL DEF SessionSpec
=============================================================================
