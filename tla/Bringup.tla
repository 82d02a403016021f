------------------------------ MODULE Bringup ------------------------------
(***************************************************************************)
(* The launch files of qmini_bringup, qmini_rl, qmini_imu and              *)
(* qmini_calibration: which processes each brings up, what these publish,  *)
(* and what happens when several of them run on the robot, side by side in *)
(* different terminals.                                                    *)
(*                                                                         *)
(* A launch is a record of the file and the arguments that decide which    *)
(* processes run and whether the motors may have torque; the other         *)
(* arguments are values that the nodes' own modules take as constants.     *)
(* No launch file names an on_exit handler, so a process that ends leaves  *)
(* the rest of its launch running.                                         *)
(***************************************************************************)
EXTENDS Integers, FiniteSets

CONSTANTS
  Terminals,  \* where the operator launches
  Launches,   \* the launches considered
  MaxCrashes  \* processes that die on their own, in all (a bound)

LaunchFiles == {"hardware", "policy", "motor_bus_test", "controller_test", "view_robot",
                "qmini_rl_policy", "imu", "actuator_latency_calib", "bus_jitter_calib",
                "imu_noise_calib", "friction_calib"}

ASSUME BringupAssumption ==
  /\ Launches \subseteq [file : LaunchFiles, use_hardware : BOOLEAN,
                         enable_torque : BOOLEAN, use_joint_gui : BOOLEAN]
  /\ MaxCrashes \in Nat

VARIABLES
  shell,    \* the launch a terminal runs, or Idle
  pending,  \* the calibration node a terminal's launch has yet to start
  alive,    \* the processes of a terminal's launch that run
  crashes   \* processes that died on their own

bringupVars == <<shell, pending, alive, crashes>>

Idle == [file |-> "none"]

If(condition, nodes) == IF condition THEN nodes ELSE {}

-----------------------------------------------------------------------------
(* The launch files.                                                       *)

ImuLaunch(l) == {"imu_driver_node"}

\* Mutant of HardwareLaunch: the joystick is left to a terminal of its own.
HardwareLaunchWithoutJoy(l) ==
  {"qmini_safety", "pd_packer_node"}
    \cup If(l.use_hardware, ImuLaunch(l) \cup {"motor_bus_node"})

HardwareLaunch(l) ==
  {"joy_node", "qmini_safety", "pd_packer_node"}
    \cup If(l.use_hardware, ImuLaunch(l) \cup {"motor_bus_node"})

RlPolicyLaunch(l) == {"policy_runner_node"}

PolicyLaunch(l) == HardwareLaunch(l) \cup RlPolicyLaunch(l)

MotorBusTestLaunch(l) == {"qmini_safety", "motor_bus_node"}

ControllerTestLaunch(l) ==
  {"joy_node", "qmini_safety", "pd_packer_node"} \cup If(l.use_hardware, {"motor_bus_node"})

ViewRobotLaunch(l) ==
  {"robot_state_publisher", "rviz2"} \cup If(l.use_joint_gui, {"joint_state_publisher_gui"})

ActuatorCalibLaunch(l) ==
  {"joy_node", "qmini_safety", "motor_bus_node", "actuator_latency_calib", "recorder"}

BusJitterLaunch(l) == {"qmini_safety", "motor_bus_node", "bus_jitter_calib", "recorder"}

ImuNoiseLaunch(l) == ImuLaunch(l) \cup {"imu_noise_calib", "recorder"}

FrictionLaunch(l) == ImuLaunch(l) \cup {"friction_calib", "recorder"}

Processes(l) ==
  CASE l.file = "hardware"               -> HardwareLaunch(l)
    [] l.file = "policy"                 -> PolicyLaunch(l)
    [] l.file = "motor_bus_test"         -> MotorBusTestLaunch(l)
    [] l.file = "controller_test"        -> ControllerTestLaunch(l)
    [] l.file = "view_robot"             -> ViewRobotLaunch(l)
    [] l.file = "qmini_rl_policy"        -> RlPolicyLaunch(l)
    [] l.file = "imu"                    -> ImuLaunch(l)
    [] l.file = "actuator_latency_calib" -> ActuatorCalibLaunch(l)
    [] l.file = "bus_jitter_calib"       -> BusJitterLaunch(l)
    [] l.file = "imu_noise_calib"        -> ImuNoiseLaunch(l)
    [] l.file = "friction_calib"         -> FrictionLaunch(l)

\* The files that hand enable_torque to the motor bus; its default is FALSE.
TakesTorque(l) ==
  l.file \in {"hardware", "policy", "controller_test", "actuator_latency_calib"}

EnablesTorque(l) == TakesTorque(l) /\ l.enable_torque

Sweeps == {"actuator_latency_calib", "bus_jitter_calib", "imu_noise_calib", "friction_calib"}

\* Who publishes a topic.
Publishers ==
  [joy           |-> {"joy_node"},
   motion_gate   |-> {"qmini_safety"},
   heartbeat     |-> {"qmini_safety"},
   imu_data      |-> {"imu_driver_node"},
   joint_states  |-> {"motor_bus_node", "joint_state_publisher_gui"},
   joint_target  |-> {"policy_runner_node"},
   motor_command |-> {"pd_packer_node", "actuator_latency_calib"},
   event         |-> Sweeps]

AllAlive == UNION {alive[t] : t \in Terminals}
Publishing(topic) == AllAlive \cap Publishers[topic] # {}

-----------------------------------------------------------------------------
BringupInit ==
  /\ shell = [t \in Terminals |-> Idle]
  /\ pending = [t \in Terminals |-> {}]
  /\ alive = [t \in Terminals |-> {}]
  /\ crashes = 0

\* ros2 launch.  All processes start at once but for a calibration node, which has
\* something to ask first.
Launch(t, l) ==
  /\ shell[t] = Idle
  /\ shell' = [shell EXCEPT ![t] = l]
  /\ pending' = [pending EXCEPT ![t] = Processes(l) \cap Sweeps]
  /\ alive' = [alive EXCEPT ![t] = Processes(l) \ Sweeps]
  /\ UNCHANGED crashes

PolicyUp == {u \in Terminals : "policy_runner_node" \in alive[u]}

\* A calibration node starts: it asks once which nodes run, and exits if a policy
\* runner is among them.  The question is asked as soon as the node exists, when
\* discovery may have found all, some or none of the others; `found` are the
\* terminals whose policy runner it has.
Construct(t, p, found) ==
  /\ p \in pending[t]
  /\ found \subseteq PolicyUp
  /\ pending' = [pending EXCEPT ![t] = @ \ {p}]
  /\ alive' = IF found # {} THEN alive ELSE [alive EXCEPT ![t] = @ \cup {p}]
  /\ UNCHANGED <<shell, crashes>>

\* A recorder of static readings or slips has finished and shuts itself down.
FinishSweep(t, p) ==
  /\ p \in alive[t] \cap (Sweeps \ {"actuator_latency_calib"})
  /\ alive' = [alive EXCEPT ![t] = @ \ {p}]
  /\ UNCHANGED <<shell, pending, crashes>>

Crash(t, p) ==
  /\ crashes < MaxCrashes
  /\ p \in alive[t]
  /\ crashes' = crashes + 1
  /\ alive' = [alive EXCEPT ![t] = @ \ {p}]
  /\ UNCHANGED <<shell, pending>>

\* Ctrl-C in a terminal ends all of its launch.
CtrlC(t) ==
  /\ shell[t] # Idle
  /\ shell' = [shell EXCEPT ![t] = Idle]
  /\ pending' = [pending EXCEPT ![t] = {}]
  /\ alive' = [alive EXCEPT ![t] = {}]
  /\ UNCHANGED crashes

BringupNext ==
  \E t \in Terminals :
    \/ \E l \in Launches : Launch(t, l)
    \/ \E p \in pending[t], found \in SUBSET PolicyUp : Construct(t, p, found)
    \/ \E p \in alive[t] : FinishSweep(t, p) \/ Crash(t, p)
    \/ CtrlC(t)

BringupSpec == BringupInit /\ [][BringupNext]_bringupVars

-----------------------------------------------------------------------------
BringupTypeOK ==
  /\ shell \in [Terminals -> Launches \cup {Idle}]
  /\ DOMAIN pending = Terminals /\ DOMAIN alive = Terminals
  /\ \A t \in Terminals :
       /\ shell[t] = Idle => pending[t] = {} /\ alive[t] = {}
       /\ shell[t] # Idle => /\ pending[t] \cup alive[t] \subseteq Processes(shell[t])
                             /\ pending[t] \cap alive[t] = {}

\* Any of the launch files by itself is a complete and consistent robot: no topic
\* has two publishers, and motors get torque only where it was asked for, in a
\* launch that also brings the joystick and the safety node which gate it.  Only
\* launches side by side can get in each other's way.
LaunchesAreComplete ==
  \A t \in Terminals :
    /\ \A topic \in DOMAIN Publishers :
         Cardinality(alive[t] \cap Publishers[topic]) <= 1
    /\ "motor_bus_node" \in alive[t] /\ EnablesTorque(shell[t]) =>
         {"joy_node", "qmini_safety"} \subseteq Processes(shell[t])
=============================================================================
