-------------------------- MODULE MCPolicySession --------------------------
(***************************************************************************)
(* A small instance of PolicySession: the launch files that matter to the  *)
(* policy, which bring it up with and without the robot, and sources of    *)
(* its readings with and without it.                                       *)
(***************************************************************************)
EXTENDS PolicySession

Settings == {-1, 1}

SensorLaunches ==
  {[file |-> f, use_hardware |-> TRUE, enable_torque |-> TRUE, use_joint_gui |-> TRUE] :
     f \in {"hardware", "policy", "qmini_rl_policy", "view_robot", "imu_noise_calib"}}
=============================================================================
