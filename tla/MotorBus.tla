------------------------------ MODULE MotorBus ------------------------------
(***************************************************************************)
(* qmini_hardware: motor_bus_node.cpp, the only process that talks to the  *)
(* motors.  One executor thread runs the subscription callbacks; every     *)
(* serial channel that opened has a poll thread that repeats a cycle: take *)
(* a time snapshot, then for each motor of the channel in turn compute the *)
(* frame (fill_command) and exchange it (sendRecv).                        *)
(*                                                                         *)
(* A callback is atomic here: the relaxed atomics it stores a command in,  *)
(* one field after the other, are not modelled.  Time is counted in ticks  *)
(* and every time stamp is kept as an age; the system clock, which the     *)
(* ages of heartbeat and command are taken with, is not set while the node *)
(* runs.  A frame is abstracted to what it makes the motor do: freewheel,  *)
(* drive (full command) or hold (q, kp, kd only).                          *)
(***************************************************************************)
EXTENDS Integers, MotionGate

CONSTANTS
  Channel,          \* the serial channels of the layout
  MotorCount,       \* [Channel -> number of motors]
  PortOk,           \* the channels whose port opened at start-up
  Pose,             \* abstract joint positions
  Gain,             \* abstract (kp, kd) pairs
  ZeroPose,         \* the position 0.0
  ZeroGain,         \* kp = kd = 0.0
  NaN,              \* not a number
  CommandMsgs,      \* the MotorCommand messages: [Slot -> [q, gain]]
  TorqueEnabled,    \* parameter enable_motor_torque
  HbTimeout,        \* parameter heartbeat_timeout_s, in ticks
  CmdTimeout,       \* parameter command_timeout_s, in ticks
  AbsentThreshold,  \* parameter motor_absent_threshold
  Reprobe,          \* parameter motor_reprobe_period_s, in ticks
  CycleMax,         \* a poll cycle starts at most this many ticks after the last
  Links             \* what can happen to a motor's wire

\* The motors, addressed as joint_to_chan_motor_ does: (channel, index).
Slot == UNION {{c} \X (1..MotorCount[c]) : c \in Channel}

\* ok: frames arrive and are answered.  mute: frames arrive, the answer is lost
\* or fails its checksum.  dead: unplugged or unpowered.
LinkState == {"ok", "mute", "dead"}

ASSUME LayoutAssumption ==
  /\ MotorCount \in [Channel -> Nat \ {0}]
  /\ PortOk \subseteq Channel
  /\ Links \subseteq LinkState /\ "ok" \in Links
ASSUME CommandAssumption ==
  /\ NaN \notin Pose /\ NaN \notin Gain
  /\ ZeroPose \in Pose /\ ZeroGain \in Gain
  /\ CommandMsgs \subseteq
       [Slot -> [q : Pose \cup {NaN}, gain : Gain \cup {NaN}]]
ASSUME BusTimingAssumption ==
  /\ TorqueEnabled \in BOOLEAN
  /\ HbTimeout \in Nat /\ CmdTimeout \in Nat /\ Reprobe \in Nat
  /\ CycleMax \in Nat \ {0}
  /\ AbsentThreshold \in Nat \ {0}

VARIABLES
  running,      \* rclcpp::ok(): the node has not been told to shut down
  gate_state,   \* gate_state_
  gate_age,     \* ticks since the gate callback ran
  hb_age,       \* ticks since the heartbeat callback ran (last_hb_ns_)
  cmd,          \* per slot: the cmd_* fields
  has_command,  \* has_command, equal for all slots
  cmd_age,      \* ticks since on_motor_command ran (last_cmd_ns, all slots)
  pc,           \* per channel: where its poll thread is
  next,         \* per channel: index of the motor being polled (1 when idle)
  cycle_age,    \* per channel: ticks since the snapshot t0 / now_ns
  frame,        \* per channel: the frame being exchanged (scratch otherwise)
  fail_streak,  \* per slot
  absent,       \* per slot
  probe_wait,   \* per slot: next_probe - t0, floored at 0
  has_fresh,    \* per slot
  link,         \* environment: the wire of each motor
  sent          \* environment: the last frame each motor received

callbackVars == <<gate_state, gate_age, hb_age, cmd, has_command, cmd_age>>
pollVars == <<pc, next, cycle_age, frame, fail_streak, absent, probe_wait,
              has_fresh>>
motorVars == <<link, sent>>
busVars == <<running, callbackVars, pollVars, motorVars>>

\* No condition tells ages beyond these apart.
HbCap == HbTimeout + 2 * CycleMax + Reprobe
CmdCap == CmdTimeout + 2 * CycleMax + Reprobe
GateCap == 1 + 2 * CycleMax + Reprobe

Freewheel == [kind |-> "freewheel", q |-> ZeroPose, gain |-> ZeroGain]
Frame == {Freewheel} \cup [kind : {"drive", "hold"}, q : Pose, gain : Gain]

BusTypeOK ==
  /\ running \in BOOLEAN
  /\ gate_state \in GateState
  /\ gate_age \in 0..GateCap
  /\ hb_age \in 0..HbCap
  /\ cmd \in [Slot -> [q : Pose, gain : Gain]]
  /\ has_command \in BOOLEAN
  /\ cmd_age \in 0..CmdCap
  /\ pc \in [Channel -> {"down", "idle", "poll", "wire"}]
  /\ next \in [Channel -> Nat]
  /\ \A c \in Channel : next[c] \in 1..MotorCount[c]
  /\ cycle_age \in [Channel -> 0..CycleMax]
  /\ frame \in [Channel -> Frame]
  /\ fail_streak \in [Slot -> 0..AbsentThreshold]
  /\ absent \in [Slot -> BOOLEAN]
  /\ probe_wait \in [Slot -> 0..Reprobe]
  /\ has_fresh \in [Slot -> BOOLEAN]
  /\ link \in [Slot -> Links]
  /\ sent \in [Slot -> Frame]

BusInit ==
  /\ running = TRUE
  /\ gate_state = STATE_BOOTING
  /\ gate_age = GateCap
  /\ hb_age = HbCap
  /\ cmd = [s \in Slot |-> [q |-> ZeroPose, gain |-> ZeroGain]]
  /\ has_command = FALSE
  /\ cmd_age = CmdCap
  /\ pc = [c \in Channel |-> IF c \in PortOk THEN "idle" ELSE "down"]
  /\ next = [c \in Channel |-> 1]
  /\ cycle_age = [c \in Channel |-> 0]
  /\ frame = [c \in Channel |-> Freewheel]
  /\ fail_streak = [s \in Slot |-> 0]
  /\ absent = [s \in Slot |-> FALSE]
  /\ probe_wait = [s \in Slot |-> 0]
  /\ has_fresh = [s \in Slot |-> FALSE]
  /\ link \in [Slot -> Links]
  /\ sent = [s \in Slot |-> Freewheel]

-----------------------------------------------------------------------------
\* The executor thread.

OnHeartbeat ==
  /\ running
  /\ hb_age' = 0
  /\ UNCHANGED <<running, gate_state, gate_age, cmd, has_command, cmd_age,
                 pollVars, motorVars>>

OnGate(g) ==
  /\ running
  /\ gate_state' = g
  /\ gate_age' = 0
  /\ UNCHANGED <<running, hb_age, cmd, has_command, cmd_age, pollVars, motorVars>>

\* nz: a NaN position is stored as 0.0, NaN gains as 0.0.
NoNaN(field) ==
  [q    |-> IF field.q = NaN THEN ZeroPose ELSE field.q,
   gain |-> IF field.gain = NaN THEN ZeroGain ELSE field.gain]

\* on_motor_command: whatever the gate says, every slot takes its command.
OnMotorCommand(msg) ==
  /\ running
  /\ cmd' = [s \in Slot |-> NoNaN(msg[s])]
  /\ has_command' = TRUE
  /\ cmd_age' = 0
  /\ UNCHANGED <<running, gate_state, gate_age, hb_age, pollVars, motorVars>>

-----------------------------------------------------------------------------
\* The poll threads.

\* Freshness is judged against the snapshot taken when the cycle began, so a
\* beat or a command that came in since looks younger than new.
HbOk(c) == hb_age - cycle_age[c] < HbTimeout
\* Mutant of CmdFresh: a command never gets stale.
CmdEver(c) == has_command

CmdFresh(c) == has_command /\ cmd_age - cycle_age[c] < CmdTimeout

\* Mutant of NoTorque: the heartbeat is not looked at.
NoTorqueWithoutBeat(c) ==
  ~TorqueEnabled \/ gate_state \in {STATE_HARD_STOPPED, STATE_BOOTING}

NoTorque(c) ==
  \/ ~TorqueEnabled
  \/ ~HbOk(c)
  \/ gate_state \in {STATE_HARD_STOPPED, STATE_BOOTING}

\* Mutant of FrameFor: the gate does not choose between driving and holding.
FrameIgnoringRelease(c, s) ==
  IF NoTorque(c) \/ ~has_command THEN Freewheel
  ELSE [kind |-> IF CmdFresh(c) THEN "drive" ELSE "hold",
        q    |-> cmd[s].q,
        gain |-> cmd[s].gain]

\* fill_command: the frame for slot s, according to the safety policy.
FrameFor(c, s) ==
  IF NoTorque(c) \/ ~has_command THEN Freewheel
  ELSE [kind |-> IF gate_state = STATE_ENABLED /\ CmdFresh(c)
                 THEN "drive" ELSE "hold",
        q    |-> cmd[s].q,
        gain |-> cmd[s].gain]

\* The head of poll_loop: snapshot the clocks and start with the first motor.
BeginCycle(c) ==
  /\ running /\ pc[c] = "idle"
  /\ pc' = [pc EXCEPT ![c] = "poll"]
  /\ next' = [next EXCEPT ![c] = 1]
  /\ cycle_age' = [cycle_age EXCEPT ![c] = 0]
  /\ probe_wait' = [s \in Slot |->
       IF s[1] = c /\ probe_wait[s] <= cycle_age[c] THEN 0
       ELSE IF s[1] = c THEN probe_wait[s] - cycle_age[c]
       ELSE probe_wait[s]]
  /\ UNCHANGED <<running, callbackVars, frame, fail_streak, absent, has_fresh,
                 motorVars>>

\* Go on to the next motor of the channel, or end the cycle after the last.
Advance(c) ==
  IF next[c] < MotorCount[c]
  THEN /\ pc' = [pc EXCEPT ![c] = "poll"]
       /\ next' = [next EXCEPT ![c] = @ + 1]
  ELSE /\ pc' = [pc EXCEPT ![c] = "idle"]
       /\ next' = [next EXCEPT ![c] = 1]

\* Mutant of Throttled: an absent motor is never probed again.
NeverProbed(s) == absent[s]

Throttled(s) == absent[s] /\ probe_wait[s] > 0

\* An absent motor that is not due for a probe is not talked to at all.
SkipAbsent(c) ==
  /\ pc[c] = "poll" /\ Throttled(<<c, next[c]>>)
  /\ Advance(c)
  /\ UNCHANGED <<running, callbackVars, cycle_age, frame, fail_streak, absent,
                 probe_wait, has_fresh, motorVars>>

FillCommand(c) ==
  /\ pc[c] = "poll" /\ ~Throttled(<<c, next[c]>>)
  /\ frame' = [frame EXCEPT ![c] = FrameFor(c, <<c, next[c]>>)]
  /\ pc' = [pc EXCEPT ![c] = "wire"]
  /\ UNCHANGED <<running, callbackVars, next, cycle_age, fail_streak, absent,
                 probe_wait, has_fresh, motorVars>>

\* sendRecv came back with a correct answer.
PollOk(s) ==
  /\ has_fresh' = [has_fresh EXCEPT ![s] = TRUE]
  /\ absent' = [absent EXCEPT ![s] = FALSE]
  /\ fail_streak' = [fail_streak EXCEPT ![s] = 0]
  /\ UNCHANGED probe_wait

\* Mutant of PollFailed: the streak never builds up.
PollFailedForgetting(s) ==
  /\ has_fresh' = [has_fresh EXCEPT ![s] = FALSE]
  /\ fail_streak' = [fail_streak EXCEPT ![s] = 0]
  /\ absent' = [absent EXCEPT ![s] = @ \/ fail_streak'[s] >= AbsentThreshold]
  /\ probe_wait' = [probe_wait EXCEPT ![s] = Reprobe]

\* It did not: count it, and after enough of them stop polling the motor.
PollFailed(s) ==
  /\ has_fresh' = [has_fresh EXCEPT ![s] = FALSE]
  /\ fail_streak' = [fail_streak EXCEPT ![s] = IF absent[s] THEN @ ELSE @ + 1]
  /\ absent' = [absent EXCEPT ![s] = @ \/ fail_streak'[s] >= AbsentThreshold]
  /\ probe_wait' = [probe_wait EXCEPT ![s] = Reprobe]

SendRecv(c) ==
  LET s == <<c, next[c]>> IN
  /\ pc[c] = "wire"
  /\ sent' = IF link[s] = "dead" THEN sent ELSE [sent EXCEPT ![s] = frame[c]]
  /\ IF link[s] = "ok" THEN PollOk(s) ELSE PollFailed(s)
  /\ frame' = [frame EXCEPT ![c] = Freewheel]
  /\ Advance(c)
  /\ UNCHANGED <<running, callbackVars, cycle_age, link>>

-----------------------------------------------------------------------------
\* The environment.

\* A motor is plugged in, loses power, or its answers stop getting through.  A
\* motor without power applies no torque, and has no command when it comes back.
ChangeLink(s, l) ==
  /\ l # link[s]
  /\ link' = [link EXCEPT ![s] = l]
  /\ sent' = IF l = "dead" THEN [sent EXCEPT ![s] = Freewheel] ELSE sent
  /\ UNCHANGED <<running, callbackVars, pollVars>>

\* Ctrl-C: no callback runs any more and each poll thread ends with its cycle;
\* the destructor joins the threads and sends nothing.
Shutdown ==
  /\ running
  /\ running' = FALSE
  /\ UNCHANGED <<callbackVars, pollVars, motorVars>>

Older(age, cap) == IF age < cap THEN age + 1 ELSE cap

\* One tick.  A poll thread that still has work is never late for a cycle.
BusElapse ==
  /\ \A c \in PortOk : running \/ pc[c] # "idle" => cycle_age[c] < CycleMax
  /\ hb_age' = Older(hb_age, HbCap)
  /\ cmd_age' = Older(cmd_age, CmdCap)
  /\ gate_age' = Older(gate_age, GateCap)
  /\ cycle_age' = [c \in Channel |->
       IF c \in PortOk THEN Older(cycle_age[c], CycleMax) ELSE 0]
  /\ UNCHANGED <<running, gate_state, cmd, has_command, pc, next, frame,
                 fail_streak, absent, probe_wait, has_fresh, motorVars>>

Poll(c) == BeginCycle(c) \/ SkipAbsent(c) \/ FillCommand(c) \/ SendRecv(c)

BusNext ==
  \/ OnHeartbeat
  \/ \E g \in GateState : OnGate(g)
  \/ \E msg \in CommandMsgs : OnMotorCommand(msg)
  \/ \E c \in Channel : Poll(c)
  \/ \E s \in Slot, l \in Links : ChangeLink(s, l)
  \/ Shutdown
  \/ BusElapse

BusSpec == BusInit /\ [][BusNext]_busVars

\* Each poll thread keeps running and time passes; nothing is assumed of the
\* topics, of the motors or of the operator.
BusFairSpec ==
  BusSpec /\ WF_busVars(BusElapse) /\ \A c \in PortOk : WF_busVars(Poll(c))

-----------------------------------------------------------------------------
TorqueOn(s) == sent[s] # Freewheel

\* How long a frame may stand before the next one replaces it: two poll cycles
\* (an age is judged against the snapshot of a cycle, and a motor polled early in
\* one cycle may be polled late in the next), and the re-probe period on top for a
\* motor given up as absent, which may still be powered and hear what it is sent.
Grace(s) == 2 * CycleMax + IF absent[s] THEN Reprobe ELSE 0

\* Losing the heartbeat takes the torque off every motor within that time after
\* the timeout: fill_command and poll_loop, with motors that do not answer.
HeartbeatLossCutsTorque ==
  running => \A s \in Slot : hb_age >= HbTimeout + Grace(s) => ~TorqueOn(s)

\* So does a hard stop, and a safety node that starts over.
StopGateCutsTorque ==
  running /\ gate_state \in {STATE_HARD_STOPPED, STATE_BOOTING}
  => \A s \in Slot : gate_age > Grace(s) => ~TorqueOn(s)

\* A motor is not driven (with feed-forward) on a command that is stale, ...
StaleCommandNotDriven ==
  running => \A s \in Slot : cmd_age >= CmdTimeout + Grace(s) => sent[s].kind # "drive"

\* ... nor when the gate is anything but ENABLED.
ReleaseEndsDriving ==
  running /\ gate_state # STATE_ENABLED
  => \A s \in Slot : gate_age > Grace(s) => sent[s].kind # "drive"

\* A motor that is connected again reports again, whatever the other motors of
\* its channel do.
ReconnectedMotorReports ==
  \A s \in Slot : s[1] \in PortOk =>
    (<>[](running /\ link[s] = "ok") => <>[]has_fresh[s])

\* A motor that stays silent is given up, so that it stops stalling the channel.
SilentMotorIsDropped ==
  \A s \in Slot : s[1] \in PortOk =>
    (<>[](running /\ link[s] # "ok") => <>[]absent[s])

\* The parts of the inductive invariant behind the theorems of MotorBusProofs.
\*
\* The poll threads run for exactly the ports that opened, and a motor not given
\* up has failed less often than it takes.
PollInv ==
  /\ \A c \in Channel : pc[c] = "down" <=> c \notin PortOk
  /\ \A s \in Slot : ~absent[s] => fail_streak[s] < AbsentThreshold

\* Only a motor that has power and a poll thread can have torque.
LimpInv ==
  /\ \A s \in Slot : s[1] \notin PortOk => ~TorqueOn(s)
  /\ \A s \in Slot : link[s] = "dead" => ~TorqueOn(s)

\* The age of the cycle that the last frame of a motor was filled in.  It is the
\* current cycle of its channel or, if the motor has not been polled in it yet,
\* the one before; an absent motor got it Reprobe - probe_wait before the current
\* snapshot or, when it is due for a probe, at most a cycle before it was due.
Live(c) == running \/ pc[c] # "idle"
Polled(s) == pc[s[1]] = "idle" \/ s[2] < next[s[1]]
Standing(s) ==
  IF Polled(s) \/ Throttled(s)
  THEN IF absent[s] THEN Reprobe - probe_wait[s] ELSE 0
  ELSE IF absent[s] THEN Reprobe + CycleMax ELSE CycleMax
SinceFrame(s) == cycle_age[s[1]] + Standing(s)

\* Every frame of one of these kinds that a motor has, or is about to get, was
\* filled in a cycle that is older than a.
FramesSince(kinds, a) ==
  /\ \A s \in Slot : Live(s[1]) /\ sent[s].kind \in kinds => a < SinceFrame(s)
  /\ \A c \in Channel : pc[c] = "wire" /\ frame[c].kind \in kinds => a < cycle_age[c]

\* Frames with torque date from when the beat was fresh and the gate not a stop,
\* driving frames from when the command was fresh and the gate ENABLED.
Powered == {"drive", "hold"}
Stopped == gate_state \in {STATE_HARD_STOPPED, STATE_BOOTING}
FrameInv ==
  /\ FramesSince(Powered, hb_age - HbTimeout)
  /\ Stopped => FramesSince(Powered, gate_age - 1)
  /\ FramesSince({"drive"}, cmd_age - CmdTimeout)
  /\ gate_state # STATE_ENABLED => FramesSince({"drive"}, gate_age - 1)
=============================================================================
