# A verification model of qmini_ros2

TLA+ modules for the ROS 2 stack of the Qmini biped (`src/`), TLC
configurations that check them on small instances, and TLAPS proofs of the
properties that keep the robot's motors without current when they must be.
Paths below are relative to the repository (`src/qmini_safety/...` in the
repository's own tree); `PROJECT.json` maps every definition to its lines.

## 1. The system

Everything is a ROS 2 node in a process of its own. The path that matters goes
from two buttons to ten motors:

```
 joy_node --/joy--> qmini_safety --safety/heartbeat (50 Hz)-------------+
                         |                                               v
                         +-------safety/motion_gate--+--------> motor_bus_node --RS-485--> motors
                         |           (latched)       |             ^  |
                         v                           v             |  +--/joint_states--+
 qmini_imu --/imu--> policy_runner --/joint_target--> pd_packer ---+                    |
                         ^                            ^      /motor_command             |
                         +----------------------------+---------------------------------+
```

| component | state it keeps | operations | hard behaviour | what makes it correct |
|---|---|---|---|---|
| `qmini_safety/safety_node.cpp` | verdict, latch, time of last `/joy`, deadman | `on_joy`, `evaluate` (timer), heartbeat (timer) | watchdog polled by a timer, clock that can be set, relaunch | enabled only on recent `/joy`; latch left only by a release; silence stops, release recovers |
| `qmini_hardware/motor_bus_node.cpp` | gate, heartbeat time, per motor: command, offset, presence | 3 subscriptions, a poll thread per serial channel, homing service, 200 Hz publisher | threads sharing relaxed atomics, ages judged against a cycle's snapshot, motors that come and go, Ctrl-C, files | lost heartbeat / stop takes torque off, also off motors that do not answer; stale commands do not drive; absent motors recover; offsets are true |
| `qmini_controllers/pd_packer_node.cpp` | gate, last readings, target and its time, ramp | `on_joint_states`, `on_joint_target`, `on_gate`, `tick` | stale targets, NaN readings, re-delivered gate | commands within limits; ramp monotone in time, no overshoot; ends at home |
| `qmini_rl/policy_runner_node.cpp` | readings and their times, last action, gait phase, gate | 4 subscriptions, `tick` | freshness, NaN in a feedback loop, sessions | clean first target; phase counts steps; fresh inputs |
| `qmini_imu/imu_driver_node.cpp` | descriptor, parser, last IMU packet | read thread, shutdown | lost bytes, frames of several lengths, unplugging, join | resynchronises within a bound; port recovers |
| `qmini_calibration` recorders (bus jitter, IMU noise) + analyzers | phase, readings counted; bag, marks | timer, subscription, recorder, offline window | two topics into one bag, a queue, a clock that is set, foreign marks | measured is what was read in the static window; a dead channel shows |
| `qmini_calibration` actuator latency + analyzer | protocol position, step windows | gate callback, `tick`, offline segmentation | deadman released in mid-protocol, a joint that lags or has no room | every step commanded in full and found; a latency is of its own step |
| `qmini_calibration` friction + analyzer | arming/ready, peak tilt, angles | IMU callback, offline segmentation | repeated shocks, sloppy operators, interruption | one slide is one trial; the node's angles are breakaways; what the analyzer's peaks are |
| `qmini_calibration` results file, Isaac Lab diff | rows of four measurements | `append_row`, `latest_row`, verdicts | analyzers side by side, processes that die, NaN and missing values | rows survive while analyzers do not overlap; GREEN is earned |
| launch files (`qmini_bringup`, `qmini_rl`, `qmini_imu`, `qmini_calibration`) | which processes run | `ros2 launch`, Ctrl-C, crashes, the calibration nodes' start-up check | several terminals, a check made once | one publisher per topic, torque with its gate |
| `qmini_msgs`, MATLAB plots, description, scripts, `qmini_joystick` (stub), vendored SDK | - | - | - | see section 8 |

How they interact: by topics only. `safety/motion_gate` is reliable,
transient-local, depth 1; `safety/heartbeat` and `motor_command` are reliable,
depth 1. Depth 1 means a subscriber that has not taken a sample sees only the
newest; samples of different topics have no order between them. Within the
motor bus the executor thread and the poll threads share atomics without a lock.
Calibration nodes, recorder and analyzers meet in a bag, the analyzers and the diff in
`calibration_results.yaml`.

## 2. Modules

| module | what it is |
|---|---|
| `MotionGate` | the four gate states of `MotionGate.msg` |
| `GateLatch` | abstract: what the safety node promises about the sequence of its verdicts |
| `SafetyGate` | the safety node; implements `GateLatch` |
| `SafetyGateProofs` | theorems about it |
| `MotorBus` (`MCMotorBus`) | subscriptions, `fill_command`, poll threads, motors |
| `MotorBusProofs` | theorems about it |
| `PdPacker` (`MCPdPacker`) | the packer |
| `TorquePath` (`MCTorquePath`) | composition of `SafetyGate`, `PdPacker` and `MotorBus` by their topics |
| `TorquePathProofs` | theorems about it, from those of its parts |
| `JointOffsets` (`MCJointOffsets`) | homing offsets: capture, file, conversions |
| `ImuDriver` (`MCImuDriver`) | the serial read thread and frame parser |
| `DriverProofs` | theorems about homing and the IMU driver |
| `PdPackerProofs` | theorems about the packer |
| `PolicyRunner` | the policy node |
| `Bringup` | the launch files, several terminals, crashes, the calibration nodes' check for a policy |
| `PolicySession` (`MCPolicySession`) | composition of `Bringup` and `PolicyRunner` |
| `PolicySessionProofs` | theorems about it |
| `StaticCalib` | the two static recorders, the bag recorder and the window their analyzers cut |
| `ActuatorCalib` (`MCActuatorCalib`) | the step protocol, the joint's answer, the analyzer's windows |
| `FrictionCalib` | the slip trials and the windows their analyzer cuts |
| `CalibSessionProofs` | theorems about the three kinds of session |
| `IsaacDiff` | the verdicts of the diff for a row |
| `CalibResults` | the results file, its writers and its reader |
| `CalibCampaign` (`MCCalibCampaign`) | a day of calibration: any session, then the desk |
| `CalibCampaignProofs` | theorems about it |

Conventions. The executors of the C++ nodes are single-threaded, so one callback
is one action; threads (poll threads, the read thread, the homing service against
the poll threads) interleave. Time is ticks; a stored
time stamp is kept as its age, capped one past the largest value any condition
tells apart, which makes the state space finite without changing any branch.
Vectors and frames are abstracted to what the code branches on. Variables
commented *history* record something the program does not, for properties only;
those commented *environment* are the world. Operators commented `Mutant of` are
plausible bugs; no specification uses them. Each is the body `PROJECT.json`
substitutes for the definition it follows, to show that the named property would
notice.

### SafetyGate
`Evaluate` is `evaluate()`, its four disjuncts in the order of the code's
conditions; `OnJoy(n, pressed)` is `on_joy` for a message with `n` buttons, so
short messages (a different pad) are included. `joy_elapsed + clock_step` is
`now_ns - last_joy`: `now()` is the system clock, which can be set (`SetClock`).
`Crash` and `Relaunch` lose every variable. The history `armed` says that the
operator has let go of the buttons since the last hard stop of this process that
found them held. `GateLatch` is the promise without its mechanism: two variables,
no time; its `Reboot` is the relaunch, which no latch survives.

### MotorBus
`BeginCycle` takes the snapshot, `SkipAbsent`, `FillCommand` and `SendRecv` are the body
of the loop for one motor, as separate steps, because callbacks run between them. A
callback is one step, though its stores are relaxed atomics (section 4). `FrameFor` is
the branch structure of `fill_command`; a frame is *freewheel*, *hold* (q, kp, kd) or
*drive* (all fields). `sent` is the last frame a motor received. It is taken to obey
that until it gets another or loses power: the repository relies on this when it
re-sends in every cycle, and does nothing that would end it otherwise. A wire is *ok*,
*dead*, or *mute* (frames arrive, answers do not). A link that fails the other way
round, answers without frames, is not possible on a request/response bus. `Grace(s)` is
how long a frame may stand: two poll cycles, and the re-probe period as well for a motor
that has been given up, because `poll_loop` skips it until then and a *mute* one still
obeys what it last received.

### TorquePath
Instantiates the three nodes and adds one slot per topic and subscriber. The bus
relations assumed of a tick (20 ms): what was published within it has been
delivered by its end (`PathElapse`), and relaunching the safety node takes longer
than the heartbeat timeout (`SafetyRelaunch`). Everything else - order between
topics, overwritten samples, commands still in transit when the verdict changes -
is free. Motors are powered and connected here; links are `MotorBus`'s subject. The
packer has the motors for joints (`MotorSlot`), each with its home and limits; any of
`Readings` and `Targets` may reach it at any time (`PackerInputs`). The parts'
assumptions on their parameters are stated again, by name, for the parameters of the path.

### JointOffsets
Per joint: the true angle, the angle the motor counts from (reset by a power
cycle), the offset, the file. The capture is a step per motor, then the truncating
open (`OpenFile`, `OpenFails`), then the flush (`FlushFile`, `FlushFails`), with
polls, crashes and power cycles in between.

### ImuDriver
The byte stream is cells: start, header, CRC-16, the payload in as many cells as its kind
of frame has (`Payload`; 56, 48 and 84 bytes in the code), end. Checksums are taken to
detect any damage. `SendFrame(k, h)` may put a byte that looks like the start byte into any
cell of the payload; `Fault` loses a run of cells of any length, across frames, or damages
one. The history `missed` adds up the lengths of the plain frames (no false start byte,
sent after the last trouble) that go by unrecognized in a row. A descriptor whose device
has gone is *failing* (a read returns an error) or *hung* (it returns 0, what Linux does
after a hang-up).

### PdPacker
One action per callback and timer. `Smoothstep` is exact integer arithmetic over
`RampTicks`; NaN is a value that every comparison is false of.

### PolicyRunner, Bringup, PolicySession
The policy network is any function under which one NaN input makes every output NaN; joint
readings, IMU readings and `/cmd_vel` (which `std::clamp` lets through) may each be NaN.
`imu_age` and `js_age` are what the node computes from a clock that can be set
(`SetClock`), while the history `imu_gone` of `PolicySession` counts the ticks since
any process that publishes the topic was there. In `Bringup` a launch is a record of
the file and of those arguments that decide which processes run and whether motors may
have torque. `Construct` is the constructor of a calibration node: it sees any subset
of the policy runners that are up, because it asks right after it has joined the graph.

### StaticCalib
`bus_jitter_calib.py` and `imu_noise_calib.py` share their phase machine, and their
analyzers the window; one module stands for the four. A reading is kept as whether it
was published while the node collected and whether the channel looked at was down. It
goes two ways, into the node's queue (`inbox`) and over the `wire` into the bag, and
so do the marks; `BagDelay` bounds how many readings can be between a mark and its
place. `Lapses` is what the node's clock shows to have passed between two firings.

### ActuatorCalib
`protocol_t` advances only while enabled. The joint follows a command within
`MotorDelay` while the deadman is held (`Follows`, environment). The analyzer runs
offline over the bag; it is modelled as what it accumulates per recorded sample. Homes are
within their limits (`ActuatorAssumption`), as those the repository ships are: a pause
commands the home as it is, a running protocol clamps it, so another home would make an
edge of every release.

### FrictionCalib
`on_imu` is `Arming`, `Tilting` and `Slip`; `late` says on which side of the mark the
sample of the slip itself ends up in the bag. `careful` (history) says that the
operator started level and has only raised the board within a trial and only lowered it
after. `bag_max` is the analyzer's peak since its `trial_start`, which is the slip before.

### IsaacDiff, CalibResults, CalibCampaign
`append_row` is `Load`, `Open`, `Dump`, with other analyzers, the diff and a death in
between. `Lines` is what the diff prints for a row, in the order and by the comparisons
of the script; `Earned` says what a verdict is worth without `max`, rounding or absent
values: every axis is a number in range, a gain of either sign is within a fifth.
`NaNIsPassedOver` names the rows in which Python's `max` hides a NaN. `CalibCampaign`
starts with one session of any kind, puts its recording away and goes on to the desk;
what no session computes (rates, deviations, latencies, gains, kinetic friction) is any
member of a set.

## 3. Runs that pass

| run | shows | instance |
|---|---|---|
| `safety_gate` | enabled only after release, enabled only on recent `/joy`, refines `GateLatch`; silence stops, release recovers (liveness) | 2 deadman buttons, pads of 1 and 2 buttons, timeout and evaluation period 2, clock steps up to 2 either way, one relaunch |
| `bus_torque` | lost heartbeat, stop gate, stale command and release reach every motor within `Grace`; reconnected motors report, dead and unheard ones are dropped (liveness) | two motors on a channel, links ok/mute/dead, heartbeat timeout 0 and command timeout 1, threshold 1, re-probe 1 |
| `packer_ramp` | limits, no overshoot, no restart of a ramp, settles at home (liveness) | two joints, one read and targeted beyond its limits, ramp of 3 |
| `path_safety` | link loss reaches the motors; no torque before the release; driving needs the verdict; what a motor has torque for is within its limits | one motor whose limits are one position and whose home and reading lie beyond it, all three nodes, one restart of the safety node, heartbeat timeout 1, timeouts of `/joy` and commands 0 |
| `homing` | a homed joint reads and goes true through captures, lost saves, restarts, power cycles; a reply of success is true unless its flush failed | two joints of different ratio and sign |
| `imu` | the plain frames in a row that go by are within `MissBound`; port recovers unless the old descriptor hangs (liveness) | payloads of 1, 2 and 4 cells, start bytes in any of them, one lost run or damaged cell, openings in mid-frame, any number of replugs |
| `policy_session` | phase counts steps; first target of a session is clean; a dead sensor stops the policy; launches are complete | the launches that matter to the policy in two terminals, one crash, timeout 1, one tick of clock set back, NaN in every input, phase of 3 units in strides of 2 |
| `campaign` | sessions end (liveness); settling is discarded; a dead channel is RED; steps are found, latencies are of their step; trials are separate, the node's angles are breakaways, the analyzer's peaks are of two slips; lone appends are kept; GREEN is earned | windows of one tick, at least 3 samples, a queue and a delay of 1, one setting of the clock; two joints of which one has no room, two steps each; three trials, tilt 0..5; two analyzers, two rows, one old recording |

Why the bounds are enough. Timeouts of one or two ticks put every order of expiry,
arrival and polling within reach, because ages saturate and conditions only compare them
with a timeout: a larger timeout spaces the same orders further apart. Two motors on a
channel is the least at which one is polled early in a cycle and late in the next, and
at which a silent one delays another; channels share nothing but what the callbacks
write. A timeout of 0 makes a node trust only what has come in within its cycle or since
its last tick, the strictest it can be set to; `bus_torque` has the one of the heartbeat
so and `path_safety` those of `/joy` and of the command, while the heartbeat's is 1
there, the command's 1 in `bus_torque` and that of `/joy` 2 in `safety_gate`. A fail
threshold of 1 gives a motor up at once; the proofs are for any. Restarts and faults are
bounded by 1 because each returns the component to a state its initial predicate already
covers, except for the histories. For the properties of section 6 the proofs remove the
bounds. For the IMU driver a wire of one longest frame is enough, because the parser's
own state carries over what is left of the last one, and the three payloads stand to
each other as in the code: two of the shortest frames are longer than the rest of the
longest, one is not. In `policy_session` two terminals are the least at which launches
meet; what a third adds is a second policy runner or sweep, which the theorems cover. In
`campaign` the windows are the shortest in which a reading can be on either side of each
mark, and the sample threshold the least that lets a dead channel be diluted by two
foreign readings and still show; two joints are the first and the last of the protocol;
three trials are the first, one between and the last; two analyzers and two rows are the
least at which a row can be lost. `CHECK_DEADLOCK FALSE` is said where the system stops:
the IMU driver after shutdown, the friction session after its last trial, the campaign
once its rows are appended and their files lost.

## 4. Where the code and its documents differ

Four runs check a statement the repository makes and end in a counterexample;
`PROJECT.json` quotes the statements.

| run | what happens |
|---|---|
| `packer_silent_motor` | a NaN reading becomes a NaN command for the whole ramp (`pd_packer_node.cpp:219`) |
| `path_restart` | a relaunched safety node's heartbeat overtakes its BOOTING verdict, and the bus drives on the old gate |
| `friction_bag` | a slip at a shallow angle after one at a steep angle is recorded with the steep one, because its window starts at the slip before (`analyze_friction_bag.py:128`) |
| `actuator_tail` | the end of an analysis window lies in the phase after the hold it is meant to measure (`analyze_actuator_bag.py:111`) |

What a passing run still says of the same code is stated with the exception in the
property: `SavedReplyIsTrue` (`flush_lost`), `PortRecovers` (`fd # "hung"`),
`PeaksAreOfTwoSlips` (the analyzer's peaks are of no earlier slip), `GreenIsEarned`
(`NaNIsPassedOver`), `LoneAppendsAreKept` (`lone`).

The models show more places where the behaviour is not what a reader of the
documents expects. No run checks them. The first seven contradict a document or a
comment, and no property of the code as it is covers them; the properties above are
worded around the rest, and the model allows each.

- `motor_bus_node.cpp:662`: "saved" is answered before the buffered text is written,
  which can still fail (`FlushFails`); `docs/2-HOMING.md:62` says the service overwrites
  the file.
- `motor_bus_node.cpp:643`: the file is truncated and written later; a node that ends in
  between leaves no offsets, not those of an earlier capture either.
  `docs/2-HOMING.md:98` says that the offsets persist.
- `imu_driver_node.cpp:196`: a hung-up tty reads 0, which is taken for a timeout for ever
  (`fd = "hung"`); the comment at `:185` says that `read_exact` returns false on EOF.
- `imu_noise_calib.py:85` and its three siblings: a calibration node asks once, right
  after it has joined the graph, and starts beside a policy that discovery had not found
  (`Construct`); `docs/7-CALIBRATION.md:14` says that it refuses.
- `diff_against_isaaclab.py:158`: `max` keeps a number that a NaN follows, so a row with a
  NaN in its second or third axis may be GREEN (`NaNIsPassedOver`); `:6` says that each
  measured value is judged.
- `append_row` of each analyzer (`analyze_friction_bag.py:173`): analyzers side by side lose
  rows, and one that dies while it writes loses the file (`Load`, `Open`, `Dump`, `Die`);
  `docs/7-CALIBRATION.md:10` says that each appends a row.
- `motor_bus_node.cpp:424`: a command is stored field by field with `memory_order_relaxed`,
  so on aarch64 a poll thread may fill a frame with the gains of the first command and the
  0.0 that the slot starts with for a position. `:436` says that it drives to the commanded
  target. This one is not in the model: a callback of `MotorBus` is one step.
- `safety_node.cpp:115`: ages of `/joy` are taken with the adjustable system clock;
  set back, it keeps a dead controller fresh for that much longer
  (`EnabledOnlyOnRecentJoy` has the term).
- `safety_node.cpp:187`: a relaunched node has no latch, so held buttons re-enable
  (`GateLatch!Reboot`).
- `motor_bus_node.cpp:465`: SOFT_STOPPED, and ENABLED with a stale command, hold
  position under current. The file's header and `docs/5-ENERGIZE.md:45` say torque
  only while ENABLED; `fill_command`'s own comment describes the hold.
- `motor_bus_node.cpp:210`: nothing is sent on Ctrl-C, motors keep their last frame;
  `docs/5-ENERGIZE.md:184` says zero torque.
- `motor_bus_node.cpp:521`: a motor given up because only its answers are lost is
  skipped for the re-probe period, so a lost heartbeat or a stop does not reach it for that
  long (`Grace` has the term).
- `motor_bus_node.cpp:620`: a capture under torque moves the setpoint.
- `imu_driver_node.cpp:224`: a start byte inside a payload, once locked onto, costs
  further frames (`plain` cells); `:292`: while AHRS frames arrive and IMU frames do not,
  the rates of the last IMU frame are published with a new time stamp.
- `policy_runner_node.cpp:214`: freshness is per message, not per joint, and taken with
  the adjustable clock (`DeadSensorsStopPolicy` has the term). `/cmd_vel` has no
  timeout. `joint_state_publisher_gui`, in another terminal, keeps the policy as fresh
  as the motor bus does.
- `bus_jitter_calib.launch.py` and its siblings: the rest of a refused launch, there with a
  motor bus and a safety node of its own, keeps running; a policy launched later asks nobody, and
  nobody looks for a packer.
- `actuator_latency_calib.py:139`: the step edges a released deadman makes carry no
  marker, and the analyzer counts them as steps (`StepsAreFound` allows for them).
- `analyze_friction_bag.py`: a session cut short makes a row as well.
- `analyze_imu_bag.py:85`: marks of another calibration node on the same topic move the
  window (`SettlingIsDiscarded` and `DeadChannelIsRed` are about a node alone).

What is said of Ctrl-C and of silent motors rests on a motor obeying its last frame,
which is its firmware and not in the repository.

## 5. Fairness

Liveness is checked only under weak fairness of what the code's own scheduling
provides: the safety and packer timers and the timers of the calibration nodes fire
(`rclcpp` wall timers on a spinning executor), each poll thread of an open port and
the IMU read thread keep running (they are OS threads in a loop whose reads time
out), and time passes. Nothing is assumed of topics, operators, devices or the
clock; their contribution is a hypothesis of the property (`<>[](link[s] = "ok")
=> ...`). Bounds on lateness are guards, not fairness: `EvalPeriod`, `CycleMax`.

## 6. What is proved

For every value of the constants that satisfies the modules' assumptions:

*SafetyGateProofs.* `SafetyInv` is inductive: types; latch flag = HARD_STOPPED;
no `/joy` yet implies BOOTING; a dead process may still be relaunched; and whenever
the deadman is released or there is no latch, the operator is armed. The last
conjunct is what `EnabledOnlyAfterRelease` lacks to be inductive: it says why a
verdict of ENABLED can be reached at all. From it: `SafetyTypeCorrect`,
`SafetyLatchConsistent`, `NoSilentReenable` and, by a case per action,
`LatchRefinement`. `JoyWatchdogBound` adds that the age of `/joy` when enabled is at
most the timeout plus the time since the last evaluation plus what the clock was set
back by. All hold for any number of relaunches and any clock steps within
`MaxClockStep`.

*MotorBusProofs.* `BusInv` = `TypeInv` (types, and `PollInv`: threads exist exactly
for open ports, a motor not given up has failed less often than it takes), `LimpInv`
(motors that are dead or behind a closed port have no torque) and `FrameInv`.
The watchdog properties are not inductive: they speak of what has been sent once
an age is past a bound. `FrameInv` is the missing link: every powered frame that a
motor has, or that is about to be sent, was filled in a cycle older than
`hb_age - HbTimeout` (and likewise for gate and command). `SinceFrame` is the age of that
cycle: `Standing` before the channel's current one, by a cycle if the motor has not been
polled in the current one, and for an absent motor by what its probe has still to wait.
`Grace` bounds it, so that beyond it there is no such frame. From it, for every layout of
channels and motors, every stream of messages and whatever wires do, lost answers
included: `BusTypeCorrect`, `HeartbeatWatchdog`, `StopGateWatchdog`, `CommandWatchdog`,
`ReleaseStopsDriving`, without a hypothesis.

*TorquePathProofs.* First, that the composition is one: `PathRunsSafety`,
`PathRunsPacker` and `PathRunsBus` show that each node on the path takes only steps of
its own module, whatever the topics and the other nodes do. What is proved of the nodes
alone is then cited through instances of their proof modules, whose assumptions are
proved from the path's. What is left to show is the topics: by `GateInv` the verdict
last published waits for the bus or is the one it has, which holds because an unchanged
verdict is not published and a changed one overwrites. So a verdict that has settled is
what the bus watches (`SettledStop`), and `SilenceReachesMotors` and
`ReleaseBeforeTorque` follow from `SafetyInv`, `JoyAgeInv` and `StopGateCutsTorque`;
`VerdictBeforeDrive` from `ReleaseEndsDriving`; `DeadNodeCutsTorque`, that motors lose
their torque though nobody tells the bus of a crash, from `HeartbeatLossCutsTorque`.
`TorqueStaysWithinLimits` follows a position from the packer to the motor: `CommandInv`
(the command waiting is the clamped one, or a NaN), then `LimitInv` (so are the stored
command, the frame on the wire and the one the motor has: a poll thread cannot give
torque before a first command). Readings and targets are any: if a motor may be silent
or a target has a NaN, the 0.0 that the bus makes of it is the one position outside the
limits. All for any channels, motors, limits and timeouts; with links that are ok,
torque enabled and a clock that is not set, as said under `TorquePath`.
`DeadNodeCutsTorque` is a theorem only, no run has it as a property.

*DriverProofs.* Two machines of the drivers. For homing, `OffsetInv` = types,
`ReadingInv` (a fresh reading is the true angle counted from the motor's zero),
`HomedInv` (the offset of a homed joint is that zero, in the node as in the file) and
`ReplyInv` (no reply while a capture is under way). It gives `HomedReadsTrue`,
`SavedReplyTrue` and `HomedGoesTrue`, for any joints; `UndoRatio` and `ReadBack` say
that the conversion to motor units undoes the one from them, for either direction and
every gear ratio. For the IMU driver, `ImuInv` = types, `StageInv` (what each stage has
read) and, while the port is open, `WireInv` (what follows a plain cell on the wire was
sent after the last trouble and is in order) and `ParserInv`: before a plain cell the
parser is where the cell expects it (`Aligned`), or astray. `Astray` is the argument:
the parser still takes for its own the `Owed` cells of its wrong frame, and what has
gone by, with what it owes, fits into the rest of the longest frame (`Debt`); when it
has paid it looks for a start byte, has less than that behind it, and runs on to the end
of one more frame at most. From it `Resyncs`, for frames of any lengths and any number
of faults and replugs: with those of the code, two frames of 56 bytes.

*PdPackerProofs.* `WithinLimits` and `NeverOvershoots` hold for any joints, limits and
ramp length as long as no reading and no target is NaN (`NumbersOnly`; run
`packer_silent_motor` is what happens otherwise); `NeverRestarts` holds without that.
`PackerInv` keeps every stored position a number. The arithmetic is in lemmas:
`SmoothstepInRange` bounds the exact integer smoothstep, `DivBetween` and
`BlendBetween` carry a fraction of a way to a point between its ends, `ClampMonotone`
keeps the order through the joint limits.

*PolicySessionProofs.* For any number of terminals, launches and crashes. `DeadSensors`
rests on `AgesInv`: the time since a sensor was last there is at most the age the node
computes plus what the clock has been set back by, and a policy runner that does not run
has no fresh reading. `FirstClean` rests on `FirstHasNoFeedback`: between the start of a
session and its first target nothing has written `last_action`. `GaitInStep` is
inductive by the lemmas on `%` before it. `LaunchesComplete` follows from the
types and the launch files themselves (`OnePublisher`, `TorqueIsGated`).

*CalibSessionProofs.* Static sessions: `StaticInv` = types, `QueueInv` (which readings
in the node's queue can be from before the window, and how many), `MarksInv` (where each
mark is, in the node, on the wire or in the bag), `WindowInv` and `DownInv`.
`SettlingIsDiscarded` speaks of a window that is cut when all has been recorded;
`WindowInv` says it of what is recorded *so far*: `Crossing` counts the readings that
are still on the wire on the wrong side of a mark, and those plus the ones already in
the bag are within `BagDelay`. `DownInv` is the same bookkeeping for a channel that is
down. Windows, queue and delay are of any length.

Friction: `FrictionInv` adds to the angles recorded so far what the current
trial must keep: the peak the node and the bag have seen against the tilt, and, after
a slip, that the board is levelled before the next. `AnglesTrue` says that a careful
operator's angles are the node's, `PeaksOfTwoSlips` that the analyzer's peaks are those of a
slip or of the one before (section 4: they need not be breakaways), `TrialsSeparate` that
a slide is one trial; for any number of trials and any tilt the operator makes.

Actuator latency: `ActuatorInv` says where in a joint's block the protocol is, as `i`
whole cycles of down and up and `r` ticks of the next (`InCycle`), and what must have
happened by then: `StepsInv` (the command is up when it should be, as many edges as
steps begun, more if a released deadman made some; full length unless interrupted) and
`FollowInv` (a joint that nothing disturbs is behind exactly since the last edge, and
never for longer than `MotorDelay`). The induction is on ticks, but what a tick commands
is given by `div` and `%`: `UpInSecondHalf` turns that into "the second half of each
cycle", and `LastCycle`, by `CycleLess`, says that the block ends after the last.
`StepsFound` and `LatencyTrue` hold for any joints with homes within their limits,
settle and hold times, step counts and `MotorDelay < Hold`.

*CalibCampaignProofs.* `CampaignInv` puts `StaticInv`, `FrictionInv` and `ActuatorInv`
beside `DataInv` (rows in the file, jobs of the analyzers and recordings have the shapes
the diff reads) and, while analyzers have been alone, `LoneInv` (what an analyzer has
loaded is what the file still holds). The theorems of the sessions are lifted to the
campaign (`CampaignSettlingDiscarded`, `CampaignAnglesTrue`, `CampaignPeaksOfTwoSlips`,
`CampaignTrialsSeparate`, `CampaignStepsFound`, `CampaignLatencyTrue`); new are
`AppendsKept`, `GreenEarned` (by a lemma per measurement: `ImuGreen`, `BusGreen`,
`ActuatorGreen`, `FrictionGreen`) and `DeadRed`. The last needs the arithmetic conjunct
of `CampaignAssumption`: with `MinSamples` readings at least, of which two marks let `2
* BagDelay` foreign ones in, the NaN share of a dead channel is still over the limit of
the diff. With the code's ten samples and one per cent it holds for up to four readings
a mark.

## 7. What is only model-checked

Liveness, all of it: fairness and ENABLED are out of the prover's reach. These are
`SilentJoyStops` and `ReleaseRecovers` in `safety_gate`, and what the table of section 3
else marks *(liveness)*. Every invariant and action property of the passing runs is stated
by a theorem, those of the packer under the hypothesis `NumbersOnly`
(section 6), which excludes what section 4 shows to break them.

## 8. What is not modelled

- Parsing of YAML and layout files, parameters and logging.
- The arithmetic of observations and quaternions, and that of the statistics (means,
  deviations, Allan variance, curves of plots): what the diff compares of it is any
  member of a set. The plot files and the MATLAB scripts that read them.
- The import of the Isaac Lab configuration: it gives `Refs` or fails.
- The order in which the relaxed stores of a command become visible (section 4).
- `qmini_joystick` (a stub without code), `qmini_description` (data),
  `scripts` (a display of joint states), package set-up, the
  vendored SDK (environment of `MotorBus`).
- Of the IMU driver, an unsupported baud rate: `open_port`, on the read thread, then returns
  false with the port open, and the next round of the loop reads at whatever speed it has.
- A limp joint that moves uncommanded while the deadman is released in `ActuatorCalib`: the
  analyzer may take that motion for an answer.
- The setting of the system clock in `MotorBus` and `PdPacker`. `SafetyGate` and
  `PolicyRunner`, which judge ages in the same way, show what it does: the bound grows by
  what the clock is set back by. A ramp of the packer would go back along its curve.
- The floating-point remainder by which `protocol_t` meets the end of a phase.
- The real-time cost of an SDK timeout: `CycleMax` bounds a cycle whatever its motors do.

## 9. Plan

Done: every component of section 2 modelled, checked and proved about, the torque path
and the day of calibration as compositions of their parts.

Next:

1. Properties for the hazards that have none: the fields of a command slot under relaxed
   atomics (a module of its own), the hold after a cleared hard stop
   against where the leg has gone (needs leg positions in `MotorBus`), a middle gate sample
   lost before the packer, a clock that is set under the bus and the packer.
2. The age of the kept IMU packet, if the code comes to promise one.
