---------------------------- MODULE FrictionCalib ----------------------------
(***************************************************************************)
(* qmini_calibration: friction_calib.py finds the breakaway angle of a     *)
(* board that the operator tilts until the sensor on it slides, and        *)
(* analyze_friction_bag.py finds it again in the recording.                *)
(*                                                                         *)
(* Tilts are whole units of angle and move by one unit per IMU sample; the *)
(* acceleration of a sample either is above the slip threshold or is not.  *)
(***************************************************************************)
EXTENDS Integers, Sequences

CONSTANTS
  NTrials,    \* parameter n_trials
  RearmTilt,  \* parameter rearm_tilt_deg
  MinTilt,    \* parameter min_tilt_deg
  TiltMax     \* the steepest the board gets

ASSUME FrictionAssumption ==
  /\ NTrials \in Nat \ {0} /\ TiltMax \in Nat
  /\ RearmTilt \in 1..TiltMax /\ MinTilt \in RearmTilt..TiltMax

VARIABLES
  state,        \* state; finished: with a summary; interrupted: by Ctrl-C, without
  max_tilt,     \* max_tilt
  slip_angles,  \* slip_angles; trial is its length
  tilt,         \* the last sample's tilt
  bag_max,      \* analyzer: the greatest tilt in the bag since trial_start
  bag_angles,   \* analyzer: slip_angles
  levelled,     \* history: the board has been level since the last slip
  true_angles,  \* history: the tilt of the sample each slip was seen in
  careful       \* history: the operator has started level, tilted only up to a slip
                \* and only down after one

frictionVars == <<state, max_tilt, slip_angles, tilt, bag_max, bag_angles, levelled,
                  true_angles, careful>>

Tilts == 0..TiltMax
Greater(a, b) == IF a < b THEN b ELSE a

FrictionInit ==
  /\ state = "arming"
  /\ max_tilt = 0
  /\ slip_angles = <<>>
  /\ tilt \in Tilts
  /\ bag_max = tilt
  /\ bag_angles = <<>>
  /\ levelled = FALSE
  /\ true_angles = <<>>
  /\ careful = (tilt < RearmTilt)

-----------------------------------------------------------------------------
\* The next sample: the board has moved by at most a unit.
Moves(now) ==
  /\ now - tilt \in -1..1
  /\ tilt' = now
  /\ careful' = (careful /\ IF state = "arming" THEN now <= tilt ELSE now >= tilt)

\* Mutant of Arming: the peak of the last trial is carried over.
ArmingKeepingPeak(now) ==
  /\ state = "arming"
  /\ Moves(now)
  /\ state' = IF now < RearmTilt THEN "ready" ELSE "arming"
  /\ levelled' = (levelled \/ now < RearmTilt)
  /\ bag_max' = Greater(bag_max, now)
  /\ UNCHANGED <<max_tilt, slip_angles, bag_angles, true_angles>>

\* on_imu while arming: wait for the board to be level again.
Arming(now) ==
  /\ state = "arming"
  /\ Moves(now)
  /\ state' = IF now < RearmTilt THEN "ready" ELSE "arming"
  /\ max_tilt' = IF now < RearmTilt THEN 0 ELSE max_tilt
  /\ levelled' = (levelled \/ now < RearmTilt)
  /\ bag_max' = Greater(bag_max, now)
  /\ UNCHANGED <<slip_angles, bag_angles, true_angles>>

\* on_imu while ready, without a slip.
Tilting(now, shaken) ==
  /\ state = "ready"
  /\ Moves(now)
  /\ ~(shaken /\ now > MinTilt)
  /\ max_tilt' = Greater(max_tilt, now)
  /\ bag_max' = Greater(bag_max, now)
  /\ UNCHANGED <<state, slip_angles, bag_angles, levelled, true_angles>>

\* Mutant of AfterSlip: the node stays ready, so the slide itself is more trials.
AfterSlipReady == IF Len(slip_angles) + 1 >= NTrials THEN "finished" ELSE "ready"

AfterSlip == IF Len(slip_angles) + 1 >= NTrials THEN "finished" ELSE "arming"

\* Mutant of NextWindow: the window of every trial begins with the session.
NextWindowOfSession(now, late) == Greater(bag_max, now)

\* analyze begins the next trial's window at the mark of this one (trial_start), where
\* the board is still tilted.
NextWindow(now, late) == IF late THEN now ELSE 0

\* on_imu while ready, with a slip: the trial's angle is taken and marked in the
\* bag, where analyze later takes the greatest tilt since the previous mark.  The
\* recorder may get the mark before the sample (late).
Slip(now, late) ==
  /\ state = "ready"
  /\ Moves(now)
  /\ now > MinTilt
  /\ max_tilt' = Greater(max_tilt, now)
  /\ slip_angles' = Append(slip_angles, max_tilt')
  /\ state' = AfterSlip
  /\ bag_angles' = Append(bag_angles, IF late THEN bag_max ELSE Greater(bag_max, now))
  /\ bag_max' = NextWindow(now, late)
  /\ levelled' = FALSE
  /\ true_angles' = Append(true_angles, now)

\* Ctrl-C ends the launch without a summary; the recording remains.
Interrupt ==
  /\ state \in {"arming", "ready"}
  /\ state' = "interrupted"
  /\ UNCHANGED <<max_tilt, slip_angles, tilt, bag_max, bag_angles, levelled, true_angles,
                 careful>>

\* The recording is put away.
FrictionCleared ==
  /\ state' = "arming" /\ max_tilt' = 0 /\ slip_angles' = <<>> /\ tilt' = 0
  /\ bag_max' = 0 /\ bag_angles' = <<>> /\ levelled' = FALSE /\ true_angles' = <<>>
  /\ careful' = TRUE

SensorMoves ==
  \E now \in Tilts :
    \/ Arming(now)
    \/ \E shaken \in BOOLEAN : Tilting(now, shaken)
    \/ \E late \in BOOLEAN : Slip(now, late)

FrictionNext == SensorMoves \/ Interrupt

FrictionSpec == FrictionInit /\ [][FrictionNext]_frictionVars

-----------------------------------------------------------------------------
\* A slide lasts many samples, each above the threshold: it is one trial.  Between
\* two trials the board has been level.
TrialsAreSeparate == [][Len(slip_angles') > Len(slip_angles) => levelled]_frictionVars

\* With a careful operator the angle the node takes for each trial is the tilt at which
\* the slip was seen, whatever the earlier trials, and spikes below MinTilt, were.
AnglesAreBreakaways == careful => slip_angles = true_angles

\* What the analyzer's peak is: the window of a trial holds the end of the slide before
\* (trial_start, theta), so with a careful operator the peak is at most the steeper of
\* the two slips at the window's ends, of no earlier one; and it never misses the node's
\* angle by more than the sample that crossed the mark.
PeakOfTwoSlips(i) ==
  /\ slip_angles[i] <= bag_angles[i] + 1
  /\ careful => bag_angles[i] <= IF i = 1 THEN slip_angles[i]
                                 ELSE Greater(slip_angles[i-1], slip_angles[i])

PeaksAreOfTwoSlips == \A i \in DOMAIN slip_angles : PeakOfTwoSlips(i)

\* What the analyzer's header says of its peak: with an operator who tilts slowly and
\* stops at the slip, it is the breakaway angle, but for a sample.
BagAnglesAreBreakaways ==
  careful => \A i \in DOMAIN bag_angles : bag_angles[i] - true_angles[i] \in -1..1

FrictionTypeOK ==
  /\ state \in {"arming", "ready", "finished", "interrupted"}
  /\ max_tilt \in Tilts /\ tilt \in Tilts /\ bag_max \in Tilts
  /\ slip_angles \in Seq(Tilts) /\ bag_angles \in Seq(Tilts) /\ true_angles \in Seq(Tilts)
  /\ Len(bag_angles) = Len(slip_angles)
  /\ levelled \in BOOLEAN /\ careful \in BOOLEAN

\* The last trial's angle; before the first, an angle that is no slip's.
LastAngle == IF slip_angles = <<>> THEN RearmTilt ELSE slip_angles[Len(slip_angles)]

\* The inductive invariant of FrictionCalibProofs: the bag's peak is at least the
\* node's, and a careful operator lets it reach no higher than the board is or was
\* when it last slid.
FrictionInv ==
  /\ FrictionTypeOK
  /\ state = "ready" =>
       /\ levelled
       /\ tilt <= bag_max /\ max_tilt <= bag_max
       /\ careful => max_tilt <= tilt /\ bag_max <= Greater(LastAngle, tilt)
  /\ state = "arming" /\ careful => bag_max <= LastAngle /\ tilt <= LastAngle
  /\ AnglesAreBreakaways
  /\ PeaksAreOfTwoSlips
=============================================================================
