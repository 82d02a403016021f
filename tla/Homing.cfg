CONSTANTS
  roll = roll
  knee = knee
  Joints <- Motors
  Ratio <- Reduction
  Direction <- Mounting
  Angles = {0, 1}
  HoldPose <- Standing
SPECIFICATION OffsetSpec
INVARIANTS
  HomedJointReadsTrue
  SavedReplyIsTrue
PROPERTY HomedJointGoesTrue
