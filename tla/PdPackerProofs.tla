--------------------------- MODULE PdPackerProofs ---------------------------
(***************************************************************************)
(* Theorems about the packer for any joints, limits, home pose and ramp:   *)
(* what a command can be as long as no reading and no target has a NaN,    *)
(* and that a ramp only goes forward whatever arrives.                     *)
(***************************************************************************)
EXTENDS PdPacker, TLAPS

\* What the positions that the packer keeps can be.
Kept == IF NumbersOnly THEN Int ELSE Position

PackerInv ==
  /\ cur_pos \in [Joint -> Kept]
  /\ target \in [Joint -> Kept]
  /\ ramp_start \in [Joint -> Kept]
  /\ ramp_age \in 0..RampTicks

LEMMA KeptFacts ==
  /\ Int \subseteq Kept /\ Kept \subseteq Int \cup {NaN}
  /\ NumbersOnly => Kept = Int
  /\ NaN \in Kept => ~NumbersOnly
BY PackerAssumption DEF Kept, Position

LEMMA Products ==
  /\ \A a, b \in Nat : a * b \in Nat
  /\ \A a \in Nat, x, y \in Int : x <= y => a * x <= a * y
OBVIOUS

\* The ramp's blend is between nothing and all of the way.
LEMMA SmoothstepInRange ==
  ASSUME NEW t \in 0..RampTicks
  PROVE  Smoothstep(t) \in 0..EaseOne /\ EaseOne \in Nat \ {0}
<1> USE PackerAssumption
<1> DEFINE d == RampTicks - t
<1>1. t \in Nat /\ d \in Nat /\ RampTicks = t + d /\ RampTicks \in Nat \ {0}
  OBVIOUS
<1> HIDE DEF d
<1>2. t * t \in Nat /\ d * d \in Nat
  BY <1>1
<1>3. Smoothstep(t) = (t * t) * (3 * d + t)
  BY <1>1 DEF Smoothstep
<1>4. (t * t) * (3 * d + t) \in Nat
  <2>1. 3 * d + t \in Nat
    BY <1>1
  <2> QED
    BY <1>2, <2>1, Products
<1>5. EaseOne = Smoothstep(t) + (d * d) * (d + 3 * t)
  BY <1>1, <1>3 DEF EaseOne
<1>6. (d * d) * (d + 3 * t) \in Nat
  <2>1. d + 3 * t \in Nat
    BY <1>1
  <2> QED
    BY <1>2, <2>1, Products
<1>7. EaseOne \in Nat \ {0}
  <2>1. RampTicks >= 1
    BY <1>1
  <2>2. RampTicks * RampTicks >= 1
    BY <1>1, <2>1
  <2> DEFINE e == RampTicks * RampTicks
  <2>3. e \in Nat
    BY <1>1, Products
  <2> HIDE DEF e
  <2>4. e * RampTicks >= 1 /\ e * RampTicks \in Int
    BY <1>1, <2>1, <2>2, <2>3 DEF e
  <2> QED
    BY <2>4 DEF EaseOne, e
<1> QED
  BY <1>3, <1>4, <1>5, <1>6, <1>7

LEMMA DivBetween ==
  ASSUME NEW e \in Nat \ {0}, NEW s \in 0..e, NEW d \in Int
  PROVE  /\ (s * d) \div e \in Int
         /\ d >= 0 => 0 <= (s * d) \div e /\ (s * d) \div e <= d
         /\ d <= 0 => d <= (s * d) \div e /\ (s * d) \div e <= 0
<1> DEFINE p == s * d
           q == p \div e
<1>1. p \in Int
  OBVIOUS
<1>2. /\ d >= 0 => 0 <= p /\ p <= e * d
      /\ d <= 0 => e * d <= p /\ p <= 0
  OBVIOUS
<1> HIDE DEF p
<1>3. q \in Int /\ e * q <= p /\ p < e * q + e
  <2>1. q \in Int /\ p = e * q + (p % e) /\ p % e \in 0..(e - 1)
    BY <1>1
  <2> QED
    BY <2>1
<1> HIDE DEF q
<1>4. q < 0 => e * q <= -e
  BY <1>3
<1>5. q > 0 => e * q >= e
  BY <1>3
<1>6. q > d => e * q >= e * d + e
  BY <1>3
<1>7. q < d => e * q + e <= e * d
  BY <1>3
<1>8. /\ d >= 0 => 0 <= q /\ q <= d
      /\ d <= 0 => d <= q /\ q <= 0
  <2>1. e * q \in Int /\ e * d \in Int
    BY <1>3
  <2> QED
    BY <1>1, <1>2, <1>3, <1>4, <1>5, <1>6, <1>7, <2>1
<1> QED
  BY <1>3, <1>8 DEF q, p

\* The command of a joint along the ramp.
LEMMA BlendBetween ==
  ASSUME NEW from \in Int, NEW to \in Int, NEW t \in 0..RampTicks
  PROVE  Blend(from, to, t) \in Int /\ Between(Blend(from, to, t), from, to)
<1> DEFINE s == Smoothstep(t)
           e == EaseOne
           d == to - from
           q == (s * d) \div e
<1>1. s \in 0..e /\ e \in Nat \ {0} /\ d \in Int
  BY SmoothstepInRange
<1>2. Blend(from, to, t) = from + q
  BY PackerAssumption DEF Blend
<1> HIDE DEF s, e
<1>3. /\ q \in Int
      /\ d >= 0 => 0 <= q /\ q <= d
      /\ d <= 0 => d <= q /\ q <= 0
  BY <1>1, DivBetween
<1> HIDE DEF q
<1> QED
  BY <1>2, <1>3 DEF Between

LEMMA ClampMonotone ==
  ASSUME NEW lo \in Int, NEW hi \in Int, lo <= hi, NEW v \in Int
  PROVE  /\ Clamp(v, lo, hi) \in lo..hi
         /\ \A w \in Int : v <= w => Clamp(v, lo, hi) <= Clamp(w, lo, hi)
BY PackerAssumption DEF Clamp

\* What a tick commands: a number within the limits, or a NaN.
LEMMA TickCommands ==
  ASSUME PackerInv, Tick, NEW j \in Joint
  PROVE  \/ q_des'[j] \in PosMin[j]..PosMax[j]
         \/ q_des'[j] = NaN /\ ~NumbersOnly
<1> USE PackerAssumption
<1> DEFINE lo == PosMin[j]
           hi == PosMax[j]
           a == ramp_start[j]
           b == Desired[j]
           q == IF ramping THEN Blend(a, b, ramp_age) ELSE b
<1>1. lo \in Int /\ hi \in Int /\ lo <= hi
  OBVIOUS
<1>2. a \in Kept /\ b \in Kept /\ ramp_age \in 0..RampTicks
  <2>1. b \in Kept
    BY KeptFacts DEF PackerInv, Desired
  <2> QED
    BY <2>1 DEF PackerInv
<1>3. q_des'[j] = Clamp(q, lo, hi)
  BY DEF Tick
<1> HIDE DEF lo, hi, a, b
<1>4. CASE a \in Int /\ b \in Int
  <2>1. q \in Int
    BY <1>2, <1>4, BlendBetween
  <2> QED
    BY <1>1, <1>3, <2>1, ClampMonotone DEF lo, hi
<1>5. CASE ~(a \in Int /\ b \in Int)
  <2>1. ~NumbersOnly /\ (a = NaN \/ b = NaN)
    BY <1>2, <1>5, KeptFacts
  <2>2. q = NaN \/ q \in Int
    BY <1>2, <2>1, KeptFacts DEF Blend
  <2> QED
    BY <1>1, <1>3, <2>1, <2>2, ClampMonotone DEF lo, hi, Clamp
<1> QED
  BY <1>4, <1>5

\* And, without NaN, where on the ramp it is.
LEMMA TickBetween ==
  ASSUME NumbersOnly, PackerInv, Tick, NEW j \in Joint, ramping
  PROVE  Between(q_des'[j], Clamp(ramp_start[j], PosMin[j], PosMax[j]),
                            Clamp(Desired[j], PosMin[j], PosMax[j]))
<1> USE PackerAssumption, KeptFacts
<1> DEFINE lo == PosMin[j]
           hi == PosMax[j]
           a == ramp_start[j]
           b == Desired[j]
           q == Blend(a, b, ramp_age)
<1>1. lo \in Int /\ hi \in Int /\ lo <= hi /\ a \in Int /\ b \in Int
  BY DEF PackerInv, Desired
<1>2. q_des'[j] = Clamp(q, lo, hi)
  BY DEF Tick
<1> HIDE DEF lo, hi, a, b
<1>3. q \in Int /\ ((a <= q /\ q <= b) \/ (b <= q /\ q <= a))
  BY <1>1, BlendBetween DEF PackerInv, Between
<1> HIDE DEF q
<1>4. Between(q_des'[j], Clamp(a, lo, hi), Clamp(b, lo, hi))
  BY <1>1, <1>2, <1>3, ClampMonotone DEF Between
<1> QED
  BY <1>4 DEF lo, hi, a, b

LEMMA PackerInvInit == PackerInit => PackerInv
BY PackerAssumption, KeptFacts DEF PackerInit, PackerInv, Zeros

LEMMA PackerInvStep ==
  ASSUME PackerInv, [PackerNext]_packerVars
  PROVE  PackerInv'
<1> USE PackerAssumption, KeptFacts DEF PackerInv
<1>1. ASSUME NEW reading \in Readings, OnJointStates(reading)
      PROVE  PackerInv'
  <2>1. reading \in [Joint -> Kept]
    BY DEF Kept, NumbersOnly
  <2> QED
    BY <1>1, <2>1 DEF OnJointStates
<1>2. ASSUME NEW t \in Targets, OnJointTarget(t)
      PROVE  PackerInv'
  <2>1. DOMAIN t \subseteq Joint /\ t \in [DOMAIN t -> Kept]
    BY DEF Kept, NumbersOnly
  <2>2. target' \in [Joint -> Kept]
    BY <1>2, <2>1 DEF OnJointTarget
  <2> QED
    BY <1>2, <2>2 DEF OnJointTarget
<1>3. ASSUME NEW g \in GateState, OnGate(g)
      PROVE  PackerInv'
  BY <1>3 DEF OnGate
<1>4. CASE Tick
  BY <1>4 DEF Tick
<1>5. CASE PackerElapse
  BY <1>5 DEF PackerElapse
<1>6. CASE UNCHANGED packerVars
  BY <1>6 DEF packerVars
<1> QED
  BY <1>1, <1>2, <1>3, <1>4, <1>5, <1>6 DEF PackerNext

\* Only a tick commands.
LEMMA OnlyTicksCommand ==
  [PackerNext]_packerVars /\ q_des' # q_des => Tick
BY DEF PackerNext, packerVars, OnJointStates, OnJointTarget, OnGate, PackerElapse

\* Every command is a number within the limits of its joint.
THEOREM WithinLimits ==
  ASSUME NumbersOnly
  PROVE  PackerSpec => CommandsWithinLimits
<1>1. PackerInv /\ [PackerNext]_packerVars => PackerInv'
  BY PackerInvStep
<1>2. ASSUME PackerInv, [PackerNext]_packerVars
      PROVE  [q_des' # q_des =>
                \A j \in Joint : q_des'[j] # NaN /\ q_des'[j] \in PosMin[j]..PosMax[j]]_packerVars
  BY <1>2, OnlyTicksCommand, TickCommands, PackerAssumption
<1> QED
  BY <1>1, <1>2, PackerInvInit, PTL DEF PackerSpec, CommandsWithinLimits

\* A ramp stays between where the robot was and where it is going.
THEOREM NeverOvershoots ==
  ASSUME NumbersOnly
  PROVE  PackerSpec => RampNeverOvershoots
<1>1. PackerInv /\ [PackerNext]_packerVars => PackerInv'
  BY PackerInvStep
<1>2. ASSUME PackerInv, [PackerNext]_packerVars
      PROVE  [q_des' # q_des /\ ramping =>
                \A j \in Joint :
                  Between(q_des'[j], Clamp(ramp_start[j], PosMin[j], PosMax[j]),
                                     Clamp(Desired[j], PosMin[j], PosMax[j]))]_packerVars
  BY <1>2, OnlyTicksCommand, TickBetween
<1> QED
  BY <1>1, <1>2, PackerInvInit, PTL DEF PackerSpec, RampNeverOvershoots

\* Whatever arrives while motion stays enabled, a ramp only goes forward.
THEOREM NeverRestarts == PackerSpec => RampNeverRestarts
<1> DEFINE I == ramp_age \in 0..RampTicks
<1> USE PackerAssumption
<1>1. PackerInit => I
  BY DEF PackerInit
<1>2. I /\ [PackerNext]_packerVars => I'
  BY DEF PackerNext, packerVars, OnJointStates, OnJointTarget, OnGate, Tick, PackerElapse
<1>3. ASSUME I, [PackerNext]_packerVars
      PROVE  [packer_gate = STATE_ENABLED /\ packer_gate' = STATE_ENABLED =>
                /\ ramp_start' = ramp_start
                /\ ramp_age' >= ramp_age
                /\ ramping' => ramping]_packerVars
  <2> SUFFICES ASSUME packer_gate = STATE_ENABLED, PackerNext
               PROVE  /\ ramp_start' = ramp_start
                      /\ ramp_age' >= ramp_age
                      /\ ramping' => ramping
    BY <1>3
  <2>1. ramp_start' = ramp_start /\ (ramp_age' = ramp_age \/ PackerElapse)
    BY DEF PackerNext, OnJointStates, OnJointTarget, OnGate, Tick, PackerElapse
  <2>2. ramp_age' >= ramp_age
    BY <1>3, <2>1 DEF PackerElapse
  <2>3. ramping' => ramping
    BY Zenon DEF PackerNext, OnJointStates, OnJointTarget, OnGate, Tick, PackerElapse
  <2> QED
    BY <2>1, <2>2, <2>3
<1> QED
  BY <1>1, <1>2, <1>3, PTL DEF PackerSpec, RampNeverRestarts
=============================================================================
