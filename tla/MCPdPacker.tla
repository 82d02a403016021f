----------------------------- MODULE MCPdPacker -----------------------------
(***************************************************************************)
(* Small instances of PdPacker: a leg of two joints, one of which can be   *)
(* read, and targeted, beyond its limits.                                  *)
(***************************************************************************)
EXTENDS PdPacker, TLC

CONSTANTS hip, knee

Leg == {hip, knee}
Standing == hip :> 2 @@ knee :> 1
LowerLimit == hip :> 0 @@ knee :> 0
UpperLimit == hip :> 3 @@ knee :> 1

GoodReadings == {hip :> 0 @@ knee :> 1, hip :> 5 @@ knee :> 0}
HipTargets == {hip :> 4, hip :> 1 @@ knee :> 0}

\* One joint, whose motor may be silent.
Hip == {hip}
HipStanding == hip :> 2
HipLower == hip :> 1
HipUpper == hip :> 3
SilentReadings == {hip :> 2, hip :> NaN}
=============================================================================
