--------------------------- MODULE MCJointOffsets ---------------------------
(***************************************************************************)
(* Small instances of JointOffsets: a hip-roll joint, mounted the other    *)
(* way round and geared twice, and a knee.                                 *)
(***************************************************************************)
EXTENDS JointOffsets, TLC

CONSTANTS roll, knee

Motors == <<roll, knee>>
Reduction == roll :> 3 @@ knee :> 2
Mounting == roll :> -1 @@ knee :> 1
Standing == roll :> 1 @@ knee :> 0
=============================================================================
