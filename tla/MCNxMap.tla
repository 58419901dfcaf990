------------------------------ MODULE MCNxMap ------------------------------
(* Model checking of NxMap: three streams, two of which always collide. *)
EXTENDS NxMap, TLC

CONSTANTS k1, k2, k3

MCKeys == {k1, k2, k3}
MCHash == (k1 :> 7) @@ (k2 :> 7) @@ (k3 :> 6)
=============================================================================
