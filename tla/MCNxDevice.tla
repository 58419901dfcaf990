----------------------------- MODULE MCNxDevice -----------------------------
(* Model checking of NxDevice: clients and addresses as model values. *)
EXTENDS NxDevice, TLC

CONSTANTS p1, p2, p3, c1, c2, c3, h1, h2, h3

MCClients2 == {c1, c2}
MCClients3 == {c1, c2, c3}
MCHandles3 == {h1, h2, h3}

\* p3 does not share handles (max_vas_reuse_count = 0), so no other is its child.
MCReuse == [p \in Procs |-> IF p = p3 THEN 0 ELSE 1]

Symmetry == Permutations(Clients) \cup Permutations(MCHandles3) \cup Permutations({p1, p2})
=============================================================================
