------------------------------ MODULE MCDhtGen ------------------------------
EXTENDS DhtDecomp

(* Counts that make deep trees; few literals in long gaps; fewer symbols than
   there are literals. *)
Steep == {a @@ b : a \in [0..2 -> {0, 1, 3}], b \in [3..5 -> {1, 9, 27}]}
Gaps == {a @@ b : a \in [0..4 -> {0, 5}], b \in [5..6 -> {1, 2}]}
MCLLCounts == Steep \cup Gaps \cup [0..3 -> {1, 5}]
MCDCounts == {(0 :> 4), (0 :> 0 @@ 1 :> 2 @@ 2 :> 2)}
=============================================================================
