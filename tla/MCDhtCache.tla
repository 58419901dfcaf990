----------------------------- MODULE MCDhtCache -----------------------------
(* Model checking of DhtCache: three slots, two built-in tables (the default, *)
(* whose key is the one of all-zero counts, and one other), and four more     *)
(* keys, so that the slots run out.                                           *)
EXTENDS DhtCache

CONSTANTS none, c1, c2, c3, c4

MCCounts == {none, c1, c2, c3, c4}

MCKeyOf == [c \in MCCounts |->
  CASE c = none -> "zero" [] c = c1 -> "K1"
    [] c = c2 -> "K2" [] c = c3 -> "K3" [] c = c4 -> "K4"]
MCBuiltinKey == [b \in 0..1 |-> IF b = 0 THEN "zero" ELSE "B"]

\* Filling the zero counts of c2 makes its second symbol another one.
MCLeft == [c \in MCCounts |-> IF c = c2 THEN c3 ELSE c]
=============================================================================
