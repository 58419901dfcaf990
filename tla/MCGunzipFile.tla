---------------------------- MODULE MCGunzipFile ----------------------------
(***************************************************************************)
(* All sequences of a few items of four kinds, as whole files; some of     *)
(* them cut short, corrupt, and with other headers.                        *)
(***************************************************************************)
EXTENDS GunzipFile

\* Bits and output of an item: a literal, a match of three or of four, the code
\* that ends a block.
Kinds == {<<1, 1>>, <<2, 3>>, <<3, 4>>, <<3, 0>>}

Sums(s, j) == [i \in 1..Len(s) |-> FoldLeft(LAMBDA t, k : t + k[j], 0, SubSeq(s, 1, i))]
Of(s, flg) == [magic |-> TRUE, flg |-> flg, bit |-> Sums(s, 1), out |-> Sums(s, 2), good |-> TRUE,
               bad |-> FALSE, len |-> Fixed + Cardinality(flg) + UpDiv(Sums(s, 1)[Len(s)], Bits) + Trailer]

Whole == {Of(s, {}) : s \in UNION {[1..n -> Kinds] : n \in 1..5}}
Long == Of(<<<<3, 4>>, <<1, 1>>, <<2, 3>>, <<3, 4>>, <<3, 0>>, <<2, 3>>, <<1, 1>>, <<1, 1>>, <<3, 4>>>>, {})
Short == Of(<<<<3, 4>>, <<3, 0>>, <<1, 1>>>>, {"FNAME", "FHCRC"})
MCFiles ==
  Whole \cup {Long, [Long EXCEPT !.len = @ + 2], [Long EXCEPT !.bad = TRUE], [Long EXCEPT !.good = FALSE],
              [Long EXCEPT !.magic = FALSE]}
    \cup {[f EXCEPT !.len = n] : f \in {Long, Short}, n \in 0..Long.len}
    \cup {Of(<<<<3, 4>>, <<1, 1>>>>, {x}) : x \in {"FEXTRA", "FCOMMENT", "reserved", "FNAME"}}
    \cup {[Short EXCEPT !.flg = @ \cup {"LongName"}]}
==============================================================================
