----------------------------- MODULE DhtDecomp -----------------------------
(***************************************************************************)
(* The reader of dynamic Huffman tables the repository keeps beside the    *)
(* generator (nx_dht_decomp.c, the model of what the accelerator does with *)
(* the table of a command block), composed with DhtGen: it reads the bits  *)
(* the generator wrote, and must find the lengths the trees had.           *)
(***************************************************************************)
EXTENDS DhtGen

VARIABLES
  used,        \* bits of the table consumed
  hlit, hdist, \* the sizes of the two alphabets, as read
  hclen_tree,  \* length and bits of the code of each of the 19 code lengths
  lens,        \* the lengths read: of literals and lengths, then of distances
  prev_alp     \* what the code 16 repeats

readVars == <<used, hlit, hdist, hclen_tree, lens, prev_alp>>
vars == <<genVars, readVars>>

DecompInit ==
  /\ Init
  /\ used = 0 /\ hlit = 0 /\ hdist = 0 /\ hclen_tree = <<>> /\ lens = <<>> /\ prev_alp = 0

(* shift_then_get_bits: behind the table there is something, here zeros. *)
BitAt(p) == IF p <= Len(dht) THEN dht[p] ELSE 0
Get(from, n) ==
  LET value[k \in 0..n] == IF k = 0 THEN 0 ELSE 2 * value[k - 1] + BitAt(from + n - k + 1)
  IN value[n]

(* Code minimums: where the codes of a length begin (RFC 1951, 3.2.2). *)
NumOfLength(len, n) == Cardinality({s \in DOMAIN len : n # 0 /\ len[s] = n})
Minimum(len, top) ==
  LET code[n \in 0..top] == IF n = 0 THEN 0 ELSE 2 * (code[n - 1] + NumOfLength(len, n - 1))
  IN code

(* The code of each symbol, its highest bit first (reverse). *)
Codes(len, top) ==
  LET least == Minimum(len, top)
      idx(s) == Cardinality({t \in DOMAIN len : t < s /\ len[t] = len[s]})
  IN [s \in DOMAIN len |->
       [k \in 1..len[s] |-> ((least[len[s]] + idx(s)) \div 2^(len[s] - k)) % 2]]

(* The three sizes, the lengths of the code length codes, and their codes. *)
ReadHeader ==
  /\ pc = "written" /\ pc' = "reading"
  /\ hlit' = Get(0, 5) + Literals
  /\ hdist' = Get(5, 5) + 1
  /\ LET hclens == Get(10, 4) + 4
         order(sym) == CHOOSE k \in 1..19 : horder[k] = sym
         len == [sym \in 0..18 |->
                  IF order(sym) > hclens THEN 0 ELSE Get(14 + 3 * (order(sym) - 1), 3)]
     IN hclen_tree' = Codes(len, 7) /\ used' = 14 + 3 * hclens
  /\ UNCHANGED <<hist, occurs, alphabet, limit, tree, depths, dht, counters, lens, prev_alp>>

(* search_hclen_tree: the first symbol whose code comes next. *)
Matches(sym) ==
  /\ Len(hclen_tree[sym]) # 0
  /\ \A k \in 1..Len(hclen_tree[sym]) : BitAt(used + k) = hclen_tree[sym][k]
Found == \E sym \in 0..18 : Matches(sym)
alp == CHOOSE sym \in 0..18 : Matches(sym) /\ \A t \in 0..(sym - 1) : ~Matches(t)
After == used + Len(hclen_tree[alp])

More == pc = "reading" /\ Len(lens) < hlit + hdist

(* n times the same length; extra bits of the code held n. *)
Take(n, length, extra) ==
  /\ lens' = lens \o [k \in 1..n |-> length]
  /\ prev_alp' = length
  /\ used' = After + extra

ReadLength ==
  /\ More /\ Found
  /\ \/ alp < 16 /\ Take(1, alp, 0)
     \/ alp = 16 /\ Take(Get(After, 2) + MinRepeat, prev_alp, 2)
     \/ alp = 17 /\ Take(Get(After, 3) + MinRepeat, 0, 3)
     \/ alp = 18 /\ Take(Get(After, 7) + Max17 + 1, 0, 7)
  /\ UNCHANGED <<genVars, hlit, hdist, hclen_tree>>

ReadDone ==
  /\ pc = "reading" /\ ~More
  /\ pc' = "done"
  /\ UNCHANGED <<hist, occurs, alphabet, limit, tree, depths, dht, counters, readVars>>

Generating == Generate /\ UNCHANGED readVars
Next == \/ Generating
        \/ ReadHeader \/ ReadLength \/ ReadDone

Spec == DecompInit /\ [][Next]_vars
(* One thread runs the generator to its end. *)
FairSpec == Spec /\ WF_vars(Generating)

--------------------------------------------------------------------------------
(* Properties. *)

TypeOK ==
  /\ pc \in {"counts", "limit", "merge", "header", "lengths", "written", "reading", "done"}
  /\ limit \in 1..InitialLimit /\ head \in 1..(Len(nodes) + 1)
  /\ i \in 0..(num_sym_len + 1) /\ state \in {0, 1, 16, 17, 18}
  /\ cur_len \in -1..MaxDepth /\ count \in 0..Max18

KraftSum(len, set) == MapThenSumSet(LAMBDA s : 2^(MaxDepth - len[s]), set)
Cost(a, len) == MapThenSumSet(LAMBDA s : hist[a][s] * len[s], occurs[a])

(* Reference: every way to give n symbols lengths of a complete code, in
   ascending order. *)
Ascending ==
  LET upTo[n \in Nat] ==
        IF n = 0 THEN {<<>>}
        ELSE {Append(len, l) : len \in upTo[n - 1], l \in 1..MaxDepth}
             \cap {len \in Seq(1..MaxDepth) : n > 1 => len[n - 1] <= len[n]}
  IN upTo
CompleteCodes ==
  {len \in UNION {Ascending[n] : n \in UNION {2..Cardinality(DOMAIN h) : h \in LLCounts \cup DCounts}} :
     KraftSum(len, DOMAIN len) = 2^MaxDepth}

(* The tables are right (nx_dhtgen.c:576-600, 418-571): however often the
   counts had to be flattened, each tree is a complete prefix code of exactly
   the symbols that occur, none longer than MaxDepth, and no code under that
   limit is shorter for the counts it was last made from. *)
CodesBest ==
  pc = "header" => \A a \in Alphabets : NSym(a) > 1 =>
    LET n == Cardinality(occurs[a])
        often == Reverse(Sorted(hist[a]))
        best(len) == MapThenSumSet(LAMBDA k : hist[a][often[k]] * len[k], 1..n)
    IN /\ \A s \in Symbols(a) : depths[a][s] \in 0..MaxDepth /\ (depths[a][s] = 0 <=> s \notin occurs[a])
       /\ KraftSum(depths[a], occurs[a]) = 2^MaxDepth
       /\ \A len \in CompleteCodes : Len(len) = n => Cost(a, depths[a]) <= best(len)

(* What was written is what is read (nx_dhtgen.c:709-915 against
   nx_dht_decomp.c:255-617): the reader finds a code at every place it looks,
   never reads past the lengths there are, and ends with the lengths of the two
   trees, at the bit dht_lookup tells the accelerator. *)
ReadBack ==
  /\ More => Found
  /\ pc \in {"reading", "done"} =>
       /\ Len(lens) <= num_sym_len
       /\ \A k \in 1..Len(lens) : lens[k] = sym_len(k - 1)
  /\ pc = "done" => /\ hlit = nhlit /\ hdist = nhdist
                    /\ Len(lens) = num_sym_len /\ used = dhtlen

(* The table fits the command block (nx_dht.c:632, nxu.h:392: 288 bytes for at
   most 7 bits a symbol): no run of lengths costs more than 7 bits for each. *)
BitsBounded ==
  pc \in {"lengths", "written"} =>
    Len(dht) <= HeaderBits + 7 * (IF i = 0 THEN 0 ELSE i - 1)

(* The generator ends (nx_dhtgen.c:576-600): flattening the counts makes every
   tree shallow enough before the limit is zero. *)
Finishes == <>(pc = "written")
=============================================================================
