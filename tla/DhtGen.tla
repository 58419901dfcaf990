------------------------------- MODULE DhtGen -------------------------------
(***************************************************************************)
(* The generator of dynamic Huffman tables (nx_dhtgen.c), as dht_lookup    *)
(* calls it: the counts of the last job are filled, made into a tree for   *)
(* each of the two alphabets under a limit of the depth, and the lengths   *)
(* of the codes are written as a table of deflate (RFC 1951, 3.2.7).       *)
(*                                                                         *)
(* A step is one iteration of a loop of the code: normalising the counts,  *)
(* joining two nodes, walking the tree, coding one length.  The numbers    *)
(* of the code (286 and 30 symbols, depth 15, repeats 3-6, 3-10, 11-138)   *)
(* are constants, so that small alphabets meet every limit.                *)
(***************************************************************************)
EXTENDS Integers, Sequences, FiniteSets, SequencesExt

CONSTANTS
  LLCounts, DCounts,  \* the possible counts of the two alphabets: functions on 0 .. n-1
  Literals,           \* 257: the literals and the end of block come before the lengths
  MaxDepth,           \* 15
  InitialLimit,       \* INITIAL_LIMIT, 16384
  MinRepeat,          \* 3: fewer are written one by one
  Max16, Max17, Max18 \* 6, 10 and 138: the longest repeats of the codes 16, 17, 18

ASSUME RepeatAssumption ==
  /\ MinRepeat \in 2..3 /\ Max16 \in Nat /\ Max17 \in Nat /\ Max18 \in Nat
  /\ MinRepeat <= Max16 /\ MinRepeat <= Max17 /\ 2 <= Max17 /\ Max17 < Max18
  /\ Max16 - MinRepeat < 4 /\ Max17 - MinRepeat < 8 /\ Max18 - (Max17 + 1) < 128
ASSUME CountsAssumption ==
  /\ Literals \in Nat /\ Literals > 0 /\ MaxDepth \in 1..15
  /\ InitialLimit \in Nat /\ InitialLimit > 0
  /\ \A h \in LLCounts \cup DCounts :
       /\ IsFiniteSet(DOMAIN h) /\ DOMAIN h # {}
       /\ DOMAIN h = 0..(Cardinality(DOMAIN h) - 1)
       /\ \A s \in DOMAIN h : h[s] \in Nat

VARIABLES
  pc,       \* the loop the generator is in
  hist,     \* lhist and dhist
  occurs,   \* history: the symbols with a count before the trees were made
  alphabet, \* the tree being made: "ll" or "d"
  limit,    \* limit of huffmanize
  leaves,   \* leaf_q: symbols in ascending order of their counts
  nodes,    \* node_q: the internal nodes made so far, with their two children
  head,     \* the first internal node that has no parent yet
  depths,   \* sym_len of the two trees
  dht,      \* the bits written
  i, state, cur_len, count  \* the loop of encode_lengths

counters == <<i, state, cur_len, count>>
tree == <<leaves, nodes, head>>
genVars == <<pc, hist, occurs, alphabet, limit, tree, depths, dht, counters>>

Alphabets == {"ll", "d"}
NSym(a) == Cardinality(DOMAIN hist[a])
Symbols(a) == DOMAIN hist[a]

Init ==
  /\ pc = "counts" /\ hist \in [ll : LLCounts, d : DCounts]
  /\ alphabet = "ll" /\ limit = InitialLimit
  /\ leaves = <<>> /\ nodes = <<>> /\ head = 1
  /\ depths = [a \in Alphabets |-> <<>>]
  /\ occurs = [a \in Alphabets |-> {}]
  /\ dht = <<>> /\ i = 0 /\ state = 0 /\ cur_len = -1 /\ count = 0

--------------------------------------------------------------------------------
(* Filling the counts. *)

NonZero(n) == IF n = 0 THEN 1 ELSE n

(* fill_zero_lzcounts: the table has a code for every symbol, so that it can
   code other data than it was made for. *)
FillAll == [a \in Alphabets |-> [s \in Symbols(a) |-> NonZero(hist[a][s])]]

(* fill_zero_len_dist: literals that did not occur have no code. *)
FillLenDist ==
  [FillAll EXCEPT !.ll = [s \in Symbols("ll") |-> IF s < Literals THEN hist.ll[s] ELSE @[s]]]

Fill ==
  /\ pc = "counts" /\ pc' = "limit"
  /\ hist' \in {FillAll, FillLenDist}
  /\ occurs' = [a \in Alphabets |-> {s \in Symbols(a) : hist'[a][s] > 0}]
  /\ UNCHANGED <<alphabet, limit, tree, depths, dht, counters>>

--------------------------------------------------------------------------------
(* One tree: huffmanize. *)

Ceiling(m, n) == (m + n - 1) \div n

Sum(h) == LET upTo[n \in Nat] == IF n = 0 THEN 0 ELSE upTo[n - 1] + h[n - 1]
          IN upTo[Cardinality(DOMAIN h)]

(* length_limit: what is not zero stays so. *)
\* (mutant) rounds down: a rare symbol loses its code
NormalisedDown(h, n) ==
  LET divisor == Ceiling(Sum(h), n) IN [s \in DOMAIN h |-> h[s] \div divisor]
Normalised(h, n) ==
  LET divisor == Ceiling(Sum(h), n) IN [s \in DOMAIN h |-> Ceiling(h[s], divisor)]

(* cmp_count: by count, then by symbol; symbols that do not occur are left out. *)
Sorted(h) == SetToSortSeq({s \in DOMAIN h : h[s] > 0},
                          LAMBDA s, t : h[s] < h[t] \/ (h[s] = h[t] /\ s < t))

\* (mutant) the same limit again
SameLimit == limit
NextLimit == (limit * 3) \div 4

LengthLimit ==
  /\ pc = "limit" /\ pc' = "merge"
  /\ hist' = [hist EXCEPT ![alphabet] = Normalised(@, limit)]
  /\ limit' = NextLimit
  /\ leaves' = Sorted(hist'[alphabet])
  /\ nodes' = <<>> /\ head' = 1
  /\ UNCHANGED <<occurs, alphabet, depths, dht, counters>>

Leaf(s) == [leaf |-> TRUE, id |-> s, count |-> hist[alphabet][s]]
Node(k) == [leaf |-> FALSE, id |-> k, count |-> nodes[k].count]

(* The lighter of the two heads; of two as heavy, the leaf. *)
Lightest(lv, hd) ==
  CASE lv = <<>> -> Node(hd)
    [] hd > Len(nodes) -> Leaf(Head(lv))
    [] OTHER -> IF Leaf(Head(lv)).count <= Node(hd).count THEN Leaf(Head(lv)) ELSE Node(hd)
LeavesAfter(x, lv) == IF x.leaf THEN Tail(lv) ELSE lv
HeadAfter(x, hd) == IF x.leaf THEN hd ELSE hd + 1
Waiting == Len(leaves) + (Len(nodes) - head + 1)

(* huffman_tree, 3: the two lightest become the children of a new node. *)
Merge ==
  /\ pc = "merge" /\ Waiting > 1
  /\ LET x == Lightest(leaves, head)
         lv == LeavesAfter(x, leaves)
         hd == HeadAfter(x, head)
         y == Lightest(lv, hd)
     IN /\ nodes' = Append(nodes, [count |-> x.count + y.count, child |-> {x, y}])
        /\ leaves' = LeavesAfter(y, lv)
        /\ head' = HeadAfter(y, hd)
  /\ UNCHANGED <<pc, hist, occurs, alphabet, limit, depths, dht, counters>>

(* tree_walk from the root, the last node: the children of the root have
   length 1; the depth saturates at 31. *)
ParentOf(leaf, n) ==
  CHOOSE p \in DOMAIN nodes : \E c \in nodes[p].child : c.leaf = leaf /\ c.id = n
DepthOf ==
  LET depth[up \in Nat] ==  \* of the node up places below the root
        IF up = 0 THEN 1 ELSE 1 + depth[Len(nodes) - ParentOf(FALSE, Len(nodes) - up)]
  IN [p \in DOMAIN nodes |-> depth[Len(nodes) - p]]
SymLen == [s \in Symbols(alphabet) |->
             IF hist[alphabet][s] = 0 THEN 0 ELSE Min({31, DepthOf[ParentOf(TRUE, s)]})]

Walked == /\ pc = "merge" /\ Waiting = 1
TooDeep(len) == \E s \in DOMAIN len : len[s] \notin 0..MaxDepth

WalkAgain ==
  /\ Walked /\ TooDeep(SymLen)
  /\ pc' = "limit"
  /\ UNCHANGED <<hist, occurs, alphabet, limit, tree, depths, dht, counters>>

(* dhtgen: with one distance there is no second tree, its code has length 1. *)
WalkDone ==
  /\ Walked /\ ~TooDeep(SymLen)
  /\ IF alphabet = "ll" /\ NSym("d") > 1
     THEN /\ pc' = "limit" /\ alphabet' = "d" /\ limit' = InitialLimit
          /\ depths' = [depths EXCEPT !.ll = SymLen] /\ hist' = hist
     ELSE /\ pc' = "header"
          /\ depths' = IF alphabet = "ll" THEN [ll |-> SymLen, d |-> [s \in {0} |-> 1]]
                       ELSE [depths EXCEPT !.d = SymLen]
          /\ hist' = IF alphabet = "ll" THEN [hist EXCEPT !.d = [s \in {0} |-> 1]] ELSE hist
          /\ UNCHANGED <<alphabet, limit>>
  /\ UNCHANGED <<occurs, tree, dht, counters>>

--------------------------------------------------------------------------------
(* Writing the table: encode_lengths. *)

nhlit == IF NSym("ll") < Literals THEN Literals ELSE NSym("ll")
nhdist == NSym("d")
num_sym_len == nhlit + nhdist

(* lens[]: the two arrays side by side, zero in between. *)
sym_len(k) ==
  CASE k < NSym("ll") -> depths.ll[k]
    [] k >= NSym("ll") /\ k < nhlit -> 0
    [] OTHER -> depths.d[k - nhlit]

(* append_bits: the lowest bit first. *)
Bits(v, n) == [k \in 1..n |-> (v \div 2^(k - 1)) % 2]

(* encode_hclen: length and bits of the code of every code length, fixed. *)
Hclen == <<
  <<5,  3>>, <<7, 63>>, <<6, 15>>, <<5, 19>>, <<5, 11>>, <<4,  1>>, <<4,  9>>,
  <<3,  0>>, <<3,  4>>, <<3,  2>>, <<3,  6>>, <<4,  5>>, <<5, 27>>, <<5,  7>>,
  <<4, 13>>, <<7, 127>>, <<6, 47>>, <<5, 23>>, <<6, 31>> >>
hclen(sym) == Hclen[sym + 1]
Code(sym) == Bits(hclen(sym)[2], hclen(sym)[1])
horder == <<16, 17, 18, 0, 8, 7, 9, 6, 10, 5, 11, 4, 12, 3, 13, 2, 14, 1, 15>>
HeaderBits == 5 + 5 + 4 + 3 * 19

Lengths == [k \in 1..57 |-> Bits(hclen(horder[(k - 1) \div 3 + 1])[1], 3)[((k - 1) % 3) + 1]]

Header ==
  /\ pc = "header" /\ pc' = "lengths"
  /\ dht' = Bits(nhlit - Literals, 5) \o Bits(nhdist - 1, 5) \o Bits(19 - 4, 4) \o Lengths
  /\ UNCHANGED <<hist, occurs, alphabet, limit, tree, depths, counters>>

(* What the loop of the code looks at: the next length, and after the last one
   a value no length has (UINT32_MAX). *)
END == -1
new_len == IF i = num_sym_len THEN END ELSE sym_len(i)

\* (mutant) one turn of the loop more
OneByOneMore(sym, n) == IF n = 0 THEN Code(sym) ELSE IF n = 1 THEN Code(sym) \o Code(sym)
                        ELSE Code(sym) \o Code(sym) \o Code(sym)
OneByOne(sym, n) == IF n = 0 THEN <<>> ELSE IF n = 1 THEN Code(sym) ELSE Code(sym) \o Code(sym)
Repeat16(n) == Code(16) \o Bits(n - MinRepeat, 2)
Repeat17(n) == Code(17) \o Bits(n - MinRepeat, 3)
Repeat18(n) == Code(18) \o Bits(n - (Max17 + 1), 7)

(* One length is looked at: bits are written, and the coder goes to a state
   with the number of repeats that wait. *)
Write(bits, next_state, n) ==
  /\ dht' = dht \o bits
  /\ state' = next_state /\ count' = n /\ cur_len' = new_len

First == state = 0 /\ Write(<<>>, 1, count)

Changes == state = 1 /\ cur_len # new_len /\ Write(Code(cur_len), 1, count)
Repeats == state = 1 /\ cur_len = new_len /\ new_len # 0 /\ Write(Code(cur_len), 16, 1)
\* (mutant) the zero before is not counted
ZeroRepeatsOne == state = 1 /\ cur_len = new_len /\ new_len = 0 /\ Write(<<>>, 17, 1)
ZeroRepeats == state = 1 /\ cur_len = new_len /\ new_len = 0 /\ Write(<<>>, 17, 2)

Stops16 ==
  /\ state = 16 /\ new_len # cur_len
  /\ Write(IF count < MinRepeat THEN OneByOne(cur_len, count) ELSE Repeat16(count), 1, count)
Continues16 ==
  /\ state = 16 /\ new_len = cur_len
  /\ IF count = Max16 THEN Write(Repeat16(count), 16, 1) ELSE Write(<<>>, 16, count + 1)

Stops17 ==
  /\ state = 17 /\ new_len # 0
  /\ Write(IF count < MinRepeat THEN OneByOne(0, count) ELSE Repeat17(count), 1, count)
Continues17 ==
  /\ state = 17 /\ new_len = 0
  /\ Write(<<>>, IF count = Max17 THEN 18 ELSE 17, count + 1)

Stops18 == state = 18 /\ new_len # 0 /\ Write(Repeat18(count), 1, count)
Continues18 ==
  /\ state = 18 /\ new_len = 0
  /\ IF count = Max18 THEN Write(Repeat18(count), 17, 1) ELSE Write(<<>>, 18, count + 1)

EncodeLength ==
  /\ pc = "lengths"
  /\ \/ First \/ Changes \/ Repeats \/ ZeroRepeats
     \/ Stops16 \/ Continues16 \/ Stops17 \/ Continues17 \/ Stops18 \/ Continues18
  /\ i' = i + 1
  /\ pc' = IF i = num_sym_len THEN "written" ELSE "lengths"
  /\ UNCHANGED <<hist, occurs, alphabet, limit, tree, depths>>

(* What dhtgen returns: the bytes, and the valid bits of the last one, where
   0 stands for 8; dht_lookup makes the length in bits of them. *)
dht_num_bytes == (Len(dht) + 7) \div 8
dht_num_valid_bits == Len(dht) % 8
dhtlen == 8 * dht_num_bytes - (IF dht_num_valid_bits # 0 THEN 8 - dht_num_valid_bits ELSE 0)

Generate == Fill \/ LengthLimit \/ Merge \/ WalkAgain \/ WalkDone \/ Header \/ EncodeLength
=============================================================================
