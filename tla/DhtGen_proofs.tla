--------------------------- MODULE DhtGen_proofs ---------------------------
(***************************************************************************)
(* How long a generated table can get, for every count, every size of the  *)
(* alphabets and every limit of the repeats: BitsBounded of DhtDecomp.     *)
(* The argument is an amortised one: a run of lengths that waits in the    *)
(* coder has not been paid for yet, and what it costs when it is written   *)
(* is at most 7 bits for each of its lengths.                              *)
(***************************************************************************)
EXTENDS DhtDecomp, TLAPS, SequenceTheorems, FiniteSetTheorems

--------------------------------------------------------------------------------
(* Bit strings. *)

IsBits(s, n) == n \in Nat /\ s = [k \in 1..n |-> s[k]]

(* The length of what append_bits has written is the sum of the lengths. *)
LEMMA ConcatBits ==
  ASSUME NEW n, NEW m, NEW s, NEW t, IsBits(s, n), IsBits(t, m)
  PROVE  IsBits(s \o t, n + m)
<1> DEFINE U == {s[k] : k \in 1..n} \cup {t[k] : k \in 1..m}
<1>1. n \in Nat /\ m \in Nat /\ s = [k \in 1..n |-> s[k]] /\ t = [k \in 1..m |-> t[k]]
  BY DEF IsBits
<1>2. s \in [1..n -> U] /\ t \in [1..m -> U]
  BY <1>1
<1> HIDE DEF U
<1>3. s \in Seq(U) /\ t \in Seq(U) /\ Len(s) = n /\ Len(t) = m
  BY <1>1, <1>2, SMT
<1>4. s \o t \in Seq(U) /\ Len(s \o t) = n + m
  BY <1>3
<1>5. s \o t \in [1..(n + m) -> U]
  BY <1>4, LenProperties
<1> QED BY <1>5, <1>1 DEF IsBits

LEMMA BitsLen == ASSUME NEW n, NEW s, IsBits(s, n) PROVE Len(s) = n
<1> DEFINE U == {s[k] : k \in 1..n}
<1>1. n \in Nat /\ s = [k \in 1..n |-> s[k]]
  BY DEF IsBits
<1>2. s \in [1..n -> U]
  BY <1>1
<1> HIDE DEF U
<1> QED BY <1>1, <1>2, SMT

LEMMA BitsOf == ASSUME NEW v, NEW n \in Nat PROVE IsBits(Bits(v, n), n)
BY DEF IsBits, Bits

LEMMA NoBits == IsBits(<<>>, 0)
BY DEF IsBits

(* The fixed codes of the code lengths have 3 to 7 bits. *)
LEMMA CodeLength ==
  /\ \A sym \in 0..18 : hclen(sym)[1] \in 3..7
  /\ hclen(16)[1] = 6 /\ hclen(17)[1] = 5 /\ hclen(18)[1] = 6
<1>1. ASSUME NEW sym \in 0..18 PROVE hclen(sym)[1] \in 3..7
  <2>1. CASE sym \in 0..5
    BY <2>1 DEF hclen, Hclen
  <2>2. CASE sym \in 6..11
    BY <2>2 DEF hclen, Hclen
  <2>3. CASE sym \in 12..18
    BY <2>3 DEF hclen, Hclen
  <2> QED BY <2>1, <2>2, <2>3
<1>2. hclen(16)[1] = 6 /\ hclen(17)[1] = 5 /\ hclen(18)[1] = 6
  BY DEF hclen, Hclen
<1> QED BY <1>1, <1>2

LEMMA CodeBits ==
  ASSUME NEW sym \in 0..18 PROVE \E n \in 3..7 : IsBits(Code(sym), n) /\ n = hclen(sym)[1]
BY CodeLength, BitsOf DEF Code

(* What each run costs. *)
LEMMA CostOneByOne ==
  ASSUME NEW sym \in 0..15, NEW n \in 1..2
  PROVE  \E b \in 0..(7 * n) : IsBits(OneByOne(sym, n), b)
<1>1. PICK b \in 3..7 : IsBits(Code(sym), b)
  BY CodeBits
<1>2. IsBits(Code(sym) \o Code(sym), b + b)
  BY <1>1, ConcatBits
<1>3. CASE n = 1
  BY <1>1, <1>3 DEF OneByOne
<1>4. CASE n = 2
  BY <1>2, <1>4 DEF OneByOne
<1> QED BY <1>3, <1>4

LEMMA CostRepeats ==
  ASSUME NEW n
  PROVE  IsBits(Repeat16(n), 8) /\ IsBits(Repeat17(n), 8) /\ IsBits(Repeat18(n), 13)
<1>1. IsBits(Code(16), 6) /\ IsBits(Code(17), 5) /\ IsBits(Code(18), 6)
  BY CodeLength, CodeBits
<1>2. /\ IsBits(Bits(n - MinRepeat, 2), 2) /\ IsBits(Bits(n - MinRepeat, 3), 3)
      /\ IsBits(Bits(n - (Max17 + 1), 7), 7)
  BY BitsOf
<1>3. /\ IsBits(Code(16) \o Bits(n - MinRepeat, 2), 6 + 2)
      /\ IsBits(Code(17) \o Bits(n - MinRepeat, 3), 5 + 3)
      /\ IsBits(Code(18) \o Bits(n - (Max17 + 1), 7), 6 + 7)
  BY <1>1, <1>2, ConcatBits
<1> QED BY <1>3 DEF Repeat16, Repeat17, Repeat18

--------------------------------------------------------------------------------
(* The strengthening. *)

Counts(h) == /\ IsFiniteSet(DOMAIN h) /\ DOMAIN h # {}
             /\ DOMAIN h = 0..(Cardinality(DOMAIN h) - 1)

(* Normalising and filling the counts keeps the alphabets. *)
SizesInv ==
  /\ hist = [a \in Alphabets |-> hist[a]]
  /\ \A a \in Alphabets : Counts(hist[a])

(* A tree that is done has lengths the table can hold. *)
Ready(a) == depths[a] \in [Symbols(a) -> 0..MaxDepth]
Coding == pc \in {"header", "lengths", "written", "reading", "done"}
TreesInv ==
  /\ alphabet \in Alphabets
  /\ depths = [a \in Alphabets |-> depths[a]]
  /\ alphabet = "d" \/ Coding => Ready("ll")
  /\ Coding => Ready("d")

(* The bits that the lengths looked at may have cost, less those of the run
   that waits. *)
Paid(n) == IsBits(dht, Len(dht)) /\ Len(dht) <= HeaderBits + 7 * n
CostInv ==
  /\ pc \in {"counts", "limit", "merge", "header"} => i = 0 /\ state = 0
  /\ pc = "lengths" =>
       /\ i \in 0..num_sym_len
       /\ \/ state = 0 /\ i = 0 /\ Paid(0)
          \/ state = 1 /\ i > 0 /\ cur_len \in 0..15 /\ Paid(i - 1)
          \/ state = 16 /\ count \in 1..i /\ cur_len \in 0..15 /\ Paid(i - count)
          \/ state = 17 /\ count \in 1..i /\ Paid(i - count)
          \/ state = 18 /\ count \in 2..i /\ Paid(i - count)
  /\ pc = "written" => i \in Nat /\ i > 0 /\ Len(dht) <= HeaderBits + 7 * (i - 1)

GInv == SizesInv /\ TreesInv /\ CostInv

LEMMA SizesFacts ==
  ASSUME SizesInv
  PROVE  /\ \A a \in Alphabets : NSym(a) \in Nat /\ NSym(a) > 0 /\ Symbols(a) = 0..(NSym(a) - 1)
         /\ nhlit \in Nat /\ nhlit >= NSym("ll") /\ nhdist = NSym("d")
         /\ num_sym_len \in Nat /\ num_sym_len > 0 /\ num_sym_len = nhlit + nhdist
<1>1. ASSUME NEW a \in Alphabets
      PROVE  NSym(a) \in Nat /\ NSym(a) > 0 /\ Symbols(a) = 0..(NSym(a) - 1)
  <2>1. Counts(hist[a])
    BY DEF SizesInv
  <2>2. NSym(a) \in Nat
    BY <2>1, FS_CardinalityType DEF Counts, NSym
  <2>3. Symbols(a) = 0..(NSym(a) - 1) /\ Symbols(a) # {}
    BY <2>1 DEF Counts, NSym, Symbols
  <2> QED BY <2>2, <2>3
<1>2. "ll" \in Alphabets /\ "d" \in Alphabets
  BY DEF Alphabets
<1>3. Literals \in Nat
  BY CountsAssumption
<1> QED BY <1>1, <1>2, <1>3 DEF nhlit, nhdist, num_sym_len

(* What the coder looks at is a length of at most 15, or the end. *)
LEMMA NewLength ==
  ASSUME SizesInv, TreesInv, Coding, i \in 0..num_sym_len
  PROVE  i < num_sym_len => new_len \in 0..15
<1> SUFFICES ASSUME i < num_sym_len PROVE new_len \in 0..15
  OBVIOUS
<1>1. new_len = sym_len(i)
  BY SizesFacts DEF new_len
<1>2. MaxDepth \in 1..15
  BY CountsAssumption
<1>3. Ready("ll") /\ Ready("d")
  BY DEF TreesInv
<1>4. "ll" \in Alphabets /\ "d" \in Alphabets
  BY DEF Alphabets
<1>0. i \in Int /\ nhlit \in Int /\ NSym("ll") \in Int /\ nhlit >= NSym("ll")
  BY <1>4, SizesFacts
<1>5. CASE i < NSym("ll")
  <2>1. i \in Symbols("ll")
    BY <1>4, <1>5, SizesFacts
  <2>2. depths.ll[i] \in 0..MaxDepth
    BY <1>3, <2>1 DEF Ready
  <2>3. sym_len(i) = depths.ll[i]
    BY <1>5, <1>0 DEF sym_len
  <2> QED BY <1>1, <1>2, <2>2, <2>3
<1>6. CASE i >= NSym("ll") /\ i < nhlit
  <2>1. sym_len(i) = 0
    BY <1>6, <1>0 DEF sym_len
  <2> QED BY <1>1, <2>1
<1>7. CASE i >= nhlit
  <2>1. i - nhlit \in Symbols("d")
    BY <1>4, <1>7, SizesFacts
  <2>2. depths.d[i - nhlit] \in 0..MaxDepth
    BY <1>3, <2>1 DEF Ready
  <2>3. sym_len(i) = depths.d[i - nhlit]
    BY <1>7, <1>0 DEF sym_len
  <2> QED BY <1>1, <1>2, <2>2, <2>3
<1> QED BY <1>5, <1>6, <1>7, <1>0
------------------------------------------------------------
--------------------------------------------------------------------------------
(* The steps. *)

LEMMA SameAlphabets ==
  ASSUME SizesInv, hist' = [a \in Alphabets |-> hist'[a]],
         \A a \in Alphabets : DOMAIN hist'[a] = DOMAIN hist[a]
  PROVE  SizesInv' /\ \A a \in Alphabets : Symbols(a)' = Symbols(a)
<1>1. \A a \in Alphabets : Counts(hist'[a])
  BY DEF SizesInv, Counts
<1> QED BY <1>1 DEF SizesInv, Symbols

LEMMA InitEstablishes == DecompInit => GInv
<1> SUFFICES ASSUME DecompInit PROVE GInv
  OBVIOUS
<1>1. hist \in [ll : LLCounts, d : DCounts]
  BY DEF DecompInit, Init
<1>2. /\ hist.ll \in LLCounts /\ hist.d \in DCounts
      /\ hist = [a \in {"ll", "d"} |-> hist[a]]
  BY <1>1
<1>3. Counts(hist["ll"]) /\ Counts(hist["d"])
  BY <1>2, CountsAssumption DEF Counts
<1>4. SizesInv
  BY <1>2, <1>3 DEF SizesInv, Alphabets
<1>5. TreesInv
  BY DEF DecompInit, Init, TreesInv, Coding, Alphabets
<1>6. CostInv
  BY DEF DecompInit, Init, CostInv
<1> QED BY <1>4, <1>5, <1>6 DEF GInv

LEMMA FillKeeps == GInv /\ Fill => GInv'
<1> SUFFICES ASSUME GInv, Fill PROVE GInv'
  OBVIOUS
<1>1. SizesInv /\ TreesInv /\ CostInv
  BY DEF GInv
<1>2. hist' \in {FillAll, FillLenDist}
  BY DEF Fill
<1>3. /\ FillAll = [a \in Alphabets |-> FillAll[a]]
      /\ \A a \in Alphabets : DOMAIN FillAll[a] = DOMAIN hist[a]
  BY DEF FillAll, Symbols
<1>4. /\ FillLenDist = [a \in Alphabets |-> FillLenDist[a]]
      /\ \A a \in Alphabets : DOMAIN FillLenDist[a] = DOMAIN hist[a]
  <2>1. FillLenDist["ll"] = [s \in Symbols("ll") |-> IF s < Literals THEN hist.ll[s] ELSE FillAll["ll"][s]]
    BY <1>3 DEF FillLenDist, Alphabets
  <2>2. FillLenDist["d"] = FillAll["d"]
    BY <1>3 DEF FillLenDist, Alphabets
  <2>3. FillLenDist = [a \in Alphabets |-> FillLenDist[a]]
    BY <1>3 DEF FillLenDist
  <2> QED BY <1>3, <2>1, <2>2, <2>3 DEF Symbols, Alphabets
<1>5. /\ hist' = [a \in Alphabets |-> hist'[a]]
      /\ \A a \in Alphabets : DOMAIN hist'[a] = DOMAIN hist[a]
  BY <1>2, <1>3, <1>4
<1>6. SizesInv' /\ \A a \in Alphabets : Symbols(a)' = Symbols(a)
  BY <1>1, <1>5, SameAlphabets
<1>7. TreesInv'
  BY <1>1, <1>6 DEF TreesInv, Fill, Coding, Ready, Alphabets
<1>8. CostInv'
  BY <1>1 DEF CostInv, Fill, counters
<1> QED BY <1>6, <1>7, <1>8 DEF GInv

LEMMA LimitKeeps == GInv /\ LengthLimit => GInv'
<1> SUFFICES ASSUME GInv, LengthLimit PROVE GInv'
  OBVIOUS
<1>1. SizesInv /\ TreesInv /\ CostInv
  BY DEF GInv
<1>2. DOMAIN Normalised(hist[alphabet], limit) = DOMAIN hist[alphabet]
  BY DEF Normalised
<1>3. hist' = [hist EXCEPT ![alphabet] = Normalised(hist[alphabet], limit)]
  BY DEF LengthLimit
<1>4. hist = [a \in Alphabets |-> hist[a]] /\ alphabet \in Alphabets
  BY <1>1 DEF SizesInv, TreesInv
<1>5. /\ hist' = [a \in Alphabets |-> hist'[a]]
      /\ \A a \in Alphabets : DOMAIN hist'[a] = DOMAIN hist[a]
  BY <1>2, <1>3, <1>4
<1>6. SizesInv' /\ \A a \in Alphabets : Symbols(a)' = Symbols(a)
  BY <1>1, <1>5, SameAlphabets
<1>7. TreesInv'
  BY <1>1, <1>6 DEF TreesInv, LengthLimit, Coding, Ready, Alphabets
<1>8. CostInv'
  BY <1>1 DEF CostInv, LengthLimit, counters
<1> QED BY <1>6, <1>7, <1>8 DEF GInv

(* A tree that fits has lengths for its symbols, whatever the walk found. *)
LEMMA WalkDoneKeeps == GInv /\ WalkDone => GInv'
<1> SUFFICES ASSUME GInv, WalkDone PROVE GInv'
  OBVIOUS
<1>1. SizesInv /\ TreesInv /\ CostInv
  BY DEF GInv
<1>2. MaxDepth \in 1..15 /\ "ll" \in Alphabets /\ "d" \in Alphabets /\ alphabet \in Alphabets
  BY <1>1, CountsAssumption DEF Alphabets, TreesInv
<1>3. SymLen \in [Symbols(alphabet) -> 0..MaxDepth]
  <2>1. DOMAIN SymLen = Symbols(alphabet) /\ SymLen = [s \in Symbols(alphabet) |-> SymLen[s]]
    BY DEF SymLen
  <2>2. \A s \in DOMAIN SymLen : SymLen[s] \in 0..MaxDepth
    BY DEF WalkDone, TooDeep
  <2> HIDE DEF SymLen
  <2> QED BY <2>1, <2>2
<1> HIDE DEF SymLen
<1>4. CASE alphabet = "ll" /\ NSym("d") > 1
  <2>1. /\ pc' = "limit" /\ alphabet' = "d" /\ hist' = hist
        /\ depths' = [depths EXCEPT !["ll"] = SymLen] /\ UNCHANGED <<i, state>>
    BY <1>4 DEF WalkDone, counters
  <2>2. SizesInv' /\ \A a \in Alphabets : Symbols(a)' = Symbols(a)
    BY <1>1, <2>1 DEF SizesInv, Symbols
  <2>3. depths = [a \in Alphabets |-> depths[a]]
    BY <1>1 DEF TreesInv
  <2>4. depths' = [a \in Alphabets |-> depths'[a]] /\ depths'["ll"] = SymLen
    BY <2>1, <2>3, <1>2
  <2>5. TreesInv'
    BY <1>2, <1>3, <1>4, <2>1, <2>2, <2>4 DEF TreesInv, Ready, Coding
  <2>6. CostInv'
    BY <1>1, <2>1 DEF CostInv, WalkDone, Walked
  <2> QED BY <2>2, <2>5, <2>6 DEF GInv
<1>5. CASE alphabet = "ll" /\ ~(NSym("d") > 1)
  <2>1. /\ pc' = "header" /\ UNCHANGED <<i, state, alphabet>>
        /\ depths' = [ll |-> SymLen, d |-> [s \in {0} |-> 1]]
        /\ hist' = [hist EXCEPT !["d"] = [s \in {0} |-> 1]]
    BY <1>5 DEF WalkDone, counters
  <2>2. NSym("d") = 1 /\ Symbols("d") = 0..0
    BY <1>1, <1>2, <1>5, SizesFacts
  <2>3. hist = [a \in Alphabets |-> hist[a]]
    BY <1>1 DEF SizesInv
  <2>4. hist' = [a \in Alphabets |-> hist'[a]] /\ hist'["d"] = [s \in {0} |-> 1]
        /\ hist'["ll"] = hist["ll"]
    BY <2>1, <2>3, <1>2
  <2>5. \A a \in Alphabets : DOMAIN hist'[a] = DOMAIN hist[a]
    BY <2>2, <2>4 DEF Symbols, Alphabets
  <2>6. SizesInv' /\ \A a \in Alphabets : Symbols(a)' = Symbols(a)
    BY <1>1, <2>4, <2>5, SameAlphabets
  <2>7. /\ depths' = [a \in Alphabets |-> depths'[a]]
        /\ depths'["ll"] = SymLen /\ depths'["d"] = [s \in {0} |-> 1]
    BY <2>1 DEF Alphabets
  <2>8. Ready("ll")'
    BY <1>2, <1>3, <1>5, <2>6, <2>7 DEF Ready
  <2>9. Ready("d")'
    BY <1>2, <2>2, <2>6, <2>7 DEF Ready
  <2>10. TreesInv'
    BY <1>2, <2>1, <2>7, <2>8, <2>9 DEF TreesInv
  <2>11. CostInv'
    BY <1>1, <2>1 DEF CostInv, WalkDone, Walked
  <2> QED BY <2>6, <2>10, <2>11 DEF GInv
<1>6. CASE alphabet = "d"
  <2>1. /\ pc' = "header" /\ UNCHANGED <<i, state, alphabet, hist>>
        /\ depths' = [depths EXCEPT !["d"] = SymLen]
    BY <1>6 DEF WalkDone, counters
  <2>2. SizesInv' /\ \A a \in Alphabets : Symbols(a)' = Symbols(a)
    BY <1>1, <2>1 DEF SizesInv, Symbols
  <2>3. depths = [a \in Alphabets |-> depths[a]] /\ Ready("ll")
    BY <1>1, <1>6 DEF TreesInv
  <2>4. /\ depths' = [a \in Alphabets |-> depths'[a]]
        /\ depths'["d"] = SymLen /\ depths'["ll"] = depths["ll"]
    BY <2>1, <2>3, <1>2
  <2>5. TreesInv'
    BY <1>2, <1>3, <1>6, <2>1, <2>2, <2>3, <2>4 DEF TreesInv, Ready
  <2>6. CostInv'
    BY <1>1, <2>1 DEF CostInv, WalkDone, Walked
  <2> QED BY <2>2, <2>5, <2>6 DEF GInv
<1> QED BY <1>2, <1>4, <1>5, <1>6 DEF Alphabets
------------------------------------------------------------
(* The same of the bits after a step. *)
PaidNext(n) == IsBits(dht', Len(dht')) /\ Len(dht') <= HeaderBits + 7 * n

LEMMA HeaderKeeps == GInv /\ Header => GInv'
<1> SUFFICES ASSUME GInv, Header PROVE GInv'
  OBVIOUS
<1>1. SizesInv /\ TreesInv /\ CostInv
  BY DEF GInv
<1>2. /\ pc = "header" /\ pc' = "lengths" /\ UNCHANGED <<hist, alphabet, depths, i, state>>
      /\ dht' = Bits(nhlit - Literals, 5) \o Bits(nhdist - 1, 5) \o Bits(19 - 4, 4) \o Lengths
  BY DEF Header, counters
<1>3. SizesInv'
  BY <1>1, <1>2 DEF SizesInv
<1>4. TreesInv'
  BY <1>1, <1>2 DEF TreesInv, Ready, Symbols, Coding
<1>5. IsBits(Bits(nhlit - Literals, 5) \o Bits(nhdist - 1, 5), 5 + 5)
  BY BitsOf, ConcatBits
<1>6. IsBits((Bits(nhlit - Literals, 5) \o Bits(nhdist - 1, 5)) \o Bits(19 - 4, 4), (5 + 5) + 4)
  BY <1>5, BitsOf, ConcatBits
<1>7. IsBits(Lengths, 57)
  BY DEF IsBits, Lengths
<1>8. IsBits(dht', 71)
  BY <1>2, <1>6, <1>7, ConcatBits
<1>9. Len(dht') = 71
  BY <1>8, BitsLen
<1>10. PaidNext(0)
  BY <1>8, <1>9 DEF PaidNext, HeaderBits
<1>11. num_sym_len' = num_sym_len
  BY <1>2 DEF num_sym_len, nhlit, nhdist, NSym
<1>12. i = 0 /\ state = 0
  BY <1>1, <1>2 DEF CostInv
<1>13. CostInv'
  BY <1>1, <1>2, <1>10, <1>11, <1>12, SizesFacts DEF CostInv, Paid, PaidNext
<1> QED BY <1>3, <1>4, <1>13 DEF GInv

(* Writing b bits for n lengths that waited, or that were just looked at. *)
LEMMA Pays ==
  ASSUME NEW n \in Nat, NEW m \in Nat, NEW bits, NEW b \in 0..(7 * m),
         Paid(n), IsBits(bits, b), dht' = dht \o bits
  PROVE  PaidNext(n + m)
<1>1. IsBits(dht, Len(dht)) /\ Len(dht) <= HeaderBits + 7 * n
  BY DEF Paid
<1>2. IsBits(dht', Len(dht) + b)
  BY <1>1, ConcatBits
<1>3. Len(dht') = Len(dht) + b
  BY <1>2, BitsLen
<1>4. Len(dht) \in Nat
  BY <1>1 DEF IsBits
<1> QED BY <1>1, <1>2, <1>3, <1>4 DEF PaidNext, HeaderBits

(* After a length has been looked at: either all before it is paid, or it is
   part of a run. *)
After1 == state' = 1 /\ PaidNext(i)
AfterRun == /\ state' \in {16, 17, 18} /\ (state' = 18 => count' > 1)
            /\ \E n \in 1..(i + 1) : count' = n /\ PaidNext(i + 1 - n)
            /\ state' = 16 => new_len \in 0..15

LEMMA EncodeKeeps == GInv /\ EncodeLength => GInv'
<1> SUFFICES ASSUME GInv, EncodeLength PROVE GInv'
  OBVIOUS
<1>1. SizesInv /\ TreesInv /\ CostInv
  BY DEF GInv
<1>2. /\ pc = "lengths" /\ pc' = (IF i = num_sym_len THEN "written" ELSE "lengths")
      /\ i' = i + 1 /\ UNCHANGED <<hist, alphabet, depths>>
  BY DEF EncodeLength
<1>3. i \in 0..num_sym_len /\ num_sym_len \in Nat /\ num_sym_len > 0 /\ i \in Nat
  BY <1>1, <1>2, SizesFacts DEF CostInv
<1>4. i < num_sym_len => new_len \in 0..15
  BY <1>1, <1>2, <1>3, NewLength DEF Coding
<1>5. i = num_sym_len => new_len = -1
  BY DEF new_len, END
<1>6. cur_len' = new_len
  BY DEF EncodeLength, First, Changes, Repeats, ZeroRepeats, Stops16, Continues16,
         Stops17, Continues17, Stops18, Continues18, Write
<1>r. MinRepeat \in 2..3 /\ Max16 \in Nat /\ Max17 \in Nat /\ Max18 \in Nat /\ 2 <= Max17
      /\ MinRepeat <= Max16 /\ Max17 < Max18
  BY RepeatAssumption
<1>7. After1 \/ (AfterRun /\ i < num_sym_len)
  <2>1. CASE First
    <3>1. state' = 1 /\ dht' = dht \o <<>> /\ state = 0
      BY <2>1 DEF First, Write
    <3>2. Paid(0) /\ i = 0
      BY <1>1, <1>2, <3>1 DEF CostInv
    <3>z. 0 \in Nat /\ 0 \in 0..(7 * 0)
      OBVIOUS
    <3>3. PaidNext(0 + 0)
      BY <3>1, <3>2, <3>z, Pays, NoBits
    <3> QED BY <3>1, <3>2, <3>3 DEF After1
  <2>2. CASE Changes
    <3>1. state' = 1 /\ dht' = dht \o Code(cur_len) /\ state = 1
      BY <2>2 DEF Changes, Write
    <3>2. Paid(i - 1) /\ i > 0 /\ cur_len \in 0..15
      BY <1>1, <1>2, <3>1 DEF CostInv
    <3>3. PICK b \in 3..7 : IsBits(Code(cur_len), b)
      BY <3>2, CodeBits
    <3>4. i - 1 \in Nat /\ b \in 0..(7 * 1)
      BY <1>3, <3>2, <3>3
    <3>5. PaidNext((i - 1) + 1)
      BY <3>1, <3>2, <3>3, <3>4, Pays
    <3>6. (i - 1) + 1 = i
      BY <1>3
    <3> QED BY <3>1, <3>5, <3>6 DEF After1
  <2>3. CASE Repeats
    <3>1. state' = 16 /\ count' = 1 /\ dht' = dht \o Code(cur_len) /\ state = 1 /\ cur_len = new_len
      BY <2>3 DEF Repeats, Write
    <3>2. Paid(i - 1) /\ i > 0 /\ cur_len \in 0..15
      BY <1>1, <1>2, <3>1 DEF CostInv
    <3>3. PICK b \in 3..7 : IsBits(Code(cur_len), b)
      BY <3>2, CodeBits
    <3>4. i - 1 \in Nat /\ b \in 0..(7 * 1)
      BY <1>3, <3>2, <3>3
    <3>5. PaidNext((i - 1) + 1)
      BY <3>1, <3>2, <3>3, <3>4, Pays
    <3>6. (i - 1) + 1 = i + 1 - 1 /\ 1 \in 1..(i + 1)
      BY <1>3
    <3>7. i < num_sym_len
      BY <1>3, <1>5, <3>1, <3>2
    <3> QED BY <3>1, <3>2, <3>5, <3>6, <3>7 DEF AfterRun
  <2>4. CASE ZeroRepeats
    <3>1. /\ state' = 17 /\ count' = 2 /\ dht' = dht \o <<>> /\ state = 1
          /\ cur_len = new_len /\ new_len = 0
      BY <2>4 DEF ZeroRepeats, Write
    <3>2. Paid(i - 1) /\ i > 0
      BY <1>1, <1>2, <3>1 DEF CostInv
    <3>3. i - 1 \in Nat /\ 0 \in 0..(7 * 0)
      BY <1>3, <3>2
    <3>4. PaidNext((i - 1) + 0)
      BY <3>1, <3>2, <3>3, Pays, NoBits
    <3>5. (i - 1) + 0 = i + 1 - 2 /\ 2 \in 1..(i + 1)
      BY <1>3, <3>2
    <3>6. i < num_sym_len
      BY <1>3, <1>5, <3>1
    <3> QED BY <3>1, <3>4, <3>5, <3>6 DEF AfterRun
  <2>5. CASE Stops16 \/ Stops17 \/ Stops18
    <3>1. state' = 1 /\ state \in {16, 17, 18}
      BY <2>5 DEF Stops16, Stops17, Stops18, Write
    <3>2. count \in 1..i /\ Paid(i - count) /\ (state = 16 => cur_len \in 0..15)
          /\ (state = 18 => count > 1)
      BY <1>1, <1>2, <1>3, <3>1 DEF CostInv
    <3>3. \E bits : \E b \in 0..(7 * count) : IsBits(bits, b) /\ dht' = dht \o bits
      <4>1. CASE Stops16 /\ count < MinRepeat
        <5>1. dht' = dht \o OneByOne(cur_len, count) /\ state = 16
          BY <4>1 DEF Stops16, Write
        <5>2. count \in 1..2 /\ cur_len \in 0..15
          BY <1>3, <1>r, <3>2, <4>1, <5>1
        <5> QED BY <5>1, <5>2, CostOneByOne
      <4>2. CASE Stops16 /\ ~(count < MinRepeat)
        <5>1. dht' = dht \o Repeat16(count)
          BY <4>2 DEF Stops16, Write
        <5>2. 8 \in 0..(7 * count)
          BY <1>3, <1>r, <3>2, <4>2
        <5> QED BY <5>1, <5>2, CostRepeats
      <4>3. CASE Stops17 /\ count < MinRepeat
        <5>1. dht' = dht \o OneByOne(0, count)
          BY <4>3 DEF Stops17, Write
        <5>2. count \in 1..2
          BY <1>3, <1>r, <3>2, <4>3
        <5>3. PICK b \in 0..(7 * count) : IsBits(OneByOne(0, count), b)
          <6>1. 0 \in 0..15
            OBVIOUS
          <6> QED BY <5>2, <6>1, CostOneByOne
        <5> QED BY <5>1, <5>3
      <4>4. CASE Stops17 /\ ~(count < MinRepeat)
        <5>1. dht' = dht \o Repeat17(count)
          BY <4>4 DEF Stops17, Write
        <5>2. 8 \in 0..(7 * count)
          BY <1>3, <1>r, <3>2, <4>4
        <5> QED BY <5>1, <5>2, CostRepeats
      <4>5. CASE Stops18
        <5>1. dht' = dht \o Repeat18(count) /\ state = 18
          BY <4>5 DEF Stops18, Write
        <5>2. 13 \in 0..(7 * count)
          BY <1>3, <3>2, <5>1
        <5> QED BY <5>1, <5>2, CostRepeats
      <4> QED BY <2>5, <4>1, <4>2, <4>3, <4>4, <4>5
    <3>4. PICK bits : \E b \in 0..(7 * count) : IsBits(bits, b) /\ dht' = dht \o bits
      BY <3>3
    <3>5. PICK b \in 0..(7 * count) : IsBits(bits, b) /\ dht' = dht \o bits
      BY <3>4
    <3>6. i - count \in Nat /\ count \in Nat
      BY <1>3, <3>2
    <3>7. PaidNext((i - count) + count)
      BY <3>2, <3>5, <3>6, Pays
    <3>8. (i - count) + count = i
      BY <1>3, <3>6
    <3> QED BY <3>1, <3>7, <3>8 DEF After1
  <2>6. CASE Continues16 \/ Continues17 \/ Continues18
    <3>1. state' \in {16, 17, 18} /\ state \in {16, 17, 18} /\ (state' = 16 => state = 16)
      BY <2>6 DEF Continues16, Continues17, Continues18, Write
    <3>2. count \in 1..i /\ Paid(i - count) /\ (state = 16 => cur_len \in 0..15)
          /\ (state = 18 => count > 1)
      BY <1>1, <1>2, <1>3, <3>1 DEF CostInv
    <3>3. (new_len = cur_len /\ state = 16) \/ new_len = 0
      BY <2>6 DEF Continues16, Continues17, Continues18
    <3>4. i < num_sym_len /\ (state' = 16 => new_len \in 0..15)
      BY <1>3, <1>4, <1>5, <3>1, <3>2, <3>3
    <3>5. i - count \in Nat /\ count \in Nat /\ count > 0
      BY <1>3, <3>2
    <3>6. CASE dht' = dht \o <<>> /\ count' = count + 1
      <4>z. 0 \in Nat /\ 0 \in 0..(7 * 0)
        OBVIOUS
      <4>1. PaidNext((i - count) + 0)
        BY <3>2, <3>5, <3>6, <4>z, Pays, NoBits
      <4>2. (i - count) + 0 = i + 1 - (count + 1) /\ count + 1 \in 1..(i + 1) /\ count + 1 > 1
        BY <1>3, <3>2, <3>5
      <4> QED BY <3>1, <3>4, <3>6, <4>1, <4>2 DEF AfterRun
    <3>7. CASE state' # 18 /\ count' = 1
               /\ \E b \in 0..(7 * count), bits \in {Repeat16(count), Repeat18(count)} :
                    IsBits(bits, b) /\ dht' = dht \o bits
      <4>1. PICK b \in 0..(7 * count), bits \in {Repeat16(count), Repeat18(count)} :
              IsBits(bits, b) /\ dht' = dht \o bits
        BY <3>7
      <4>2. PaidNext((i - count) + count)
        BY <3>2, <3>5, <4>1, Pays
      <4>3. (i - count) + count = i + 1 - 1 /\ 1 \in 1..(i + 1)
        BY <1>3, <3>5
      <4> QED BY <3>1, <3>4, <3>7, <4>2, <4>3 DEF AfterRun
    <3>8. CASE Continues16 /\ count = Max16
      <4>1. state' = 16 /\ count' = 1 /\ dht' = dht \o Repeat16(count)
        BY <3>8 DEF Continues16, Write
      <4>2. 8 \in 0..(7 * count)
        BY <1>r, <3>5, <3>8
      <4> QED BY <3>7, <4>1, <4>2, CostRepeats
    <3>9. CASE Continues18 /\ count = Max18
      <4>1. state' = 17 /\ count' = 1 /\ dht' = dht \o Repeat18(count)
        BY <3>9 DEF Continues18, Write
      <4>2. 13 \in 0..(7 * count)
        BY <1>r, <3>5, <3>9
      <4> QED BY <3>7, <4>1, <4>2, CostRepeats
    <3>10. CASE (Continues16 /\ count # Max16) \/ Continues17 \/ (Continues18 /\ count # Max18)
      <4>1. dht' = dht \o <<>> /\ count' = count + 1
        BY <3>10 DEF Continues16, Continues17, Continues18, Write
      <4> QED BY <3>6, <4>1
    <3> QED BY <2>6, <3>8, <3>9, <3>10
  <2> QED BY <2>1, <2>2, <2>3, <2>4, <2>5, <2>6 DEF EncodeLength
<1>8. SizesInv'
  BY <1>1, <1>2 DEF SizesInv
<1>9. TreesInv'
  BY <1>1, <1>2 DEF TreesInv, Ready, Symbols, Coding
<1>10. num_sym_len' = num_sym_len
  BY <1>2 DEF num_sym_len, nhlit, nhdist, NSym
<1>11. CASE i = num_sym_len
  <2>1. pc' = "written" /\ PaidNext(i)
    BY <1>2, <1>3, <1>7, <1>11 DEF After1
  <2>2. Len(dht') <= HeaderBits + 7 * (i' - 1) /\ i' \in Nat /\ i' > 0
    BY <1>2, <1>3, <2>1 DEF PaidNext
  <2>3. CostInv'
    BY <2>1, <2>2 DEF CostInv
  <2> QED BY <1>8, <1>9, <2>3 DEF GInv
<1>12. CASE i # num_sym_len
  <2>1. pc' = "lengths" /\ i' \in 0..num_sym_len' /\ i' > 0 /\ cur_len' \in 0..15
    BY <1>2, <1>3, <1>4, <1>6, <1>10, <1>12
  <2>2. CASE After1
    <3>1. state' = 1 /\ PaidNext(i' - 1)
      BY <1>2, <1>3, <2>2 DEF After1, PaidNext
    <3> QED BY <1>8, <1>9, <2>1, <3>1 DEF GInv, CostInv, Paid, PaidNext
  <2>3. CASE AfterRun
    <3>1. PICK n \in 1..(i + 1) : count' = n /\ PaidNext(i + 1 - n)
      BY <2>3 DEF AfterRun
    <3>2. count' \in 1..i' /\ PaidNext(i' - count') /\ (state' = 18 => count' \in 2..i')
      BY <1>2, <1>3, <2>3, <3>1 DEF AfterRun, PaidNext
    <3>3. state' \in {16, 17, 18}
      BY <2>3 DEF AfterRun
    <3> QED BY <1>8, <1>9, <2>1, <3>2, <3>3 DEF GInv, CostInv, Paid, PaidNext
  <2> QED BY <1>7, <2>2, <2>3
<1> QED BY <1>11, <1>12
------------------------------------------------------------
(* The steps that touch neither alphabets nor lengths nor bits. *)
LEMMA OthersKeep ==
  ASSUME GInv, Merge \/ WalkAgain \/ ReadHeader \/ ReadLength \/ ReadDone \/ UNCHANGED vars
  PROVE  GInv'
<1>1. SizesInv /\ TreesInv /\ CostInv
  BY DEF GInv
<1>2. UNCHANGED <<hist, alphabet, depths, dht, i, state, cur_len, count>>
  BY DEF Merge, WalkAgain, ReadHeader, ReadLength, Take, ReadDone, vars, genVars, counters
<1>3. \/ pc' = pc
      \/ pc = "merge" /\ pc' = "limit"
      \/ pc \in {"written", "reading"} /\ pc' \in {"reading", "done"}
  BY DEF Merge, WalkAgain, Walked, ReadHeader, ReadLength, ReadDone, More, vars, genVars
<1>4. SizesInv'
  BY <1>1, <1>2 DEF SizesInv
<1>5. TreesInv'
  BY <1>1, <1>2, <1>3 DEF TreesInv, Ready, Symbols, Coding
<1>6. CostInv'
  <2>1. num_sym_len' = num_sym_len
    BY <1>2 DEF num_sym_len, nhlit, nhdist, NSym
  <2>2. \A n : Paid(n) => PaidNext(n)
    BY <1>2 DEF Paid, PaidNext
  <2> QED BY <1>1, <1>2, <1>3, <2>1 DEF CostInv, Paid
<1> QED BY <1>4, <1>5, <1>6 DEF GInv

LEMMA NextPreserves == GInv /\ [Next]_vars => GInv'
<1> SUFFICES ASSUME GInv, [Next]_vars PROVE GInv'
  OBVIOUS
<1>1. CASE Generating
  BY <1>1, FillKeeps, LimitKeeps, OthersKeep, WalkDoneKeeps, HeaderKeeps, EncodeKeeps
     DEF Generating, Generate
<1>2. CASE ReadHeader \/ ReadLength \/ ReadDone \/ UNCHANGED vars
  BY <1>2, OthersKeep
<1> QED BY <1>1, <1>2 DEF Next

(* The strengthening holds in every reachable state. *)
THEOREM GeneratorInvariant == Spec => []GInv
<1> QED BY InitEstablishes, NextPreserves, PTL DEF Spec

(* The bits of the table never exceed 7 for each length looked at, so a table
   for 286 and 30 symbols has at most 71 + 7 * 316 = 2283 bits and fits the
   288 bytes of the command block (nxu.h:392), with the byte that
   flush_bits clears behind it. *)
THEOREM TableFits == Spec => []BitsBounded
<1>1. GInv => BitsBounded
  <2> SUFFICES ASSUME GInv PROVE BitsBounded
    OBVIOUS
  <2>1. SizesInv /\ CostInv
    BY DEF GInv
  <2>2. CASE pc = "lengths"
    <3>1. i \in 0..num_sym_len /\ num_sym_len \in Nat
      BY <2>1, <2>2, SizesFacts DEF CostInv
    <3>2. state = 0 \/ state = 1 => Len(dht) <= HeaderBits + 7 * (IF i = 0 THEN 0 ELSE i - 1)
      BY <2>1, <2>2, <3>1 DEF CostInv, Paid
    <3>3. CASE state \in {16, 17, 18}
      <4>1. count \in 1..i /\ Paid(i - count)
        BY <2>1, <2>2, <3>1, <3>3 DEF CostInv
      <4>2. Len(dht) \in Nat /\ Len(dht) <= HeaderBits + 7 * (i - count)
        BY <4>1 DEF Paid, IsBits
      <4>3. i # 0 /\ i - count <= i - 1
        BY <3>1, <4>1
      <4> QED BY <2>2, <3>1, <4>1, <4>2, <4>3 DEF BitsBounded, HeaderBits
    <3> QED BY <2>1, <2>2, <3>2, <3>3 DEF BitsBounded, CostInv
  <2>3. CASE pc = "written"
    BY <2>1, <2>3 DEF CostInv, BitsBounded
  <2>4. CASE pc \notin {"lengths", "written"}
    BY <2>4 DEF BitsBounded
  <2> QED BY <2>2, <2>3, <2>4
<1> QED BY <1>1, GeneratorInvariant, PTL
============================================================
