----------------------------- MODULE NxMap_proofs -----------------------------
(***************************************************************************)
(* NxMap implements StreamMap for any streams, hash function and sizes:     *)
(* although the index is computed before the lock is taken, and a put       *)
(* counts some entries twice and moves all of them, every operation takes   *)
(* effect at once.  The loop of rehash_entries is proved by induction over  *)
(* the slots of the old array.                                              *)
(***************************************************************************)
EXTENDS NxMap, FiniteSetTheorems, WellFoundedInduction, TLAPS

Arrays(n) == [0..n - 1 -> Slot]

\* No key is in two slots.
Unique(a) == \A i, j \in DOMAIN a : a[i].key = a[j].key /\ a[i].key # NULL => i = j

Has(a, e) == \E i \in DOMAIN a : a[i] = e

-----------------------------------------------------------------------------
\* Every non-empty set of numbers has a least element ...
LEMMA Least ==
  ASSUME NEW S, S \subseteq Nat, S # {}
  PROVE  \E m \in S : \A x \in S : m <= x
<1> DEFINE R == OpToRel(<, Nat)
<1>1. IsWellFoundedOn(R, Nat)
  BY NatLessThanWellFounded
<1>2. \A x, y \in Nat : x < y => <<x, y>> \in R
  BY DEF OpToRel
<1> HIDE DEF R
<1>3. PICK x \in S : \A y \in S : ~ (<<y, x>> \in R)
  BY <1>1, WFMin
<1>4. ASSUME NEW y \in S PROVE x <= y
  <2>1. x \in Nat /\ y \in Nat
    OBVIOUS
  <2>2. ~(y < x)
    BY <1>2, <1>3, <2>1
  <2> QED BY <2>1, <2>2
<1> QED BY <1>4

\* ... and so a set with zero and every successor has all of them.
LEMMA Induct ==
  ASSUME NEW S, 0 \in S, \A n \in Nat : n \in S => n + 1 \in S
  PROVE  Nat \subseteq S
<1> SUFFICES ASSUME Nat \ S # {} PROVE FALSE
  OBVIOUS
<1>1. PICK m \in Nat \ S : \A x \in Nat \ S : m <= x
  BY Least
<1>2. m # 0 /\ m - 1 \in Nat
  BY <1>1
<1>3. m - 1 \in S
  BY <1>1, <1>2
<1> QED BY <1>1, <1>2, <1>3

\* From an index in the array, a scan visits every slot; from any other, only
\* slots and the index itself.
LEMMA ProbeIs ==
  ASSUME NEW n \in Nat \ {0}, NEW i \in Nat
  PROVE  /\ DOMAIN ProbeAt(i, n) = 1..n
         /\ i < n => \A j \in 0..n - 1 : \E c \in 1..n : ProbeAt(i, n)[c] = j
<1>1. \A j \in 0..n - 1 : j % n = j /\ (j + n) % n = j
  OBVIOUS
<1>2. ASSUME i < n, NEW j \in 0..n - 1
      PROVE  \E c \in 1..n : ProbeAt(i, n)[c] = j
  <2>1. CASE i <= j
    <3>1. j - i + 1 \in 1..n /\ i + (j - i + 1) - 1 = j
      BY <1>2, <2>1
    <3>2. ProbeAt(i, n)[j - i + 1] = j
      BY <1>1, <1>2, <3>1 DEF ProbeAt
    <3> QED BY <3>1, <3>2
  <2>2. CASE i > j
    <3>1. j + n - i + 1 \in 1..n /\ i + (j + n - i + 1) - 1 = j + n
      BY <1>2, <2>2
    <3>2. ProbeAt(i, n)[j + n - i + 1] = j
      BY <1>1, <1>2, <3>1 DEF ProbeAt
    <3> QED BY <3>1, <3>2
  <2> QED BY <2>1, <2>2
<1> QED BY <1>2 DEF ProbeAt

\* A scan finds the key, or nothing; nothing only if the key is not there or
\* the scan began outside the array.
LEMMA FindIs ==
  ASSUME NEW n \in Nat \ {0}, NEW a \in Arrays(n), NEW i \in Nat, NEW k
  PROVE  /\ Find(a, i, n, k) # -1 => Find(a, i, n, k) \in 0..n - 1 /\ a[Find(a, i, n, k)].key = k
         /\ i < n /\ (\E j \in 0..n - 1 : a[j].key = k) => Find(a, i, n, k) # -1
<1> DEFINE p == ProbeAt(i, n)
           hits == {c \in 1..n : p[c] \in DOMAIN a /\ a[p[c]].key = k}
           first == CHOOSE c \in hits : \A d \in hits : c <= d
<1>1. Find(a, i, n, k) = IF hits = {} THEN -1 ELSE p[first]
  BY DEF Find
<1>2. DOMAIN a = 0..n - 1
  BY DEF Arrays
<1>3. CASE hits = {}
  <2>1. i < n => ~ \E j \in 0..n - 1 : a[j].key = k
    <3> HIDE DEF p
    <3> SUFFICES ASSUME i < n, NEW j \in 0..n - 1, a[j].key = k PROVE FALSE
      OBVIOUS
    <3>1. PICK c \in 1..n : p[c] = j
      BY ProbeIs DEF p
    <3>2. c \in hits
      BY <1>2, <3>1
    <3> QED BY <1>3, <3>2
  <2> QED BY <1>1, <1>3, <2>1
<1>4. CASE hits # {}
  <2>1. \E m \in hits : \A x \in hits : m <= x
    <3>1. hits \subseteq Nat
      OBVIOUS
    <3> HIDE DEF hits
    <3> QED BY <1>4, <3>1, Least
  <2>2. first \in hits
    <3> HIDE DEF hits
    <3> QED BY <2>1
  <2>3. p[first] \in 0..n - 1 /\ a[p[first]].key = k
    <3> HIDE DEF first, p
    <3> QED BY <1>2, <2>2
  <2> HIDE DEF hits, first, p
  <2>4. p[first] # -1
    BY <2>3
  <2> QED BY <1>1, <1>4, <2>3, <2>4
<1> QED BY <1>3, <1>4

LEMMA IndexIs ==
  ASSUME NEW k \in Keys, NEW n \in Nat \ {0}
  PROVE  get_index(k, n) \in 0..n - 1
<1>1. Hash[k] \in Nat
  BY MapAssumption
<1> QED BY <1>1 DEF get_index

\* Only slots of the array are occupied, so they can be counted.
LEMMA OccupiedIs ==
  ASSUME NEW n \in Nat \ {0}, NEW a \in Arrays(n)
  PROVE  /\ IsFiniteSet(Occupied(a)) /\ Cardinality(Occupied(a)) \in Nat
         /\ Occupied(a) \subseteq 0..n - 1
         /\ Cardinality(Occupied(a)) < n => \E i \in 0..n - 1 : a[i].key = NULL
<1>1. Occupied(a) \subseteq 0..n - 1 /\ DOMAIN a = 0..n - 1
  BY DEF Occupied, Arrays
<1>2. IsFiniteSet(0..n - 1) /\ Cardinality(0..n - 1) = n
  BY FS_Interval
<1>3. IsFiniteSet(Occupied(a))
  BY <1>1, <1>2, FS_Subset
<1>4. Cardinality(Occupied(a)) \in Nat
  BY <1>3, FS_CardinalityType
<1>5. (\A i \in 0..n - 1 : a[i].key # NULL) => Occupied(a) = 0..n - 1
  BY <1>1 DEF Occupied
<1> QED BY <1>1, <1>2, <1>3, <1>4, <1>5

-----------------------------------------------------------------------------
\* An entry goes into a free slot, and the others stay.
LEMMA InsertIs ==
  ASSUME NEW n \in Nat \ {0}, NEW a \in Arrays(n), Unique(a), NEW e \in Slot, e.key \in Keys,
         \A i \in 0..n - 1 : a[i].key # e.key, Cardinality(Occupied(a)) < n
  PROVE  /\ insert_entry(a, n, e) \in Arrays(n) /\ Unique(insert_entry(a, n, e))
         /\ \A x \in Slot : x.key # NULL => (Has(insert_entry(a, n, e), x) <=> x = e \/ Has(a, x))
         /\ Cardinality(Occupied(insert_entry(a, n, e))) = Cardinality(Occupied(a)) + 1
<1> DEFINE f == FreeSlot(a, n, e.key)
           b == insert_entry(a, n, e)
<1>1. DOMAIN a = 0..n - 1 /\ e.key # NULL
  BY MapAssumption DEF Arrays
<1>2. f \in 0..n - 1 /\ a[f].key = NULL
  <2> DEFINE i == get_index(e.key, n)
  <2>1. i \in 0..n - 1 /\ i \in Nat /\ i < n
    <3>1. i \in 0..n - 1
      BY IndexIs
    <3> QED BY <3>1
  <2>2. \E j \in 0..n - 1 : a[j].key = NULL
    BY OccupiedIs
  <2> HIDE DEF i
  <2>3. Find(a, i, n, NULL) # -1 /\ Find(a, i, n, NULL) \in 0..n - 1 /\ a[Find(a, i, n, NULL)].key = NULL
    BY <2>1, <2>2, FindIs
  <2> QED BY <2>3 DEF FreeSlot, i
<1> HIDE DEF f
<1>3. b = [a EXCEPT ![f] = e]
  BY DEF insert_entry, f
<1> HIDE DEF b
<1>4. /\ b \in Arrays(n) /\ DOMAIN b = 0..n - 1 /\ b[f] = e
      /\ \A i \in 0..n - 1 : i # f => b[i] = a[i]
  BY <1>1, <1>2, <1>3 DEF Arrays
<1>5. Unique(b)
  BY <1>1, <1>4 DEF Unique
<1>6. ASSUME NEW x \in Slot, x.key # NULL
      PROVE  Has(b, x) <=> x = e \/ Has(a, x)
  BY <1>1, <1>2, <1>4, <1>6 DEF Has
<1>7. Cardinality(Occupied(b)) = Cardinality(Occupied(a)) + 1
  <2>1. Occupied(b) = Occupied(a) \cup {f} /\ f \notin Occupied(a)
    BY <1>1, <1>2, <1>4 DEF Occupied
  <2> QED BY <2>1, OccupiedIs, FS_AddElement
<1> QED BY <1>4, <1>5, <1>6, <1>7 DEF b

LEMMA EmptyIs ==
  ASSUME NEW n \in Nat \ {0}
  PROVE  /\ EmptyArray(n) \in Arrays(n) /\ Unique(EmptyArray(n))
         /\ \A i \in 0..n - 1 : EmptyArray(n)[i] = EmptySlot
         /\ \A x \in Slot : x.key # NULL => ~Has(EmptyArray(n), x)
         /\ Occupied(EmptyArray(n)) = {} /\ Cardinality(Occupied(EmptyArray(n))) = 0
<1>1. EmptySlot \in Slot /\ EmptySlot.key = NULL
  BY DEF EmptySlot, Slot
<1>2. /\ EmptyArray(n) \in Arrays(n) /\ DOMAIN EmptyArray(n) = 0..n - 1
      /\ \A i \in 0..n - 1 : EmptyArray(n)[i] = EmptySlot
  BY <1>1 DEF EmptyArray, Arrays
<1> HIDE DEF EmptyArray
<1>3. Unique(EmptyArray(n)) /\ Occupied(EmptyArray(n)) = {}
  BY <1>1, <1>2 DEF Unique, Occupied
<1>4. \A x \in Slot : x.key # NULL => ~Has(EmptyArray(n), x)
  BY <1>1, <1>2 DEF Has
<1> QED BY <1>2, <1>3, <1>4, FS_EmptySet

\* The loop of rehash_entries: its array before each slot, up to m.
Moves(a, new, m, f) ==
  f = [j \in 0..m |-> IF j = 0 THEN EmptyArray(new)
                      ELSE IF a[j - 1].key = NULL THEN f[j - 1]
                      ELSE insert_entry(f[j - 1], new, a[j - 1])]

LEMMA LoopRuns ==
  ASSUME NEW a, NEW new, NEW n \in Nat
  PROVE  \E f : Moves(a, new, n, f)
<1> DEFINE S == {m \in Nat : \E f : Moves(a, new, m, f)}
           Step(b, j) == IF a[j - 1].key = NULL THEN b ELSE insert_entry(b, new, a[j - 1])
<1>1. 0 \in S
  <2>1. Moves(a, new, 0, [j \in 0..0 |-> EmptyArray(new)])
    <3> HIDE DEF Step
    <3> QED BY DEF Moves
  <2> QED BY <2>1
<1>2. ASSUME NEW m \in Nat, m \in S
      PROVE  m + 1 \in S
  <2>1. PICK f : Moves(a, new, m, f)
    BY <1>2
  <2> DEFINE g == [j \in 0..m + 1 |-> IF j <= m THEN f[j] ELSE Step(f[m], m + 1)]
             h == [j \in 0..m + 1 |-> IF j = 0 THEN EmptyArray(new) ELSE Step(g[j - 1], j)]
  <2>2. \A j \in 0..m : f[j] = IF j = 0 THEN EmptyArray(new) ELSE Step(f[j - 1], j)
    BY <2>1 DEF Moves
  <2> HIDE DEF Step
  <2>3. ASSUME NEW j \in 0..m + 1
        PROVE  g[j] = IF j = 0 THEN EmptyArray(new) ELSE Step(g[j - 1], j)
    <3>1. CASE j <= m
      <4>1. g[j] = f[j] /\ (j # 0 => g[j - 1] = f[j - 1]) /\ j \in 0..m
        BY <3>1
      <4> QED BY <2>2, <4>1
    <3>2. CASE j > m
      <4>1. j = m + 1 /\ j - 1 = m /\ j # 0
        BY <3>2
      <4>2. g[m + 1] = Step(f[m], m + 1) /\ g[m] = f[m]
        OBVIOUS
      <4> QED BY <4>1, <4>2
    <3> QED BY <3>1, <3>2
  <2>4. g = h
    BY <2>3
  <2>5. Moves(a, new, m + 1, g)
    <3> HIDE DEF g
    <3> QED BY <2>4 DEF Moves, Step
  <2> QED BY <2>5
<1> HIDE DEF S
<1>3. Nat \subseteq S
  BY <1>1, <1>2, Induct
<1> QED BY <1>3 DEF S

\* Every entry is moved, once.
LEMMA RehashIs ==
  ASSUME NEW n \in Nat \ {0}, NEW a \in Arrays(n), Unique(a), NEW new \in Nat, new > n
  PROVE  LET b == rehash_entries(a, n, new)
         IN  /\ b \in Arrays(new) /\ Unique(b)
             /\ \A x \in Slot : x.key # NULL => (Has(b, x) <=> Has(a, x))
             /\ Cardinality(Occupied(b)) = Cardinality(Occupied(a))
<1> DEFINE f == CHOOSE g : Moves(a, new, n, g)
           Before(j) == {i \in Occupied(a) : i < j}
           Good(j) ==
             /\ f[j] \in Arrays(new) /\ Unique(f[j])
             /\ \A x \in Slot : x.key # NULL => (Has(f[j], x) <=> \E i \in 0..n - 1 : i < j /\ a[i] = x)
             /\ Cardinality(Occupied(f[j])) = Cardinality(Before(j))
           S == {j \in Nat : j <= n => Good(j)}
<1>1. rehash_entries(a, n, new) = f[n]
  BY DEF rehash_entries, Moves
<1>2. Moves(a, new, n, f)
  <2>1. \E g : Moves(a, new, n, g)
    BY LoopRuns
  <2> QED BY <2>1
<1> HIDE DEF f
<1>3. /\ f[0] = EmptyArray(new)
      /\ \A j \in 1..n : f[j] = IF a[j - 1].key = NULL THEN f[j - 1]
                                ELSE insert_entry(f[j - 1], new, a[j - 1])
  BY <1>2 DEF Moves
<1>4. DOMAIN a = 0..n - 1 /\ \A i \in 0..n - 1 : a[i] \in Slot
  BY DEF Arrays
<1>5. \A j \in Nat : /\ IsFiniteSet(Before(j)) /\ Cardinality(Before(j)) \in Nat
                     /\ j <= n => Cardinality(Before(j)) <= j
  <2> TAKE j \in Nat
  <2>1. Before(j) \subseteq Occupied(a)
    OBVIOUS
  <2>2. IsFiniteSet(Before(j))
    BY <2>1, OccupiedIs, FS_Subset
  <2>3. Before(j) \subseteq 0..j - 1
    BY <1>4 DEF Occupied
  <2>4. IsFiniteSet(0..j - 1) /\ Cardinality(0..j - 1) = j
    BY FS_Interval
  <2> HIDE DEF Before
  <2>5. Cardinality(Before(j)) <= j
    BY <2>3, <2>4, FS_Subset
  <2> QED BY <2>2, <2>5, FS_CardinalityType
<1>6. 0 \in S
  <2>1. Before(0) = {}
    BY <1>4 DEF Occupied
  <2> HIDE DEF Before
  <2>2. new \in Nat \ {0} /\ f[0] = EmptyArray(new)
    BY <1>3
  <2>3. /\ f[0] \in Arrays(new) /\ Unique(f[0]) /\ Cardinality(Occupied(f[0])) = 0
        /\ \A x \in Slot : x.key # NULL => ~Has(f[0], x)
    BY <2>2, EmptyIs
  <2>4. ~ \E i \in 0..n - 1 : i < 0
    OBVIOUS
  <2>5. Cardinality(Before(0)) = 0
    BY <2>1, FS_EmptySet
  <2> QED BY <2>3, <2>4, <2>5
<1>7. ASSUME NEW j \in Nat, j \in S
      PROVE  j + 1 \in S
  <2> SUFFICES ASSUME j + 1 <= n PROVE Good(j + 1)
    OBVIOUS
  <2>1. Good(j) /\ j \in 0..n - 1 /\ j + 1 \in 1..n /\ (j + 1) - 1 = j /\ a[j] \in Slot
    BY <1>4, <1>7
  <2>2. f[j + 1] = IF a[j].key = NULL THEN f[j] ELSE insert_entry(f[j], new, a[j])
    BY <1>3, <2>1
  <2>3. \A i \in 0..n - 1 : i < j + 1 <=> i < j \/ i = j
    BY <2>1
  <2>4. CASE a[j].key = NULL
    <3>1. Before(j + 1) = Before(j)
      BY <2>3, <2>4, <1>4 DEF Occupied
    <3> HIDE DEF Before
    <3>2. \A x \in Slot : x.key # NULL =>
            ((\E i \in 0..n - 1 : i < j + 1 /\ a[i] = x) <=> \E i \in 0..n - 1 : i < j /\ a[i] = x)
      BY <2>3, <2>4
    <3>3. f[j + 1] = f[j]
      BY <2>2, <2>4
    <3> QED BY <2>1, <3>1, <3>2, <3>3
  <2>5. CASE a[j].key # NULL
    <3>1. Before(j + 1) = Before(j) \cup {j} /\ j \notin Before(j)
      BY <2>1, <2>3, <2>5, <1>4 DEF Occupied
    <3>2. Cardinality(Before(j + 1)) = Cardinality(Before(j)) + 1
      <4> HIDE DEF Before
      <4> QED BY <1>5, <3>1, FS_AddElement
    <3>3. a[j].key \in Keys
      BY <2>1, <2>5 DEF Slot
    <3>4. Cardinality(Occupied(f[j])) < new
      <4> HIDE DEF Before
      <4> QED BY <1>5, <2>1
    <3> HIDE DEF Before
    <3>5. \A i \in 0..new - 1 : f[j][i].key # a[j].key
      <4> SUFFICES ASSUME NEW i \in 0..new - 1, f[j][i].key = a[j].key PROVE FALSE
        OBVIOUS
      <4>1. f[j][i] \in Slot /\ Has(f[j], f[j][i])
        BY <2>1 DEF Arrays, Has
      <4>2. PICK l \in 0..n - 1 : l < j /\ a[l] = f[j][i]
        BY <2>1, <2>5, <4>1
      <4> QED BY <1>4, <2>1, <2>5, <4>2 DEF Unique
    <3>6. /\ f[j + 1] \in Arrays(new) /\ Unique(f[j + 1])
          /\ \A x \in Slot : x.key # NULL => (Has(f[j + 1], x) <=> x = a[j] \/ Has(f[j], x))
          /\ Cardinality(Occupied(f[j + 1])) = Cardinality(Occupied(f[j])) + 1
      <4>1. f[j] \in Arrays(new) /\ Unique(f[j]) /\ new \in Nat \ {0}
        BY <2>1
      <4>2. f[j + 1] = insert_entry(f[j], new, a[j])
        BY <2>2, <2>5
      <4> QED BY <2>1, <3>3, <3>4, <3>5, <4>1, <4>2, InsertIs
    <3>7. \A x \in Slot : x.key # NULL =>
            (Has(f[j + 1], x) <=> \E i \in 0..n - 1 : i < j + 1 /\ a[i] = x)
      BY <2>1, <2>3, <3>6
    <3>8. Cardinality(Occupied(f[j + 1])) = Cardinality(Before(j + 1))
      BY <2>1, <3>2, <3>6
    <3> QED BY <3>6, <3>7, <3>8
  <2> QED BY <2>4, <2>5
<1>8. Good(n)
  <2> HIDE DEF Good
  <2>1. Nat \subseteq S
    <3> HIDE DEF S
    <3> QED BY <1>6, <1>7, Induct
  <2> QED BY <2>1
<1>9. Before(n) = Occupied(a)
  BY OccupiedIs
<1>10. \A x \in Slot : (\E i \in 0..n - 1 : i < n /\ a[i] = x) <=> Has(a, x)
  BY <1>4 DEF Has
<1> HIDE DEF Before
<1> QED BY <1>1, <1>8, <1>9, <1>10

-----------------------------------------------------------------------------
\* The writer is the put that grows the array, and there is no array only while
\* one fails.
LockInv ==
  /\ \A k \in Keys : writer = k <=> pc[k] \in {"calloc", "restore"}
  /\ array = NULL <=> \E k \in Keys : pc[k] = "restore"
  /\ (IF writer = NULL THEN size ELSE OldSize) <= InitSize + MaxSize

\* A key has one slot, and nb_entries counts no slot too few.
TableInv == Unique(Table) /\ Cardinality(Occupied(Table)) <= nb_entries

\* What is being put is not there yet.
PutInv ==
  \A k \in Keys : pc[k] \in {"put", "putlock", "calloc", "restore"} => ~Stored(k) /\ val[k] \in Vals

\* An index computed for a larger array is that of a disturbed operation.
ScanInv ==
  /\ \A f \in Failing : Running \ {f} \subseteq disturbed
  /\ \A k \in Keys : pc[k] \in {"getscan", "removescan"} => k \in disturbed \/ idx[k] < size

IInv == TypeOK /\ LockInv /\ TableInv /\ PutInv /\ ScanInv

LEMMA Facts ==
  ASSUME IInv
  PROVE  /\ NULL \notin Keys /\ size \in Nat \ {0} /\ nb_entries \in Nat
         /\ array = NULL => writer # NULL
         /\ writer = NULL => /\ array \in Arrays(size) /\ old_array = NULL /\ Table = array
                             /\ size <= InitSize + MaxSize /\ Failing = {}
         /\ writer # NULL => /\ old_array \in Arrays(OldSize) /\ old_array # NULL /\ Table = old_array
                             /\ OldSize \in Nat \ {0} /\ size = 2 * OldSize
                             /\ OldSize <= InitSize + MaxSize
<1>1. InitSize \in Nat /\ MaxSize \in Nat /\ NULL \notin Keys
  BY MapAssumption
<1>2. ASSUME NEW n \in Nat \ {0}, n <= InitSize + MaxSize
      PROVE  NULL \notin Arrays(n)
  <2>1. n \in 1..(InitSize + MaxSize)
    BY <1>1, <1>2
  <2> QED BY <2>1, MapAssumption, Zenon DEF Arrays
<1>3. size \in Nat \ {0} /\ nb_entries \in Nat
  BY DEF IInv, TypeOK
<1>4. CASE writer = NULL
  <2>1. array \in Arrays(size) /\ old_array = NULL /\ size <= InitSize + MaxSize
    BY <1>4 DEF IInv, TypeOK, LockInv, Arrays
  <2>2. array # NULL
    BY <1>2, <1>3, <2>1
  <2>3. Failing = {}
    BY <2>2 DEF IInv, LockInv, Failing
  <2> QED BY <1>1, <1>3, <1>4, <2>1, <2>2, <2>3 DEF Table
<1>5. CASE writer # NULL
  <2>1. /\ old_array \in Arrays(OldSize) /\ OldSize # 0 /\ size = 2 * OldSize
        /\ OldSize <= InitSize + MaxSize
    BY <1>5 DEF IInv, TypeOK, LockInv, Arrays
  <2>2. OldSize \in Nat \ {0}
    BY <1>3, <2>1 DEF OldSize
  <2>3. old_array # NULL
    BY <1>2, <2>1, <2>2
  <2> QED BY <1>1, <1>3, <1>5, <2>1, <2>2, <2>3 DEF Table
<1> QED BY <1>4, <1>5

\* What an array holds for each key ...
InArray(a, k) == \E i \in DOMAIN a : a[i].key = k

ContentOf(a) ==
  [k \in Keys |-> IF InArray(a, k) THEN a[CHOOSE i \in DOMAIN a : a[i].key = k].val ELSE NULL]

\* ... is what its slot says.
LEMMA ContentOfIs ==
  ASSUME NEW a, Unique(a), NEW k \in Keys
  PROVE  /\ \A i \in DOMAIN a : a[i].key = k => ContentOf(a)[k] = a[i].val
         /\ ~InArray(a, k) => ContentOf(a)[k] = NULL
<1>1. ASSUME NEW i \in DOMAIN a, a[i].key = k
      PROVE  ContentOf(a)[k] = a[i].val
  <2> DEFINE j == CHOOSE l \in DOMAIN a : a[l].key = k
  <2>1. j \in DOMAIN a /\ a[j].key = k
    BY <1>1
  <2>2. InArray(a, k)
    BY <1>1 DEF InArray
  <2>3. k # NULL
    BY MapAssumption
  <2>4. j = i
    BY <1>1, <2>1, <2>3 DEF Unique
  <2> QED BY <2>2, <2>4 DEF ContentOf
<1>2. ASSUME ~InArray(a, k) PROVE ContentOf(a)[k] = NULL
  BY <1>2 DEF ContentOf
<1> QED BY <1>1, <1>2

\* An array with one more entry.
LEMMA PutIs ==
  ASSUME NEW n \in Nat \ {0}, NEW a \in Arrays(n), Unique(a),
         NEW m \in Nat \ {0}, NEW b \in Arrays(m), Unique(b),
         NEW k \in Keys, NEW v \in Vals, ~InArray(a, k),
         \A x \in Slot : x.key # NULL => (Has(b, x) <=> x = [key |-> k, val |-> v] \/ Has(a, x))
  PROVE  /\ ContentOf(a)[k] = NULL /\ ContentOf(b) = [ContentOf(a) EXCEPT ![k] = v]
         /\ \A j \in Keys \ {k} : InArray(b, j) => InArray(a, j)
<1> DEFINE e == [key |-> k, val |-> v]
<1>1. /\ \A i \in DOMAIN a : a[i] \in Slot /\ Has(a, a[i])
      /\ \A i \in DOMAIN b : b[i] \in Slot /\ Has(b, b[i])
  BY DEF Arrays, Has
<1>2. e \in Slot /\ NULL \notin Keys /\ e.key = k /\ e.val = v
  BY MapAssumption DEF Slot
<1> HIDE DEF e
<1>3. ContentOf(a)[k] = NULL
  BY ContentOfIs
<1>4. ContentOf(b)[k] = v
  <2>1. Has(b, e)
    BY <1>2 DEF e
  <2>2. PICK i \in DOMAIN b : b[i] = e
    BY <2>1 DEF Has
  <2> QED BY <1>2, <2>2, ContentOfIs
<1>5. ASSUME NEW j \in Keys \ {k}
      PROVE  ContentOf(b)[j] = ContentOf(a)[j] /\ (InArray(b, j) => InArray(a, j))
  <2>1. ASSUME NEW i \in DOMAIN b, b[i].key = j
        PROVE  InArray(a, j) /\ ContentOf(b)[j] = ContentOf(a)[j]
    <3>1. Has(a, b[i])
      BY <1>1, <1>2, <2>1 DEF e
    <3>2. PICK l \in DOMAIN a : a[l] = b[i]
      BY <3>1 DEF Has
    <3>3. ContentOf(a)[j] = a[l].val /\ ContentOf(b)[j] = b[i].val
      BY <2>1, <3>2, ContentOfIs
    <3> QED BY <2>1, <3>2, <3>3 DEF InArray
  <2>2. ASSUME NEW l \in DOMAIN a, a[l].key = j
        PROVE  InArray(b, j)
    <3>1. Has(b, a[l])
      BY <1>1, <1>2, <2>2
    <3>2. PICK i \in DOMAIN b : b[i] = a[l]
      BY <3>1 DEF Has
    <3> QED BY <2>2, <3>2 DEF InArray
  <2>3. CASE InArray(b, j)
    BY <2>1, <2>3 DEF InArray
  <2>4. CASE ~InArray(b, j)
    <3>1. ~InArray(a, j)
      BY <2>2, <2>4 DEF InArray
    <3> QED BY <2>4, <3>1, ContentOfIs
  <2> QED BY <2>3, <2>4
<1>6. ContentOf(b) = [ContentOf(a) EXCEPT ![k] = v]
  <2>1. \A a1 : ContentOf(a1) = [j \in Keys |-> ContentOf(a1)[j]]
    BY DEF ContentOf
  <2> QED BY <1>4, <1>5, <2>1
<1> QED BY <1>3, <1>5, <1>6

LEMMA ContentIs ==
  /\ Content = ContentOf(Table) /\ Content' = ContentOf(Table')
  /\ \A k \in Keys : (Stored(k) <=> InArray(Table, k)) /\ (Stored(k)' <=> InArray(Table', k))
<1>1. Content = ContentOf(Table)
  BY DEF Content, ContentOf, Stored, InArray
<1>2. Content' = ContentOf(Table')
  BY DEF Content, ContentOf, Stored, InArray
<1>3. ASSUME NEW k \in Keys
      PROVE  (Stored(k) <=> InArray(Table, k)) /\ (Stored(k)' <=> InArray(Table', k))
  BY DEF Stored, InArray
<1> QED BY <1>1, <1>2, <1>3

\* Steps that leave the table alone.
LEMMA TableStays ==
  ASSUME Table' = Table
  PROVE  /\ Content' = Content /\ \A k \in Keys : Stored(k)' <=> Stored(k)
         /\ TableInv /\ nb_entries' = nb_entries => TableInv'
<1>1. \A k \in Keys : Stored(k)' <=> Stored(k)
  BY DEF Stored
<1>2. Content' = Content
  BY DEF Content, Stored
<1>3. TableInv /\ nb_entries' = nb_entries => TableInv'
  BY DEF TableInv
<1> QED BY <1>1, <1>2, <1>3

\* A thread moves on inside an operation, or returns from it.
LEMMA GotoIs ==
  ASSUME TypeOK, NEW k \in Keys, NEW l, Goto(k, l)
  PROVE  /\ pc'[k] = l /\ \A j \in Keys \ {k} : pc'[j] = pc[j]
         /\ l # "idle" => Running' = Running \cup {k}
         /\ l = "idle" => Running' = Running \ {k}
         /\ l = "restore" => Failing' = Failing \cup {k}
         /\ l # "restore" => Failing' = Failing \ {k}
<1>1. pc'[k] = l /\ \A j \in Keys \ {k} : pc'[j] = pc[j]
  BY DEF Goto, TypeOK
<1> QED BY <1>1 DEF Running, Failing

LEMMA ReturnIs ==
  ASSUME TypeOK, NEW k \in Keys, NEW r, Return(k, r)
  PROVE  /\ pc'[k] = "idle" /\ \A j \in Keys \ {k} : pc'[j] = pc[j] /\ val'[j] = val[j] /\ idx'[j] = idx[j]
         /\ Running' = Running \ {k} /\ Failing' = Failing \ {k} /\ disturbed' = disturbed \ {k}
         /\ Map!Returns(k, r)
<1>1. \A j \in Keys \ {k} : val'[j] = val[j] /\ idx'[j] = idx[j]
  BY DEF Return, TypeOK
<1>2. disturbed' = disturbed \ {k} /\ ret' = [ret EXCEPT ![k] = r] /\ Goto(k, "idle")
  BY DEF Return
<1>3. /\ pc'[k] = "idle" /\ \A j \in Keys \ {k} : pc'[j] = pc[j]
      /\ Running' = Running \ {k} /\ Failing' = Failing \ {k}
  BY <1>2, GotoIs
<1> QED BY <1>1, <1>2, <1>3 DEF Map!Returns

\* Its locals stay of their types.
LEMMA ReturnTypes ==
  ASSUME TypeOK, NEW k \in Keys, NEW r \in Vals \cup {NULL, "ok", "failed"}, Return(k, r)
  PROVE  /\ pc' \in [Keys -> {"idle", "get", "getscan", "remove", "removescan",
                              "put", "putlock", "calloc", "restore"}]
         /\ idx' \in [Keys -> Nat] /\ val' \in [Keys -> Vals \cup {NULL}]
         /\ ret' \in [Keys -> Vals \cup {NULL, "ok", "failed"}] /\ disturbed' \subseteq Keys
BY DEF TypeOK, Return, Goto

\* An operation that finds the table as it is, and returns.
LEMMA ReturnKeeps ==
  ASSUME IInv, NEW k \in Keys, NEW r \in Vals \cup {NULL, "ok", "failed"}, Return(k, r),
         pc[k] \notin {"calloc", "restore"}, UNCHANGED <<mapVars, writer, old_array>>
  PROVE  IInv' /\ Content' = Content /\ Failing' = Failing /\ Map!Returns(k, r)
<1>1. UNCHANGED <<size, nb_entries, array, writer, old_array>>
  BY DEF mapVars
<1>2. Table' = Table
  BY <1>1 DEF Table
<1>3. /\ pc'[k] = "idle" /\ \A j \in Keys \ {k} : pc'[j] = pc[j] /\ val'[j] = val[j] /\ idx'[j] = idx[j]
      /\ Running' = Running \ {k} /\ Failing' = Failing \ {k} /\ disturbed' = disturbed \ {k}
      /\ Map!Returns(k, r)
  BY ReturnIs DEF IInv
<1>4. TypeOK'
  BY <1>1, ReturnTypes DEF IInv, TypeOK, OldSize
<1>5. LockInv'
  BY <1>1, <1>3 DEF IInv, LockInv, OldSize
<1>6. /\ TableInv' /\ Content' = Content /\ \A j \in Keys : Stored(j)' <=> Stored(j)
  BY <1>1, <1>2, TableStays DEF IInv
<1>7. PutInv'
  BY <1>3, <1>6 DEF IInv, PutInv
<1>8. Failing' = Failing
  BY <1>3 DEF Failing
<1>9. ScanInv'
  BY <1>1, <1>3, <1>8 DEF IInv, ScanInv
<1> QED BY <1>3, <1>4, <1>5, <1>6, <1>7, <1>8, <1>9 DEF IInv

-----------------------------------------------------------------------------
LEMMA InitKeeps ==
  ASSUME Init
  PROVE  IInv /\ Map!MInit
<1>1. InitSize \in Nat \ {0} /\ MaxSize \in Nat /\ NULL \notin Keys
  BY MapAssumption
<1>2. /\ array \in Arrays(InitSize) /\ Unique(array) /\ array = EmptyArray(InitSize)
      /\ DOMAIN array = 0..InitSize - 1 /\ \A i \in 0..InitSize - 1 : array[i] = EmptySlot
      /\ Cardinality(Occupied(array)) = 0
  <2>1. array = EmptyArray(InitSize)
    BY DEF Init
  <2>2. \A a : a \in Arrays(InitSize) => DOMAIN a = 0..InitSize - 1
    BY DEF Arrays
  <2> QED BY <1>1, <2>1, <2>2, EmptyIs
<1>3. Table = array
  BY DEF Init, Table
<1>4. \A k \in Keys : ~Stored(k)
  BY <1>1, <1>2, <1>3 DEF Stored, EmptySlot
<1>5. InitSize \in 1..(InitSize + MaxSize)
  BY <1>1
<1>6. array # NULL
  BY <1>2, <1>5, MapAssumption, Zenon DEF Arrays
<1>7. TypeOK
  BY <1>1, <1>2 DEF Init, TypeOK, Arrays
<1>8. LockInv /\ PutInv /\ ScanInv /\ Running = {} /\ Failing = {}
  BY <1>1, <1>6 DEF Init, LockInv, PutInv, ScanInv, Running, Failing
<1>9. TableInv
  BY <1>2, <1>3 DEF Init, TableInv
<1>10. Content = [k \in Keys |-> NULL]
  BY <1>4 DEF Content
<1> QED BY <1>7, <1>8, <1>9, <1>10 DEF IInv, Init, Map!MInit

LEMMA CallKeeps ==
  ASSUME IInv, NEW k \in Keys, Call(k)
  PROVE  IInv' /\ Map!MCall(k)
<1>1. /\ UNCHANGED <<size, nb_entries, array, writer, old_array, idx, ret>> /\ pc[k] = "idle"
      /\ disturbed' = IF Failing = {} THEN disturbed ELSE disturbed \cup {k}
  BY DEF Call, mapVars
<1>2. PICK l \in {"get", "remove", "put"} : Goto(k, l)
  BY DEF Call
<1>3. /\ pc'[k] = l /\ \A j \in Keys \ {k} : pc'[j] = pc[j]
      /\ Running' = Running \cup {k} /\ Failing' = Failing \ {k}
  BY <1>2, GotoIs DEF IInv
<1>4. /\ k \notin Running /\ k \notin Failing /\ Failing' = Failing
  BY <1>1, <1>3 DEF Running, Failing
<1>5. Table' = Table
  BY <1>1 DEF Table
<1>6. /\ TableInv' /\ Content' = Content /\ \A j \in Keys : Stored(j)' <=> Stored(j)
  BY <1>1, <1>5, TableStays DEF IInv
<1>7. val' \in [Keys -> Vals \cup {NULL}] /\ \A j \in Keys \ {k} : val'[j] = val[j]
  BY DEF Call, IInv, TypeOK
<1>8. l = "put" => ~Stored(k) /\ val'[k] \in Vals
  BY <1>3 DEF Call, Goto, IInv, TypeOK
<1>9. TypeOK'
  BY <1>1, <1>2, <1>7 DEF IInv, TypeOK, OldSize, Goto
<1>10. LockInv'
  BY <1>1, <1>3 DEF IInv, LockInv, OldSize
<1>11. PutInv'
  BY <1>3, <1>6, <1>7, <1>8 DEF IInv, PutInv
<1>12. ScanInv'
  BY <1>1, <1>3, <1>4 DEF IInv, ScanInv
<1>13. Map!MCall(k)
  BY <1>1, <1>3, <1>4, <1>6 DEF Map!MCall
<1> QED BY <1>6, <1>9, <1>10, <1>11, <1>12, <1>13 DEF IInv

LEMMA UninitializedKeeps ==
  ASSUME IInv, NEW k \in Keys, Uninitialized(k)
  PROVE  IInv' /\ Map!MMiss(k)
<1> DEFINE r == IF pc[k] = "put" THEN "failed" ELSE NULL
<1>1. Return(k, r) /\ pc[k] \in {"get", "remove", "put"} /\ array = NULL
      /\ UNCHANGED <<mapVars, writer, old_array>>
  BY DEF Uninitialized
<1>2. r \in {NULL, "failed"}
  OBVIOUS
<1> HIDE DEF r
<1>3. IInv' /\ Content' = Content /\ Failing' = Failing /\ Map!Returns(k, r)
  BY <1>1, <1>2, ReturnKeeps
<1>4. k \in disturbed
  <2>1. PICK f \in Keys : pc[f] = "restore"
    BY <1>1 DEF IInv, LockInv
  <2>2. f \in Failing /\ k \in Running \ {f}
    BY <1>1, <2>1 DEF Failing, Running
  <2> QED BY <2>2 DEF IInv, ScanInv
<1> QED BY <1>2, <1>3, <1>4 DEF Map!MMiss

\* A thread gets to its next step and nothing else changes but its index.
LEMMA GotoKeeps ==
  ASSUME IInv, NEW k \in Keys, NEW l \in {"getscan", "removescan", "putlock"}, Goto(k, l),
         pc[k] \in {"get", "remove", "put"}, l = "putlock" <=> pc[k] = "put",
         UNCHANGED <<mapVars, writer, old_array, val, ret, disturbed>>,
         idx' \in [Keys -> Nat], \A j \in Keys \ {k} : idx'[j] = idx[j],
         l # "putlock" => idx'[k] < size
  PROVE  IInv' /\ UNCHANGED Map!mvars
<1>1. UNCHANGED <<size, nb_entries, array, writer, old_array, val, ret, disturbed>>
  BY DEF mapVars
<1>2. Table' = Table
  BY <1>1 DEF Table
<1>3. /\ pc'[k] = l /\ \A j \in Keys \ {k} : pc'[j] = pc[j]
      /\ Running' = Running \cup {k} /\ Failing' = Failing \ {k}
  BY GotoIs DEF IInv
<1>4. Running' = Running /\ Failing' = Failing
  BY <1>3 DEF Running, Failing
<1>5. /\ TableInv' /\ Content' = Content /\ \A j \in Keys : Stored(j)' <=> Stored(j)
  BY <1>1, <1>2, TableStays DEF IInv
<1>6. TypeOK'
  BY <1>1 DEF IInv, TypeOK, OldSize, Goto
<1>7. LockInv'
  BY <1>1, <1>3 DEF IInv, LockInv, OldSize
<1>8. PutInv'
  BY <1>1, <1>3, <1>5 DEF IInv, PutInv
<1>9. ScanInv'
  BY <1>1, <1>3, <1>4 DEF IInv, ScanInv
<1> QED BY <1>1, <1>4, <1>5, <1>6, <1>7, <1>8, <1>9 DEF IInv, Map!mvars

LEMMA GetIndexKeeps ==
  ASSUME IInv, NEW k \in Keys, GetIndex(k)
  PROVE  IInv' /\ UNCHANGED Map!mvars
<1>1. PICK l \in {"getscan", "removescan"} : Goto(k, l)
  BY DEF GetIndex
<1>2. get_index(k, size) \in 0..size - 1
  BY Facts, IndexIs
<1>3. get_index(k, size) \in Nat /\ get_index(k, size) < size
  BY <1>2, Facts
<1>4. idx' = [idx EXCEPT ![k] = get_index(k, size)] /\ idx \in [Keys -> Nat]
  BY DEF GetIndex, IInv, TypeOK
<1>5. /\ idx' \in [Keys -> Nat] /\ idx'[k] < size /\ \A j \in Keys \ {k} : idx'[j] = idx[j]
  BY <1>3, <1>4
<1>6. pc[k] \in {"get", "remove"} /\ UNCHANGED <<mapVars, writer, old_array, val, ret, disturbed>>
  BY DEF GetIndex
<1> QED BY <1>1, <1>5, <1>6, GotoKeeps

LEMMA PutCheckKeeps ==
  ASSUME IInv, NEW k \in Keys, PutCheck(k)
  PROVE  IInv' /\ UNCHANGED Map!mvars
<1>1. /\ Goto(k, "putlock") /\ pc[k] = "put" /\ idx' = idx
      /\ UNCHANGED <<mapVars, writer, old_array, val, ret, disturbed>>
  BY DEF PutCheck
<1>2. idx' \in [Keys -> Nat]
  BY <1>1 DEF IInv, TypeOK
<1> QED BY <1>1, <1>2, GotoKeeps

-----------------------------------------------------------------------------
\* A scan under the lock finds the key, or its operation was disturbed.
LEMMA ScanIs ==
  ASSUME IInv, NEW k \in Keys, pc[k] \in {"getscan", "removescan"}, writer = NULL
  PROVE  LET f == Find(array, idx[k], size, k)
         IN  /\ f # -1 => /\ f \in 0..size - 1 /\ array[f].key = k
                          /\ array[f].val = Content[k] /\ array[f].val \in Vals \cup {NULL}
             /\ f = -1 => Content[k] = NULL \/ k \in disturbed
<1> DEFINE f == Find(array, idx[k], size, k)
<1>1. size \in Nat \ {0} /\ array \in Arrays(size) /\ Table = array /\ idx[k] \in Nat
  BY Facts DEF IInv, TypeOK
<1>2. Unique(array)
  BY <1>1 DEF IInv, TableInv
<1>3. DOMAIN array = 0..size - 1 /\ \A i \in 0..size - 1 : array[i].val \in Vals \cup {NULL}
  BY <1>1 DEF Arrays, Slot
<1>4. /\ f # -1 => f \in 0..size - 1 /\ array[f].key = k
      /\ idx[k] < size /\ (\E j \in 0..size - 1 : array[j].key = k) => f # -1
  BY <1>1, FindIs
<1> HIDE DEF f
<1>5. CASE f # -1
  BY <1>1, <1>2, <1>3, <1>4, <1>5, ContentIs, ContentOfIs DEF f
<1>6. CASE f = -1
  <2>1. CASE idx[k] < size
    <3>1. ~InArray(array, k)
      BY <1>3, <1>4, <1>6, <2>1 DEF InArray
    <3>2. Content[k] = NULL
      BY <1>1, <1>2, <3>1, ContentIs, ContentOfIs
    <3> QED BY <1>6, <3>2 DEF f
  <2>2. CASE ~(idx[k] < size)
    BY <1>6, <2>2 DEF f, IInv, ScanInv
  <2> QED BY <2>1, <2>2
<1> QED BY <1>5, <1>6

\* A scan that ends without a change of the map.
LEMMA ScanKeeps ==
  ASSUME IInv, NEW k \in Keys, pc[k] \in {"getscan", "removescan"}, writer = NULL,
         NEW r, r = (IF Find(array, idx[k], size, k) = -1 THEN NULL
                     ELSE array[Find(array, idx[k], size, k)].val),
         Return(k, r), UNCHANGED <<mapVars, writer, old_array>>
  PROVE  IInv' /\ Content' = Content /\ (Map!MGet(k) \/ Map!MMiss(k))
<1> DEFINE f == Find(array, idx[k], size, k)
<1>1. /\ f # -1 => r = Content[k] /\ r \in Vals \cup {NULL}
      /\ f = -1 => r = NULL /\ (Content[k] = NULL \/ k \in disturbed)
  BY ScanIs
<1> HIDE DEF f
<1>2. r \in Vals \cup {NULL, "ok", "failed"}
  BY <1>1
<1>3. IInv' /\ Content' = Content /\ Failing' = Failing /\ Map!Returns(k, r)
  BY <1>2, ReturnKeeps
<1>4. k \in Running \ Failing
  BY DEF Running, Failing
<1>5. CASE r = Content[k]
  BY <1>3, <1>4, <1>5 DEF Map!MGet
<1>6. CASE r = NULL /\ k \in disturbed
  BY <1>3, <1>6 DEF Map!MMiss
<1> QED BY <1>1, <1>3, <1>5, <1>6

LEMMA GetScanKeeps ==
  ASSUME IInv, NEW k \in Keys, GetScan(k)
  PROVE  IInv' /\ (Map!MGet(k) \/ Map!MMiss(k))
<1> DEFINE r == IF Find(array, idx[k], size, k) = -1 THEN NULL
                ELSE array[Find(array, idx[k], size, k)].val
<1>1. /\ pc[k] = "getscan" /\ writer = NULL /\ Return(k, r)
      /\ UNCHANGED <<mapVars, writer, old_array>>
  BY DEF GetScan
<1> QED BY <1>1, ScanKeeps

LEMMA RemoveScanKeeps ==
  ASSUME IInv, NEW k \in Keys, RemoveScan(k)
  PROVE  IInv' /\ (Map!MRemove(k) \/ Map!MGet(k) \/ Map!MMiss(k))
<1> DEFINE f == Find(array, idx[k], size, k)
<1>1. pc[k] = "removescan" /\ writer = NULL /\ UNCHANGED <<size, writer, old_array>>
  BY DEF RemoveScan
<1>2. CASE f = -1
  <2>1. Return(k, NULL) /\ UNCHANGED <<mapVars, writer, old_array>>
    BY <1>2 DEF RemoveScan, mapVars
  <2> QED BY <1>1, <1>2, <2>1, ScanKeeps
<1>3. CASE f # -1
  <2>1. /\ Return(k, array[f].val)
        /\ array' = [array EXCEPT ![f] = EmptySlot] /\ nb_entries' = nb_entries - 1
    BY <1>3 DEF RemoveScan
  <2>2. /\ f \in 0..size - 1 /\ array[f].key = k
        /\ array[f].val = Content[k] /\ array[f].val \in Vals \cup {NULL}
    BY <1>1, <1>3, ScanIs
  <2> HIDE DEF f
  <2>3. /\ array \in Arrays(size) /\ size \in Nat \ {0} /\ nb_entries \in Nat /\ Table = array
        /\ old_array = NULL /\ k # NULL /\ array # NULL /\ size <= InitSize + MaxSize
    BY <1>1, Facts
  <2>4. EmptySlot \in Slot /\ EmptySlot.key = NULL
    BY DEF EmptySlot, Slot
  <2>5. /\ array' \in Arrays(size) /\ DOMAIN array' = 0..size - 1 /\ DOMAIN array = 0..size - 1
        /\ array'[f] = EmptySlot /\ \A i \in 0..size - 1 : i # f => array'[i] = array[i]
    BY <2>1, <2>2, <2>3, <2>4 DEF Arrays
  <2>6. Table' = array'
    BY <1>1, <2>3 DEF Table
  <2>7. Unique(array) /\ Unique(array') /\ Cardinality(Occupied(array)) <= nb_entries
    <3>1. Unique(array) /\ Cardinality(Occupied(array)) <= nb_entries
      BY <2>3 DEF IInv, TableInv
    <3>2. Unique(array')
      BY <2>2, <2>4, <2>5, <3>1 DEF Unique
    <3> QED BY <3>1, <3>2
  <2>8. nb_entries' \in Nat /\ Cardinality(Occupied(array')) <= nb_entries'
    <3>1. Occupied(array') = Occupied(array) \ {f} /\ f \in Occupied(array)
      BY <2>2, <2>3, <2>4, <2>5 DEF Occupied
    <3>2. IsFiniteSet(Occupied(array)) /\ Cardinality(Occupied(array)) \in Nat
      BY <2>3, OccupiedIs
    <3>3. IsFiniteSet(Occupied(array')) /\ Cardinality(Occupied(array')) = Cardinality(Occupied(array)) - 1
      BY <3>1, <3>2, FS_RemoveElement
    <3>4. Cardinality(Occupied(array')) \in Nat
      BY <3>3, FS_CardinalityType
    <3> QED BY <2>1, <2>3, <2>7, <3>2, <3>3, <3>4
  <2>9. ~InArray(array', k)
    BY <2>2, <2>3, <2>4, <2>5, <2>7 DEF InArray, Unique
  <2>10. ASSUME NEW j \in Keys \ {k}
         PROVE  (InArray(array', j) <=> InArray(array, j)) /\ ContentOf(array')[j] = ContentOf(array)[j]
    <3>1. j # NULL
      BY MapAssumption
    <3>2. InArray(array', j) <=> InArray(array, j)
      BY <2>2, <2>4, <2>5, <3>1 DEF InArray
    <3>3. CASE InArray(array, j)
      <4>1. PICK i \in 0..size - 1 : array[i].key = j
        BY <2>5, <3>3 DEF InArray
      <4>2. array'[i] = array[i]
        BY <2>2, <2>5, <4>1
      <4>3. ContentOf(array)[j] = array[i].val /\ ContentOf(array')[j] = array'[i].val
        BY <2>5, <2>7, <4>1, <4>2, ContentOfIs
      <4> QED BY <3>2, <4>2, <4>3
    <3>4. CASE ~InArray(array, j)
      BY <2>7, <3>2, <3>4, ContentOfIs
    <3> QED BY <3>2, <3>3, <3>4
  <2>11. Content' = [Content EXCEPT ![k] = NULL]
    <3>1. \A a : ContentOf(a) = [j \in Keys |-> ContentOf(a)[j]]
      BY DEF ContentOf
    <3>2. ContentOf(array')[k] = NULL
      BY <2>7, <2>9, ContentOfIs
    <3>3. ContentOf(array') = [ContentOf(array) EXCEPT ![k] = NULL]
      BY <2>10, <3>1, <3>2
    <3> QED BY <2>3, <2>6, <3>3, ContentIs
  <2>12. /\ pc'[k] = "idle" /\ \A j \in Keys \ {k} : pc'[j] = pc[j] /\ val'[j] = val[j] /\ idx'[j] = idx[j]
         /\ Running' = Running \ {k} /\ Failing' = Failing \ {k} /\ disturbed' = disturbed \ {k}
         /\ Map!Returns(k, array[f].val)
    BY <2>1, ReturnIs DEF IInv
  <2>13. TypeOK'
    <3>1. /\ pc' \in [Keys -> {"idle", "get", "getscan", "remove", "removescan",
                               "put", "putlock", "calloc", "restore"}]
          /\ idx' \in [Keys -> Nat] /\ val' \in [Keys -> Vals \cup {NULL}]
          /\ ret' \in [Keys -> Vals \cup {NULL, "ok", "failed"}] /\ disturbed' \subseteq Keys
      BY <2>1, <2>2, ReturnTypes DEF IInv
    <3> QED BY <1>1, <2>3, <2>5, <2>8, <3>1 DEF TypeOK, Arrays
  <2>14. Failing = {} /\ k \in Running \ Failing
    BY <1>1, Facts DEF Running
  <2>15. LockInv'
    <3>1. array' # NULL
      <4>1. size \in 1..(InitSize + MaxSize)
        BY <2>3, MapAssumption
      <4> QED BY <2>5, <4>1, MapAssumption, Zenon DEF Arrays
    <3>2. \A j \in Keys : pc'[j] # "restore"
      BY <2>12, <2>14 DEF Failing
    <3> QED BY <1>1, <2>3, <2>12, <3>1, <3>2 DEF IInv, LockInv
  <2>16. TableInv'
    BY <2>6, <2>7, <2>8 DEF TableInv
  <2>17. PutInv'
    BY <2>3, <2>6, <2>10, <2>12, ContentIs DEF IInv, PutInv
  <2>18. ScanInv'
    BY <1>1, <2>12, <2>14 DEF IInv, ScanInv
  <2>19. Map!MRemove(k)
    BY <2>2, <2>11, <2>12, <2>14 DEF Map!MRemove
  <2> QED BY <2>13, <2>15, <2>16, <2>17, <2>18, <2>19 DEF IInv
<1> QED BY <1>2, <1>3

-----------------------------------------------------------------------------
\* The array after a put returns: what was stored, and the new entry.
LEMMA PutKeeps ==
  ASSUME IInv, NEW k \in Keys, pc[k] \in {"putlock", "calloc"}, Return(k, "ok"),
         writer \in {NULL, k}, writer' = NULL, old_array' = NULL,
         size' \in Nat \ {0}, size' <= InitSize + MaxSize, size <= size', nb_entries' \in Nat,
         array' \in Arrays(size'), Unique(array'), Cardinality(Occupied(array')) <= nb_entries',
         \A x \in Slot : x.key # NULL =>
           (Has(array', x) <=> x = [key |-> k, val |-> val[k]] \/ Has(Table, x))
  PROVE  IInv' /\ Map!MPut(k)
<1>1. Table' = array'
  BY DEF Table
<1>2. \E n \in Nat \ {0} : Table \in Arrays(n)
  BY Facts
<1>3. Unique(Table) /\ val[k] \in Vals /\ ~InArray(Table, k)
  BY ContentIs DEF IInv, TableInv, PutInv
<1>4. /\ ContentOf(Table)[k] = NULL /\ ContentOf(array') = [ContentOf(Table) EXCEPT ![k] = val[k]]
      /\ \A j \in Keys \ {k} : InArray(array', j) => InArray(Table, j)
  BY <1>2, <1>3, PutIs
<1>5. /\ pc'[k] = "idle" /\ \A j \in Keys \ {k} : pc'[j] = pc[j] /\ val'[j] = val[j] /\ idx'[j] = idx[j]
      /\ Running' = Running \ {k} /\ Failing' = Failing \ {k} /\ disturbed' = disturbed \ {k}
      /\ Map!Returns(k, "ok")
  BY ReturnIs DEF IInv
<1>6. Failing = {} /\ k \in Running /\ NULL \notin Keys
  <2>1. \A j \in Keys : pc[j] # "restore"
    BY MapAssumption DEF IInv, LockInv
  <2> QED BY <2>1, MapAssumption DEF Failing, Running
<1>7. TypeOK'
  <2>1. /\ pc' \in [Keys -> {"idle", "get", "getscan", "remove", "removescan",
                             "put", "putlock", "calloc", "restore"}]
        /\ idx' \in [Keys -> Nat] /\ val' \in [Keys -> Vals \cup {NULL}]
        /\ ret' \in [Keys -> Vals \cup {NULL, "ok", "failed"}] /\ disturbed' \subseteq Keys
    BY ReturnTypes DEF IInv
  <2> QED BY <2>1 DEF TypeOK, Arrays
<1>8. LockInv'
  <2>1. array' # NULL
    <3>1. size' \in 1..(InitSize + MaxSize)
      BY MapAssumption
    <3> QED BY <3>1, MapAssumption, Zenon DEF Arrays
  <2>2. \A j \in Keys : pc'[j] \notin {"calloc", "restore"}
    BY <1>5, <1>6 DEF IInv, LockInv
  <2> QED BY <1>6, <2>1, <2>2 DEF LockInv
<1>9. TableInv'
  BY <1>1 DEF TableInv
<1>10. PutInv'
  BY <1>1, <1>4, <1>5, ContentIs DEF IInv, PutInv
<1>11. ScanInv'
  <2>1. size \in Nat /\ idx \in [Keys -> Nat]
    BY DEF IInv, TypeOK
  <2> QED BY <1>5, <1>6, <2>1 DEF IInv, ScanInv
<1>12. Content[k] = NULL /\ Content' = [Content EXCEPT ![k] = val[k]]
  BY <1>1, <1>4, ContentIs
<1>13. Map!MPut(k)
  BY <1>3, <1>5, <1>6, <1>12 DEF Map!MPut
<1> QED BY <1>7, <1>8, <1>9, <1>10, <1>11, <1>13 DEF IInv

LEMMA PutInsertKeeps ==
  ASSUME IInv, NEW k \in Keys, PutInsert(k)
  PROVE  IInv' /\ Map!MPut(k)
<1> DEFINE e == [key |-> k, val |-> val[k]]
<1>1. /\ pc[k] = "putlock" /\ writer = NULL /\ ~MustGrow /\ nb_entries' = nb_entries + 1
      /\ array' = insert_entry(array, size, e) /\ Return(k, "ok")
      /\ UNCHANGED <<size, writer, old_array>>
  BY DEF PutInsert
<1>2. /\ array \in Arrays(size) /\ size \in Nat \ {0} /\ nb_entries \in Nat /\ Table = array
      /\ old_array = NULL /\ size <= InitSize + MaxSize
  BY <1>1, Facts
<1>3. Unique(array) /\ Cardinality(Occupied(array)) <= nb_entries /\ val[k] \in Vals /\ ~Stored(k)
  BY <1>1, <1>2 DEF IInv, TableInv, PutInv
<1>4. Cardinality(Occupied(array)) \in Nat /\ Cardinality(Occupied(array)) < size
  <2>1. Cardinality(Occupied(array)) \in Nat
    BY <1>2, OccupiedIs
  <2> QED BY <1>1, <1>2, <1>3, <2>1 DEF MustGrow
<1>5. e \in Slot /\ e.key \in Keys /\ \A i \in 0..size - 1 : array[i].key # e.key
  BY <1>2, <1>3 DEF Slot, Stored, Arrays
<1> HIDE DEF e
<1>6. /\ array' \in Arrays(size) /\ Unique(array')
      /\ \A x \in Slot : x.key # NULL => (Has(array', x) <=> x = e \/ Has(array, x))
      /\ Cardinality(Occupied(array')) = Cardinality(Occupied(array)) + 1
  BY <1>1, <1>2, <1>3, <1>4, <1>5, InsertIs
<1>7. /\ size' \in Nat \ {0} /\ size' <= InitSize + MaxSize /\ size <= size'
      /\ nb_entries' \in Nat /\ array' \in Arrays(size')
      /\ Cardinality(Occupied(array')) <= nb_entries'
  BY <1>1, <1>2, <1>3, <1>4, <1>6
<1>8. \A x \in Slot : x.key # NULL =>
        (Has(array', x) <=> x = [key |-> k, val |-> val[k]] \/ Has(Table, x))
  BY <1>2, <1>6 DEF e
<1> QED BY <1>1, <1>2, <1>6, <1>7, <1>8, PutKeeps

LEMMA GrowOkKeeps ==
  ASSUME IInv, NEW k \in Keys, GrowOk(k)
  PROVE  IInv' /\ Map!MPut(k)
<1> DEFINE e == [key |-> k, val |-> val[k]]
           b == rehash_entries(old_array, OldSize, size)
<1>1. /\ pc[k] = "calloc" /\ size <= MaxSize /\ array' = insert_entry(b, size, e)
      /\ nb_entries' = nb_entries + Cardinality(Occupied(old_array)) + 1
      /\ old_array' = NULL /\ writer' = NULL /\ Return(k, "ok") /\ size' = size
  BY DEF GrowOk, OldSize
<1>2. writer = k /\ writer # NULL
  BY <1>1, MapAssumption DEF IInv, LockInv
<1>3. /\ old_array \in Arrays(OldSize) /\ OldSize \in Nat \ {0} /\ size = 2 * OldSize
      /\ Table = old_array /\ size \in Nat \ {0} /\ nb_entries \in Nat
  BY <1>2, Facts
<1>4. Unique(old_array) /\ val[k] \in Vals /\ ~Stored(k)
  BY <1>1, <1>3 DEF IInv, TableInv, PutInv
<1>5. size > OldSize
  BY <1>3
<1>6. /\ b \in Arrays(size) /\ Unique(b)
      /\ \A x \in Slot : x.key # NULL => (Has(b, x) <=> Has(old_array, x))
      /\ Cardinality(Occupied(b)) = Cardinality(Occupied(old_array))
  BY <1>3, <1>4, <1>5, RehashIs
<1> HIDE DEF b
<1>7. Cardinality(Occupied(old_array)) \in Nat /\ Cardinality(Occupied(old_array)) <= OldSize
  <2>1. /\ IsFiniteSet(0..OldSize - 1) /\ Cardinality(0..OldSize - 1) = OldSize
    BY <1>3, FS_Interval
  <2>2. Occupied(old_array) \subseteq 0..OldSize - 1 /\ Cardinality(Occupied(old_array)) \in Nat
    BY <1>3, OccupiedIs
  <2> QED BY <2>1, <2>2, FS_Subset
<1>8. e \in Slot /\ e.key = k /\ e.key \in Keys /\ k # NULL
  BY <1>4, MapAssumption DEF Slot
<1> HIDE DEF e
<1>9. \A i \in 0..size - 1 : b[i].key # e.key
  <2> SUFFICES ASSUME NEW i \in 0..size - 1, b[i].key = k PROVE FALSE
    BY <1>8
  <2>1. b[i] \in Slot /\ Has(b, b[i])
    BY <1>6 DEF Arrays, Has
  <2>2. Has(old_array, b[i])
    BY <1>6, <1>8, <2>1
  <2> QED BY <1>3, <1>4, <2>2 DEF Has, Stored
<1>10. Cardinality(Occupied(b)) < size
  BY <1>3, <1>6, <1>7
<1>11. /\ array' \in Arrays(size) /\ Unique(array')
       /\ \A x \in Slot : x.key # NULL => (Has(array', x) <=> x = e \/ Has(b, x))
       /\ Cardinality(Occupied(array')) = Cardinality(Occupied(b)) + 1
  BY <1>1, <1>3, <1>6, <1>8, <1>9, <1>10, InsertIs
<1>12. /\ size' \in Nat \ {0} /\ size' <= InitSize + MaxSize /\ size <= size'
       /\ nb_entries' \in Nat /\ array' \in Arrays(size')
       /\ Cardinality(Occupied(array')) <= nb_entries'
  BY <1>1, <1>3, <1>6, <1>7, <1>11, MapAssumption
<1>13. \A x \in Slot : x.key # NULL =>
         (Has(array', x) <=> x = [key |-> k, val |-> val[k]] \/ Has(Table, x))
  BY <1>3, <1>6, <1>11 DEF e
<1> QED BY <1>1, <1>2, <1>11, <1>12, <1>13, PutKeeps

\* The writer's own steps: the table, and what it holds, stay.
LEMMA PutGrowKeeps ==
  ASSUME IInv, NEW k \in Keys, PutGrow(k)
  PROVE  IInv' /\ UNCHANGED Map!mvars
<1>1. /\ pc[k] = "putlock" /\ writer = NULL /\ writer' = k /\ old_array' = array /\ size' = 2 * size
      /\ Goto(k, "calloc") /\ UNCHANGED <<nb_entries, array, idx, val, ret, disturbed>>
  BY DEF PutGrow
<1>2. /\ array \in Arrays(size) /\ size \in Nat \ {0} /\ array # NULL /\ Table = array
      /\ size <= InitSize + MaxSize /\ k # NULL /\ Failing = {}
  BY <1>1, Facts
<1>3. Table' = Table /\ OldSize' = size
  BY <1>1, <1>2 DEF Table, OldSize
<1>4. /\ pc'[k] = "calloc" /\ \A j \in Keys \ {k} : pc'[j] = pc[j]
      /\ Running' = Running \cup {k} /\ Failing' = Failing \ {k}
  BY <1>1, GotoIs DEF IInv
<1>5. Running' = Running /\ Failing' = Failing
  BY <1>1, <1>2, <1>4 DEF Running
<1>6. /\ TableInv' /\ Content' = Content /\ \A j \in Keys : Stored(j)' <=> Stored(j)
  BY <1>1, <1>3, TableStays DEF IInv
<1>7. TypeOK'
  <2>1. pc' \in [Keys -> {"idle", "get", "getscan", "remove", "removescan",
                          "put", "putlock", "calloc", "restore"}]
    BY <1>1 DEF IInv, TypeOK, Goto
  <2>2. size' \in Nat \ {0} /\ size' = 2 * OldSize' /\ OldSize' # 0
    BY <1>1, <1>2, <1>3
  <2> QED BY <1>1, <1>2, <1>3, <2>1, <2>2 DEF IInv, TypeOK, Arrays
<1>8. LockInv'
  <2>1. \A j \in Keys : pc[j] \notin {"calloc", "restore"}
    BY <1>1, MapAssumption DEF IInv, LockInv
  <2> QED BY <1>1, <1>2, <1>3, <1>4, <2>1 DEF LockInv
<1>9. PutInv'
  BY <1>1, <1>4, <1>6 DEF IInv, PutInv
<1>10. ScanInv'
  <2>1. idx \in [Keys -> Nat]
    BY DEF IInv, TypeOK
  <2> QED BY <1>1, <1>2, <1>4, <1>5, <2>1 DEF IInv, ScanInv
<1> QED BY <1>1, <1>5, <1>6, <1>7, <1>8, <1>9, <1>10 DEF IInv, Map!mvars

LEMMA CallocFailsKeeps ==
  ASSUME IInv, NEW k \in Keys, CallocFails(k)
  PROVE  IInv' /\ Map!MOutOfMemory(k)
<1>1. /\ pc[k] = "calloc" /\ array' = NULL /\ Goto(k, "restore")
      /\ disturbed' = disturbed \cup (Running \ {k})
      /\ UNCHANGED <<size, nb_entries, writer, old_array, idx, val, ret>>
  BY DEF CallocFails
<1>2. writer = k /\ writer # NULL /\ \A j \in Keys \ {k} : pc[j] \notin {"calloc", "restore"}
  BY <1>1, MapAssumption DEF IInv, LockInv
<1>3. old_array # NULL /\ Table = old_array
  BY <1>2, Facts
<1>4. Table' = Table
  BY <1>1, <1>3 DEF Table
<1>5. /\ pc'[k] = "restore" /\ \A j \in Keys \ {k} : pc'[j] = pc[j]
      /\ Running' = Running \cup {k} /\ Failing' = Failing \cup {k}
  BY <1>1, GotoIs DEF IInv
<1>6. Running' = Running /\ k \in Running \ Failing /\ Failing = {}
  BY <1>1, <1>2, <1>5 DEF Running, Failing
<1>7. /\ TableInv' /\ Content' = Content /\ \A j \in Keys : Stored(j)' <=> Stored(j)
  BY <1>1, <1>4, TableStays DEF IInv
<1>8. TypeOK'
  <2>1. /\ pc' \in [Keys -> {"idle", "get", "getscan", "remove", "removescan",
                             "put", "putlock", "calloc", "restore"}]
        /\ disturbed' \subseteq Keys
    BY <1>1 DEF IInv, TypeOK, Goto, Running
  <2> QED BY <1>1, <1>2, <2>1 DEF IInv, TypeOK, OldSize
<1>9. LockInv'
  BY <1>1, <1>2, <1>5 DEF IInv, LockInv, OldSize
<1>10. PutInv'
  BY <1>1, <1>5, <1>7 DEF IInv, PutInv
<1>11. ScanInv'
  BY <1>1, <1>5, <1>6 DEF IInv, ScanInv
<1>12. Map!MOutOfMemory(k)
  BY <1>1, <1>5, <1>6, <1>7 DEF Map!MOutOfMemory
<1> QED BY <1>7, <1>8, <1>9, <1>10, <1>11, <1>12 DEF IInv

LEMMA RestoreKeeps ==
  ASSUME IInv, NEW k \in Keys, Restore(k)
  PROVE  IInv' /\ Map!MPutFails(k)
<1>1. /\ pc[k] = "restore" /\ array' = old_array /\ size' = OldSize /\ old_array' = NULL
      /\ writer' = NULL /\ Return(k, "failed") /\ nb_entries' = nb_entries
  BY DEF Restore
<1>2. writer = k /\ writer # NULL /\ \A j \in Keys \ {k} : pc[j] \notin {"calloc", "restore"}
  BY <1>1, MapAssumption DEF IInv, LockInv
<1>3. /\ old_array \in Arrays(OldSize) /\ old_array # NULL /\ Table = old_array
      /\ OldSize \in Nat \ {0} /\ OldSize <= InitSize + MaxSize /\ NULL \notin Keys
  BY <1>2, Facts
<1>4. Table' = Table
  BY <1>1, <1>3 DEF Table
<1>5. /\ pc'[k] = "idle" /\ \A j \in Keys \ {k} : pc'[j] = pc[j] /\ val'[j] = val[j] /\ idx'[j] = idx[j]
      /\ Running' = Running \ {k} /\ Failing' = Failing \ {k} /\ disturbed' = disturbed \ {k}
      /\ Map!Returns(k, "failed")
  BY <1>1, ReturnIs DEF IInv
<1>6. Failing = {k} /\ Failing' = {}
  BY <1>1, <1>2, <1>5 DEF Failing
<1>7. /\ TableInv' /\ Content' = Content /\ \A j \in Keys : Stored(j)' <=> Stored(j)
  BY <1>1, <1>4, TableStays DEF IInv
<1>8. TypeOK'
  <2>1. /\ pc' \in [Keys -> {"idle", "get", "getscan", "remove", "removescan",
                             "put", "putlock", "calloc", "restore"}]
        /\ idx' \in [Keys -> Nat] /\ val' \in [Keys -> Vals \cup {NULL}]
        /\ ret' \in [Keys -> Vals \cup {NULL, "ok", "failed"}] /\ disturbed' \subseteq Keys
    BY <1>1, ReturnTypes DEF IInv
  <2>2. nb_entries' \in Nat
    BY <1>1 DEF IInv, TypeOK
  <2> QED BY <1>1, <1>3, <2>1, <2>2 DEF TypeOK, Arrays
<1>9. LockInv'
  BY <1>1, <1>2, <1>3, <1>5 DEF LockInv
<1>10. PutInv'
  BY <1>5, <1>7 DEF IInv, PutInv
<1>11. ScanInv'
  <2>1. ASSUME NEW j \in Keys, pc'[j] \in {"getscan", "removescan"}
        PROVE  j \in disturbed'
    BY <1>5, <1>6, <2>1 DEF IInv, ScanInv, Running
  <2> QED BY <1>6, <2>1 DEF ScanInv
<1>12. Map!MPutFails(k)
  BY <1>5, <1>6, <1>7 DEF Map!MPutFails
<1> QED BY <1>7, <1>8, <1>9, <1>10, <1>11, <1>12 DEF IInv

-----------------------------------------------------------------------------
LEMMA StutterKeeps ==
  ASSUME IInv, UNCHANGED vars
  PROVE  IInv' /\ UNCHANGED Map!mvars
<1>1. UNCHANGED <<size, nb_entries, array, writer, old_array, pc, idx, val, ret, disturbed>>
  BY DEF vars, mapVars
<1>2. Table' = Table
  BY <1>1 DEF Table
<1>3. /\ TableInv' /\ Content' = Content /\ \A j \in Keys : Stored(j)' <=> Stored(j)
  BY <1>1, <1>2, TableStays DEF IInv
<1>4. Running' = Running /\ Failing' = Failing
  BY <1>1 DEF Running, Failing
<1>5. TypeOK' /\ LockInv'
  BY <1>1 DEF IInv, TypeOK, LockInv, OldSize
<1>6. PutInv' /\ ScanInv'
  BY <1>1, <1>3, <1>4 DEF IInv, PutInv, ScanInv
<1> QED BY <1>1, <1>3, <1>4, <1>5, <1>6 DEF IInv, Map!mvars

\* Every step keeps the invariant and is a step of the abstract map, or none.
LEMMA StepKeeps ==
  ASSUME IInv, [Next]_vars
  PROVE  IInv' /\ [Map!MNext]_(Map!mvars)
<1>1. CASE UNCHANGED vars
  BY <1>1, StutterKeeps
<1>2. CASE Next
  <2> PICK k \in Keys :
        \/ Call(k) \/ Uninitialized(k)
        \/ GetIndex(k) \/ GetScan(k) \/ RemoveScan(k)
        \/ PutCheck(k) \/ PutInsert(k) \/ PutGrow(k)
        \/ GrowOk(k) \/ CallocFails(k) \/ Restore(k)
    BY <1>2 DEF Next
  <2>1. CASE Call(k)
    BY <2>1, CallKeeps DEF Map!MNext
  <2>2. CASE Uninitialized(k)
    BY <2>2, UninitializedKeeps DEF Map!MNext
  <2>3. CASE GetIndex(k)
    BY <2>3, GetIndexKeeps
  <2>4. CASE GetScan(k)
    BY <2>4, GetScanKeeps DEF Map!MNext
  <2>5. CASE RemoveScan(k)
    BY <2>5, RemoveScanKeeps DEF Map!MNext
  <2>6. CASE PutCheck(k)
    BY <2>6, PutCheckKeeps
  <2>7. CASE PutInsert(k)
    BY <2>7, PutInsertKeeps DEF Map!MNext
  <2>8. CASE PutGrow(k)
    BY <2>8, PutGrowKeeps
  <2>9. CASE GrowOk(k)
    BY <2>9, GrowOkKeeps DEF Map!MNext
  <2>10. CASE CallocFails(k)
    BY <2>10, CallocFailsKeeps DEF Map!MNext
  <2>11. CASE Restore(k)
    BY <2>11, RestoreKeeps DEF Map!MNext
  <2> QED BY <2>1, <2>2, <2>3, <2>4, <2>5, <2>6, <2>7, <2>8, <2>9, <2>10, <2>11
<1> QED BY <1>1, <1>2

\* The inductive invariant of the map: who holds the lock, one slot for a key,
\* and an index computed for another size only while a put is out of memory.
THEOREM InductiveInvariant == Spec => []IInv
<1>1. Init => IInv
  BY InitKeeps
<1>2. IInv /\ [Next]_vars => IInv'
  BY StepKeeps
<1> QED BY <1>1, <1>2, PTL DEF Spec

\* Between two operations the array always has the slots that size says, and
\* after a failed calloc the old array is back with its old size.
THEOREM TypeCorrect == Spec => []TypeOK
<1>1. IInv => TypeOK
  BY DEF IInv
<1> QED BY <1>1, InductiveInvariant, PTL

\* nx_map_get, nx_map_put and nx_map_remove take effect at once, each on the
\* entry of its own stream, whatever the other threads do: every step of the
\* map is a step of StreamMap or changes nothing that it tells of.
THEOREM Implements == Spec => ImplementsStreamMap
<1>1. Init => Map!MInit
  BY InitKeeps
<1>2. IInv /\ [Next]_vars => [Map!MNext]_(Map!mvars)
  BY StepKeeps
<1> QED BY <1>1, <1>2, InductiveInvariant, PTL DEF Spec, ImplementsStreamMap, Map!MSpec
=============================================================================
