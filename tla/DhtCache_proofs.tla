--------------------------- MODULE DhtCache_proofs ---------------------------
(***************************************************************************)
(* Theorems of DhtCache, for any number of slots and of built-in tables,   *)
(* any counts and any budget.                                              *)
(***************************************************************************)
EXTENDS DhtCache, TLAPS

\* During the sweep no table has the key that is about to be inserted: the
\* search that found none saw the same counts and the same keys.
SweepMisses ==
  pc = "sweep" =>
    /\ \A i \in Slots : cache[i].valid => cache[i].key # KeyOf[counts]
    /\ \A b \in Builtins : BuiltinKey[b] # KeyOf[counts]

\* nbytes_accumulated, with the job it has not seen yet, covers what the table
\* has coded.
BudgetCovers ==
  /\ pc = "job" => since <= nbytes_accumulated /\ since < Budget
  /\ pc = "idle" /\ fc = "DHT_COUNT" => since <= nbytes_accumulated + spbc

\* The hand fills the slots in order, once.
FilledInOrder ==
  \/ \A i \in Slots : cache[i].valid
  \/ \A i \in Slots : cache[i].valid <=> i < clock

IInv ==
  TypeOK /\ UniqueKeys /\ LastUsedIntact /\ SweepMisses /\ BudgetCovers /\ FilledInOrder

-----------------------------------------------------------------------------
\* A step that keeps what the entries hold.
SameEntries ==
  \A j \in Slots : /\ cache'[j].valid = cache[j].valid
                   /\ cache'[j].key = cache[j].key
                   /\ cache'[j].table = cache[j].table

SlotType == UsedSlot \cup {EmptySlot}

\* A valid slot is not the empty one, and an accessed slot is valid.
LEMMA SlotFacts ==
  ASSUME NEW e \in SlotType
  PROVE  /\ e.valid => e \in UsedSlot
         /\ e.accessed => e.valid
         /\ e.valid \in BOOLEAN /\ e.accessed \in BOOLEAN
<1>1. CASE e \in UsedSlot
  <2> DEFINE K == Keys
             T == [made : {"dhtgen"}, from : Counts]
  <2>1. e \in [valid : {TRUE}, accessed : BOOLEAN, key : K, table : T]
    BY <1>1 DEF UsedSlot
  <2> HIDE DEF K, T
  <2>2. e.valid = TRUE /\ e.accessed \in BOOLEAN
    BY <2>1
  <2> QED
    BY <1>1, <2>2
<1>2. CASE e = EmptySlot
  BY <1>2 DEF EmptySlot
<1> QED
  BY <1>1, <1>2 DEF SlotType

\* Setting the access bit of a valid slot changes nothing else.
LEMMA AccessIs ==
  ASSUME cache \in [Slots -> SlotType], NEW i \in Slots, cache[i].valid,
         NEW b \in BOOLEAN, cache' = [cache EXCEPT ![i].accessed = b]
  PROVE  cache' \in [Slots -> SlotType] /\ SameEntries
<1>1. cache[i] \in UsedSlot
  BY SlotFacts
<1> DEFINE K == Keys
           T == [made : {"dhtgen"}, from : Counts]
<1>0. UsedSlot = [valid : {TRUE}, accessed : BOOLEAN, key : K, table : T]
  BY DEF UsedSlot
<1> HIDE DEF K, T
<1>2. [cache[i] EXCEPT !.accessed = b] \in UsedSlot
  BY <1>0, <1>1
<1>3. /\ [cache[i] EXCEPT !.accessed = b].valid = cache[i].valid
      /\ [cache[i] EXCEPT !.accessed = b].key = cache[i].key
      /\ [cache[i] EXCEPT !.accessed = b].table = cache[i].table
  BY <1>0, <1>1
<1>4. cache' = [cache EXCEPT ![i] = [cache[i] EXCEPT !.accessed = b]]
  OBVIOUS
<1>5. [cache[i] EXCEPT !.accessed = b] \in SlotType
  BY <1>2 DEF SlotType
<1>6. cache' \in [Slots -> SlotType]
  BY <1>4, <1>5
<1>7. \A j \in Slots : cache'[j] = IF j = i THEN [cache[i] EXCEPT !.accessed = b] ELSE cache[j]
  BY <1>4
<1>8. SameEntries
  BY <1>3, <1>7 DEF SameEntries
<1> QED
  BY <1>6, <1>8

\* The hand moves to the next slot, or back to the first.
LEMMA HandIs ==
  ASSUME clock \in Slots
  PROVE  (clock + 1) % NumSlots = IF clock + 1 = NumSlots THEN 0 ELSE clock + 1
<1>1. clock \in Nat /\ clock < NumSlots /\ NumSlots \in Nat \ {0}
  BY DhtAssumption DEF Slots
<1>2. CASE clock + 1 = NumSlots
  BY <1>1, <1>2
<1>3. CASE clock + 1 < NumSlots
  BY <1>1, <1>3
<1> QED
  BY <1>1, <1>2, <1>3

-----------------------------------------------------------------------------
(* The parts of the invariant that a step keeps because of what it leaves   *)
(* alone.                                                                   *)

LEMMA UniqueKept ==
  ASSUME UniqueKeys, SameEntries
  PROVE  UniqueKeys'
BY DEF UniqueKeys, SameEntries

LEMMA FilledKept ==
  ASSUME FilledInOrder, SameEntries, clock' = clock
  PROVE  FilledInOrder'
BY DEF FilledInOrder, SameEntries

\* An entry is a slot of a table of this or another stream, or a built-in one.
LEMMA EntryIs ==
  ASSUME NEW p \in Entry
  PROVE  \/ p.home = "builtin" /\ p.idx \in Builtins
         \/ p.home \in Tabs /\ p.idx \in Slots /\ p.home # "builtin"
BY DEF Entry, Tabs

LEMMA LastKept ==
  ASSUME LastUsedIntact, SameEntries, last_used_entry \in Entry \cup {NULL},
         tab \in Tabs, UNCHANGED <<last_used_entry, tab, dht>>
  PROVE  LastUsedIntact'
<1> SUFFICES ASSUME last_used_entry # NULL
             PROVE  /\ last_used_entry.home \in {"builtin", tab}
                    /\ last_used_entry.home = tab => cache'[last_used_entry.idx].valid
                    /\ dht = TableAt(last_used_entry)'
  BY DEF LastUsedIntact
<1>1. last_used_entry \in Entry
  OBVIOUS
<1>2. /\ last_used_entry.home \in {"builtin", tab}
      /\ last_used_entry.home = tab => cache[last_used_entry.idx].valid
      /\ dht = TableAt(last_used_entry)
  BY DEF LastUsedIntact
<1>3. CASE last_used_entry.home = "builtin" /\ last_used_entry.idx \in Builtins
  <2>1. TableAt(last_used_entry)' = TableAt(last_used_entry)
    BY <1>3 DEF TableAt, BuiltinTable
  <2>2. tab # "builtin"
    BY DEF Tabs
  <2> QED
    BY <1>2, <1>3, <2>1, <2>2
<1>4. CASE last_used_entry.home # "builtin" /\ last_used_entry.idx \in Slots
  <2>1. TableAt(last_used_entry)' = TableAt(last_used_entry)
    BY <1>4 DEF TableAt, SameEntries
  <2> QED
    BY <1>2, <1>4, <2>1 DEF SameEntries
<1> QED
  BY <1>1, <1>3, <1>4, EntryIs

\* A table just chosen is intact.
LEMMA CachedChosen ==
  ASSUME NEW i \in Slots, tab \in Tabs, tab' = tab, cache'[i].valid,
         last_used_entry' = Cached(i), dht' = cache'[i].table
  PROVE  LastUsedIntact' /\ last_used_entry' \in Entry
<1>1. /\ last_used_entry'.home = tab
      /\ last_used_entry'.idx = i
      /\ last_used_entry' \in Entry
      /\ tab # "builtin"
  BY DEF Cached, Entry, Tabs
<1>2. TableAt(last_used_entry)' = cache'[i].table
  BY <1>1 DEF TableAt
<1> QED
  BY <1>1, <1>2 DEF LastUsedIntact

LEMMA BuiltinChosen ==
  ASSUME NEW b \in Builtins, tab' \in Tabs,
         last_used_entry' = Builtin(b), dht' = BuiltinTable(b)
  PROVE  LastUsedIntact' /\ last_used_entry' \in Entry
<1>1. /\ last_used_entry'.home = "builtin"
      /\ last_used_entry'.idx = b
      /\ last_used_entry' \in Entry
      /\ tab' # "builtin"
  BY DEF Builtin, Entry, Tabs
<1>2. TableAt(last_used_entry)' = BuiltinTable(b)
  BY <1>1 DEF TableAt, BuiltinTable
<1> QED
  BY <1>1, <1>2 DEF LastUsedIntact
-----------------------------------------------------------------------------
(* The invariant is inductive.                                              *)

LEMMA InitHolds == Init => IInv
<1> SUFFICES ASSUME Init PROVE IInv
  OBVIOUS
<1>1. NumSlots \in Nat \ {0} /\ 0 \in Slots
  BY DhtAssumption DEF Slots
<1>2. TypeOK
  BY <1>1, DhtAssumption DEF Init, TypeOK, Tabs
<1>3. \A i \in Slots : cache[i].valid = FALSE
  BY DEF Init, EmptySlot
<1>4. UniqueKeys /\ LastUsedIntact /\ SweepMisses /\ BudgetCovers
  BY <1>3 DEF Init, UniqueKeys, LastUsedIntact, SweepMisses, BudgetCovers
<1>5. FilledInOrder
  BY <1>3 DEF Init, FilledInOrder, Slots
<1> QED
  BY <1>2, <1>4, <1>5 DEF IInv

\* What the actions of the clock hand and of the caches need of the types.
LEMMA TypeFacts ==
  ASSUME TypeOK
  PROVE  /\ cache \in [Slots -> SlotType]
         /\ clock \in Slots
         /\ tab \in Tabs
         /\ last_used_entry \in Entry \cup {NULL}
         /\ nbytes_accumulated \in Nat /\ spbc \in Nat /\ since \in Nat
         /\ counts \in Counts
BY DEF TypeOK, SlotType

\* Steps outside a lookup: the tables stay as they are.
LEMMA TablesUntouched ==
  ASSUME IInv, UNCHANGED <<cache, clock>>
  PROVE  /\ SameEntries
         /\ UniqueKeys' /\ FilledInOrder'
<1>1. SameEntries
  BY DEF SameEntries
<1> QED
  BY <1>1, UniqueKept, FilledKept DEF IInv

LEMMA BytesAre ==
  ASSUME TypeOK
  PROVE  source_bytes \in Nat /\ accumulated \in Nat
BY DEF TypeOK, source_bytes, accumulated

\* Every action keeps the invariant.
THEOREM Inductive == IInv /\ [Next]_vars => IInv'
<1> SUFFICES ASSUME IInv, [Next]_vars PROVE IInv'
  OBVIOUS
<1> USE DEF IInv
<1>t. /\ cache \in [Slots -> SlotType] /\ clock \in Slots /\ tab \in Tabs
      /\ last_used_entry \in Entry \cup {NULL}
      /\ nbytes_accumulated \in Nat /\ spbc \in Nat /\ since \in Nat
      /\ counts \in Counts
      /\ source_bytes \in Nat /\ accumulated \in Nat
      /\ NumSlots \in Nat \ {0} /\ Budget \in Nat \ {0}
  BY TypeFacts, BytesAre, DhtAssumption
<1>1. CASE LookupDefault
  <2>1. SameEntries /\ UniqueKeys' /\ FilledInOrder'
    BY <1>1, TablesUntouched DEF LookupDefault
  <2>2. 0 \in Builtins
    BY DhtAssumption DEF Builtins
  <2>3. LastUsedIntact' /\ last_used_entry' \in Entry
    BY <1>1, <1>t, <2>2, BuiltinChosen DEF LookupDefault, Choose
  <2>4. dht' \in Table
    BY <1>1, <2>2 DEF LookupDefault, Choose, BuiltinTable, Table
  <2>5. TypeOK'
    BY <1>1, <2>3, <2>4 DEF TypeOK, LookupDefault, Choose, jobVars
  <2>6. SweepMisses' /\ BudgetCovers'
    BY <1>1, <1>t DEF SweepMisses, BudgetCovers, LookupDefault, Choose
  <2> QED
    BY <2>1, <2>3, <2>5, <2>6
<1>2. CASE ReuseLast
  <2>1. last_used_entry \in Entry /\ dht' = dht
    BY <1>2, <1>t DEF ReuseLast, LastUsedIntact
  <2>2. cache' \in [Slots -> SlotType] /\ SameEntries
    <3>1. CASE last_used_entry.home = "builtin"
      BY <1>2, <1>t, <3>1 DEF ReuseLast, SameEntries
    <3>2. CASE last_used_entry.home # "builtin"
      <4>1. last_used_entry.idx \in Slots /\ cache[last_used_entry.idx].valid
        BY <1>2, <2>1, <3>2, EntryIs DEF ReuseLast, LastUsedIntact
      <4>2. cache' = [cache EXCEPT ![last_used_entry.idx].accessed = TRUE]
        BY <1>2, <3>2 DEF ReuseLast, SetAccess
      <4> QED
        BY <1>t, <4>1, <4>2, AccessIs
    <3> QED
      BY <3>1, <3>2
  <2>3. UniqueKeys' /\ FilledInOrder'
    BY <1>2, <2>2, UniqueKept, FilledKept DEF ReuseLast
  <2>4. LastUsedIntact'
    BY <1>2, <1>t, <2>1, <2>2, LastKept DEF ReuseLast
  <2>5. TypeOK'
    BY <1>2, <1>t, <2>1, <2>2 DEF TypeOK, SlotType, ReuseLast, jobVars
  <2>6. fc = "DHT_COUNT" /\ source_bytes = spbc /\ accumulated < Budget
    BY <1>2, <1>t DEF ReuseLast, QuitsReuse, source_bytes
  <2>7. SweepMisses' /\ BudgetCovers'
    BY <1>2, <1>t, <2>6 DEF SweepMisses, BudgetCovers, ReuseLast, Searching, accumulated
  <2> QED
    BY <2>3, <2>4, <2>5, <2>7
<1>3. CASE Abort
  <2>1. SameEntries /\ UniqueKeys' /\ FilledInOrder'
    BY <1>3, TablesUntouched DEF Abort, tabVars
  <2>2. LastUsedIntact'
    BY <1>3, <1>t, <2>1, LastKept DEF Abort, tabVars
  <2>3. TypeOK'
    BY <1>3 DEF TypeOK, Abort, tabVars, jobVars
  <2>4. SweepMisses' /\ BudgetCovers'
    BY <1>3 DEF SweepMisses, BudgetCovers, Abort
  <2> QED
    BY <2>1, <2>2, <2>3, <2>4
<1>4. CASE \E i \in Slots : SearchCache(i)
  <2> PICK i \in Slots : SearchCache(i)
    BY <1>4
  <2>1. cache[i].valid
    BY DEF SearchCache, FirstFrom, CacheHits, Matches
  <2>2. cache' = [cache EXCEPT ![i].accessed = TRUE]
    BY DEF SearchCache, SetAccess
  <2>3. cache' \in [Slots -> SlotType] /\ SameEntries
    BY <1>t, <2>1, <2>2, AccessIs
  <2>4. UniqueKeys' /\ FilledInOrder'
    BY <2>3, UniqueKept, FilledKept DEF SearchCache
  <2>5. LastUsedIntact' /\ last_used_entry' \in Entry
    BY <1>t, <2>1, <2>3, CachedChosen DEF SearchCache, Choose, SameEntries
  <2>6. dht' \in Table
    <3>1. cache[i] \in UsedSlot
      BY <1>t, <2>1, SlotFacts
    <3>2. cache[i].table \in [made : {"dhtgen"}, from : Counts]
      BY <3>1 DEF UsedSlot
    <3> QED
      BY <3>2 DEF SearchCache, Choose, Table
  <2>7. nbytes_accumulated' \in Nat
    BY <1>t DEF SearchCache, RestartBudget
  <2>8. TypeOK'
    BY <1>t, <2>3, <2>5, <2>6, <2>7 DEF TypeOK, SlotType, SearchCache, Choose, jobVars
  <2>9. SweepMisses' /\ BudgetCovers'
    BY <1>t, <2>7 DEF SweepMisses, BudgetCovers, SearchCache, Choose
  <2> QED
    BY <2>4, <2>5, <2>8, <2>9
<1>5. CASE \E b \in Builtins : SearchBuiltin(b)
  <2> PICK b \in Builtins : SearchBuiltin(b)
    BY <1>5
  <2>1. SameEntries /\ UniqueKeys' /\ FilledInOrder'
    BY TablesUntouched DEF SearchBuiltin
  <2>2. LastUsedIntact' /\ last_used_entry' \in Entry
    BY <1>t, BuiltinChosen DEF SearchBuiltin, Choose
  <2>3. dht' \in Table
    BY DEF SearchBuiltin, Choose, BuiltinTable, Table
  <2>4. nbytes_accumulated' \in Nat
    BY <1>t DEF SearchBuiltin, RestartBudget
  <2>5. TypeOK'
    BY <2>2, <2>3, <2>4 DEF TypeOK, SearchBuiltin, Choose, jobVars
  <2>6. SweepMisses' /\ BudgetCovers'
    BY <1>t, <2>4 DEF SweepMisses, BudgetCovers, SearchBuiltin, Choose
  <2> QED
    BY <2>1, <2>2, <2>5, <2>6
<1>6. CASE SearchFails
  <2>1. SameEntries /\ UniqueKeys' /\ FilledInOrder'
    BY <1>6, TablesUntouched DEF SearchFails
  <2>2. LastUsedIntact'
    BY <1>6 DEF SearchFails, LastUsedIntact
  <2>3. nbytes_accumulated' \in Nat
    BY <1>6, <1>t DEF SearchFails, RestartBudget
  <2>4. TypeOK'
    BY <1>6, <2>3 DEF TypeOK, SearchFails, jobVars
  <2>5. SweepMisses'
    BY <1>6 DEF SweepMisses, SearchFails, CacheHits, Matches, BuiltinHits, jobVars
  <2>6. BudgetCovers'
    BY <1>6 DEF BudgetCovers, SearchFails
  <2> QED
    BY <2>1, <2>2, <2>4, <2>5, <2>6
<1>7. CASE SweepPast
  <2>1. cache[clock].valid
    BY <1>7, <1>t, SlotFacts DEF SweepPast
  <2>2. cache' = [cache EXCEPT ![clock].accessed = FALSE]
    BY <1>7 DEF SweepPast, ClearAccess
  <2>3. cache' \in [Slots -> SlotType] /\ SameEntries
    BY <1>t, <2>1, <2>2, AccessIs
  <2>4. UniqueKeys'
    BY <2>3, UniqueKept
  <2>5. \A i \in Slots : cache[i].valid
    BY <1>t, <2>1 DEF FilledInOrder, Slots
  <2>6. FilledInOrder'
    BY <2>3, <2>5 DEF FilledInOrder, SameEntries
  <2>7. LastUsedIntact'
    BY <1>7, <1>t, <2>3, LastKept DEF SweepPast
  <2>8. clock' \in Slots
    BY <1>7, <1>t, HandIs DEF SweepPast, AdvanceHand, Slots
  <2>9. TypeOK'
    BY <1>7, <2>3, <2>8 DEF TypeOK, SlotType, SweepPast, jobVars
  <2>10. SweepMisses'
    BY <1>7, <2>3 DEF SweepMisses, SweepPast, SameEntries, jobVars
  <2>11. BudgetCovers'
    BY <1>7 DEF BudgetCovers, SweepPast, jobVars
  <2> QED
    BY <2>4, <2>6, <2>7, <2>9, <2>10, <2>11
<1>8. CASE Generate
  <2> DEFINE new == [valid |-> TRUE, accessed |-> TRUE,
                     key |-> KeyOf[counts], table |-> Generated(counts)]
  <2>1. new \in SlotType /\ new.valid /\ new.key = KeyOf[counts] /\ new.table = Generated(counts)
    <3>1. KeyOf[counts] \in Keys
      BY <1>t DEF Keys
    <3>2. Generated(counts) \in [made : {"dhtgen"}, from : Counts]
      BY <1>t DEF Generated
    <3> QED
      BY <3>1, <3>2 DEF SlotType, UsedSlot
  <2>2. cache' = [cache EXCEPT ![clock] = new]
    BY <1>8 DEF Generate
  <2> HIDE DEF new
  <2>3. /\ cache' \in [Slots -> SlotType]
        /\ \A i \in Slots : cache'[i] = IF i = clock THEN new ELSE cache[i]
    BY <1>t, <2>1, <2>2
  <2>4. /\ \A i \in Slots : cache[i].valid => cache[i].key # KeyOf[counts]
        /\ \A b \in Builtins : BuiltinKey[b] # KeyOf[counts]
    BY <1>8 DEF SweepMisses, Generate
  <2>5. UniqueKeys'
    <3>1. ASSUME NEW i \in Slots, NEW j \in Slots, i # j, cache'[i].valid, cache'[j].valid
          PROVE  cache'[i].key # cache'[j].key
      <4>1. CASE i = clock
        BY <2>1, <2>3, <2>4, <3>1, <4>1
      <4>2. CASE j = clock
        BY <2>1, <2>3, <2>4, <3>1, <4>2
      <4>3. CASE i # clock /\ j # clock
        BY <2>3, <3>1, <4>3 DEF UniqueKeys
      <4> QED
        BY <4>1, <4>2, <4>3
    <3>2. ASSUME NEW i \in Slots, NEW b \in Builtins, cache'[i].valid
          PROVE  cache'[i].key # BuiltinKey[b]
      BY <2>1, <2>3, <2>4, <3>2 DEF UniqueKeys
    <3> QED
      BY <3>1, <3>2 DEF UniqueKeys
  <2>6. cache'[clock].valid /\ cache'[clock].table = Generated(counts)
    BY <1>t, <2>1, <2>3
  <2>7. LastUsedIntact' /\ last_used_entry' \in Entry
    BY <1>8, <1>t, <2>6, CachedChosen DEF Generate, Choose
  <2>8. dht' \in Table /\ counts' \in Counts
    BY <1>8, <1>t, DhtAssumption DEF Generate, Choose, Generated, Table
  <2>9. clock' = IF clock + 1 = NumSlots THEN 0 ELSE clock + 1
    BY <1>8, <1>t, HandIs DEF Generate, AdvanceHand
  <2>10. TypeOK'
    <3>1. clock' \in Slots
      BY <1>t, <2>9 DEF Slots
    <3> QED
      BY <1>8, <1>t, <2>3, <2>7, <2>8, <3>1 DEF TypeOK, SlotType, Generate, Choose
  <2>11. FilledInOrder'
    <3>1. CASE \A i \in Slots : cache[i].valid
      BY <2>1, <2>3, <3>1 DEF FilledInOrder
    <3>2. CASE \A i \in Slots : cache[i].valid <=> i < clock
      <4>1. \A i \in Slots : cache'[i].valid <=> i < clock + 1
        BY <1>t, <2>1, <2>3, <3>2 DEF Slots
      <4>2. CASE clock + 1 = NumSlots
        <5>1. \A i \in Slots : i < clock + 1
          BY <1>t, <4>2 DEF Slots
        <5>2. \A i \in Slots : cache'[i].valid
          BY <4>1, <5>1
        <5> QED
          BY <5>2 DEF FilledInOrder
      <4>3. CASE clock + 1 # NumSlots
        BY <2>9, <4>1, <4>3 DEF FilledInOrder
      <4> QED
        BY <4>2, <4>3
    <3> QED
      BY <3>1, <3>2 DEF FilledInOrder
  <2>12. SweepMisses' /\ BudgetCovers'
    BY <1>8, <1>t DEF SweepMisses, BudgetCovers, Generate, Choose
  <2> QED
    BY <2>5, <2>7, <2>10, <2>11, <2>12
<1>9. CASE CountedJob
  <2> PICK n \in JobBytes, c \in Counts : spbc' = n /\ counts' = c /\ since' = since + n
    BY <1>9 DEF CountedJob
  <2>0. spbc' \in Nat /\ since' \in Nat /\ counts' \in Counts /\ since' = since + spbc'
    BY <1>t, DhtAssumption
  <2>1. SameEntries /\ UniqueKeys' /\ FilledInOrder'
    BY <1>9, TablesUntouched DEF CountedJob, tabVars
  <2>2. LastUsedIntact'
    BY <1>9, <1>t, <2>1, LastKept DEF CountedJob, tabVars
  <2>3. TypeOK'
    BY <1>9, <2>0 DEF TypeOK, CountedJob, tabVars
  <2>4. SweepMisses' /\ BudgetCovers'
    BY <1>9, <1>t, <2>0 DEF SweepMisses, BudgetCovers, CountedJob, tabVars
  <2> QED
    BY <2>1, <2>2, <2>3, <2>4
<1>10. CASE NoJob
  <2>1. SameEntries /\ UniqueKeys' /\ FilledInOrder'
    BY <1>10, TablesUntouched DEF NoJob, tabVars
  <2>2. LastUsedIntact'
    BY <1>10, <1>t, <2>1, LastKept DEF NoJob, tabVars
  <2>3. TypeOK'
    BY <1>10, <1>t DEF TypeOK, NoJob, tabVars, jobVars
  <2>4. SweepMisses' /\ BudgetCovers'
    BY <1>10, <1>t DEF SweepMisses, BudgetCovers, NoJob, tabVars, jobVars
  <2> QED
    BY <2>1, <2>2, <2>3, <2>4
<1>11. CASE FailedJob
  <2>0. spbc' \in Nat
    BY <1>11, DhtAssumption DEF FailedJob
  <2>1. SameEntries /\ UniqueKeys' /\ FilledInOrder'
    BY <1>11, TablesUntouched DEF FailedJob, tabVars
  <2>2. LastUsedIntact'
    BY <1>11, <1>t, <2>1, LastKept DEF FailedJob, tabVars
  <2>3. TypeOK'
    BY <1>11, <2>0 DEF TypeOK, FailedJob, tabVars
  <2>4. SweepMisses' /\ BudgetCovers'
    BY <1>11, <1>t, <2>0 DEF SweepMisses, BudgetCovers, FailedJob, tabVars
  <2> QED
    BY <2>1, <2>2, <2>3, <2>4
<1>12. CASE FixedJob
  <2>1. SameEntries /\ UniqueKeys' /\ FilledInOrder'
    BY <1>12, TablesUntouched DEF FixedJob, tabVars
  <2>2. LastUsedIntact'
    BY <1>12, <1>t, <2>1, LastKept DEF FixedJob, tabVars
  <2>3. TypeOK'
    BY <1>12, <1>t DEF TypeOK, FixedJob, tabVars, jobVars
  <2>4. SweepMisses' /\ BudgetCovers'
    BY <1>12, <1>t DEF SweepMisses, BudgetCovers, FixedJob, tabVars, jobVars
  <2> QED
    BY <2>1, <2>2, <2>3, <2>4
<1>13. CASE StoredJob
  <2>1. SameEntries /\ UniqueKeys' /\ FilledInOrder'
    BY <1>13, TablesUntouched DEF StoredJob, tabVars
  <2>2. LastUsedIntact'
    BY <1>13, <1>t, <2>1, LastKept DEF StoredJob, tabVars
  <2>3. TypeOK'
    BY <1>13, <1>t DEF TypeOK, StoredJob, tabVars, jobVars
  <2>4. SweepMisses' /\ BudgetCovers'
    BY <1>13, <1>t DEF SweepMisses, BudgetCovers, StoredJob, tabVars, jobVars
  <2> QED
    BY <2>1, <2>2, <2>3, <2>4
<1>14. CASE SetDictionary
  <2>1. SameEntries /\ UniqueKeys' /\ FilledInOrder'
    BY <1>14, TablesUntouched DEF SetDictionary, tabVars
  <2>2. LastUsedIntact'
    BY <1>14, <1>t, <2>1, LastKept DEF SetDictionary, tabVars
  <2>3. TypeOK'
    BY <1>14, <1>t DEF TypeOK, SetDictionary, tabVars, jobVars
  <2>4. SweepMisses' /\ BudgetCovers'
    BY <1>14, <1>t DEF SweepMisses, BudgetCovers, SetDictionary, tabVars, jobVars
  <2> QED
    BY <2>1, <2>2, <2>3, <2>4
<1>15. CASE Reset
  <2>1. SameEntries /\ UniqueKeys' /\ FilledInOrder'
    BY <1>15, TablesUntouched DEF Reset, tabVars
  <2>2. LastUsedIntact'
    BY <1>15, <1>t, <2>1, LastKept DEF Reset, tabVars
  <2>3. TypeOK'
    BY <1>15, <1>t DEF TypeOK, Reset, tabVars, jobVars
  <2>4. SweepMisses' /\ BudgetCovers'
    BY <1>15, <1>t DEF SweepMisses, BudgetCovers, Reset, tabVars, jobVars
  <2> QED
    BY <2>1, <2>2, <2>3, <2>4
<1>16. CASE Copy
  <2> PICK new \in Tabs \ {tab} :
         /\ tab' = new
         /\ last_used_entry' = Relocated(last_used_entry, new)
    BY <1>16 DEF Copy
  <2>1. SameEntries /\ UniqueKeys' /\ FilledInOrder'
    BY <1>16, TablesUntouched DEF Copy
  <2>2. CASE last_used_entry = NULL
    <3>1. last_used_entry' = NULL
      BY <2>2 DEF Relocated
    <3> QED
      BY <1>16, <1>t, <2>1, <3>1 DEF Copy, TypeOK, jobVars, LastUsedIntact,
                                   SweepMisses, BudgetCovers
  <2>3. CASE last_used_entry # NULL
    <3>1. last_used_entry \in Entry
      BY <1>t, <2>3
    <3>2. last_used_entry.home \in {"builtin", tab} /\ dht = TableAt(last_used_entry)
      BY <2>3 DEF LastUsedIntact
    <3>3. last_used_entry' \in Entry /\ LastUsedIntact'
      <4>1. CASE last_used_entry.home = "builtin"
        <5>1. last_used_entry.idx \in Builtins /\ last_used_entry.home # tab
          BY <1>t, <3>1, <4>1, EntryIs DEF Tabs
        <5>2. last_used_entry' = last_used_entry
          BY <5>1 DEF Relocated
        <5>3. TableAt(last_used_entry)' = TableAt(last_used_entry)
          BY <4>1, <5>2 DEF TableAt, BuiltinTable
        <5>4. last_used_entry'.home = "builtin" /\ tab' # "builtin" /\ dht' = dht
          BY <1>16, <4>1, <5>2 DEF Copy, Tabs
        <5> QED
          BY <3>1, <3>2, <5>2, <5>3, <5>4 DEF LastUsedIntact
      <4>2. CASE last_used_entry.home = tab
        <5>1. /\ last_used_entry.idx \in Slots
              /\ last_used_entry \in [home : Tabs, idx : Slots]
              /\ cache[last_used_entry.idx].valid
              /\ last_used_entry.home # "builtin"
          BY <1>t, <2>3, <3>1, <4>2 DEF Entry, Tabs, LastUsedIntact
        <5>2. last_used_entry' = [last_used_entry EXCEPT !.home = new]
          BY <2>3, <4>2 DEF Relocated
        <5>3. /\ last_used_entry'.home = new
              /\ last_used_entry'.idx = last_used_entry.idx
              /\ last_used_entry' \in Entry
              /\ new # "builtin"
          BY <5>1, <5>2 DEF Entry, Tabs
        <5>4. cache' = cache /\ dht' = dht
          BY <1>16 DEF Copy
        <5>5. TableAt(last_used_entry) = cache[last_used_entry.idx].table
          BY <5>1 DEF TableAt
        <5>6. TableAt(last_used_entry)' = cache[last_used_entry.idx].table
          BY <5>3, <5>4 DEF TableAt
        <5> QED
          BY <3>2, <5>1, <5>3, <5>4, <5>5, <5>6 DEF LastUsedIntact
      <4> QED
        BY <3>2, <4>1, <4>2
    <3>4. TypeOK'
      BY <1>16, <3>3 DEF TypeOK, Copy, jobVars
    <3>5. SweepMisses' /\ BudgetCovers'
      BY <1>16 DEF SweepMisses, BudgetCovers, Copy, jobVars
    <3> QED
      BY <2>1, <3>3, <3>4, <3>5
  <2> QED
    BY <2>2, <2>3
<1>17. CASE UNCHANGED vars
  <2>1. SameEntries /\ UniqueKeys' /\ FilledInOrder'
    BY <1>17, TablesUntouched DEF vars, tabVars
  <2>2. LastUsedIntact'
    BY <1>17, <1>t, <2>1, LastKept DEF vars, tabVars
  <2>3. TypeOK'
    BY <1>17 DEF TypeOK, vars, tabVars, jobVars
  <2>4. SweepMisses' /\ BudgetCovers'
    BY <1>17 DEF SweepMisses, BudgetCovers, vars, tabVars, jobVars
  <2> QED
    BY <2>1, <2>2, <2>3, <2>4
<1> QED
  BY <1>1, <1>2, <1>3, <1>4, <1>5, <1>6, <1>7, <1>8, <1>9, <1>10, <1>11, <1>12, <1>13, <1>14, <1>15, <1>16, <1>17
  DEF Next, Lookup, Sweep, Job, Call

-----------------------------------------------------------------------------
\* It holds in every reachable state.
THEOREM Invariance == Spec => []IInv
<1>1. Init => IInv
  BY InitHolds
<1>2. IInv /\ [Next]_vars => IInv'
  BY Inductive
<1> QED
  BY <1>1, <1>2, PTL DEF Spec

\* Every variable keeps its type; in particular the hand stays in the table.
THEOREM TypeCorrect == Spec => []TypeOK
<1>1. IInv => TypeOK
  BY DEF IInv
<1> QED
  BY <1>1, Invariance, PTL

\* dht_lookup never caches two tables under one key, nor a built-in one again.
THEOREM KeysAreUnique == Spec => []UniqueKeys
<1>1. IInv => UniqueKeys
  BY DEF IInv
<1> QED
  BY <1>1, Invariance, PTL

\* last_used_entry always points at the table in the command block, also in
\* the copy that deflateCopy makes.
THEOREM LastIsIntact == Spec => []LastUsedIntact
<1>1. IInv => LastUsedIntact
  BY DEF IInv
<1> QED
  BY <1>1, Invariance, PTL

\* No table codes another block after DHT_NUM_SRC_BYTES of source.
THEOREM ReuseIsBounded == Spec => []ReuseBounded
<1>1. IInv => ReuseBounded
  BY DEF IInv, BudgetCovers, ReuseBounded
<1> QED
  BY <1>1, Invariance, PTL

\* A table that is thrown away is the one under the hand.
LEMMA OnlyGenerateOverwrites ==
  ASSUME IInv, Next, NEW i \in Slots, Overwritten(i)
  PROVE  Generate /\ i = clock
<1>1. cache \in [Slots -> SlotType] /\ clock \in Slots
  BY TypeFacts DEF IInv
<1>2. Generate => i = clock
  BY <1>1 DEF Generate, Overwritten
<1>3. ASSUME SameEntries PROVE FALSE
  BY <1>3 DEF SameEntries, Overwritten
<1>4. ASSUME ~Generate PROVE FALSE
  <2>1. CASE SweepPast
    <3>1. cache[clock].valid
      BY <1>1, <2>1, SlotFacts DEF SweepPast
    <3>2. SameEntries
      BY <1>1, <2>1, <3>1, AccessIs DEF SweepPast, ClearAccess
    <3> QED
      BY <1>3, <3>2
  <2>2. CASE ReuseLast
    <3>1. CASE cache' = cache
      BY <1>3, <3>1 DEF SameEntries
    <3>2. CASE last_used_entry.home # "builtin"
      <4>1. last_used_entry \in Entry
        BY <2>2, TypeFacts DEF IInv, ReuseLast
      <4>2. last_used_entry.idx \in Slots /\ cache[last_used_entry.idx].valid
        BY <2>2, <3>2, <4>1, EntryIs DEF IInv, ReuseLast, LastUsedIntact
      <4>3. cache' = [cache EXCEPT ![last_used_entry.idx].accessed = TRUE]
        BY <2>2, <3>2 DEF ReuseLast, SetAccess
      <4>4. SameEntries
        BY <1>1, <4>2, <4>3, AccessIs
      <4> QED
        BY <1>3, <4>4
    <3> QED
      BY <2>2, <3>1, <3>2 DEF ReuseLast
  <2>3. ASSUME NEW k \in Slots, SearchCache(k) PROVE FALSE
    <3>1. cache[k].valid
      BY <2>3 DEF SearchCache, FirstFrom, CacheHits, Matches
    <3>2. SameEntries
      BY <1>1, <2>3, <3>1, AccessIs DEF SearchCache, SetAccess
    <3> QED
      BY <1>3, <3>2
  <2>4. CASE cache' = cache
    BY <1>3, <2>4 DEF SameEntries
  <2>5. Next => \/ Generate \/ SweepPast \/ ReuseLast
                \/ \E k \in Slots : SearchCache(k)
                \/ cache' = cache
    BY DEF Next, Lookup, Sweep, Job, Call, LookupDefault, Abort, SearchBuiltin,
           SearchFails, CountedJob, NoJob, FailedJob, FixedJob, StoredJob,
           SetDictionary, Reset, Copy, tabVars
  <2> QED
    BY <1>4, <2>1, <2>2, <2>3, <2>4, <2>5
<1> QED
  BY <1>2, <1>4

\* No generated table is thrown away while a slot has never been used.
THEOREM FillsBeforeEvicting == Spec => [][UnusedSlotsFirst]_vars
<1>1. IInv /\ [Next]_vars => [UnusedSlotsFirst]_vars
  <2> SUFFICES ASSUME IInv, Next, NEW i \in Slots, Overwritten(i)
               PROVE  \A j \in Slots : cache[j].valid
    BY DEF UnusedSlotsFirst
  <2>1. cache[clock].valid
    BY OnlyGenerateOverwrites DEF Overwritten
  <2> QED
    BY <2>1, TypeFacts DEF IInv, FilledInOrder, Slots
<1> QED
  BY <1>1, Invariance, PTL DEF Spec

\* Between start and the hand, round the table.
Swept(start) ==
  IF start <= clock THEN {j \in Slots : start <= j /\ j < clock}
                    ELSE {j \in Slots : start <= j \/ j < clock}

\* Until the hand has come round, it has passed accessed slots only, and taken
\* their bits; the others are as the sweep found them.
SweepInv ==
  pc = "sweep" =>
    \/ accessed0 = Slots
    \/ \E start \in Slots : \A j \in Slots :
         IF j \in Swept(start) THEN j \in accessed0 /\ ~cache[j].accessed
                              ELSE (cache[j].accessed <=> j \in accessed0)

LEMMA SweepKept == ASSUME IInv, SweepInv, [Next]_vars PROVE SweepInv'
<1>1. cache \in [Slots -> SlotType] /\ clock \in Slots /\ accessed0 \in SUBSET Slots
  BY TypeFacts DEF IInv, TypeOK
<1>2. CASE SearchFails
  <2>1. cache' = cache /\ clock' = clock /\ accessed0' = {j \in Slots : cache[j].accessed}
    BY <1>2 DEF SearchFails
  <2>2. Swept(clock)' = {}
    BY <1>1, <2>1, DhtAssumption DEF Swept, Slots
  <2>3. \A j \in Slots : cache'[j].accessed <=> j \in accessed0'
    BY <1>1, <2>1, SlotFacts
  <2> QED
    BY <1>1, <2>1, <2>2, <2>3 DEF SweepInv
<1>3. CASE SweepPast
  <2>1. /\ pc = "sweep" /\ cache[clock].accessed /\ accessed0' = accessed0
        /\ cache' = [cache EXCEPT ![clock].accessed = FALSE]
        /\ clock' = (clock + 1) % NumSlots
    BY <1>3 DEF SweepPast, ClearAccess, AdvanceHand
  <2>2. CASE accessed0 = Slots
    BY <2>1, <2>2 DEF SweepInv
  <2>3. CASE accessed0 # Slots
    <3>1. PICK start \in Slots : \A j \in Slots :
            IF j \in Swept(start) THEN j \in accessed0 /\ ~cache[j].accessed
                                 ELSE (cache[j].accessed <=> j \in accessed0)
      BY <2>1, <2>3 DEF SweepInv
    <3>2. /\ clock \in Nat /\ start \in Nat /\ clock < NumSlots /\ start < NumSlots /\ NumSlots \in Nat
          /\ \A j \in Slots : j \in Nat /\ j < NumSlots
      BY <1>1, DhtAssumption DEF Slots
    <3>3. clock \notin Swept(start)
      BY <3>2 DEF Swept
    <3>4. clock \in accessed0
      BY <1>1, <2>1, <3>1, <3>3
    <3>5. clock' = IF clock + 1 = NumSlots THEN 0 ELSE clock + 1
      BY <1>1, <2>1, HandIs
    <3>6. clock' # start
      <4>1. ASSUME clock' = start, NEW j \in Slots, j # clock PROVE j \in Swept(start)
        <5>1. CASE clock + 1 = NumSlots
          <6>1. start = 0
            BY <3>5, <4>1, <5>1
          <6> QED
            BY <3>2, <4>1, <5>1, <6>1 DEF Swept
        <5>2. CASE clock + 1 # NumSlots
          <6>1. start = clock + 1
            BY <3>5, <4>1, <5>2
          <6> QED
            BY <3>2, <4>1, <6>1 DEF Swept
        <5> QED
          BY <5>1, <5>2
      <4>2. clock' = start => Slots \subseteq accessed0
        BY <3>1, <3>4, <4>1
      <4> QED
        BY <1>1, <2>3, <4>2
    <3>7. \A j \in Slots : j \in Swept(start)' <=> (j \in Swept(start) \/ j = clock)
      <4> SUFFICES ASSUME NEW j \in Slots
                   PROVE  j \in Swept(start)' <=> (j \in Swept(start) \/ j = clock)
        OBVIOUS
      <4> DEFINE c == clock'
      <4>1. Swept(start)' = IF start <= c THEN {k \in Slots : start <= k /\ k < c}
                                          ELSE {k \in Slots : start <= k \/ k < c}
        BY DEF Swept
      <4>2. c = (IF clock + 1 = NumSlots THEN 0 ELSE clock + 1) /\ c # start
        BY <3>5, <3>6
      <4> HIDE DEF c
      <4> QED
        BY <3>2, <4>1, <4>2 DEF Swept
    <3>8. /\ \A j \in Slots : j # clock => cache'[j] = cache[j]
          /\ ~cache'[clock].accessed
      <4>1. cache[clock] \in UsedSlot
        BY <1>1, <2>1, SlotFacts
      <4>2. [cache[clock] EXCEPT !.accessed = FALSE].accessed = FALSE
        BY <4>1 DEF UsedSlot
      <4>3. cache' = [cache EXCEPT ![clock] = [cache[clock] EXCEPT !.accessed = FALSE]]
        BY <2>1
      <4> QED
        BY <1>1, <4>2, <4>3
    <3>9. \A j \in Slots :
            IF j \in Swept(start)' THEN j \in accessed0' /\ ~cache'[j].accessed
                                  ELSE (cache'[j].accessed <=> j \in accessed0')
      BY <2>1, <3>1, <3>4, <3>7, <3>8
    <3> QED
      BY <3>9 DEF SweepInv
  <2> QED
    BY <2>2, <2>3
<1>4. CASE Generate
  BY <1>4 DEF Generate, Choose, SweepInv
<1>5. ASSUME pc' # "sweep" PROVE SweepInv'
  BY <1>5 DEF SweepInv
<1>6. CASE UNCHANGED vars
  BY <1>6 DEF vars, tabVars, SweepInv, Swept
<1>7. ASSUME Next, ~SearchFails, ~SweepPast PROVE pc' # "sweep"
  BY <1>7 DEF Next, Lookup, Sweep, Job, Call, LookupDefault, ReuseLast, Abort, SearchCache,
       SearchBuiltin, Generate, CountedJob, NoJob, FailedJob, FixedJob, StoredJob,
       SetDictionary, Reset, Copy, Choose, Searching, GivesUpLast
<1> QED
  BY <1>2, <1>3, <1>5, <1>6, <1>7

\* The table of dht_lookup5 gives a second chance: the entry thrown away was not
\* accessed since the sweep before, unless all were, and no slot was unused.
THEOREM EvictsUnused == Spec => VictimUnused
<1>1. Init => SweepInv
  BY DEF Init, SweepInv
<1>2. IInv /\ SweepInv /\ [Next]_vars => SweepInv'
  BY SweepKept
<1>3. IInv /\ SweepInv /\ [Next]_vars => [SecondChance]_vars
  <2> SUFFICES ASSUME IInv, SweepInv, Next, NEW i \in Slots, Overwritten(i), i \in accessed0
               PROVE  accessed0 = Slots
    BY DEF SecondChance
  <2>1. i = clock /\ pc = "sweep" /\ ~cache[clock].accessed
    BY OnlyGenerateOverwrites DEF Generate, VictimFound
  <2>2. \A start \in Slots : clock \notin Swept(start)
    BY <2>1, DhtAssumption DEF Swept, Slots
  <2> QED
    BY <2>1, <2>2 DEF SweepInv
<1>4. [UnusedSlotsFirst]_vars /\ [SecondChance]_vars => [UnusedSlotsFirst /\ SecondChance]_vars
  OBVIOUS
<1>5. Spec => [](IInv /\ SweepInv)
  BY <1>1, <1>2, Invariance, PTL DEF Spec
<1> QED
  BY <1>3, <1>4, <1>5, FillsBeforeEvicting, PTL DEF Spec, VictimUnused
=============================================================================
