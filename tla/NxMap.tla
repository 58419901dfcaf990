-------------------------------- MODULE NxMap --------------------------------
(***************************************************************************)
(* The map of lib/nx_map.c, from the address of a z_stream to the states   *)
(* libnxz and zlib keep for it: open addressing with linear probing, an    *)
(* array that doubles, one read-write lock.                                *)
(*                                                                         *)
(* Every operation reads size and array before it takes the lock.          *)
(***************************************************************************)
EXTENDS Integers, FiniteSets

CONSTANTS
  Keys,      \* addresses of z_streams; a stream is used by one thread at a time
  Vals,      \* struct stream_map_entry pointers
  NULL,      \* no key, no value, no array, nobody
  Hash,      \* Hash[k]: the hash of the key, before the modulo
  InitSize,  \* MAP_INIT_SIZE
  MaxSize    \* bound: calloc fails for more slots than this

Slot == [key : Keys \cup {NULL}, val : Vals \cup {NULL}]

ASSUME MapAssumption ==
  /\ NULL \notin Keys \cup Vals
  /\ Hash \in [Keys -> Nat]
  /\ InitSize \in Nat \ {0}
  /\ MaxSize \in Nat
  /\ \A n \in 1..(InitSize + MaxSize) : NULL \notin [0..n - 1 -> Slot]

VARIABLES
  \* struct map
  size, nb_entries,
  array,       \* a function on slots, or NULL for a moment when calloc fails
  writer,      \* the key of the thread that holds rwlock for writing, or NULL
  \* what the writer holds
  old_array,
  \* by key: where its thread is, and its locals
  pc,
  idx,         \* i, from get_index
  val,         \* the value to put
  ret,
  \* history
  disturbed    \* keys whose operation ran while a put was out of memory

mapVars == <<size, nb_entries, array>>
vars == <<mapVars, writer, old_array, pc, idx, val, ret, disturbed>>

EmptySlot == [key |-> NULL, val |-> NULL]
EmptyArray(n) == [i \in 0..(n - 1) |-> EmptySlot]

get_index(k, n) == Hash[k] % n

-----------------------------------------------------------------------------
\* The slots a scan visits, one for each of n steps: up from i, round at n.
ProbeAt(i, n) == [c \in 1..n |-> IF i < n THEN (i + c - 1) % n
                                 ELSE IF c = 1 THEN i ELSE c - 2]

\* The first visited slot that has the key, or -1.  A slot beyond the array
\* holds some other memory, which is not the key.
StopsAtHole(a, i, n, k) ==
  LET p == ProbeAt(i, n)
      hits == {c \in 1..n : p[c] \in DOMAIN a /\ a[p[c]].key = k
                 /\ \A d \in 1..c : p[d] \in DOMAIN a => a[p[d]].key # NULL}
  IN  IF hits = {} THEN -1 ELSE p[CHOOSE c \in hits : \A d \in hits : c <= d]

Find(a, i, n, k) ==
  LET p == ProbeAt(i, n)
      hits == {c \in 1..n : p[c] \in DOMAIN a /\ a[p[c]].key = k}
  IN  IF hits = {} THEN -1 ELSE p[CHOOSE c \in hits : \A d \in hits : c <= d]

\* insert_entry: the first free slot, or the one the scan comes back to.
FreeSlot(a, n, k) ==
  LET f == Find(a, get_index(k, n), n, NULL)
  IN  IF f = -1 THEN get_index(k, n) ELSE f

insert_entry(a, n, entry) == [a EXCEPT ![FreeSlot(a, n, entry.key)] = entry]

\* rehash_entries: the old entries in the order of their slots.
rehash_entries(a, n, new) ==
  LET moved[j \in 0..n] ==
        IF j = 0 THEN EmptyArray(new)
        ELSE IF a[j - 1].key = NULL THEN moved[j - 1]
        ELSE insert_entry(moved[j - 1], new, a[j - 1])
  IN  moved[n]

Occupied(a) == {i \in DOMAIN a : a[i].key # NULL}

-----------------------------------------------------------------------------
\* nx_map_init, when the library is loaded.
Init ==
  /\ size = InitSize
  /\ nb_entries = 0
  /\ array = EmptyArray(InitSize)
  /\ writer = NULL
  /\ old_array = NULL
  /\ pc = [k \in Keys |-> "idle"]
  /\ idx = [k \in Keys |-> 0]
  /\ val = [k \in Keys |-> NULL]
  /\ ret = [k \in Keys |-> NULL]
  /\ disturbed = {}

Goto(k, l) == pc' = [pc EXCEPT ![k] = l]

Running == {k \in Keys : pc[k] # "idle"}
Failing == {k \in Keys : pc[k] = "restore"}

Return(k, r) ==
  /\ Goto(k, "idle")
  /\ ret' = [ret EXCEPT ![k] = r]
  /\ idx' = [idx EXCEPT ![k] = 0]
  /\ val' = [val EXCEPT ![k] = NULL]
  /\ disturbed' = disturbed \ {k}

\* What the map holds: the writer that grows it sees its entries in old_array.
Table == IF old_array # NULL THEN old_array ELSE array

Stored(k) == \E i \in DOMAIN Table : Table[i].key = k

-----------------------------------------------------------------------------
\* A thread calls nx_map_get, nx_map_remove or nx_map_put.  A stream is put
\* when it is initialised and removed when it ends, so never put twice.
Call(k) ==
  /\ pc[k] = "idle"
  /\ \/ \E l \in {"get", "remove"} :
          Goto(k, l) /\ UNCHANGED val
     \/ /\ ~Stored(k)
        /\ Goto(k, "put")
        /\ \E v \in Vals : val' = [val EXCEPT ![k] = v]
  /\ disturbed' = IF Failing = {} THEN disturbed ELSE disturbed \cup {k}
  /\ UNCHANGED <<mapVars, writer, old_array, idx, ret>>

\* The test before the lock: no array, the call fails.
Uninitialized(k) ==
  /\ pc[k] \in {"get", "remove", "put"}
  /\ array = NULL
  /\ Return(k, IF pc[k] = "put" THEN "failed" ELSE NULL)
  /\ UNCHANGED <<mapVars, writer, old_array>>

\* The index is computed with the size of this moment, before the lock.
GetIndex(k) ==
  /\ pc[k] \in {"get", "remove"}
  /\ array # NULL
  /\ idx' = [idx EXCEPT ![k] = get_index(k, size)]
  /\ Goto(k, IF pc[k] = "get" THEN "getscan" ELSE "removescan")
  /\ UNCHANGED <<mapVars, writer, old_array, val, ret, disturbed>>

\* The scan of nx_map_get, under the read lock.
GetScan(k) ==
  LET f == Find(array, idx[k], size, k) IN
  /\ pc[k] = "getscan"
  /\ writer = NULL
  /\ Return(k, IF f = -1 THEN NULL ELSE array[f].val)
  /\ UNCHANGED <<mapVars, writer, old_array>>

\* The scan of nx_map_remove, under the write lock.
RemoveScan(k) ==
  LET f == Find(array, idx[k], size, k) IN
  /\ pc[k] = "removescan"
  /\ writer = NULL
  /\ IF f = -1
       THEN /\ Return(k, NULL)
            /\ UNCHANGED <<array, nb_entries>>
       ELSE /\ Return(k, array[f].val)
            /\ array' = [array EXCEPT ![f] = EmptySlot]
            /\ nb_entries' = nb_entries - 1
  /\ UNCHANGED <<size, writer, old_array>>

-----------------------------------------------------------------------------
\* nx_map_put, once past the test for the array.
PutCheck(k) ==
  /\ pc[k] = "put"
  /\ array # NULL
  /\ Goto(k, "putlock")
  /\ UNCHANGED <<mapVars, writer, old_array, idx, val, ret, disturbed>>

MustGrow == nb_entries >= size \div 2

PutInsert(k) ==
  /\ pc[k] = "putlock"
  /\ writer = NULL
  /\ ~MustGrow
  /\ array' = insert_entry(array, size, [key |-> k, val |-> val[k]])
  /\ nb_entries' = nb_entries + 1
  /\ Return(k, "ok")
  /\ UNCHANGED <<size, writer, old_array>>

\* Under the write lock size doubles before the new array is there.
PutGrow(k) ==
  /\ pc[k] = "putlock"
  /\ writer = NULL
  /\ MustGrow
  /\ writer' = k
  /\ old_array' = array
  /\ size' = 2 * size
  /\ Goto(k, "calloc")
  /\ UNCHANGED <<nb_entries, array, idx, val, ret, disturbed>>

\* The new array gets the old entries and the new one; insert_entry counts
\* them all.  The old array is not freed.
GrowOk(k) ==
  LET old_size == size \div 2 IN
  /\ pc[k] = "calloc"
  /\ size <= MaxSize
  /\ array' = insert_entry(rehash_entries(old_array, old_size, size), size,
                           [key |-> k, val |-> val[k]])
  /\ nb_entries' = nb_entries + Cardinality(Occupied(old_array)) + 1
  /\ old_array' = NULL
  /\ writer' = NULL
  /\ Return(k, "ok")
  /\ UNCHANGED size

\* calloc fails: m->array is NULL for a moment ...
CallocFails(k) ==
  /\ pc[k] = "calloc"
  /\ array' = NULL
  /\ Goto(k, "restore")
  /\ disturbed' = disturbed \cup (Running \ {k})
  /\ UNCHANGED <<size, nb_entries, writer, old_array, idx, val, ret>>

\* ... and array and size are put back.
OldSize == size \div 2

Restore(k) ==
  /\ pc[k] = "restore"
  /\ array' = old_array
  /\ size' = OldSize
  /\ old_array' = NULL
  /\ writer' = NULL
  /\ Return(k, "failed")
  /\ UNCHANGED nb_entries

-----------------------------------------------------------------------------
Next ==
  \E k \in Keys :
    \/ Call(k) \/ Uninitialized(k)
    \/ GetIndex(k) \/ GetScan(k) \/ RemoveScan(k)
    \/ PutCheck(k) \/ PutInsert(k) \/ PutGrow(k)
    \/ GrowOk(k) \/ CallocFails(k) \/ Restore(k)

Spec == Init /\ [][Next]_vars

-----------------------------------------------------------------------------
\* The array has as many slots as size says, except while a put grows it.
TypeOK ==
  /\ size \in Nat \ {0} /\ nb_entries \in Nat
  /\ writer \in Keys \cup {NULL}
  /\ IF writer = NULL THEN array \in [0..size - 1 -> Slot] /\ old_array = NULL
                      ELSE /\ old_array \in [0..OldSize - 1 -> Slot] /\ OldSize # 0
                           /\ size = 2 * OldSize /\ array \in {old_array, NULL}
  /\ pc \in [Keys -> {"idle", "get", "getscan", "remove", "removescan",
                      "put", "putlock", "calloc", "restore"}]
  /\ idx \in [Keys -> Nat]
  /\ val \in [Keys -> Vals \cup {NULL}]
  /\ ret \in [Keys -> Vals \cup {NULL, "ok", "failed"}]
  /\ disturbed \subseteq Keys

\* What is stored for each key.
Content ==
  [k \in Keys |-> IF Stored(k) THEN Table[CHOOSE i \in DOMAIN Table : Table[i].key = k].val
                               ELSE NULL]

\* The map is a StreamMap: every operation takes effect at once, wherever
\* its index was computed and whatever grew in between.
Map == INSTANCE StreamMap WITH content <- Content, running <- Running, failing <- Failing

ImplementsStreamMap == Map!MSpec
=============================================================================
