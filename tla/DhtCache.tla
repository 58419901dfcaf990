------------------------------ MODULE DhtCache ------------------------------
(***************************************************************************)
(* The dynamic Huffman tables (DHTs) of one deflate stream, lib/nx_dht.c.  *)
(* Before each block nx_deflate asks for a table: the last one while its   *)
(* budget of source bytes lasts, else a cached or a built-in one with the  *)
(* same two most frequent symbols as the last counted block, else a new    *)
(* one, which takes the place of a slot found with the clock algorithm.    *)
(*                                                                         *)
(* The counts of a block are opaque: all that matters is their key, the    *)
(* two top symbols, and that a table is made from them.  The library is    *)
(* built without DHT_ATOMICS, so the locks of the entries are void.        *)
(***************************************************************************)
EXTENDS Integers

CONSTANTS
  NumSlots,    \* DHT_NUM_MAX
  NumBuiltin,  \* DHT_NUM_BUILTIN
  BuiltinKey,  \* the top litlens of each built-in table
  Counts,      \* symbol counts of a block; also the table made from them
  NoCounts,    \* the counts of a command block that never ran: all zero
  KeyOf,       \* KeyOf[c]: the two top symbols of c, as dht_sort finds them
  Left,        \* Left[c]: what generating a table from c makes of c
  Budget,      \* DHT_NUM_SRC_BYTES
  JobBytes,    \* bound: source bytes a job may take
  NULL

Slots == 0..(NumSlots - 1)
Builtins == 0..(NumBuiltin - 1)
Tabs == {"tab1", "tab2"}

ASSUME DhtAssumption ==
  /\ NumSlots \in Nat \ {0}
  /\ NumBuiltin \in Nat \ {0}
  /\ NoCounts \in Counts
  /\ Left \in [Counts -> Counts]
  /\ JobBytes \subseteq Nat
  /\ Budget \in Nat \ {0}
  \* a pointer to an entry: which table it is in, and where
  /\ NULL \notin [home : Tabs \cup {"builtin"}, idx : Slots \cup Builtins]

VARIABLES
  \* dht_tab_t
  cache, clock, last_cache_idx, last_used_builtin_idx, last_used_entry,
  nbytes_accumulated,
  tab,        \* which allocation this dht_tab_t is: deflateCopy makes another
  \* the stream
  first,      \* invoke_cnt = 0
  dict,       \* dict_len > 0
  pc,         \* idle, sweep and job are inside one deflate block; aborted
  \* the command block
  fc,         \* function code of the last job
  spbc,       \* source bytes of the last counted job, without history
  counts,     \* out_lzcount
  dht,        \* in_dht: the table the next job codes with
  \* history
  since,      \* source bytes coded with dht since it was chosen
  accessed0   \* during a sweep, the slots in use when it began

tabVars == <<cache, clock, last_cache_idx, last_used_builtin_idx,
             last_used_entry, nbytes_accumulated>>
jobVars == <<fc, spbc, counts>>
vars == <<tabVars, tab, first, dict, pc, jobVars, dht, since, accessed0>>

-----------------------------------------------------------------------------
(* Entries and tables.  A table is the counts it was made from, or a       *)
(* built-in one.                                                           *)

Cached(i) == [home |-> tab, idx |-> i]
Builtin(b) == [home |-> "builtin", idx |-> b]
Generated(c) == [made |-> "dhtgen", from |-> c]
BuiltinTable(b) == [made |-> "builtin", from |-> b]
TableAt(p) == IF p.home = "builtin" THEN BuiltinTable(p.idx) ELSE cache[p.idx].table

EmptySlot == [valid |-> FALSE, accessed |-> FALSE,
              key |-> NULL, table |-> NULL]

\* dht_begin5, called by deflateInit for a zeroed stream
Init ==
  /\ cache = [i \in Slots |-> EmptySlot]
  /\ clock = 0
  /\ last_cache_idx = -1
  /\ last_used_builtin_idx = -1
  /\ last_used_entry = NULL
  /\ nbytes_accumulated = 0
  /\ tab = "tab1"
  /\ first = TRUE
  /\ dict = FALSE
  /\ pc = "idle"
  /\ fc = "none" /\ spbc = 0 /\ counts = NoCounts
  /\ dht = NULL
  /\ since = 0
  /\ accessed0 = {}

-----------------------------------------------------------------------------
(* dht_use_last                                                            *)

\* What the last job took from the source.  A raw copy (WRAP) has neither
\* of the function codes the code looks for.
source_bytes == IF fc = "DHT_COUNT" THEN spbc ELSE 0
accumulated == nbytes_accumulated + source_bytes

QuitsReuse == source_bytes = 0 \/ accumulated >= Budget

\* dht_search_req: from the second block of the stream on
Searching == pc = "idle" /\ ~first

\* assert(0): the last job made no counts, and the table is still in use
AssertFails == last_used_entry # NULL /\ fc = "FHT"

\* The search goes on to the caches: there is no last table, or it is given up.
GivesUpLast == Searching /\ ~AssertFails /\ (last_used_entry = NULL \/ QuitsReuse)
RestartBudget ==
  nbytes_accumulated' =
    IF last_used_entry = NULL THEN nbytes_accumulated ELSE source_bytes

\* (mutant) the access bit is never cleared
KeepAccess(i) == cache' = [cache EXCEPT ![i].accessed = TRUE]
ClearAccess(i) == cache' = [cache EXCEPT ![i].accessed = FALSE]
SetAccess(i) == cache' = [cache EXCEPT ![i].accessed = TRUE]

ReuseLast ==
  /\ Searching
  /\ last_used_entry # NULL
  /\ ~AssertFails
  /\ ~QuitsReuse
  /\ nbytes_accumulated' = accumulated
  /\ dht' = TableAt(last_used_entry)
  /\ IF last_used_entry.home = "builtin" THEN UNCHANGED cache
                                         ELSE SetAccess(last_used_entry.idx)
  /\ pc' = "job"
  /\ UNCHANGED <<clock, last_cache_idx, last_used_builtin_idx, last_used_entry,
                 tab, first, dict, jobVars, since, accessed0>>

Abort ==
  /\ Searching
  /\ AssertFails
  /\ pc' = "aborted"
  /\ UNCHANGED <<tabVars, tab, first, dict, jobVars, dht, since, accessed0>>

-----------------------------------------------------------------------------
(* dht_lookup5                                                             *)

\* The table is chosen: p is its entry, t the table.
Choose(p, t) ==
  /\ last_used_entry' = p
  /\ dht' = t
  /\ since' = 0
  /\ pc' = "job"

\* dht_default_req, for the first block
LookupDefault ==
  /\ pc = "idle" /\ first
  /\ Choose(Builtin(0), BuiltinTable(0))
  /\ UNCHANGED <<cache, clock, last_cache_idx, last_used_builtin_idx,
                 nbytes_accumulated, tab, first, dict, jobVars, accessed0>>

Matches(i) == cache[i].valid /\ cache[i].key = KeyOf[counts]
\* (mutant) the loop ends one slot early
CacheHitsButOne == {i \in Slots : Matches(i) /\ (i + 1) % NumSlots # last_cache_idx}
CacheHits == {i \in Slots : Matches(i)}
BuiltinHits == {b \in Builtins : BuiltinKey[b] = KeyOf[counts]}

\* The first of hits met from the index used last on, round a table of n.
FirstFrom(last, n, hits) ==
  LET start == IF last < 0 THEN 0 ELSE last
      From(i) == (i - start) % n
  IN  {i \in hits : \A j \in hits : From(i) <= From(j)}

SearchCache(i) ==
  /\ GivesUpLast
  /\ i \in FirstFrom(last_cache_idx, NumSlots, CacheHits)
  /\ RestartBudget
  /\ Choose(Cached(i), cache[i].table)
  /\ SetAccess(i)
  /\ last_cache_idx' = i
  /\ UNCHANGED <<clock, last_used_builtin_idx, tab, first, dict, jobVars, accessed0>>

SearchBuiltin(b) ==
  /\ GivesUpLast
  /\ CacheHits = {}
  /\ b \in FirstFrom(last_used_builtin_idx, NumBuiltin, BuiltinHits)
  /\ RestartBudget
  /\ Choose(Builtin(b), BuiltinTable(b))
  /\ last_used_builtin_idx' = b
  /\ UNCHANGED <<cache, clock, last_cache_idx, tab, first, dict, jobVars, accessed0>>

SearchFails ==
  /\ GivesUpLast
  /\ CacheHits = {}
  /\ BuiltinHits = {}
  /\ RestartBudget
  /\ last_used_entry' = NULL
  /\ accessed0' = {i \in Slots : cache[i].accessed}
  /\ pc' = "sweep"
  /\ since' = 0
  /\ UNCHANGED <<cache, clock, last_cache_idx, last_used_builtin_idx,
                 tab, first, dict, jobVars, dht>>

AdvanceHand == clock' = (clock + 1) % NumSlots

SweepPast ==
  /\ pc = "sweep"
  /\ cache[clock].accessed
  /\ ClearAccess(clock)
  /\ AdvanceHand
  /\ UNCHANGED <<last_cache_idx, last_used_builtin_idx, last_used_entry,
                 nbytes_accumulated, tab, first, dict, pc, jobVars, dht, since,
                 accessed0>>

\* (mutant) any slot will do
AnyVictim == TRUE
VictimFound == ~cache[clock].accessed

Generate ==
  /\ pc = "sweep"
  /\ VictimFound
  /\ cache' = [cache EXCEPT ![clock] =
       [valid |-> TRUE, accessed |-> TRUE,
        key |-> KeyOf[counts], table |-> Generated(counts)]]
  /\ last_cache_idx' = clock
  /\ Choose(Cached(clock), Generated(counts))
  /\ counts' = Left[counts]
  /\ AdvanceHand
  /\ accessed0' = {}
  /\ UNCHANGED <<last_used_builtin_idx, nbytes_accumulated, tab, first, dict,
                 fc, spbc>>

-----------------------------------------------------------------------------
(* nx_deflate: the job of the block                                        *)

\* A block with the table just chosen; the accelerator counts its symbols.
CountedJob ==
  /\ pc = "job"
  /\ fc' = "DHT_COUNT"
  /\ \E n \in JobBytes, c \in Counts :
       /\ spbc' = n
       /\ counts' = c
       /\ since' = since + n
  /\ first' = FALSE
  /\ pc' = "idle"
  /\ UNCHANGED <<tabVars, tab, dict, dht, accessed0>>

\* nx_compress_block has no input left: the function code is set, and the
\* command block still holds the results of the job before.
NoJob ==
  /\ pc = "job"
  /\ fc' = "DHT_COUNT"
  /\ first' = FALSE
  /\ pc' = "idle"
  /\ UNCHANGED <<tabVars, tab, dict, spbc, counts, dht, since, accessed0>>

\* The job fails after its history was set, which is then taken off the source
\* bytes of the job before.
FailedJob ==
  /\ pc = "job"
  /\ fc' = "DHT_COUNT"
  /\ spbc' \in JobBytes \cup {0}
  /\ first' = FALSE
  /\ pc' = "idle"
  /\ UNCHANGED <<tabVars, tab, dict, counts, dht, since, accessed0>>

\* With a dictionary, less than DEF_DICT_THRESHOLD of input is coded with the
\* fixed table, without a lookup and without counts.
FixedJob ==
  /\ pc = "idle"
  /\ dict
  /\ fc' = "FHT"
  /\ first' = FALSE
  /\ UNCHANGED <<tabVars, tab, dict, pc, spbc, counts, dht, since, accessed0>>

\* A block that grew is copied as a stored block.
StoredJob ==
  /\ pc = "idle"
  /\ ~first
  /\ fc' = "WRAP"
  /\ UNCHANGED <<tabVars, tab, first, dict, pc, spbc, counts, dht, since, accessed0>>

-----------------------------------------------------------------------------
(* The other calls of the stream                                           *)

SetDictionary ==
  /\ pc = "idle"
  /\ dict' = TRUE
  /\ UNCHANGED <<tabVars, tab, first, pc, jobVars, dht, since, accessed0>>

\* deflateReset keeps the tables, and all that counts their use.
Reset ==
  /\ pc = "idle"
  /\ first' = TRUE
  /\ dict' = FALSE
  /\ UNCHANGED <<tabVars, tab, pc, jobVars, dht, since, accessed0>>

\* (mutant) the pointer is copied like the rest (issue 123)
SamePointer(p, new) == p
\* dht_copy: a pointer into the old table becomes one into the new table.
Relocated(p, new) ==
  IF p # NULL /\ p.home = tab THEN [p EXCEPT !.home = new] ELSE p

\* The application goes on with a copy of the stream.
Copy ==
  /\ pc = "idle"
  /\ \E new \in Tabs \ {tab} :
       /\ tab' = new
       /\ last_used_entry' = Relocated(last_used_entry, new)
  /\ UNCHANGED <<cache, clock, last_cache_idx, last_used_builtin_idx,
                 nbytes_accumulated, first, dict, pc, jobVars, dht, since, accessed0>>

Lookup ==
  \/ LookupDefault
  \/ ReuseLast
  \/ Abort
  \/ \E i \in Slots : SearchCache(i)
  \/ \E b \in Builtins : SearchBuiltin(b)
  \/ SearchFails
Sweep == SweepPast \/ Generate
Job == CountedJob \/ NoJob \/ FailedJob \/ FixedJob \/ StoredJob
Call == SetDictionary \/ Reset \/ Copy
Next == Lookup \/ Sweep \/ Job \/ Call

Spec == Init /\ [][Next]_vars

\* The loop of dht_lookup5 runs on in the calling thread.
FairSpec == Spec /\ WF_vars(Sweep)
-----------------------------------------------------------------------------
(* Properties                                                              *)

Table == [made : {"dhtgen"}, from : Counts] \cup [made : {"builtin"}, from : Builtins]
Entry == [home : Tabs, idx : Slots] \cup [home : {"builtin"}, idx : Builtins]
Keys == {KeyOf[c] : c \in Counts}
UsedSlot == [valid : {TRUE}, accessed : BOOLEAN, key : Keys,
             table : [made : {"dhtgen"}, from : Counts]]

TypeOK ==
  /\ cache \in [Slots -> UsedSlot \cup {EmptySlot}]
  /\ clock \in Slots
  /\ last_cache_idx \in Slots \cup {-1}
  /\ last_used_builtin_idx \in Builtins \cup {-1}
  /\ last_used_entry \in Entry \cup {NULL}
  /\ nbytes_accumulated \in Nat
  /\ tab \in Tabs
  /\ first \in BOOLEAN /\ dict \in BOOLEAN
  /\ pc \in {"idle", "sweep", "job", "aborted"}
  /\ fc \in {"none", "DHT_COUNT", "FHT", "WRAP"}
  /\ spbc \in Nat
  /\ counts \in Counts
  /\ dht \in Table \cup {NULL}
  /\ since \in Nat
  /\ accessed0 \in SUBSET Slots

\* No two cached tables have the same key, and none has the key of a
\* built-in one: no key takes two of the slots, and what a search of the
\* cache finds does not depend on where it starts.
UniqueKeys ==
  /\ \A i, j \in Slots :
       i # j /\ cache[i].valid /\ cache[j].valid => cache[i].key # cache[j].key
  /\ \A i \in Slots, b \in Builtins : cache[i].valid => cache[i].key # BuiltinKey[b]

\* last_used_entry is an entry of this stream's own table or a built-in one,
\* it is valid, and the table in the command block is still the one it holds:
\* neither eviction nor deflateCopy leaves it pointing at something else.
LastUsedIntact ==
  last_used_entry # NULL =>
    /\ last_used_entry.home \in {"builtin", tab}
    /\ last_used_entry.home = tab => cache[last_used_entry.idx].valid
    /\ dht = TableAt(last_used_entry)

\* A table codes a further block only while it has coded less than
\* DHT_NUM_SRC_BYTES of source since it was chosen, whatever stored blocks,
\* failed jobs, resets and copies came between.
ReuseBounded == pc = "job" => since < Budget

Overwritten(i) == cache[i].valid /\ cache'[i].table # cache[i].table
UnusedSlotsFirst ==
  \A i \in Slots : Overwritten(i) => \A j \in Slots : cache[j].valid
SecondChance ==
  \A i \in Slots : Overwritten(i) /\ i \in accessed0 => accessed0 = Slots

\* A valid entry is overwritten only when no slot is unused, and one that
\* was accessed since the last sweep only when all were.
VictimUnused == [][UnusedSlotsFirst /\ SecondChance]_vars

\* The clock hand finds a slot: every lookup returns.
LookupReturns == pc = "sweep" ~> pc = "job"

\* "this might be an error producing a dht with no lzcounts", assert(0): the
\* code holds that a table is never reused after a job without counts.
\* It does not hold: the README reports it.
AssertionHolds == pc # "aborted"
=============================================================================
