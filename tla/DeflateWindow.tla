---------------------------- MODULE DeflateWindow ----------------------------
(***************************************************************************)
(* The input side of nx_deflate: fifo_in, which holds the history of the   *)
(* next job before cur_in and cached input after it, the list of source    *)
(* buffers built from it, and what a job, a dictionary and a reset make of *)
(* it.  The output side is DeflateStream.                                  *)
(*                                                                         *)
(* The bytes of a stream, those of its dictionaries included, are known by *)
(* their place in the window of the decoder; 0 is a byte of another stream *)
(* or one the accelerator left behind.                                     *)
(***************************************************************************)
EXTENDS Integers

CONSTANTS
  Histories,   \* values of max_history_len, by level
  Wraps,       \* among "raw" and "zlib": gzip takes no dictionary
  QuadWord,    \* sizeof(nx_qw_t)
  LenIn,       \* len_in
  MaxDict,     \* DEF_MAX_DICT_LEN
  Threshold,   \* nx_config.cache_threshold
  BufSize,     \* nx_config.strm_def_bufsz
  PerJob,      \* nx_config.per_job_len
  StoredLen,   \* nx_stored_block_len
  MinInput,    \* DEF_MIN_INPUT_LEN
  Chunks,      \* how much input the application gives at a time
  DictLens,    \* and how long its dictionaries are
  MaxRow,      \* how many dictionaries it gives in a row
  MaxPlace,    \* bound on the places of a stream
  MaxResets,   \* bound on resets
  NULL

ASSUME WindowAssumption ==
  /\ {QuadWord, LenIn, MaxDict, BufSize, PerJob, StoredLen, MinInput} \subseteq Nat \ {0}
  /\ {Threshold, MaxRow, MaxPlace, MaxResets} \subseteq Nat
  /\ Histories \subseteq Nat /\ Chunks \subseteq Nat /\ DictLens \subseteq Nat \ {0}
  /\ Wraps \subseteq {"raw", "zlib"}
  /\ \A h \in Histories : h % QuadWord = 0 /\ h <= MaxDict
  /\ \A h \in Histories : h < PerJob
  /\ MaxDict <= LenIn \div 2 /\ Threshold <= LenIn \div 2
  /\ LenIn \div 2 + MaxRow * MaxDict <= LenIn
  /\ NULL \notin [0..LenIn - 1 -> Nat]

VARIABLES
  wrap, max_history_len,
  status,             \* "init", "deflate", "final", or "error" after Z_STREAM_ERROR
  fifo_in, cur_in, used_in, history_len,
  dict_len,           \* whether it is not zero
  need_stored_block,
  avail_in, flush,
  pc,                 \* where nx_deflate is, "app", or "dead" after a failed assertion
  fc,                 \* "huffman" or "wrap"
  histbytes,          \* in_histlen of the job, in bytes
  bytes_in,           \* ddebc of its source, without the history
  nin,                \* bytes taken from next_in
  dicts,              \* bytes of dictionaries in the window
  place,              \* external: the places the decoder will have
  row,                \* dictionaries given since the last job
  torn,               \* a long dictionary was given up half way
  resets

stream == <<wrap, max_history_len, status, dict_len, row, torn, dicts, resets>>
window == <<fifo_in, cur_in, used_in, history_len>>
user == <<avail_in, nin>>
job == <<fc, histbytes, bytes_in>>
vars == <<stream, window, user, job, need_stored_block, flush, pc, place>>

AtMost(x, y) == IF x < y THEN x ELSE y
Minus(x, y) == IF x > y THEN x - y ELSE 0

\* memmove, memcpy: n places of f from place d on get the values of g.
Moved(f, d, n, g(_)) == [i \in DOMAIN f |-> IF d <= i /\ i < d + n THEN g(i - d) ELSE f[i]]

Half == LenIn \div 2

\* The configuration accepts any cache_threshold up to the size of a page (65536, which
\* is Half), but the code works with those that leave room for the history only.
SmallThreshold == \A h \in Histories : h + Threshold <= Half

Garbage == [i \in 0..LenIn - 1 |-> 0]
\* fifo_in_alloc_check
Fifo == IF fifo_in = NULL THEN Garbage ELSE fifo_in

\* A read in front of fifo_in finds some other byte, if any.
Byte(i) == IF i >= 0 THEN Fifo[i] ELSE 0

\* The k-th byte of next_in.
NextIn(k) == nin + dicts + k

-----------------------------------------------------------------------------
Init ==
  /\ wrap \in Wraps /\ max_history_len \in Histories
  /\ status = "init" /\ dict_len = FALSE /\ row = 0 /\ torn = FALSE /\ dicts = 0 /\ resets = 0
  /\ fifo_in = NULL /\ cur_in = 0 /\ used_in = 0 /\ history_len = 0
  /\ avail_in = 0 /\ nin = 0 /\ need_stored_block = 0 /\ flush = "no" /\ pc = "app"
  /\ fc = "huffman" /\ histbytes = 0 /\ bytes_in = 0
  /\ place = 0

\* nx_deflateResetKeep: cur_in, but not history_len.
Reset ==
  /\ pc = "app" /\ resets < MaxResets
  /\ status' = "init" /\ dict_len' = FALSE /\ resets' = resets + 1
  /\ used_in' = 0 /\ cur_in' = 0 /\ need_stored_block' = 0
  /\ fifo_in' = IF fifo_in = NULL THEN NULL ELSE Garbage
  /\ avail_in' = 0 /\ nin' = 0 /\ dicts' = 0 /\ place' = 0 /\ row' = 0 /\ torn' = FALSE
  /\ UNCHANGED <<wrap, max_history_len, history_len, job, flush, pc>>

\* nx_deflate until s2.  Without input or a flush it does nothing.
Call(n, fl) ==
  /\ pc = "app" /\ status \in {"init", "deflate"}
  /\ place + used_in + avail_in + n <= MaxPlace
  /\ avail_in + n > 0 \/ fl # "no"
  /\ status' = "deflate"
  /\ avail_in' = avail_in + n /\ flush' = fl
  /\ pc' = "s2"
  /\ UNCHANGED <<wrap, max_history_len, dict_len, row, torn, dicts, resets, window, nin, job,
                 need_stored_block, place>>

-----------------------------------------------------------------------------
\* Small input waits in fifo_in, unless the application asks for its output or
\* there is a dictionary.
Small == used_in + avail_in <= Threshold /\ flush = "no" /\ ~dict_len

\* cache_input.  When it does not fit, all but the history is thrown away; with a large
\* threshold there may be less than that, and the free bytes, unsigned, may wrap.
Room == Minus(Half, cur_in + used_in)
Full == Room < avail_in
CacheAt == IF Full THEN max_history_len ELSE cur_in
KeptTail(n) == Moved(Fifo, 0, n + used_in, LAMBDA k : Byte(cur_in - n + k))
TakenAt(at) == IF at + used_in > Half THEN avail_in ELSE AtMost(Half - (at + used_in), avail_in)

CacheInput ==
  LET old == IF Full THEN KeptTail(max_history_len) ELSE Fifo
      n == TakenAt(CacheAt)
  IN
  /\ pc = "s2" /\ Small
  /\ fifo_in' = Moved(old, CacheAt + used_in, n, LAMBDA k : NextIn(k + 1))
  /\ cur_in' = CacheAt
  /\ used_in' = used_in + n
  /\ avail_in' = avail_in - n /\ nin' = nin + n
  /\ pc' = "app"
  /\ UNCHANGED <<stream, history_len, job, need_stored_block, flush, place>>

CacheNoMemory ==
  /\ pc = "s2" /\ Small /\ fifo_in = NULL
  /\ pc' = "app"
  /\ UNCHANGED <<stream, window, user, job, need_stored_block, flush, place>>

-----------------------------------------------------------------------------
\* nx_setup_ddl_in: the history, if all of the input fits as well, in whole
\* quadwords; then fifo_in; then next_in.
Offered == AtMost(avail_in, BufSize)
Limit == IF need_stored_block > 0 THEN AtMost(need_stored_block, StoredLen) ELSE PerJob
\* (mutant) the history is left out one byte before the limit
TakesHistoryAtLimit == fifo_in # NULL /\ history_len > 0 /\ used_in + Offered <= Limit
TakesHistory == fifo_in # NULL /\ history_len > 0 /\ used_in + Offered < Limit
WholeQuads(n) == QuadWord * (n \div QuadWord)
HistBytes == IF TakesHistory THEN WholeQuads(history_len) ELSE 0

AssertFails == fifo_in # NULL /\ cur_in < history_len

\* Once it stores a block the loop goes on without looking for small input.
Compresses == (pc = "s2" /\ ~Small) \/ pc = "stored"

Submit ==
  /\ Compresses /\ used_in + avail_in > 0
  /\ ~AssertFails
  /\ fc' = IF need_stored_block > 0 THEN "wrap" ELSE "huffman"
  /\ histbytes' = HistBytes
  /\ bytes_in' = AtMost(used_in + Offered, Limit - HistBytes)
  /\ pc' = "submit"
  /\ UNCHANGED <<stream, window, user, need_stored_block, flush, place>>

\* assert(s->cur_in >= s->history_len)
Abort ==
  /\ Compresses /\ used_in + avail_in > 0
  /\ AssertFails
  /\ pc' = "dead"
  /\ UNCHANGED <<stream, window, user, job, need_stored_block, flush, place>>

NoInput ==
  /\ Compresses /\ used_in + avail_in = 0
  /\ pc' = "block"
  /\ UNCHANGED <<stream, window, user, job, need_stored_block, flush, place>>

\* ERR_NX_AT_FAULT, ERR_NX_TARGET_SPACE: again, with less input.
Halved(n) == IF n > 2 * MinInput THEN (n + 1) \div 2 ELSE AtMost(n, MinInput)

JobLess ==
  /\ pc = "submit"
  /\ bytes_in' = Halved(bytes_in)
  /\ UNCHANGED <<stream, window, user, fc, histbytes, need_stored_block, flush, pc, place>>

JobError ==
  /\ pc = "submit"
  /\ status' = "error" /\ pc' = "app"
  /\ UNCHANGED <<wrap, max_history_len, dict_len, row, torn, dicts, resets, window, user, job,
                 need_stored_block, flush, place>>

\* The output is larger than the input of n bytes: they will be stored.
JobBig(n) ==
  /\ pc = "submit" /\ fc = "huffman"
  /\ need_stored_block' = n
  /\ pc' = "s2"
  /\ UNCHANGED <<stream, window, user, job, flush, place>>

\* After a job on n bytes: the loop of stored blocks goes on while there is
\* room for output, and forgets what is left when there is none.
AfterJob(n) ==
  \/ /\ fc = "wrap" /\ need_stored_block > n
     /\ need_stored_block' = need_stored_block - n
     /\ pc' = "stored"
  \/ need_stored_block' = 0 /\ pc' = "block"

JobIdle ==
  /\ pc = "submit"
  /\ AfterJob(0)
  /\ UNCHANGED <<stream, window, user, job, flush, place>>

\* nx_compress_block_update_offsets.  What the job took from next_in becomes
\* history; in front of it, as much older history as is still of use.
FromUsed(n) == AtMost(used_in, n)
FromNext(n) == Minus(n, used_in)
ThrowsAway(n) == cur_in + FromUsed(n) + FromNext(n) > Half
\* (mutant) nothing is kept when a long job is done
KeptNone(n) == IF ThrowsAway(n) THEN 0 ELSE cur_in + FromUsed(n)
Kept(n) == IF ThrowsAway(n) THEN Minus(max_history_len, FromNext(n)) ELSE cur_in + FromUsed(n)
Tail(n) == AtMost(FromNext(n), max_history_len)
\* Only the history is kept; no input is cached when this happens.
KeptHistory(n) ==
  IF ThrowsAway(n) THEN Moved(Fifo, 0, Kept(n), LAMBDA k : Fifo[cur_in + FromUsed(n) - Kept(n) + k])
                   ELSE Fifo

JobDone(n) ==
  /\ pc = "submit"
  /\ used_in' = used_in - FromUsed(n)
  /\ fifo_in' = Moved(KeptHistory(n), Kept(n), Tail(n),
                      LAMBDA k : NextIn(FromNext(n) - Tail(n) + k + 1))
  /\ cur_in' = Kept(n) + Tail(n)
  /\ history_len' = AtMost(cur_in', max_history_len)
  /\ avail_in' = avail_in - FromNext(n) /\ nin' = nin + FromNext(n)
  /\ place' = place + n
  /\ row' = 0
  /\ AfterJob(n)
  /\ UNCHANGED <<wrap, max_history_len, status, dict_len, torn, dicts, resets, job, flush>>

\* Without a buffer the job is not accounted for, and its input compressed again.
JobNoMemory(n) ==
  /\ pc = "submit" /\ fifo_in = NULL
  /\ AfterJob(n)
  /\ UNCHANGED <<stream, window, user, job, flush, place>>

\* The switch at the end of the loop.
Again ==
  /\ pc = "block" /\ used_in + avail_in > 0
  /\ pc' = "s2"
  /\ UNCHANGED <<stream, window, user, job, need_stored_block, flush, place>>

Return ==
  /\ pc = "block"
  /\ pc' = "app"
  /\ status' = IF flush = "finish" /\ used_in + avail_in = 0 THEN "final" ELSE status
  /\ flush' = "no" /\ fc' = "huffman" /\ histbytes' = 0 /\ bytes_in' = 0
  /\ UNCHANGED <<wrap, max_history_len, dict_len, row, torn, dicts, resets, window, user,
                 need_stored_block, place>>

-----------------------------------------------------------------------------
\* nx_deflateSetDictionary.  A dictionary goes behind the history, or replaces
\* it when it is longer; only its end is kept then.
TakesDictionary ==
  /\ pc = "app"
  /\ \/ wrap = "zlib" /\ status = "init"
     \/ wrap = "raw" /\ status \in {"init", "deflate"} /\ used_in = 0
  /\ row < MaxRow

Long(n) == n > MaxDict
DictAt(n) == IF Long(n) THEN 0 ELSE cur_in
DictTail(n) == AtMost(n, MaxDict)
DictHistory(n) == AtMost(history_len + n, max_history_len)

SetDictionary(n) ==
  LET at == DictAt(n)
      first == place + n - DictTail(n) + 1
  IN
  /\ TakesDictionary
  /\ place + avail_in + n <= MaxPlace
  /\ fifo_in' = Moved(Fifo, at, DictTail(n), LAMBDA k : first + k)
  /\ cur_in' = at + DictTail(n)
  /\ history_len' = DictHistory(n)
  /\ dict_len' = TRUE
  /\ dicts' = dicts + n /\ place' = place + n
  /\ row' = row + 1
  /\ UNCHANGED <<wrap, max_history_len, status, torn, resets, used_in, user, job,
                 need_stored_block, flush, pc>>

\* nx_copy fails at the first page fault.  By then it may have overwritten the
\* beginning of fifo_in with a piece of a long dictionary, or given up cur_in.
SetDictionaryFails(n) ==
  /\ TakesDictionary
  /\ \/ UNCHANGED cur_in
     \/ Long(n) /\ cur_in' = 0
  /\ fifo_in' = IF Long(n) THEN Moved(Fifo, 0, MaxDict, LAMBDA k : 0) ELSE Fifo
  /\ torn' = (torn \/ Long(n))
  /\ UNCHANGED <<wrap, max_history_len, status, dict_len, row, dicts, resets, used_in, history_len,
                 user, job, need_stored_block, flush, pc, place>>

-----------------------------------------------------------------------------
Application ==
  \/ \E n \in Chunks, fl \in {"no", "sync", "finish"} : Call(n, fl)
  \/ \E n \in DictLens : SetDictionary(n) \/ SetDictionaryFails(n)
  \/ Reset

Library == CacheInput \/ CacheNoMemory \/ Submit \/ Abort \/ NoInput \/ Again \/ Return

Accelerator ==
  \/ JobLess \/ JobError \/ JobIdle
  \/ \E n \in 1..bytes_in : JobBig(n) \/ JobDone(n) \/ JobNoMemory(n)

Next == Application \/ Library \/ Accelerator

Spec == Init /\ [][Next]_vars

-----------------------------------------------------------------------------
\* Type correctness.
Fifos == [0..LenIn - 1 -> Nat]

TypeOK ==
  /\ wrap \in Wraps /\ max_history_len \in Histories
  /\ status \in {"init", "deflate", "final", "error"}
  /\ flush \in {"no", "sync", "finish"}
  /\ pc \in {"app", "s2", "stored", "submit", "block", "dead"}
  /\ fc \in {"huffman", "wrap"}
  /\ fifo_in \in Fifos \cup {NULL}
  /\ cur_in \in Nat /\ used_in \in Nat /\ history_len \in Nat /\ need_stored_block \in Nat
  /\ avail_in \in Nat /\ nin \in Nat /\ histbytes \in Nat /\ bytes_in \in Nat
  /\ dict_len \in BOOLEAN /\ torn \in BOOLEAN
  /\ dicts \in Nat /\ place \in 0..MaxPlace /\ row \in 0..MaxRow /\ resets \in 0..MaxResets

\* What the code relies on without a test: nothing is copied behind the end of
\* fifo_in, and there is as much input as is to be stored.
InBounds ==
  /\ cur_in + used_in <= LenIn /\ (fifo_in = NULL => cur_in + used_in = 0)
  /\ history_len <= max_history_len
  /\ used_in <= Threshold
  /\ status # "error" => need_stored_block <= used_in + avail_in

\* A job goes on where the last one stopped: its source is the next of the
\* input, first the cached part, without a gap or a byte twice; its history is
\* what comes just before; and a stored block, which would copy it, has none.
Source(k) == IF k <= used_in THEN fifo_in[cur_in + k - 1] ELSE NextIn(k - used_in)

JobsContinue ==
  pc = "submit" /\ ~torn =>
    /\ \A k \in 1..bytes_in : Source(k) = place + k
    /\ histbytes <= cur_in
    /\ \A k \in 1..histbytes : fifo_in[cur_in - k] = place - k + 1
    /\ fc = "wrap" => histbytes = 0

\* Caching, throwing away and dictionaries never cost a byte of the history
\* that the level allows.
FullHistory == resets = 0 /\ ~torn => history_len = AtMost(place, max_history_len)

\* Small input is cached whole: a call that caches leaves the application none to offer
\* again, which is what it waits for.
SmallInputTaken == [][pc = "s2" /\ pc' = "app" /\ fifo_in' # NULL => avail_in' = 0]_vars

\* nx_setup_ddl_in: "the history (s->history_len bytes in fifo_in before
\* s->cur_in)", which it asserts.
\* It does not hold: the README reports it.
HistoryBeforeCurrent == pc # "dead"

=============================================================================
