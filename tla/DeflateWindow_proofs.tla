------------------------ MODULE DeflateWindow_proofs ------------------------
(***************************************************************************)
(* For every size of fifo_in, of jobs and of dictionaries, and any input:  *)
(* no byte is written behind the buffer.  When the threshold of the cache  *)
(* leaves room for the history (SmallThreshold), no byte is lost or        *)
(* repeated either, small input is cached whole, and the history of a job  *)
(* is the longest that the level allows.                                   *)
(***************************************************************************)
EXTENDS DeflateWindow, TLAPS

\* Where a pointer into fifo_in may be.  Only dictionaries go past the half.
PlacesInv ==
  /\ cur_in <= Half + row * MaxDict
  /\ used_in > 0 => cur_in + used_in <= LenIn
  /\ used_in <= Threshold
  /\ history_len <= max_history_len
  /\ status = "init" => used_in = 0
  /\ fifo_in = NULL => cur_in = 0 /\ used_in = 0 /\ history_len = 0

\* The bytes taken from the application are those in the window and the cached
\* ones.
TakenInv ==
  /\ place + used_in = nin + dicts
  /\ place + used_in + avail_in <= MaxPlace

\* What is before cur_in is known up to the longest history.
LengthsInv ==
  /\ history_len >= cur_in \/ history_len = max_history_len
  /\ resets = 0 /\ ~torn => history_len = AtMost(place, max_history_len)

\* The history and the cached input, around cur_in.
BytesInv ==
  ~torn /\ fifo_in # NULL =>
    /\ \A k \in 1..history_len : k <= cur_in => fifo_in[cur_in - k] = place - k + 1
    /\ \A k \in 0..used_in - 1 : fifo_in[cur_in + k] = place + k + 1

\* With a small threshold no cached input goes past the half.
WindowInv ==
  SmallThreshold =>
    /\ used_in > 0 => cur_in + used_in <= Half
    /\ LengthsInv
    /\ BytesInv

\* A job under way.
JobInv ==
  /\ pc \in {"s2", "stored", "submit", "block"} => status = "deflate"
  /\ status # "error" => need_stored_block <= used_in + Offered
  /\ pc = "submit" =>
       /\ history_len <= cur_in
       /\ histbytes <= history_len
       /\ bytes_in <= used_in + Offered
       /\ fc = "wrap" => histbytes = 0

IInv == TypeOK /\ PlacesInv /\ TakenInv /\ WindowInv /\ JobInv

-----------------------------------------------------------------------------
\* The constants, and what the assumption says of a level's history.
LEMMA Sizes ==
  /\ LenIn \in Nat \ {0} /\ MaxDict \in Nat \ {0} /\ PerJob \in Nat \ {0} /\ StoredLen \in Nat \ {0}
  /\ MinInput \in Nat \ {0} /\ QuadWord \in Nat \ {0} /\ BufSize \in Nat \ {0}
  /\ Threshold \in Nat /\ MaxRow \in Nat /\ MaxPlace \in Nat /\ MaxResets \in Nat
  /\ Half \in Nat /\ 2 * Half <= LenIn
  /\ MaxDict <= Half /\ Threshold <= Half
  /\ \A h \in Histories : h \in Nat /\ h < PerJob /\ h <= MaxDict
  /\ \A n \in Chunks : n \in Nat
  /\ \A n \in DictLens : n \in Nat \ {0}
<1>1. /\ {QuadWord, LenIn, MaxDict, BufSize, PerJob, StoredLen, MinInput} \subseteq Nat \ {0}
      /\ {Threshold, MaxRow, MaxPlace, MaxResets} \subseteq Nat
      /\ Histories \subseteq Nat /\ Chunks \subseteq Nat /\ DictLens \subseteq Nat \ {0}
  BY WindowAssumption, Zenon
<1>2. \A h \in Histories : h <= MaxDict /\ h < PerJob
  BY WindowAssumption, Zenon
<1>4. MaxDict <= LenIn \div 2 /\ Threshold <= LenIn \div 2
  BY WindowAssumption, Zenon
<1>3. Half \in Nat /\ 2 * Half <= LenIn /\ Half = LenIn \div 2
  BY <1>1 DEF Half
<1> QED BY <1>1, <1>2, <1>3, <1>4

\* Each dictionary in a row has its room.
LEMMA Rows ==
  ASSUME NEW r \in 0..MaxRow
  PROVE  /\ r * MaxDict \in Nat /\ Half + r * MaxDict <= LenIn
         /\ (r + 1) * MaxDict = r * MaxDict + MaxDict
         /\ 0 * MaxDict = 0
<1>1. r \in Nat /\ MaxRow \in Nat /\ MaxDict \in Nat /\ Half \in Nat /\ LenIn \in Nat /\ r <= MaxRow
  BY Sizes
<1>2. r * MaxDict \in Nat
  BY <1>1
<1>3. (r + 1) * MaxDict = r * MaxDict + MaxDict
  BY <1>1
<1>4. (MaxRow - r) * MaxDict \in Nat
  BY <1>1
<1>5. MaxRow * MaxDict = r * MaxDict + (MaxRow - r) * MaxDict
  BY <1>1
<1>6. Half + MaxRow * MaxDict <= LenIn
  BY WindowAssumption, Zenon DEF Half
<1>7. MaxRow * MaxDict \in Nat
  BY <1>1
<1> QED BY <1>1, <1>2, <1>3, <1>4, <1>5, <1>6, <1>7

LEMMA Bounds ==
  ASSUME IInv
  PROVE  /\ cur_in + used_in <= LenIn /\ cur_in <= LenIn /\ used_in <= LenIn
         /\ history_len <= max_history_len
         /\ max_history_len \in Nat /\ max_history_len <= MaxDict /\ max_history_len <= Half
         /\ SmallThreshold => max_history_len + Threshold <= Half
<1>1. row * MaxDict \in Nat /\ Half + row * MaxDict <= LenIn
  BY Rows DEF IInv, TypeOK
<1>2. max_history_len \in Nat /\ max_history_len <= MaxDict /\ max_history_len <= Half
  BY Sizes DEF IInv, TypeOK
<1>3. SmallThreshold => max_history_len + Threshold <= Half
  BY DEF SmallThreshold, IInv, TypeOK
<1> QED BY <1>1, <1>2, <1>3, Sizes DEF IInv, TypeOK, PlacesInv

LEMMA FifoType ==
  ASSUME IInv
  PROVE  /\ Fifo \in Fifos /\ Garbage \in Fifos /\ NULL \notin Fifos
         /\ fifo_in # NULL => Fifo = fifo_in
<1>1. Garbage \in Fifos
  BY Sizes DEF Garbage, Fifos
<1>2. NULL \notin Fifos
  BY WindowAssumption, Zenon DEF Fifos
<1> QED BY <1>1, <1>2 DEF Fifo, IInv, TypeOK

LEMMA InitKeeps == Init => IInv
<1> SUFFICES ASSUME Init PROVE IInv
  OBVIOUS
<1>1. TypeOK
  <2>1. dict_len \in BOOLEAN /\ torn \in BOOLEAN
    BY DEF Init
  <2>2. place \in 0..MaxPlace /\ row \in 0..MaxRow /\ resets \in 0..MaxResets
    BY Sizes DEF Init
  <2> QED BY <2>1, <2>2 DEF Init, TypeOK
<1>2. PlacesInv
  BY Sizes, Rows DEF Init, PlacesInv
<1>3. TakenInv /\ JobInv
  BY Sizes DEF Init, TakenInv, JobInv, Offered, AtMost
<1>4. WindowInv
  BY Sizes DEF Init, WindowInv, LengthsInv, BytesInv, AtMost
<1> QED BY <1>1, <1>2, <1>3, <1>4 DEF IInv

-----------------------------------------------------------------------------
\* Steps that leave fifo_in and the pointers into it alone.
LEMMA WindowStays ==
  ASSUME IInv, UNCHANGED <<wrap, max_history_len, row, torn, dicts, resets, window, nin, place>>,
         status' = "init" => status = "init"
  PROVE  /\ PlacesInv' /\ WindowInv'
         /\ UNCHANGED avail_in => TakenInv'
<1>1. /\ cur_in' = cur_in /\ used_in' = used_in /\ history_len' = history_len /\ fifo_in' = fifo_in
      /\ row' = row /\ torn' = torn /\ resets' = resets /\ place' = place /\ nin' = nin /\ dicts' = dicts
      /\ max_history_len' = max_history_len
  BY DEF window
<1>2. PlacesInv'
  BY <1>1 DEF IInv, PlacesInv
<1>3. LengthsInv => LengthsInv'
  BY <1>1 DEF LengthsInv
<1>4. BytesInv => BytesInv'
  BY <1>1 DEF BytesInv
<1>5. UNCHANGED avail_in => TakenInv'
  BY <1>1 DEF IInv, TakenInv
<1>6. WindowInv'
  BY <1>1, <1>3, <1>4 DEF IInv, WindowInv, Half
<1> QED BY <1>2, <1>5, <1>6

LEMMA CallKeeps ==
  ASSUME IInv, NEW n \in Chunks, NEW fl \in {"no", "sync", "finish"}, Call(n, fl)
  PROVE  IInv'
<1>1. n \in Nat
  BY Sizes
<1>2. TypeOK'
  BY <1>1 DEF Call, IInv, TypeOK, window, job
<1>3. PlacesInv' /\ WindowInv'
  BY WindowStays DEF Call
<1>4. TakenInv'
  BY <1>1 DEF Call, IInv, TypeOK, TakenInv, window
<1>5. JobInv'
  BY <1>1, Sizes DEF Call, IInv, TypeOK, JobInv, window, Offered, AtMost
<1> QED BY <1>2, <1>3, <1>4, <1>5 DEF IInv

LEMMA SubmitKeeps ==
  ASSUME IInv, Submit
  PROVE  IInv'
<1>1. UNCHANGED <<wrap, max_history_len, status, dict_len, row, torn, dicts, resets, cur_in, used_in, fifo_in,
                  history_len, avail_in, nin, place, need_stored_block, flush>>
  BY DEF Submit, stream, window, user
<1>2. PlacesInv' /\ WindowInv' /\ TakenInv'
  BY <1>1, WindowStays DEF window
<1>3. /\ status = "deflate" /\ need_stored_block <= used_in + Offered
      /\ Offered \in Nat /\ Offered <= avail_in
  BY Sizes DEF IInv, TypeOK, JobInv, Submit, Compresses, Offered, AtMost
<1>4. Limit \in Nat /\ (need_stored_block > 0 => Limit <= need_stored_block)
  BY Sizes DEF Limit, AtMost, IInv, TypeOK
<1>5. /\ HistBytes \in Nat /\ HistBytes <= history_len
      /\ need_stored_block > 0 => HistBytes = 0
      /\ HistBytes <= Limit
  <2>1. CASE TakesHistory
    <3>1. WholeQuads(history_len) \in Nat /\ WholeQuads(history_len) <= history_len
      BY Sizes DEF WholeQuads, IInv, TypeOK
    <3>2. need_stored_block = 0
      BY <2>1, <1>3, <1>4 DEF TakesHistory, IInv, TypeOK
    <3>3. history_len <= PerJob /\ Limit = PerJob
      BY <3>2, Bounds, Sizes DEF Limit, IInv, TypeOK
    <3> QED BY <2>1, <3>1, <3>2, <3>3, Sizes DEF HistBytes, IInv, TypeOK
  <2>2. CASE ~TakesHistory
    BY <2>2, <1>4 DEF HistBytes, IInv, TypeOK
  <2> QED BY <2>1, <2>2
<1>6. /\ bytes_in' \in Nat /\ bytes_in' <= used_in + Offered
  BY <1>3, <1>4, <1>5 DEF Submit, AtMost, IInv, TypeOK
<1>7. history_len <= cur_in
  BY DEF Submit, AssertFails, IInv, TypeOK, PlacesInv
<1>8. TypeOK'
  BY <1>1, <1>5, <1>6 DEF Submit, IInv, TypeOK
<1>9. JobInv'
  BY <1>1, <1>3, <1>5, <1>6, <1>7 DEF Submit, IInv, TypeOK, JobInv, Offered
<1> QED BY <1>2, <1>8, <1>9 DEF IInv

LEMMA HalvedIs ==
  ASSUME NEW n \in Nat
  PROVE  Halved(n) \in Nat /\ Halved(n) <= n
BY Sizes DEF Halved, AtMost

LEMMA JobLessKeeps ==
  ASSUME IInv, JobLess
  PROVE  IInv'
<1>1. /\ UNCHANGED <<wrap, max_history_len, status, dict_len, row, torn, dicts, resets, cur_in, used_in, fifo_in,
                     history_len, avail_in, nin, place, need_stored_block, flush, pc, fc, histbytes>>
      /\ pc = "submit"
  BY DEF JobLess, stream, window, user
<1>2. PlacesInv' /\ WindowInv' /\ TakenInv'
  BY <1>1, WindowStays DEF window
<1>3. bytes_in' \in Nat /\ bytes_in' <= bytes_in
  BY HalvedIs DEF JobLess, IInv, TypeOK
<1>4. TypeOK'
  BY <1>1, <1>3 DEF IInv, TypeOK
<1>5. JobInv'
  BY <1>1, <1>3, Sizes DEF IInv, TypeOK, JobInv, Offered, AtMost
<1> QED BY <1>2, <1>4, <1>5 DEF IInv

LEMMA JobErrorKeeps ==
  ASSUME IInv, JobError
  PROVE  IInv'
<1>1. PlacesInv' /\ WindowInv' /\ TakenInv'
  BY WindowStays DEF JobError, user
<1>2. TypeOK'
  BY DEF JobError, window, user, job, IInv, TypeOK
<1>3. JobInv'
  BY DEF JobError, window, user, job, IInv, TypeOK, JobInv, Offered
<1> QED BY <1>1, <1>2, <1>3 DEF IInv

LEMMA JobBigKeeps ==
  ASSUME IInv, NEW n \in 1..bytes_in, JobBig(n)
  PROVE  IInv'
<1>1. PlacesInv' /\ WindowInv' /\ TakenInv'
  BY WindowStays DEF JobBig, user, stream
<1>2. TypeOK'
  BY DEF JobBig, window, user, job, stream, IInv, TypeOK
<1>3. JobInv'
  BY Sizes DEF JobBig, window, user, job, stream, IInv, TypeOK, JobInv, Offered, AtMost
<1> QED BY <1>1, <1>2, <1>3 DEF IInv

\* What a job of n bytes leaves to be stored is still there.
LEMMA AfterJobIs ==
  ASSUME IInv, NEW n \in Nat, AfterJob(n)
  PROVE  /\ need_stored_block' \in Nat /\ pc' \in {"stored", "block"}
         /\ need_stored_block' <= need_stored_block
         /\ need_stored_block' > 0 => need_stored_block' = need_stored_block - n
BY DEF AfterJob, IInv, TypeOK

LEMMA JobIdleKeeps ==
  ASSUME IInv, JobIdle
  PROVE  IInv'
<1>1. PlacesInv' /\ WindowInv' /\ TakenInv'
  BY WindowStays DEF JobIdle, user, stream
<1>2. /\ need_stored_block' \in Nat /\ pc' \in {"stored", "block"}
      /\ need_stored_block' <= need_stored_block
  BY AfterJobIs DEF JobIdle
<1>3. TypeOK'
  BY <1>2 DEF JobIdle, window, user, job, stream, IInv, TypeOK
<1>4. JobInv'
  BY <1>2, Sizes DEF JobIdle, window, user, job, stream, IInv, TypeOK, JobInv, Offered, AtMost
<1> QED BY <1>1, <1>3, <1>4 DEF IInv

LEMMA JobNoMemoryKeeps ==
  ASSUME IInv, NEW n \in 1..bytes_in, JobNoMemory(n)
  PROVE  IInv'
<1>1. PlacesInv' /\ WindowInv' /\ TakenInv'
  BY WindowStays DEF JobNoMemory, user, stream
<1>2. /\ need_stored_block' \in Nat /\ pc' \in {"stored", "block"}
      /\ need_stored_block' <= need_stored_block
  BY AfterJobIs DEF JobNoMemory
<1>3. TypeOK'
  BY <1>2 DEF JobNoMemory, window, user, job, stream, IInv, TypeOK
<1>4. JobInv'
  BY <1>2, Sizes DEF JobNoMemory, window, user, job, stream, IInv, TypeOK, JobInv, Offered, AtMost
<1> QED BY <1>1, <1>3, <1>4 DEF IInv

\* The steps that only move on.
LEMMA MovesOnKeeps ==
  ASSUME IInv, CacheNoMemory \/ Abort \/ NoInput \/ Again
  PROVE  IInv'
<1>1. /\ UNCHANGED <<wrap, max_history_len, status, dict_len, row, torn, dicts, resets, cur_in, used_in, fifo_in,
                     history_len, avail_in, nin, place, need_stored_block, flush, fc, histbytes, bytes_in>>
      /\ pc \in {"s2", "stored", "block"} /\ pc' \in {"app", "dead", "block", "s2"}
  BY DEF CacheNoMemory, Abort, NoInput, Again, Compresses, stream, window, user, job
<1>2. PlacesInv' /\ WindowInv' /\ TakenInv'
  BY <1>1, WindowStays DEF window
<1>3. TypeOK'
  BY <1>1 DEF IInv, TypeOK
<1>4. JobInv'
  BY <1>1 DEF IInv, TypeOK, JobInv, Offered
<1> QED BY <1>2, <1>3, <1>4 DEF IInv

LEMMA ReturnKeeps ==
  ASSUME IInv, Return
  PROVE  IInv'
<1>1. PlacesInv' /\ WindowInv' /\ TakenInv'
  BY WindowStays DEF Return, user
<1>2. TypeOK'
  BY DEF Return, window, user, IInv, TypeOK
<1>3. JobInv'
  BY DEF Return, window, user, IInv, TypeOK, JobInv, Offered
<1> QED BY <1>1, <1>2, <1>3 DEF IInv

LEMMA ResetKeeps ==
  ASSUME IInv, Reset
  PROVE  IInv'
<1>1. TypeOK'
  <2>1. fifo_in' \in Fifos \cup {NULL}
    BY FifoType DEF Reset
  <2>2. dict_len' \in BOOLEAN /\ torn' \in BOOLEAN
    BY DEF Reset
  <2>3. place' \in 0..MaxPlace /\ row' \in 0..MaxRow /\ resets' \in 0..MaxResets
    BY Sizes DEF Reset, IInv, TypeOK
  <2> QED BY <2>1, <2>2, <2>3 DEF Reset, job, IInv, TypeOK
<1>2. PlacesInv'
  <2>1. fifo_in' = NULL => fifo_in = NULL
    BY FifoType DEF Reset
  <2>2. /\ cur_in' = 0 /\ used_in' = 0 /\ row' = 0 /\ history_len' = history_len
        /\ max_history_len' = max_history_len
    BY DEF Reset
  <2>3. 0 * MaxDict = 0
    BY Sizes
  <2>4. Half' = Half
    BY DEF Half
  <2> QED BY <2>1, <2>2, <2>3, Sizes DEF IInv, PlacesInv
<1>3. TakenInv'
  BY Sizes DEF Reset, TakenInv
<1>4. LengthsInv'
  BY Bounds DEF Reset, LengthsInv, IInv, TypeOK
<1>5. BytesInv'
  BY DEF Reset, BytesInv, IInv, TypeOK
<1>7. WindowInv'
  BY <1>4, <1>5 DEF Reset, WindowInv
<1>6. JobInv'
  BY Sizes DEF Reset, JobInv, Offered, AtMost
<1> QED BY <1>1, <1>2, <1>3, <1>6, <1>7 DEF IInv

-----------------------------------------------------------------------------
LEMMA AtMostIs ==
  ASSUME NEW x \in Nat, NEW y \in Nat
  PROVE  /\ AtMost(x, y) \in Nat /\ AtMost(x, y) <= x /\ AtMost(x, y) <= y
         /\ AtMost(x, y) = x \/ AtMost(x, y) = y
BY DEF AtMost

LEMMA MinusIs ==
  ASSUME NEW x \in Nat, NEW y \in Nat
  PROVE  /\ Minus(x, y) \in Nat /\ Minus(x, y) <= x
         /\ x >= y => Minus(x, y) = x - y
         /\ x <= y => Minus(x, y) = 0
BY DEF Minus

\* Before cur_in there is the history in full, unless the assertion fails.
LEMMA HistoryFull ==
  ASSUME IInv, SmallThreshold, history_len <= cur_in
  PROVE  history_len = AtMost(cur_in, max_history_len)
BY Bounds DEF IInv, WindowInv, LengthsInv, TypeOK, AtMost

\* Where the cached input goes, whatever the threshold.
LEMMA CacheInputPlaces ==
  ASSUME IInv, CacheInput
  PROVE  TypeOK' /\ PlacesInv' /\ TakenInv' /\ JobInv'
<1> DEFINE n == TakenAt(CacheAt)
           h == max_history_len
           at == CacheAt
           old == IF Full THEN KeptTail(h) ELSE Fifo
<1>1. /\ used_in + avail_in <= Threshold /\ status = "deflate"
      /\ cur_in' = at /\ used_in' = used_in + n /\ avail_in' = avail_in - n /\ nin' = nin + n
      /\ fifo_in' = [i \in DOMAIN old |-> IF at + used_in <= i /\ i < at + used_in + n
                                            THEN NextIn(i - (at + used_in) + 1) ELSE old[i]]
      /\ pc' = "app"
      /\ UNCHANGED <<wrap, max_history_len, status, dict_len, row, torn, dicts, resets, history_len, fc,
                     histbytes, bytes_in, need_stored_block, flush, place>>
  BY DEF CacheInput, Small, stream, job, Moved, IInv, JobInv
<1>2. /\ cur_in \in Nat /\ used_in \in Nat /\ avail_in \in Nat /\ nin \in Nat /\ dicts \in Nat /\ place \in Nat
      /\ Half \in Nat /\ 2 * Half <= LenIn /\ LenIn \in Nat /\ Threshold \in Nat /\ Threshold <= Half
      /\ h \in Nat /\ h <= Half /\ history_len \in Nat /\ history_len <= h
      /\ cur_in + used_in <= LenIn
  BY Bounds, Sizes DEF IInv, TypeOK
<1>3. /\ Full => at = h
      /\ ~Full => at = cur_in /\ (cur_in + used_in > Half => avail_in = 0)
  BY <1>1, <1>2 DEF Full, Room, Minus, CacheAt
<1>4. /\ at \in Nat /\ n \in Nat /\ n <= avail_in
      /\ at + used_in + n <= LenIn
  BY <1>1, <1>2, <1>3 DEF AtMost, TakenAt
<1>5. Fifo \in Fifos
  BY FifoType
<1>6. \A i \in 0..LenIn - 1 : i < h + used_in => Byte(cur_in - h + i) \in Nat
  <2> SUFFICES ASSUME NEW i \in 0..LenIn - 1, i < h + used_in
               PROVE  Byte(cur_in - h + i) \in Nat
    OBVIOUS
  <2>1. cur_in - h + i >= 0 => cur_in - h + i \in 0..LenIn - 1
    BY <1>2
  <2> QED BY <1>5, <2>1 DEF Byte, Fifos
<1>7. old \in Fifos
  <2>1. CASE Full
    <3>1. old = [i \in 0..LenIn - 1 |-> IF 0 <= i /\ i < 0 + (h + used_in) THEN Byte(cur_in - h + (i - 0))
                                        ELSE Fifo[i]]
      BY <1>5, <2>1 DEF KeptTail, Moved, Fifos
    <3>2. \A i \in 0..LenIn - 1 : 0 + (h + used_in) = h + used_in /\ i - 0 = i
      BY <1>2
    <3> HIDE DEF old
    <3> QED BY <1>5, <1>6, <3>1, <3>2 DEF Fifos
  <2>2. CASE ~Full
    BY <1>5, <2>2
  <2> QED BY <2>1, <2>2
<1> HIDE DEF old, n, at
<1>8. fifo_in' \in Fifos
  <2>1. \A i \in 0..LenIn - 1 : at + used_in <= i => NextIn(i - (at + used_in) + 1) \in Nat
    BY <1>2, <1>4 DEF NextIn
  <2> QED BY <1>1, <1>2, <1>4, <1>7, <2>1 DEF Fifos
<1>9. TypeOK'
  BY <1>1, <1>2, <1>4, <1>8 DEF IInv, TypeOK
<1>10. TakenInv'
  BY <1>1, <1>2, <1>4 DEF IInv, TakenInv, TypeOK
<1>11. PlacesInv'
  <2>1. cur_in' <= Half + row * MaxDict
    <3>1. row * MaxDict \in Nat
      BY Rows DEF IInv, TypeOK
    <3> QED BY <1>1, <1>2, <1>3, <1>4, <3>1 DEF IInv, PlacesInv
  <2>2. cur_in' + used_in' <= LenIn
    BY <1>1, <1>2, <1>4
  <2>3. used_in' <= Threshold
    BY <1>1, <1>2, <1>4
  <2> QED BY <1>1, <1>2, <2>1, <2>2, <2>3, <1>8, FifoType DEF PlacesInv, Half
<1>12. JobInv'
  BY <1>1, <1>2, <1>4, Sizes DEF IInv, JobInv, TypeOK, Offered, AtMost
<1> QED BY <1>9, <1>10, <1>11, <1>12

\* With a small threshold there is room for the history and for all the input.
LEMMA CacheInputFits ==
  ASSUME IInv, SmallThreshold, CacheInput
  PROVE  /\ TakenAt(CacheAt) = avail_in
         /\ Full => CacheAt = max_history_len /\ cur_in >= max_history_len /\ history_len = max_history_len
         /\ ~Full => CacheAt = cur_in
         /\ used_in + avail_in > 0 => CacheAt + used_in + avail_in <= Half
<1>1. used_in + avail_in <= Threshold
  BY DEF CacheInput, Small
<1>2. /\ cur_in \in Nat /\ used_in \in Nat /\ avail_in \in Nat /\ Half \in Nat /\ Threshold \in Nat
      /\ max_history_len \in Nat /\ max_history_len + Threshold <= Half /\ history_len \in Nat
      /\ (history_len >= cur_in \/ history_len = max_history_len) /\ history_len <= max_history_len
      /\ used_in > 0 => cur_in + used_in <= Half
  BY Bounds, Sizes DEF IInv, TypeOK, WindowInv, LengthsInv
<1>3. /\ Full => CacheAt = max_history_len /\ cur_in >= max_history_len /\ history_len = max_history_len
      /\ ~Full => CacheAt = cur_in /\ (cur_in + used_in > Half => avail_in = 0)
      /\ ~Full /\ cur_in + used_in <= Half => cur_in + used_in + avail_in <= Half
      /\ Full => CacheAt + used_in + avail_in <= Half
  BY <1>1, <1>2 DEF Full, Room, Minus, CacheAt
<1>4. TakenAt(CacheAt) = avail_in
  BY <1>1, <1>2, <1>3 DEF TakenAt, AtMost
<1> QED BY <1>2, <1>3, <1>4

LEMMA CacheInputWindow ==
  ASSUME IInv, SmallThreshold, CacheInput
  PROVE  (used_in > 0 => cur_in + used_in <= Half)' /\ LengthsInv' /\ BytesInv'
<1> DEFINE n == TakenAt(CacheAt)
           h == max_history_len
           at == CacheAt
           old == IF Full THEN KeptTail(h) ELSE Fifo
<1>1. /\ used_in + avail_in <= Threshold /\ status = "deflate"
      /\ cur_in' = at /\ used_in' = used_in + n /\ avail_in' = avail_in - n /\ nin' = nin + n
      /\ fifo_in' = [i \in DOMAIN old |-> IF at + used_in <= i /\ i < at + used_in + n
                                            THEN NextIn(i - (at + used_in) + 1) ELSE old[i]]
      /\ pc' = "app"
      /\ UNCHANGED <<wrap, max_history_len, status, dict_len, row, torn, dicts, resets, history_len, fc,
                     histbytes, bytes_in, need_stored_block, flush, place>>
  BY DEF CacheInput, Small, stream, job, Moved, IInv, JobInv
<1>2. /\ cur_in \in Nat /\ used_in \in Nat /\ avail_in \in Nat /\ nin \in Nat /\ dicts \in Nat /\ place \in Nat
      /\ Half \in Nat /\ 2 * Half <= LenIn /\ LenIn \in Nat /\ Threshold \in Nat
      /\ h \in Nat /\ h + Threshold <= Half /\ history_len \in Nat /\ history_len <= h
      /\ cur_in + used_in <= LenIn /\ (history_len >= cur_in \/ history_len = h)
      /\ used_in > 0 => cur_in + used_in <= Half
  BY Bounds, Sizes DEF IInv, TypeOK, PlacesInv, WindowInv, LengthsInv
<1>3. /\ Full => at = h /\ cur_in >= h /\ history_len = h
      /\ ~Full => at = cur_in
  BY CacheInputFits
<1>4. /\ at \in Nat /\ n \in Nat /\ n <= avail_in
      /\ used_in + n > 0 => at + used_in + n <= Half
      /\ used_in > 0 => at + used_in <= Half
  BY <1>1, <1>2, <1>3, CacheInputFits
<1>5. Fifo \in Fifos
  BY FifoType
<1>6. Full => old = [i \in 0..LenIn - 1 |-> IF i < h + used_in THEN Fifo[cur_in - h + i] ELSE Fifo[i]]
  <2>1. Full => old = [i \in 0..LenIn - 1 |-> IF 0 <= i /\ i < 0 + (h + used_in) THEN Byte(cur_in - h + (i - 0))
                                              ELSE Fifo[i]]
    BY <1>5 DEF KeptTail, Moved, Fifos
  <2>2. Full => \A i \in 0..LenIn - 1 : /\ 0 + (h + used_in) = h + used_in /\ i - 0 = i /\ 0 <= i
                                         /\ cur_in - h + i >= 0
    BY <1>2, <1>3
  <2> HIDE DEF old
  <2> QED BY <2>1, <2>2 DEF Byte
<1>7. old \in Fifos
  <2>1. CASE Full
    <3>1. \A i \in 0..LenIn - 1 : i < h + used_in => cur_in - h + i \in 0..LenIn - 1
      BY <1>2, <1>3, <2>1
    <3> QED BY <1>2, <1>5, <1>6, <2>1, <3>1 DEF Fifos
  <2> QED BY <1>5, <2>1
<1> HIDE DEF old, n, at
<1>8. fifo_in' \in Fifos
  <2>1. \A i \in 0..LenIn - 1 : at + used_in <= i => NextIn(i - (at + used_in) + 1) \in Nat
    BY <1>2, <1>4 DEF NextIn
  <2> QED BY <1>1, <1>2, <1>4, <1>7, <2>1 DEF Fifos
<1>9. \A i \in 0..LenIn - 1 :
        fifo_in'[i] = IF at + used_in <= i /\ i < at + used_in + n
                        THEN NextIn(i - (at + used_in) + 1) ELSE old[i]
  BY <1>1, <1>7 DEF Fifos
<1>10. (used_in > 0 => cur_in + used_in <= Half)'
  BY <1>1, <1>2, <1>4 DEF Half
<1>13. LengthsInv'
  BY <1>1, <1>2, <1>3 DEF IInv, WindowInv, LengthsInv
<1>14. BytesInv'
  <2> SUFFICES ASSUME ~torn'
               PROVE  /\ \A k \in 1..history_len' : k <= cur_in' => fifo_in'[cur_in' - k] = place' - k + 1
                      /\ \A k \in 0..used_in' - 1 : fifo_in'[cur_in' + k] = place' + k + 1
    BY DEF BytesInv
  <2> ~torn
    BY <1>1
  <2>1. place + used_in = nin + dicts
    BY DEF IInv, TakenInv
  <2>2. /\ \A k \in 1..history_len : k <= cur_in => Fifo[cur_in - k] = place - k + 1
        /\ \A k \in 0..used_in - 1 : Fifo[cur_in + k] = place + k + 1
    <3>1. CASE fifo_in = NULL
      <4>1. history_len = 0 /\ used_in = 0
        BY <3>1 DEF IInv, PlacesInv
      <4> QED BY <4>1
    <3>2. CASE fifo_in # NULL
      <4>1. Fifo = fifo_in
        BY <3>2, FifoType
      <4> QED BY <3>2, <4>1 DEF IInv, WindowInv, BytesInv
    <3> QED BY <3>1, <3>2
  <2>3. /\ \A k \in 1..history_len : k <= at => old[at - k] = place - k + 1
        /\ \A k \in 0..used_in - 1 : old[at + k] = place + k + 1
    <3>1. CASE Full
      <4>1. \A k \in 1..history_len : k <= at => old[at - k] = Fifo[cur_in - k]
        BY <1>2, <1>3, <1>6, <3>1
      <4>2. \A k \in 0..used_in - 1 : old[at + k] = Fifo[cur_in + k]
        BY <1>2, <1>3, <1>4, <1>6, <3>1
      <4>3. \A k \in 1..history_len : k <= at => k <= cur_in
        BY <1>2, <1>3, <3>1
      <4> QED BY <2>2, <4>1, <4>2, <4>3
    <3>2. CASE ~Full
      BY <1>3, <2>2, <3>2 DEF old
    <3> QED BY <3>1, <3>2
  <2>4. ASSUME NEW k \in 1..history_len, k <= at
        PROVE  fifo_in'[at - k] = place - k + 1
    <3>1. at - k \in 0..LenIn - 1 /\ ~(at + used_in <= at - k)
      BY <1>2, <1>3, <1>4, <2>4
    <3> QED BY <1>9, <2>3, <2>4, <3>1
  <2>5. ASSUME NEW k \in 0..used_in + n - 1
        PROVE  fifo_in'[at + k] = place + k + 1
    <3>1. at + k \in 0..LenIn - 1
      BY <1>2, <1>4, <2>5
    <3>2. CASE k < used_in
      <4>1. fifo_in'[at + k] = old[at + k]
        BY <1>2, <1>4, <1>9, <3>1, <3>2
      <4>2. k \in 0..used_in - 1
        BY <1>2, <3>2
      <4> QED BY <2>3, <4>1, <4>2
    <3>3. CASE k >= used_in
      <4>1. fifo_in'[at + k] = NextIn((at + k) - (at + used_in) + 1)
        BY <1>2, <1>4, <1>9, <3>1, <3>3
      <4> QED BY <1>2, <1>4, <2>1, <4>1 DEF NextIn
    <3> QED BY <1>2, <1>4, <3>2, <3>3
  <2>6. /\ cur_in' = at /\ used_in' = used_in + n /\ history_len' = history_len /\ place' = place
    BY <1>1
  <2>7. ASSUME NEW k \in 1..history_len', k <= cur_in'
        PROVE  fifo_in'[cur_in' - k] = place' - k + 1
    <3>1. k \in 1..history_len /\ k <= at
      BY <2>6, <2>7
    <3>2. fifo_in'[at - k] = place - k + 1
      BY <2>4, <3>1
    <3> QED BY <2>6, <3>2
  <2>8. ASSUME NEW k \in 0..used_in' - 1
        PROVE  fifo_in'[cur_in' + k] = place' + k + 1
    <3>1. k \in 0..used_in + n - 1
      BY <1>2, <1>4, <2>6
    <3>2. fifo_in'[at + k] = place + k + 1
      BY <2>5, <3>1
    <3> QED BY <2>6, <3>2
  <2> QED BY <2>7, <2>8
<1> QED BY <1>10, <1>13, <1>14

LEMMA CacheInputKeeps ==
  ASSUME IInv, CacheInput
  PROVE  IInv'
BY CacheInputPlaces, CacheInputWindow DEF IInv, WindowInv, SmallThreshold, Half

\* The end of a dictionary, behind what was there.
LEMMA SetDictionaryKeeps ==
  ASSUME IInv, NEW n \in DictLens, SetDictionary(n)
  PROVE  IInv'
<1> DEFINE at == DictAt(n)
           t == DictTail(n)
           first == place + n - t + 1
           h == max_history_len
<1>1. /\ used_in = 0 /\ pc = "app" /\ row < MaxRow /\ place + avail_in + n <= MaxPlace
      /\ fifo_in' = [i \in DOMAIN Fifo |-> IF at <= i /\ i < at + t THEN first + (i - at) ELSE Fifo[i]]
      /\ cur_in' = at + t /\ history_len' = DictHistory(n) /\ dict_len' = TRUE
      /\ dicts' = dicts + n /\ place' = place + n /\ row' = row + 1
      /\ UNCHANGED <<wrap, max_history_len, status, torn, resets, used_in, avail_in, nin, fc, histbytes,
                     bytes_in, need_stored_block, flush, pc>>
  BY DEF SetDictionary, TakesDictionary, user, job, Moved, IInv, PlacesInv
<1>2. /\ n \in Nat /\ n > 0 /\ cur_in \in Nat /\ avail_in \in Nat /\ nin \in Nat /\ dicts \in Nat
      /\ place \in Nat /\ Half \in Nat /\ 2 * Half <= LenIn /\ LenIn \in Nat /\ MaxDict \in Nat
      /\ h \in Nat /\ h <= MaxDict /\ history_len \in Nat /\ history_len <= h
      /\ row \in 0..MaxRow /\ MaxRow \in Nat
      /\ MaxPlace \in Nat
  BY Bounds, Sizes DEF IInv, TypeOK, PlacesInv
<1>w. SmallThreshold => LengthsInv /\ BytesInv
  BY DEF IInv, WindowInv
<1>3. /\ Long(n) => at = 0 /\ t = MaxDict /\ t <= n
      /\ ~Long(n) => at = cur_in /\ t = n
      /\ at \in Nat /\ t \in Nat /\ t <= MaxDict /\ t <= n /\ at <= cur_in
  BY <1>2 DEF Long, DictAt, DictTail, AtMost
<1>4. /\ DictHistory(n) \in Nat /\ DictHistory(n) <= h
      /\ (history_len >= cur_in \/ history_len = h) => (DictHistory(n) >= at + t \/ DictHistory(n) = h)
      /\ DictHistory(n) <= history_len + n
      /\ history_len = AtMost(place, h) => DictHistory(n) = AtMost(place + n, h)
  BY <1>2, <1>3 DEF DictHistory, AtMost, Long
<1>5. /\ row * MaxDict \in Nat /\ (row + 1) * MaxDict = row * MaxDict + MaxDict
      /\ row + 1 \in 0..MaxRow /\ Half + (row + 1) * MaxDict <= LenIn
  BY <1>1, <1>2, Rows
<1>6. at + t <= Half + (row + 1) * MaxDict
  BY <1>2, <1>3, <1>5 DEF IInv, PlacesInv
<1>7. Fifo \in Fifos
  BY FifoType
<1> HIDE DEF at, t
<1>8. /\ fifo_in' \in Fifos
      /\ \A i \in 0..LenIn - 1 : fifo_in'[i] = IF at <= i /\ i < at + t THEN first + (i - at) ELSE Fifo[i]
  <2>1. \A i \in 0..LenIn - 1 : at <= i => first + (i - at) \in Nat
    BY <1>2, <1>3
  <2> HIDE DEF first
  <2> QED BY <1>1, <1>7, <2>1 DEF Fifos
<1>9. TypeOK'
  <2>1. dict_len' \in BOOLEAN /\ torn' \in BOOLEAN
    BY <1>1 DEF IInv, TypeOK
  <2>2. place' \in 0..MaxPlace /\ row' \in 0..MaxRow /\ dicts' \in Nat
    BY <1>1, <1>2, <1>5
  <2>3. cur_in' \in Nat /\ history_len' \in Nat
    BY <1>1, <1>2, <1>3, <1>4
  <2> QED BY <1>1, <1>8, <2>1, <2>2, <2>3 DEF IInv, TypeOK
<1>10. PlacesInv'
  <2>1. cur_in' <= Half + row' * MaxDict
    BY <1>1, <1>6
  <2>2. fifo_in' # NULL
    BY <1>8, FifoType
  <2> QED BY <1>1, <1>2, <1>4, <2>1, <2>2 DEF IInv, PlacesInv, Half
<1>11. TakenInv'
  BY <1>1, <1>2 DEF IInv, TakenInv
<1>12. ASSUME SmallThreshold PROVE LengthsInv'
  BY <1>1, <1>2, <1>3, <1>4, <1>12, <1>w DEF LengthsInv
<1>13. ASSUME SmallThreshold PROVE BytesInv'
  <2> SUFFICES ASSUME ~torn'
               PROVE  /\ \A k \in 1..history_len' : k <= cur_in' => fifo_in'[cur_in' - k] = place' - k + 1
                      /\ \A k \in 0..used_in' - 1 : fifo_in'[cur_in' + k] = place' + k + 1
    BY DEF BytesInv
  <2>1. ~torn /\ used_in' = 0 /\ cur_in' = at + t /\ place' = place + n /\ history_len' = DictHistory(n)
    BY <1>1
  <2>2. \A k \in 1..history_len : k <= cur_in => Fifo[cur_in - k] = place - k + 1
    <3>1. CASE fifo_in = NULL
      <4>1. history_len = 0
        BY <3>1 DEF IInv, PlacesInv
      <4> QED BY <4>1
    <3>2. CASE fifo_in # NULL
      <4>1. Fifo = fifo_in
        BY <3>2, FifoType
      <4> QED BY <1>13, <1>w, <2>1, <3>2, <4>1 DEF BytesInv
    <3> QED BY <3>1, <3>2
  <2>3. ASSUME NEW k \in 1..history_len', k <= cur_in'
        PROVE  fifo_in'[cur_in' - k] = place' - k + 1
    <3>1. k \in Nat /\ k >= 1 /\ k <= at + t /\ k <= history_len + n
      BY <1>2, <1>3, <1>4, <2>1, <2>3
    <3>2. (at + t) - k \in 0..LenIn - 1 /\ at + t <= LenIn
      BY <1>2, <1>3, <1>5, <1>6, <3>1
    <3>3. CASE k <= t
      <4>1. fifo_in'[(at + t) - k] = first + (((at + t) - k) - at)
        BY <1>2, <1>3, <1>8, <3>1, <3>2, <3>3
      <4> QED BY <1>2, <1>3, <2>1, <3>1, <4>1
    <3>4. CASE k > t
      <4>1. ~Long(n) /\ at = cur_in /\ t = n
        BY <1>3, <3>1, <3>4
      <4>2. fifo_in'[(at + t) - k] = Fifo[(at + t) - k]
        BY <1>2, <1>3, <1>8, <3>1, <3>2, <3>4
      <4>3. k - n \in 1..history_len /\ k - n <= cur_in
        BY <1>2, <1>3, <3>1, <3>4, <4>1
      <4>4. Fifo[cur_in - (k - n)] = place - (k - n) + 1
        BY <2>2, <4>3
      <4>5. cur_in - (k - n) = (at + t) - k /\ place - (k - n) + 1 = (place + n) - k + 1
        BY <1>2, <3>1, <4>1
      <4> QED BY <2>1, <4>2, <4>4, <4>5
    <3> QED BY <1>2, <1>3, <3>1, <3>3, <3>4
  <2> QED BY <2>1, <2>3
<1>14. JobInv'
  BY <1>1 DEF IInv, JobInv, Offered
<1>15. WindowInv'
  BY <1>1, <1>12, <1>13 DEF WindowInv, SmallThreshold, Half
<1> QED BY <1>9, <1>10, <1>11, <1>14, <1>15 DEF IInv

LEMMA SetDictionaryFailsKeeps ==
  ASSUME IInv, NEW n \in DictLens, SetDictionaryFails(n)
  PROVE  IInv'
<1>1. /\ used_in = 0 /\ pc = "app"
      /\ cur_in' = cur_in \/ (Long(n) /\ cur_in' = 0)
      /\ fifo_in' = IF Long(n) THEN [i \in DOMAIN Fifo |-> IF 0 <= i /\ i < 0 + MaxDict THEN 0 ELSE Fifo[i]]
                                ELSE Fifo
      /\ UNCHANGED <<wrap, max_history_len, status, dict_len, row, dicts, resets, used_in, history_len,
                     avail_in, nin, fc, histbytes, bytes_in, need_stored_block, flush, pc, place>>
  BY DEF SetDictionaryFails, TakesDictionary, user, job, Moved, IInv, PlacesInv
<1>0. torn' \in BOOLEAN /\ (~torn' => ~torn /\ ~Long(n))
  BY Zenon DEF SetDictionaryFails
<1>2. /\ cur_in \in Nat /\ Half \in Nat /\ history_len \in Nat /\ row * MaxDict \in Nat
      /\ cur_in' \in Nat /\ cur_in' <= cur_in
  BY <1>1, Sizes, Rows DEF IInv, TypeOK
<1>3. fifo_in' \in Fifos
  <2>1. [i \in DOMAIN Fifo |-> IF 0 <= i /\ i < 0 + MaxDict THEN 0 ELSE Fifo[i]] \in Fifos
    BY FifoType DEF Fifos
  <2> QED BY <1>1, <2>1, FifoType
<1>4. fifo_in' # NULL
  BY <1>3, FifoType
<1>5. TypeOK'
  <2>1. dict_len' \in BOOLEAN
    BY <1>1 DEF IInv, TypeOK
  <2> QED BY <1>0, <1>1, <1>2, <1>3, <2>1 DEF IInv, TypeOK
<1>6. PlacesInv'
  BY <1>1, <1>2, <1>4 DEF IInv, PlacesInv, Half
<1>7. TakenInv'
  BY <1>1 DEF IInv, TakenInv
<1>8. LengthsInv => LengthsInv'
  BY <1>0, <1>1, <1>2 DEF IInv, TypeOK, LengthsInv
<1>9. BytesInv => BytesInv'
  <2> SUFFICES ASSUME BytesInv PROVE BytesInv'
    OBVIOUS
  <2>1. CASE torn'
    BY <2>1 DEF BytesInv
  <2>2. CASE ~torn'
    <3>1. /\ cur_in' = cur_in /\ fifo_in' = Fifo /\ ~torn /\ used_in' = 0 /\ used_in = 0
          /\ history_len' = history_len /\ place' = place
      BY <1>0, <1>1, <2>2
    <3>2. CASE fifo_in = NULL
      <4>1. history_len' = 0 /\ used_in' = 0
        BY <3>1, <3>2 DEF IInv, PlacesInv
      <4> QED BY <4>1 DEF BytesInv
    <3>3. CASE fifo_in # NULL
      <4>1. fifo_in' = fifo_in
        BY <3>1, <3>3, FifoType
      <4> QED BY <3>1, <3>3, <4>1 DEF BytesInv
    <3> QED BY <3>2, <3>3
  <2> QED BY <2>1, <2>2
<1>10. JobInv'
  BY <1>1 DEF IInv, JobInv, Offered
<1>11. WindowInv'
  BY <1>1, <1>8, <1>9 DEF IInv, WindowInv, SmallThreshold, Half
<1> QED BY <1>5, <1>6, <1>7, <1>10, <1>11 DEF IInv

\* A job takes the cached input first; the rest of what it read is copied
\* behind it, in so far as the level has a use for it.
LEMMA JobDoneKeeps ==
  ASSUME IInv, NEW n \in 1..bytes_in, JobDone(n)
  PROVE  IInv'
<1> DEFINE fu == FromUsed(n)
           fx == FromNext(n)
           kept == Kept(n)
           tail == Tail(n)
           old == KeptHistory(n)
           throws == ThrowsAway(n)
           h == max_history_len
<1>1. /\ used_in' = used_in - fu /\ cur_in' = kept + tail /\ history_len' = AtMost(kept + tail, h)
      /\ avail_in' = avail_in - fx /\ nin' = nin + fx /\ place' = place + n /\ row' = 0
      /\ UNCHANGED <<wrap, max_history_len, status, dict_len, torn, dicts, resets, fc, histbytes, bytes_in,
                     flush>>
  BY DEF JobDone, job
<1>2. fifo_in' = [i \in DOMAIN old |-> IF kept <= i /\ i < kept + tail THEN NextIn(fx - tail + (i - kept) + 1)
                                       ELSE old[i]]
  BY DEF JobDone, Moved
<1>3. /\ cur_in \in Nat /\ used_in \in Nat /\ avail_in \in Nat /\ nin \in Nat /\ dicts \in Nat /\ place \in Nat
      /\ Half \in Nat /\ 2 * Half <= LenIn /\ LenIn \in Nat /\ LenIn > 0 /\ MaxPlace \in Nat
      /\ Threshold \in Nat /\ Threshold <= Half /\ h \in Nat /\ h <= Half /\ history_len \in Nat
      /\ used_in <= Threshold /\ cur_in + used_in <= LenIn /\ need_stored_block \in Nat
  BY Bounds, Sizes DEF IInv, TypeOK, PlacesInv
<1>w. SmallThreshold => LengthsInv /\ BytesInv /\ (used_in > 0 => cur_in + used_in <= Half)
  BY DEF IInv, WindowInv
<1>4. /\ pc = "submit" /\ status = "deflate" /\ need_stored_block <= used_in + Offered
      /\ Offered = AtMost(avail_in, BufSize) /\ BufSize \in Nat /\ n <= used_in + Offered
      /\ history_len <= cur_in /\ n \in Nat /\ n >= 1 /\ n <= used_in + avail_in
  BY <1>3, Sizes DEF JobDone, IInv, JobInv, TypeOK, Offered, AtMost
<1>5. SmallThreshold => history_len = AtMost(cur_in, h)
  BY <1>4, HistoryFull
<1>6. /\ fu \in Nat /\ fx \in Nat /\ fu + fx = n /\ fu <= used_in /\ fx <= avail_in
      /\ fx > 0 => fu = used_in
      /\ throws <=> cur_in + n > Half
      /\ throws /\ SmallThreshold => fx > 0
  BY <1>3, <1>4, <1>w DEF FromUsed, FromNext, ThrowsAway, AtMost, Minus
<1>7. /\ kept \in Nat /\ tail \in Nat /\ tail <= fx /\ tail <= h /\ (tail = fx \/ tail = h)
      /\ throws => kept + tail = h /\ kept <= h /\ kept <= cur_in + fu
      /\ ~throws => kept = cur_in + fu
  BY <1>3, <1>6 DEF Kept, Tail, AtMost, Minus
<1>8. Fifo \in Fifos
  BY FifoType
<1> HIDE DEF fu, fx, kept, tail
<1>9. /\ old \in Fifos
      /\ \A i \in 0..LenIn - 1 :
           old[i] = IF throws /\ i < kept THEN Fifo[cur_in + fu - kept + i] ELSE Fifo[i]
  <2>1. CASE throws
    <3>1. old = [i \in 0..LenIn - 1 |-> IF 0 <= i /\ i < 0 + kept THEN Fifo[cur_in + fu - kept + (i - 0)]
                                        ELSE Fifo[i]]
      BY <1>8, <2>1 DEF KeptHistory, Moved, Fifos, kept, fu
    <3>2. \A i \in 0..LenIn - 1 : i < kept => cur_in + fu - kept + i \in 0..LenIn - 1
      BY <1>3, <1>6, <1>7, <2>1
    <3> HIDE DEF old
    <3>3. \A i \in 0..LenIn - 1 : i - 0 = i /\ 0 <= i /\ 0 + kept = kept
      BY <1>3, <1>7
    <3> QED BY <1>8, <2>1, <3>1, <3>2, <3>3 DEF Fifos
  <2>2. CASE ~throws
    BY <1>8, <2>2 DEF KeptHistory
  <2> QED BY <2>1, <2>2
<1> HIDE DEF old, throws
<1>10. /\ fifo_in' \in Fifos
       /\ \A i \in 0..LenIn - 1 :
            fifo_in'[i] = IF kept <= i /\ i < kept + tail THEN NextIn(fx - tail + (i - kept) + 1) ELSE old[i]
  <2>1. \A i \in 0..LenIn - 1 : kept <= i => NextIn(fx - tail + (i - kept) + 1) \in Nat
    BY <1>3, <1>6, <1>7 DEF NextIn
  <2> QED BY <1>2, <1>9, <2>1 DEF Fifos
<1>11. /\ AtMost(kept + tail, h) \in Nat /\ AtMost(kept + tail, h) <= h
       /\ AtMost(kept + tail, h) <= kept + tail
       /\ AtMost(kept + tail, h) >= kept + tail \/ AtMost(kept + tail, h) = h
  BY <1>3, <1>7 DEF AtMost
<1>12. /\ need_stored_block' \in Nat /\ pc' \in {"stored", "block"}
       /\ need_stored_block' <= need_stored_block
       /\ need_stored_block' > 0 => need_stored_block' = need_stored_block - n
  BY AfterJobIs, <1>4 DEF JobDone
<1>13. TakenInv'
  BY <1>1, <1>3, <1>6 DEF IInv, TakenInv
<1>14. TypeOK'
  <2>1. place' \in 0..MaxPlace
    <3>1. place + used_in + avail_in <= MaxPlace
      BY DEF IInv, TakenInv
    <3> QED BY <1>1, <1>3, <1>4, <3>1
  <2>2. row' \in 0..MaxRow
    BY <1>1, Sizes
  <2>3. used_in' \in Nat /\ cur_in' \in Nat /\ history_len' \in Nat /\ avail_in' \in Nat /\ nin' \in Nat
    BY <1>1, <1>3, <1>6, <1>7, <1>11
  <2> QED BY <1>1, <1>10, <1>12, <2>1, <2>2, <2>3 DEF IInv, TypeOK
<1>15. PlacesInv'
  <2>1. cur_in' <= Half + row' * MaxDict
    <3>1. row' * MaxDict = 0
      BY <1>1, Sizes
    <3> QED BY <1>1, <1>3, <1>6, <1>7, <3>1
  <2>2. used_in' > 0 => cur_in' + used_in' <= LenIn
    BY <1>1, <1>3, <1>6, <1>7
  <2>4. history_len' <= h
    BY <1>1, <1>11
  <2>3. fifo_in' # NULL
    BY <1>10, FifoType
  <2> QED BY <1>1, <1>3, <1>4, <1>6, <2>1, <2>2, <2>3, <2>4 DEF PlacesInv, Half
<1>16. ASSUME SmallThreshold PROVE LengthsInv'
  <2>1. ASSUME history_len = AtMost(place, h)
        PROVE  AtMost(kept + tail, h) = AtMost(place + n, h)
    <3>1. cur_in < h => place = cur_in
      BY <1>3, <1>5, <1>16, <2>1 DEF AtMost
    <3>2. cur_in >= h => place >= h
      BY <1>3, <1>5, <1>16, <2>1 DEF AtMost
    <3>3. CASE throws
      BY <1>3, <1>4, <1>6, <1>7, <3>1, <3>2, <3>3 DEF AtMost
    <3>4. CASE ~throws
      BY <1>3, <1>4, <1>6, <1>7, <3>1, <3>2, <3>4 DEF AtMost
    <3> QED BY <3>3, <3>4
  <2>2. history_len' <= h /\ (history_len' >= cur_in' \/ history_len' = h)
    BY <1>1, <1>11
  <2>3. resets = 0 /\ ~torn => history_len' = AtMost(place', h)
    BY <1>1, <1>16, <1>w, <2>1 DEF LengthsInv
  <2> QED BY <1>1, <2>2, <2>3 DEF LengthsInv
<1>17. ASSUME SmallThreshold PROVE BytesInv'
  <2> SUFFICES ASSUME ~torn'
               PROVE  /\ \A k \in 1..history_len' : k <= cur_in' => fifo_in'[cur_in' - k] = place' - k + 1
                      /\ \A k \in 0..used_in' - 1 : fifo_in'[cur_in' + k] = place' + k + 1
    BY DEF BytesInv
  <2>1. /\ ~torn /\ cur_in' = kept + tail /\ place' = place + n /\ used_in' = used_in - fu
        /\ history_len' = AtMost(kept + tail, h)
    BY <1>1
  <2>2. place + used_in = nin + dicts
    BY DEF IInv, TakenInv
  <2>3. /\ \A k \in 1..history_len : k <= cur_in => Fifo[cur_in - k] = place - k + 1
        /\ \A k \in 0..used_in - 1 : Fifo[cur_in + k] = place + k + 1
    <3>1. CASE fifo_in = NULL
      <4>1. history_len = 0 /\ used_in = 0
        BY <3>1 DEF IInv, PlacesInv
      <4> QED BY <4>1
    <3>2. CASE fifo_in # NULL
      <4>1. Fifo = fifo_in
        BY <3>2, FifoType
      <4> QED BY <1>17, <1>w, <2>1, <3>2, <4>1 DEF BytesInv
    <3> QED BY <3>1, <3>2
  \* What was in the buffer before, by its distance from the end of the job.
  <2>4. ASSUME NEW k \in Nat, k > fx, k <= h, k <= cur_in + n
        PROVE  Fifo[cur_in + n - k] = place + n - k + 1
    <3>1. CASE k <= n
      <4>1. n - k \in 0..used_in - 1
        BY <1>3, <1>4, <1>6, <2>4, <3>1
      <4>2. Fifo[cur_in + (n - k)] = place + (n - k) + 1
        BY <2>3, <4>1
      <4>3. cur_in + (n - k) = cur_in + n - k /\ place + (n - k) + 1 = place + n - k + 1
        BY <1>3, <1>4
      <4> QED BY <4>2, <4>3
    <3>2. CASE k > n
      <4>1. k - n \in 1..history_len /\ k - n <= cur_in
        BY <1>3, <1>4, <1>5, <1>17, <2>4, <3>2 DEF AtMost
      <4>2. Fifo[cur_in - (k - n)] = place - (k - n) + 1
        BY <2>3, <4>1
      <4>3. cur_in - (k - n) = cur_in + n - k /\ place - (k - n) + 1 = place + n - k + 1
        BY <1>3, <1>4
      <4> QED BY <4>2, <4>3
    <3> QED BY <1>4, <3>1, <3>2
  <2>5. ASSUME NEW k \in 1..history_len', k <= cur_in'
        PROVE  fifo_in'[cur_in' - k] = place' - k + 1
    <3>1. k \in Nat /\ k >= 1 /\ k <= kept + tail /\ k <= h
      BY <1>3, <1>7, <1>11, <2>1, <2>5
    <3>2. (kept + tail) - k \in 0..LenIn - 1 /\ kept + tail <= LenIn
      BY <1>3, <1>6, <1>7, <3>1
    <3>3. CASE k <= tail
      <4>1. fifo_in'[(kept + tail) - k] = NextIn(fx - tail + (((kept + tail) - k) - kept) + 1)
        BY <1>3, <1>7, <1>10, <3>1, <3>2, <3>3
      <4>2. fx > 0 /\ n = used_in + fx
        BY <1>3, <1>6, <1>7, <3>1, <3>3
      <4> QED BY <1>3, <1>6, <1>7, <2>1, <2>2, <3>1, <4>1, <4>2 DEF NextIn
    <3>4. CASE k > tail
      <4>1. tail = fx
        BY <1>7, <3>1, <3>4, <1>3, <1>6
      <4>2. fifo_in'[(kept + tail) - k] = old[(kept + tail) - k]
        BY <1>3, <1>7, <1>10, <3>1, <3>2, <3>4
      <4>3. k <= cur_in + n
        BY <1>3, <1>4, <1>6, <1>7, <3>1, <4>1
      <4>4. old[(kept + tail) - k] = Fifo[cur_in + n - k]
        <5>1. CASE throws
          <6>1. (kept + tail) - k < kept
            BY <1>3, <1>7, <3>1, <3>4
          <6>2. old[(kept + tail) - k] = Fifo[cur_in + fu - kept + ((kept + tail) - k)]
            BY <1>9, <3>2, <5>1, <6>1
          <6>3. cur_in + fu - kept + ((kept + tail) - k) = cur_in + n - k
            BY <1>3, <1>4, <1>6, <1>7, <3>1, <4>1
          <6> QED BY <6>2, <6>3
        <5>2. CASE ~throws
          <6>1. old[(kept + tail) - k] = Fifo[(kept + tail) - k]
            BY <1>9, <3>2, <5>2
          <6>2. (kept + tail) - k = cur_in + n - k
            BY <1>3, <1>4, <1>6, <1>7, <3>1, <4>1, <5>2
          <6> QED BY <6>1, <6>2
        <5> QED BY <5>1, <5>2
      <4>5. Fifo[cur_in + n - k] = place + n - k + 1
        BY <2>4, <3>1, <3>4, <4>1, <4>3
      <4>6. cur_in' = kept + tail /\ place' = place + n
        BY <1>1
      <4>7. fifo_in'[(kept + tail) - k] = place + n - k + 1
        BY <4>2, <4>4, <4>5
      <4> QED BY <1>3, <1>4, <1>7, <4>6, <4>7
    <3> QED BY <1>7, <3>1, <3>3, <3>4
  <2>6. ASSUME NEW k \in 0..used_in' - 1
        PROVE  fifo_in'[cur_in' + k] = place' + k + 1
    <3>1. /\ k \in Nat /\ k < used_in - n /\ fx = 0 /\ tail = 0 /\ fu = n /\ ~throws
      BY <1>17, <1>3, <1>4, <1>6, <1>7, <2>1, <2>6
    <3>2. kept + tail + k = cur_in + (n + k) /\ cur_in + (n + k) \in 0..LenIn - 1 /\ n + k \in 0..used_in - 1
      BY <1>3, <1>4, <1>7, <3>1
    <3>3. ~(kept <= kept + tail + k /\ kept + tail + k < kept + tail)
      BY <1>7, <3>1
    <3>4. fifo_in'[kept + tail + k] = old[kept + tail + k]
      BY <1>10, <3>2, <3>3
    <3>5. old[kept + tail + k] = Fifo[cur_in + (n + k)]
      BY <1>9, <3>1, <3>2
    <3>6. Fifo[cur_in + (n + k)] = place + (n + k) + 1
      BY <2>3, <3>2
    <3> QED BY <1>3, <1>4, <2>1, <3>1, <3>4, <3>5, <3>6
  <2> QED BY <2>5, <2>6
<1>18. JobInv'
  <2>1. Offered' = AtMost(avail_in', BufSize)
    BY DEF Offered, AtMost
  <2>2. need_stored_block' <= used_in' + Offered'
    BY <1>1, <1>3, <1>4, <1>6, <1>12, <2>1 DEF AtMost
  <2> QED BY <1>1, <1>4, <1>12, <2>2 DEF JobInv
<1>19. (used_in > 0 /\ SmallThreshold => cur_in + used_in <= Half)'
  BY <1>1, <1>3, <1>6, <1>7, <1>w DEF SmallThreshold, Half
<1>20. WindowInv'
  BY <1>16, <1>17, <1>19 DEF WindowInv, SmallThreshold, Half
<1> QED BY <1>13, <1>14, <1>15, <1>18, <1>20 DEF IInv

-----------------------------------------------------------------------------
LEMMA NextKeeps ==
  ASSUME IInv, [Next]_vars
  PROVE  IInv'
<1>1. CASE Application
  BY <1>1, CallKeeps, SetDictionaryKeeps, SetDictionaryFailsKeeps, ResetKeeps DEF Application
<1>2. CASE Library
  BY <1>2, CacheInputKeeps, SubmitKeeps, MovesOnKeeps, ReturnKeeps DEF Library
<1>3. CASE Accelerator
  BY <1>3, JobLessKeeps, JobErrorKeeps, JobIdleKeeps, JobBigKeeps, JobDoneKeeps, JobNoMemoryKeeps
     DEF Accelerator
<1>4. CASE UNCHANGED vars
  <2>1. PlacesInv' /\ WindowInv' /\ TakenInv'
    BY <1>4, WindowStays DEF vars, stream, user
  <2>2. TypeOK'
    BY <1>4 DEF vars, stream, window, user, job, IInv, TypeOK
  <2>3. JobInv'
    BY <1>4 DEF vars, stream, window, user, job, IInv, JobInv, Offered
  <2> QED BY <2>1, <2>2, <2>3 DEF IInv
<1> QED BY <1>1, <1>2, <1>3, <1>4 DEF Next

\* The inductive invariant: the places in fifo_in and, with a small threshold, what it
\* holds around cur_in: the last bytes before the place where the next job begins and the
\* cached input after it.
THEOREM InductiveInvariant == Spec => []IInv
<1>1. Init => IInv
  BY InitKeeps
<1>2. IInv /\ [Next]_vars => IInv'
  BY NextKeeps
<1> QED BY <1>1, <1>2, PTL DEF Spec

\* The types of the variables.
THEOREM TypeCorrect == Spec => []TypeOK
<1>1. IInv => TypeOK
  BY DEF IInv
<1> QED BY <1>1, InductiveInvariant, PTL

\* No copy into fifo_in goes past its end, whatever the threshold, and whatever
\* dictionaries and input arrive in which order, and a stored block is never longer than the input
\* that is left.
THEOREM NothingOutOfBounds == Spec => []InBounds
<1>1. IInv => InBounds
  BY Bounds, Sizes DEF IInv, PlacesInv, JobInv, InBounds, TypeOK, Offered, AtMost
<1> QED BY <1>1, InductiveInvariant, PTL

\* With a small threshold a job is given the next of the input, cached or not, and
\* what comes just before it as its history.
THEOREM JobsGoOn == ASSUME SmallThreshold PROVE Spec => []JobsContinue
<1>1. IInv => JobsContinue
  <2> SUFFICES ASSUME IInv, pc = "submit", ~torn
               PROVE  /\ \A k \in 1..bytes_in : Source(k) = place + k
                      /\ histbytes <= cur_in
                      /\ \A k \in 1..histbytes : fifo_in[cur_in - k] = place - k + 1
                      /\ fc = "wrap" => histbytes = 0
    BY DEF JobsContinue
  <2>1. /\ history_len <= cur_in /\ histbytes <= history_len
        /\ fc = "wrap" => histbytes = 0
    BY DEF IInv, JobInv
  <2>2. /\ cur_in \in Nat /\ used_in \in Nat /\ avail_in \in Nat /\ history_len \in Nat /\ histbytes \in Nat
        /\ nin \in Nat /\ dicts \in Nat /\ place \in Nat /\ bytes_in \in Nat
    BY DEF IInv, TypeOK
  <2>3. fifo_in = NULL => used_in = 0 /\ history_len = 0
    BY DEF IInv, PlacesInv
  <2>4. /\ fifo_in # NULL => \A k \in 1..history_len : k <= cur_in => fifo_in[cur_in - k] = place - k + 1
        /\ fifo_in # NULL => \A k \in 0..used_in - 1 : fifo_in[cur_in + k] = place + k + 1
    BY DEF IInv, WindowInv, BytesInv
  <2>5. place + used_in = nin + dicts
    BY DEF IInv, TakenInv
  <2>6. ASSUME NEW k \in 1..bytes_in
        PROVE  Source(k) = place + k
    <3>1. CASE k <= used_in
      <4>1. k - 1 \in 0..used_in - 1 /\ fifo_in # NULL
        BY <2>2, <2>3, <3>1
      <4>2. fifo_in[cur_in + (k - 1)] = place + (k - 1) + 1
        BY <2>4, <4>1
      <4>3. cur_in + (k - 1) = cur_in + k - 1 /\ place + (k - 1) + 1 = place + k
        BY <2>2
      <4> QED BY <3>1, <4>2, <4>3 DEF Source
    <3>2. CASE k > used_in
      BY <2>2, <2>5, <3>2 DEF Source, NextIn
    <3> QED BY <2>2, <3>1, <3>2
  <2>7. ASSUME NEW k \in 1..histbytes
        PROVE  fifo_in[cur_in - k] = place - k + 1
    <3>1. k \in 1..history_len /\ k <= cur_in /\ fifo_in # NULL
      BY <2>1, <2>2, <2>3
    <3> QED BY <2>4, <3>1
  <2> QED BY <2>1, <2>2, <2>6, <2>7
<1> QED BY <1>1, InductiveInvariant, PTL

\* With a small threshold neither caching nor throwing away nor a dictionary costs a
\* byte of the history that the level allows.
THEOREM HistoryInFull == ASSUME SmallThreshold PROVE Spec => []FullHistory
<1>1. IInv => FullHistory
  BY DEF IInv, WindowInv, LengthsInv, FullHistory
<1> QED BY <1>1, InductiveInvariant, PTL

\* With a small threshold nx_deflate caches small input whole.
THEOREM SmallInputIsTaken == ASSUME SmallThreshold PROVE Spec => SmallInputTaken
<1>1. IInv /\ [Next]_vars => [pc = "s2" /\ pc' = "app" /\ fifo_in' # NULL => avail_in' = 0]_vars
  <2> SUFFICES ASSUME IInv, Next, pc = "s2", pc' = "app", fifo_in' # NULL
               PROVE  avail_in' = 0
    OBVIOUS
  <2>1. CacheInput \/ CacheNoMemory
    BY DEF Next, Application, Library, Accelerator, Call, SetDictionary, SetDictionaryFails,
           TakesDictionary, Reset, Submit, Abort, NoInput, Again, Return, JobLess, JobError, JobIdle,
           JobBig, JobDone, JobNoMemory
  <2>2. ~CacheNoMemory
    BY DEF CacheNoMemory, window
  <2>3. avail_in' = avail_in - TakenAt(CacheAt) /\ avail_in \in Nat
    BY <2>1, <2>2 DEF CacheInput, IInv, TypeOK
  <2> QED BY <2>1, <2>2, <2>3, CacheInputFits
<1> QED BY <1>1, InductiveInvariant, PTL DEF Spec, SmallInputTaken
=============================================================================
