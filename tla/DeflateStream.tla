---------------------------- MODULE DeflateStream ----------------------------
(***************************************************************************)
(* nx_deflate: one z_stream compressed by the NX, from the header to the   *)
(* trailer.  The NX makes one deflate block per job, and starts each on a  *)
(* byte boundary; what does not fit in the caller's buffer overflows into  *)
(* fifo_out and goes out first at the next call.                           *)
(*                                                                         *)
(* The output is a sequence of bytes, each marked with the part it plays;  *)
(* a few of them stand for the many of a real block.  inflate is the       *)
(* reference the output is read with.  History, dictionaries and the       *)
(* choice of Huffman tables do not change the flow and are left out.       *)
(***************************************************************************)
EXTENDS Integers, SequencesExt

CONSTANTS
  N,           \* bound: bytes of input the application has
  MaxOut,      \* bound: avail_out of a call
  Wraps,       \* formats to choose from: "raw", "zlib", "gzip"
  Threshold,   \* nx_config.cache_threshold
  BufSize,     \* nx_config.strm_def_bufsz
  PerJob,      \* nx_config.per_job_len
  StoredLen    \* nx_stored_block_len

ASSUME DeflateAssumption ==
  /\ N \in Nat /\ MaxOut \in Nat /\ Threshold \in Nat
  /\ {BufSize, PerJob, StoredLen} \subseteq Nat \ {0}
  /\ Wraps \subseteq {"raw", "zlib", "gzip"}

VARIABLES
  \* nx_stream
  wrap, status,
  used_in,             \* bytes cached in fifo_in
  fifo_out,            \* the used_out bytes of fifo_out
  tebc,                \* 1 when the last byte of output lacks some bits, else 0
  need_stored_block,
  cksum,               \* input bytes the checksum covers
  \* the call in progress, or the last one
  flush, avail_in, avail_out,
  next_out,            \* what the call has written to the caller's buffer
  avail0,              \* avail_out as the loop of stored blocks keeps it
  pc, ret,
  \* the application and its reader
  taken,               \* input bytes compressed so far
  last,                \* the size of the input, once Z_FINISH has been asked, or -1
  read,                \* the reader's state, after the output of earlier calls
  spoiled              \* history: set when a known defect of the code hits the stream

vars == <<wrap, status, used_in, fifo_out, tebc, need_stored_block, cksum, flush,
          avail_in, avail_out, next_out, avail0, pc, ret, taken, last, read,
          spoiled>>

request == <<wrap, flush, last>>
input == <<used_in, avail_in, taken, cksum>>
state == <<status, tebc>>
store == <<need_stored_block, avail0>>

Flushes == {"NO", "PARTIAL", "SYNC", "FINISH"}   \* FULL acts as SYNC, BLOCK as NO

-----------------------------------------------------------------------------
\* Bytes: the header; the first byte of a compressed block of n input bytes from
\* the a-th in t bytes of output; those that follow; the first byte of a stored
\* block, its length, its literals; the trailer.
Byte(k, a, n, t, final, open) ==
  [k |-> k, a |-> a, n |-> n, t |-> t, final |-> final, open |-> open]
Plain(k, a) == Byte(k, a, 0, 0, FALSE, FALSE)

HeaderLen(w) == IF w = "raw" THEN 0 ELSE 2
Header(w) == [i \in 1..HeaderLen(w) |-> Plain("header", i)]
Trailer == [i \in 1..HeaderLen(wrap) |-> Plain("trailer", cksum)]

Huffman(a, n, t, open) ==
  [i \in 1..t |-> IF i = 1 THEN Byte("huffman", a, n, t, FALSE, open /\ t = 1)
                           ELSE Byte("more", 0, 0, 0, FALSE, open /\ i = t)]
Literals(a, n) == [i \in 1..n |-> Plain("literal", a + i - 1)]

\* append_sync_flush: an empty stored block of 4 or 5 bytes.
StoredHeader(final, n) ==
  <<Byte("stored", 0, 0, 0, final, FALSE), Plain("length", n)>>
SyncFlush(final) == StoredHeader(final, 0)
FlushLen == 2

\* append_partial_flush: 10 bits.
PartialFlush == SyncFlush(FALSE) \o Huffman(0, 0, 2, TRUE)

\* What inflate makes of one more byte.
Start(w) == [at |-> IF w = "raw" THEN "block" ELSE "header",
             pos |-> 0, left |-> HeaderLen(w), final |-> FALSE, open |-> FALSE, tail |-> HeaderLen(w)]

BlockEnd(r) ==
  IF ~r.final THEN [r EXCEPT !.at = "block"]
  ELSE [r EXCEPT !.at = IF r.tail = 0 THEN "end" ELSE "trailer", !.left = r.tail, !.open = FALSE]

Within(r, next) == IF r.left = 0 THEN next ELSE r

Inflate(r, b) ==
  LET one == [r EXCEPT !.left = @ - 1] IN
  CASE r.open -> [r EXCEPT !.at = "bad"]
    [] r.at = "header" /\ b.k = "header" -> Within(one, [one EXCEPT !.at = "block"])
    [] r.at = "block" /\ b.k = "huffman" /\ (b.n > 0 => b.a = r.pos) ->
         LET in == [r EXCEPT !.at = "more", !.pos = @ + b.n, !.left = b.t - 1,
                             !.final = b.final, !.open = b.open]
         IN  Within(in, BlockEnd(in))
    [] r.at = "more" /\ b.k = "more" ->
         LET in == [one EXCEPT !.open = b.open] IN Within(in, BlockEnd(in))
    [] r.at = "block" /\ b.k = "stored" -> [r EXCEPT !.at = "length", !.final = b.final]
    [] r.at = "length" /\ b.k = "length" ->
         LET in == [r EXCEPT !.at = "literal", !.left = b.a] IN Within(in, BlockEnd(in))
    [] r.at = "literal" /\ b.k = "literal" /\ b.a = r.pos ->
         LET in == [one EXCEPT !.pos = @ + 1] IN Within(in, BlockEnd(in))
    [] r.at = "trailer" /\ b.k = "trailer" /\ b.a = r.pos ->
         Within(one, [one EXCEPT !.at = "end"])
    [] OTHER -> [r EXCEPT !.at = "bad"]

Read(r, bytes) == FoldLeft(Inflate, r, bytes)

-----------------------------------------------------------------------------
\* Output in progress: what is in the caller's buffer, what is in fifo_out, and
\* the room left.
Room(out, fifo, room) == [out |-> out, fifo |-> fifo, room |-> room]
Now == Room(next_out, fifo_out, avail_out)

\* Bytes go to the caller as long as there is room, and those of a job as long as they
\* are no more than strm_def_bufsz; then to fifo_out.
Split(o, bytes, k) ==
  Room(o.out \o SubSeq(bytes, 1, k),
       o.fifo \o SubSeq(bytes, k + 1, Len(bytes)), o.room - k)

Emit(o, bytes) == Split(o, bytes, IF o.room < Len(bytes) THEN o.room ELSE Len(bytes))

EmitJob(o, bytes) ==
  Split(o, bytes, CHOOSE k \in {o.room, Len(bytes), BufSize} :
                    \A j \in {o.room, Len(bytes), BufSize} : k <= j)

\* A flush block begins in the missing bits of the last byte before it, which is
\* the last the caller got.
Closed(out) ==
  IF out = <<>> THEN out ELSE [out EXCEPT ![Len(out)].open = FALSE]

\* append_spanning_flush
AppendSync(o, te, final) ==
  Emit(IF te > 0 THEN [o EXCEPT !.out = Closed(@)] ELSE o, SyncFlush(final))

\* A byte of a partial flush that is not full is not for the caller yet.
Withheld(o) ==
  IF o.fifo # <<>> THEN o
  ELSE Room(SubSeq(o.out, 1, Len(o.out) - 1), <<o.out[Len(o.out)]>>, o.room + 1)

AppendPartial(o, te) ==
  Withheld(Emit(IF te > 0 THEN [o EXCEPT !.out = Closed(@)] ELSE o, PartialFlush))

\* nx_compress_block_append_flush_block: nothing once the final bit is set or
\* when the block overflowed.
Flushed(o, te, st) ==
  IF o.fifo # <<>> \/ st = "bfinal" THEN [o |-> o, te |-> te]
  ELSE IF flush = "PARTIAL" THEN [o |-> AppendPartial(o, te), te |-> 1]
  ELSE IF te > 0 \/ flush = "SYNC" THEN [o |-> AppendSync(o, te, FALSE), te |-> 0]
  ELSE [o |-> o, te |-> te]

Output(o) == next_out' = o.out /\ fifo_out' = o.fifo /\ avail_out' = o.room
NoOutput == UNCHANGED <<next_out, fifo_out, avail_out>>

-----------------------------------------------------------------------------
Init ==
  /\ wrap \in Wraps
  /\ status = "init"
  /\ used_in = 0 /\ fifo_out = <<>> /\ tebc = 0 /\ need_stored_block = 0 /\ cksum = 0
  /\ flush = "NO" /\ avail_in = 0 /\ avail_out = 0 /\ next_out = <<>> /\ avail0 = 0
  /\ pc = "idle" /\ ret = "Z_OK"
  /\ taken = 0 /\ last = -1 /\ read = Start(wrap) /\ spoiled = FALSE

Goto(l) == pc' = l /\ UNCHANGED <<ret, read>>

\* Three defects of the code spoil the output: a final bit set with no room left, a
\* second stored block placed with the room of the first, or written before a byte
\* that is withheld.  The invariants speak of the other streams.
Spoils(b) == spoiled' = (spoiled \/ b)

\* A call returns: the application has what was written to its buffer.
Return(r, out) ==
  /\ pc' = "idle" /\ ret' = r
  /\ read' = Read(read, out)

\* nx_deflate is called with some of the input that is left.  After Z_FINISH the
\* caller asks for nothing else and brings no more.
MayCall(a, f) ==
  /\ pc = "idle"
  /\ taken + used_in + a <= N
  /\ last # -1 => f = "FINISH" /\ taken + used_in + a = last

\* nx_deflate_add_header: that of zlib goes to fifo_out, that of gzip to the caller.
WithHeader(o) ==
  IF status # "init" THEN o
  ELSE IF wrap = "gzip" THEN Emit(o, Header(wrap))
  ELSE [o EXCEPT !.fifo = @ \o Header(wrap)]

Call(a, room, f) ==
  /\ MayCall(a, f)
  /\ room > 0
  /\ status # "bfinal" \/ a = 0    \* flush is FINISH by then
  /\ flush' = f /\ avail_in' = a
  /\ Output(WithHeader(Room(<<>>, fifo_out, room)))
  /\ status' = IF status = "init" THEN "deflate" ELSE status
  /\ last' = IF f = "FINISH" THEN taken + used_in + a ELSE last
  /\ Goto("s1")
  /\ UNCHANGED <<store, wrap, used_in, tebc, cksum, taken, spoiled>>

\* No room, or the rest of the input comes when the final block is out: Z_BUF_ERROR.
CallRefused(a, room, f) ==
  /\ MayCall(a, f)
  /\ room = 0 \/ (status = "bfinal" /\ a > 0)
  /\ flush' = f /\ avail_in' = a /\ avail_out' = room /\ next_out' = <<>>
  /\ ret' = "Z_BUF_ERROR"
  /\ UNCHANGED <<state, store, wrap, used_in, fifo_out, cksum, pc, taken, last, read, spoiled>>

\* (mutant) fifo_out is copied without the sync flush that fills its last byte
CopiedOpen ==
  LET k == IF avail_out < Len(fifo_out) THEN avail_out ELSE Len(fifo_out)
  IN  [o  |-> Room(next_out \o SubSeq(fifo_out, 1, k),
                   SubSeq(fifo_out, k + 1, Len(fifo_out)), avail_out - k),
       te |-> 0]

\* s1: fifo_out goes to the caller; its last byte is filled with a sync flush.
Copied ==
  LET k == IF avail_out < Len(fifo_out) THEN avail_out ELSE Len(fifo_out)
      o == Room(next_out \o SubSeq(fifo_out, 1, k),
                SubSeq(fifo_out, k + 1, Len(fifo_out)), avail_out - k)
  IN  IF tebc > 0 /\ o.fifo = <<>> /\ status \notin {"bfinal", "trailer"}
      THEN [o |-> AppendSync(o, tebc, FALSE), te |-> 0] ELSE [o |-> o, te |-> tebc]

CopyFifo ==
  /\ pc = "s1" /\ fifo_out # <<>>
  /\ LET c == IF avail_out > 0 THEN Copied ELSE [o |-> Now, te |-> tebc] IN
     /\ Output(c.o)
     /\ tebc' = c.te
     /\ IF status = "deflate" /\ c.o.room = 0 THEN Return("Z_OK", c.o.out) ELSE Goto("s2")
  /\ UNCHANGED <<request, input, store, status, spoiled>>

NothingToDo == avail_in = 0 /\ flush = "NO"

FifoEmpty ==
  /\ pc = "s1" /\ fifo_out = <<>>
  /\ IF NothingToDo THEN Return("Z_BUF_ERROR", next_out) ELSE Goto("s2")
  /\ NoOutput
  /\ UNCHANGED <<request, input, state, store, spoiled>>

\* s2 goes back to s1 when fifo_out can be copied.  s1 has just done that, so it
\* never happens; a step that had to would be stuck, and FinishEnds would fail.
FifoAgain == avail_out > 0 /\ fifo_out # <<>>

\* (mutant) a small input is cached although a flush was asked for
SmallAlways == used_in + avail_in <= Threshold /\ flush # "FINISH"

Small == used_in + avail_in <= Threshold /\ flush = "NO"

CacheInput ==
  /\ pc = "s2" /\ ~FifoAgain /\ Small
  /\ used_in' = used_in + avail_in /\ avail_in' = 0
  /\ Return("Z_OK", next_out)
  /\ NoOutput
  /\ UNCHANGED <<request, state, store, cksum, taken, spoiled>>

-----------------------------------------------------------------------------
\* nx_compress_block.  The NX takes n bytes, those of fifo_in first.
Take(n) ==
  LET cached == IF n < used_in THEN n ELSE used_in IN
  /\ used_in' = used_in - cached
  /\ avail_in' = avail_in - (n - cached)
  /\ taken' = taken + n
  /\ cksum' = cksum + n

Final(n) == n = used_in + avail_in /\ flush = "FINISH"

Offered == IF avail_in < BufSize THEN avail_in ELSE BufSize
Jobs(limit) == 1..(IF limit < used_in + Offered THEN limit ELSE used_in + Offered)

Compressing ==
  /\ pc = "s2" /\ ~FifoAgain /\ ~Small
  /\ need_stored_block = 0

NoInput ==
  /\ Compressing
  /\ used_in + avail_in = 0
  /\ Goto("switch")
  /\ NoOutput
  /\ UNCHANGED <<request, input, state, store, spoiled>>

\* set_bfinal writes in the caller's buffer, where the block begins.
SetBfinal(bytes, final) ==
  IF avail_out = 0 THEN bytes ELSE [bytes EXCEPT ![1].final = final]

CompressBlock(n, t, te) ==
  LET st == IF Final(n) THEN "bfinal" ELSE status
      o == EmitJob(Now, SetBfinal(Huffman(taken, n, t, te = 1), Final(n)))
      f == Flushed(o, te, st)
  IN
  /\ Compressing
  /\ Take(n)
  /\ status' = st
  /\ Output(f.o)
  /\ tebc' = f.te
  /\ Spoils(Final(n) /\ avail_out = 0)
  /\ Goto("switch")
  /\ UNCHANGED <<request, store>>

\* The block would be larger than its input: it will be stored.
BigTarget(n) ==
  /\ Compressing
  /\ need_stored_block' = n
  /\ tebc' = 0
  /\ Goto("s1")
  /\ NoOutput
  /\ UNCHANGED <<request, input, status, avail0, spoiled>>

CompressFails ==
  /\ Compressing
  /\ used_in + avail_in > 0
  /\ Return("Z_STREAM_ERROR", next_out)
  /\ NoOutput
  /\ UNCHANGED <<request, input, state, store, spoiled>>

-----------------------------------------------------------------------------
\* Stored blocks, of StoredLen bytes at most: an empty one is written, its input
\* is copied behind it, and its header is written again.
EnterStored ==
  /\ pc = "s2" /\ ~FifoAgain /\ ~Small
  /\ need_stored_block > 0
  /\ avail0' = avail_out
  /\ Goto("stored")
  /\ NoOutput
  /\ UNCHANGED <<request, input, state, need_stored_block, spoiled>>

Storing == pc = "stored" /\ avail_out > 0 /\ need_stored_block > 0

\* rewrite_spanning_flush: as many bytes in the caller's buffer as there was room
\* for, the others at the start of fifo_out.
HeaderSpan(room) == IF room > FlushLen THEN FlushLen ELSE room

Rewrite(o, head, room, header) ==
  LET direct == HeaderSpan(room) IN
  [o EXCEPT !.out  = [i \in DOMAIN @ |-> IF i \in (head + 1)..(head + direct)
                                         THEN header[i - head] ELSE @[i]],
            !.fifo = [i \in DOMAIN @ |-> IF i \in 1..(FlushLen - direct)
                                         THEN header[direct + i] ELSE @[i]]]

RoomAtHead == avail0

StoredBlock(n) ==
  LET st == IF Final(n) THEN "bfinal" ELSE status
      head == Len(next_out)
      o == EmitJob(AppendSync(Now, tebc, FALSE), Literals(taken, n))
      f == Flushed(o, 0, status)
  IN
  /\ Storing
  /\ n <= need_stored_block
  /\ Take(n)
  /\ status' = st
  /\ Output(Rewrite(f.o, head, RoomAtHead, StoredHeader(Final(n), n)))
  /\ tebc' = f.te
  /\ need_stored_block' = need_stored_block - n
  /\ Spoils(HeaderSpan(RoomAtHead) # HeaderSpan(avail_out) \/ fifo_out # <<>>)
  /\ Goto("stored")
  /\ UNCHANGED <<request, avail0>>

StoreFails ==
  /\ Storing
  /\ used_in + avail_in > 0
  /\ LET o == AppendSync(Now, tebc, FALSE) IN
     /\ Output(o)
     /\ Return("Z_STREAM_ERROR", o.out)
  /\ tebc' = 0
  /\ UNCHANGED <<request, input, store, status, spoiled>>

LeaveStored ==
  /\ pc = "stored" /\ ~Storing
  /\ need_stored_block' = 0
  /\ Goto("switch")
  /\ NoOutput
  /\ UNCHANGED <<request, input, state, avail0, spoiled>>

-----------------------------------------------------------------------------
\* The switch on the state of the four buffers.
Drained == used_in + avail_in = 0 /\ fifo_out = <<>>

SwitchLoop ==
  /\ pc = "switch" /\ ~Drained
  /\ IF avail_out = 0 THEN Return("Z_OK", next_out)
     ELSE IF fifo_out = <<>> THEN Goto("s2") ELSE Goto("s1")
  /\ NoOutput
  /\ UNCHANGED <<request, input, state, store, spoiled>>

SwitchOk ==
  /\ pc = "switch" /\ Drained /\ flush # "FINISH"
  /\ Return("Z_OK", next_out)
  /\ NoOutput
  /\ UNCHANGED <<request, input, state, store, spoiled>>

\* (mutant) the trailer is not remembered as written
LastTrailerAgain(o) == Emit(o, Trailer)
\* (mutant) Z_STREAM_END while the end of the trailer is still in fifo_out
EndsAlways(o) == TRUE

EndsNow(o) == o.fifo = <<>>

\* nx_stream_end: a final block if none was, then the trailer.
LastBlock(o) == IF status = "deflate" THEN AppendSync(o, 0, TRUE) ELSE o
LastTrailer(o) == IF status \in {"deflate", "bfinal"} THEN Emit(o, Trailer) ELSE o
StreamEnd ==
  /\ pc = "switch" /\ Drained /\ flush = "FINISH"
  /\ LET o == LastTrailer(LastBlock(Now)) IN
     /\ Output(o)
     /\ Return(IF EndsNow(o) THEN "Z_STREAM_END" ELSE "Z_OK", o.out)
  /\ tebc' = IF status = "deflate" THEN 0 ELSE tebc
  /\ status' = "trailer"
  /\ UNCHANGED <<request, input, store, spoiled>>

-----------------------------------------------------------------------------
\* nx_deflateReset
DeflateReset ==
  /\ pc = "idle"
  /\ status' = "init"
  /\ used_in' = 0 /\ fifo_out' = <<>> /\ tebc' = 0 /\ need_stored_block' = 0 /\ cksum' = 0
  /\ taken' = 0 /\ last' = -1 /\ read' = Start(wrap) /\ ret' = "Z_OK"
  /\ next_out' = <<>> /\ spoiled' = FALSE
  /\ UNCHANGED <<wrap, flush, avail_in, avail_out, avail0, pc>>

Step ==
  \/ CopyFifo \/ FifoEmpty
  \/ CacheInput \/ NoInput
  \/ \E n \in Jobs(PerJob) :
       \/ \E t \in 1..n, te \in {0, 1} : CompressBlock(n, t, te)
       \/ BigTarget(n)
  \/ EnterStored
  \/ \E n \in Jobs(StoredLen) : StoredBlock(n)
  \/ LeaveStored
  \/ SwitchLoop \/ SwitchOk \/ StreamEnd

\* An application stops after an error, or resets the stream.
Application ==
  \/ /\ ret # "Z_STREAM_ERROR"
     /\ \E a \in 0..N, room \in 0..MaxOut, f \in Flushes :
          Call(a, room, f) \/ CallRefused(a, room, f)
  \/ DeflateReset

Library == Step \/ CompressFails \/ StoreFails

Next == Library \/ Application

\* An application that has asked for Z_FINISH calls again, with room for output.
FinishAgain ==
  /\ last # -1 /\ ret \notin {"Z_STREAM_END", "Z_STREAM_ERROR"}
  /\ \E a \in 0..N, room \in 1..MaxOut : Call(a, room, "FINISH")

-----------------------------------------------------------------------------
TypeOK ==
  /\ wrap \in Wraps
  /\ status \in {"init", "deflate", "bfinal", "trailer"}
  /\ used_in \in 0..N /\ avail_in \in 0..N /\ avail_out \in 0..MaxOut /\ avail0 \in 0..MaxOut
  /\ tebc \in {0, 1}
  /\ need_stored_block \in 0..PerJob
  /\ cksum \in 0..N /\ taken \in 0..N
  /\ flush \in Flushes
  /\ pc \in {"idle", "s1", "s2", "stored", "switch"}
  /\ ret \in {"Z_OK", "Z_STREAM_END", "Z_BUF_ERROR", "Z_STREAM_ERROR"}
  /\ last \in -1..N

\* Between calls, what the caller has and what waits in fifo_out is the start of
\* a stream inflate reads, and it holds the input that has been compressed.
Decodable ==
  pc = "idle" /\ ~spoiled =>
    LET r == Read(read, fifo_out) IN
    /\ r.at # "bad"
    /\ r.pos = taken
    /\ r.final <=> status \in {"bfinal", "trailer"}
    /\ r.open <=> tebc = 1 /\ status = "deflate"

\* The same, whatever happened to the headers.
\* It does not hold: the README reports it.
AlwaysDecodable ==
  pc = "idle" => LET r == Read(read, fifo_out) IN r.at # "bad" /\ r.pos = taken

\* Z_STREAM_END means that the caller has a whole stream of all the input.
EndIsEnd ==
  pc = "idle" /\ ret = "Z_STREAM_END" /\ ~spoiled =>
    read.at = "end" /\ read.pos = last /\ ~read.open

\* A flush that did not run out of room gives the reader all the input so far.
FlushDelivers ==
  pc = "idle" /\ ret = "Z_OK" /\ flush \in {"SYNC", "PARTIAL"} /\ avail_out > 0
  /\ status = "deflate" /\ ~spoiled =>
    avail_in = 0 /\ read.pos = taken + used_in /\ read.at = "block" /\ ~read.open

=============================================================================
