----------------------------- MODULE GunzipFile -----------------------------
(***************************************************************************)
(* decompress_file of samples/gunzip_nx.c: a .gz file is read into a ring, *)
(* decompressed by the accelerator into another ring and written out.  The *)
(* ring of the output also holds the history of the next job, in one piece *)
(* or two, and the accelerator is resumed where it stopped, in the middle  *)
(* of a byte if need be.                                                   *)
(*                                                                         *)
(* Bytes of the deflate data and of the output are known by their places,  *)
(* from 1; 0 is any other byte.                                            *)
(***************************************************************************)
EXTENDS DdeList

CONSTANTS
  Files,      \* what may be given: see FileOK
  Bits,       \* bits of a byte
  Trailer,    \* bytes of crc and isize
  FifoIn,     \* fifo_in_len
  FifoOut,    \* fifo_out_len
  LineSz,     \* line_sz, the gap of fifo_in
  Reserve,    \* 1 << 16, what the target leaves of fifo_out
  Window,     \* window_max
  QuadWord,   \* 16
  PageSz,     \* page_sz
  RetryMax,   \* retry_max
  Ratio,      \* 1000, a compression ratio of one
  StdioSz     \* external: what the C library keeps of the output before it writes

\* fifo_out begins a page after fifo_in.
InBase == PageSz
OutBase == InBase + FifoIn + PageSz
TargetMax == FifoOut - Reserve

FileOK(f) ==
  /\ f.flg \subseteq {"FHCRC", "FEXTRA", "FNAME", "FCOMMENT", "reserved", "LongName"}
  /\ f.magic \in BOOLEAN /\ f.good \in BOOLEAN
  /\ Len(f.bit) = Len(f.out) /\ Len(f.bit) > 0  \* ends of the items, in bits and output
  /\ f.bad \in BOOLEAN                          \* the last item is no valid code
  /\ f.len \in Nat                              \* bytes there are
  /\ \A i \in 1..Len(f.bit) - 1 : f.bit[i] < f.bit[i + 1] /\ f.out[i] <= f.out[i + 1]

\* The sizes of the program satisfy these: the estimate gives the first job at
\* least a byte, and never so much that the trailer could be missing in fifo_in;
\* two bytes of input always fit the target; retries keep the history and as much.
ASSUME GunzipAssumption ==
  /\ \A f \in Files : FileOK(f)
  /\ {Bits, Trailer, FifoIn, FifoOut, LineSz, Reserve, Window, QuadWord, PageSz, RetryMax, Ratio, StdioSz}
       \subseteq Nat \ {0}
  /\ Window % QuadWord = 0 /\ Reserve >= 2 * Window /\ PageSz >= Window + 2
  /\ 3 * TargetMax >= 4 * Ratio
  /\ FifoIn - LineSz >= (3 * TargetMax) \div 4 + Trailer

VARIABLES
  file,       \* the file
  pos,        \* bytes read from it
  pc, rc,
  fifo_in, used_in, cur_in, is_eof,
  fifo_out, used_out, cur_out, total_out,
  is_final, resuming, history_len,
  in_subc,    \* bits of the first byte the next job is to use, 0 for all
  comp_ratio,
  ddl_in, ddl_out,
  source_sz,  \* of the job, with the history
  target_est, \* target_sz_estimate
  retries,    \* pgfault_retries
  outf,       \* what fwrite has taken
  lost,       \* how much of its end has not reached the file when outf is closed
  item,       \* external: items of the stream the accelerator is done with
  odd         \* external: it ended a job with ERR_NX_OK, or had more faults than retries

inVars == <<fifo_in, used_in, cur_in, is_eof, pos>>
outVars == <<fifo_out, used_out, cur_out, total_out, outf, lost>>
jobVars == <<ddl_in, ddl_out, source_sz, target_est, retries>>
nxVars == <<is_final, resuming, history_len, in_subc, comp_ratio, item, odd>>
vars == <<file, pc, rc, inVars, outVars, jobVars, nxVars>>

AtMost(x, y) == IF x < y THEN x ELSE y
AtLeast(x, y) == IF x > y THEN x ELSE y
UpDiv(x, y) == (x + y - 1) \div y
Goto(l) == pc' = l
\* The program returns at once, or closes outf first (err4, err5, ok1).
Returns(code) == pc' = "done" /\ rc' = code
Exits(code) == pc' = "close" /\ rc' = code

\* The parts of a ring of len bytes with used ones from cur on.
Wraps(cur, used, len) == cur + used > len
UsedFirst(cur, used, len) == IF Wraps(cur, used, len) THEN len - cur ELSE used
UsedLast(cur, used, len) == used - UsedFirst(cur, used, len)
FreeFirst(cur, used, len) == IF Wraps(cur, used, len) THEN 0 ELSE len - (cur + used)
FreeLast(cur, used, len) == (len - used) - FreeFirst(cur, used, len)
\* (mutant) the last free part begins where the ring does
FreeLastOffsetZero(cur, used, len) == 0
FreeLastOffset(cur, used, len) == UsedLast(cur, used, len)

-----------------------------------------------------------------------------
\* The header is ten bytes, in two items, and the fields: the program skips a name
\* and a checksum, refuses other fields it knows and does not know of comments.
\* A name of 1024 bytes and more ("LongName") is longer than gzfname.
Flags == 1
Fixed == 2
Fields == <<"FEXTRA", "FNAME", "FCOMMENT", "FHCRC">>
FieldsOf(flg) == Cardinality({k \in 1..Len(Fields) : Fields[k] \in flg})
BodyStart == Fixed + FieldsOf(file.flg)
SkippedTo == Fixed + FieldsOf(file.flg \ {"FCOMMENT"})
Items == Len(file.bit)
BitEnd(i) == IF i = 0 THEN 0 ELSE file.bit[i]
OutEnd(i) == IF i = 0 THEN 0 ELSE file.out[i]
Body == UpDiv(BitEnd(Items), Bits)
WholeLen == BodyStart + Body + Trailer

\* The byte at place p of the file: a byte of the deflate data, or the trailer.
FileByte(p) == p - BodyStart

Init ==
  /\ file \in Files
  /\ pos = 0 /\ pc = "header" /\ rc = 1
  /\ fifo_in = [i \in 0..FifoIn - 1 |-> 0] /\ used_in = 0 /\ cur_in = 0 /\ is_eof = FALSE
  /\ fifo_out = [i \in 0..FifoOut - 1 |-> 0] /\ used_out = 0 /\ cur_out = 0 /\ total_out = 0
  /\ is_final = FALSE /\ resuming = FALSE /\ history_len = 0 /\ in_subc = 0
  /\ comp_ratio = 0 /\ item = 0 /\ odd = FALSE
  /\ ddl_in = Cleared /\ ddl_out = Cleared /\ source_sz = 0 /\ target_est = 0
  /\ retries = 0 /\ outf = <<>> /\ lost = 0

\* Only these ends of the file are noticed: char is unsigned, so that no tmp[i] is EOF,
\* and nothing is asked of the checksum.
FlagsOK == file.len >= Flags /\ file.magic /\ file.flg \cap {"reserved", "FEXTRA"} = {}
NameEnds == "FNAME" \in file.flg => file.len > Fixed

HeaderRefused ==
  /\ pc = "header"
  /\ ~FlagsOK \/ ~NameEnds
  /\ Returns(-1)
  /\ UNCHANGED <<file, inVars, outVars, jobVars, nxVars>>

\* A long name is written over what lies behind gzfname.  What comes of that is
\* undefined; here the program ends.
NameOverflows ==
  /\ pc = "header" /\ FlagsOK
  /\ {"FNAME", "LongName"} \subseteq file.flg
  /\ Goto("aborted")
  /\ UNCHANGED <<file, rc, inVars, outVars, jobVars, nxVars>>

HeaderRead ==
  /\ pc = "header"
  /\ FlagsOK /\ NameEnds /\ ~({"FNAME", "LongName"} \subseteq file.flg)
  /\ pos' = AtMost(SkippedTo, file.len)
  /\ Goto("read")
  /\ UNCHANGED <<file, rc, fifo_in, used_in, cur_in, is_eof, outVars, jobVars, nxVars>>

-----------------------------------------------------------------------------
\* fread of n bytes to offset o of fifo_in.
Filled(f, o, n, p) == [i \in DOMAIN f |-> IF o <= i /\ i < o + n THEN FileByte(p + i - o + 1) ELSE f[i]]
InHead == IF used_in = 0 THEN 0 ELSE cur_in
FreeIn == AtLeast(0, (FifoIn - used_in) - LineSz)

\* read_state: to the end of the ring, then at its beginning; a short read is
\* the end of the file.
Read ==
  /\ pc = "read" /\ ~is_eof
  /\ LET want1 == AtMost(FreeIn, FreeFirst(InHead, used_in, FifoIn))
         n1 == AtMost(want1, file.len - pos)
         want2 == IF n1 = want1 THEN AtMost(FreeIn - n1, FreeLast(InHead, used_in, FifoIn)) ELSE 0
         n2 == AtMost(want2, file.len - (pos + n1))
     IN /\ fifo_in' = Filled(Filled(fifo_in, InHead + used_in, n1, pos),
                             FreeLastOffset(InHead, used_in, FifoIn), n2, pos + n1)
        /\ used_in' = used_in + n1 + n2
        /\ pos' = pos + n1 + n2
        /\ is_eof' = (n1 < want1 \/ n2 < want2)
  /\ cur_in' = InHead
  /\ Goto("write")
  /\ UNCHANGED <<file, rc, outVars, jobVars, nxVars>>

ReadNothing ==
  /\ pc = "read" /\ is_eof
  /\ Goto("write")
  /\ UNCHANGED <<file, rc, inVars, outVars, jobVars, nxVars>>

\* write_state: both parts of what is in fifo_out.  The C library takes them and
\* writes them to the file some time, at the latest when outf is closed.
Waiting == [k \in 1..used_out |-> fifo_out[(cur_out + k - 1) % FifoOut]]
Write ==
  /\ pc = "write"
  /\ outf' = outf \o Waiting
  /\ used_out' = 0
  /\ cur_out' = (cur_out + used_out) % FifoOut
  /\ Goto(IF is_final THEN "finish" ELSE "decomp")
  /\ UNCHANGED <<file, rc, inVars, fifo_out, total_out, lost, jobVars, nxVars>>

WriteFails ==
  /\ pc = "write" /\ used_out > 0
  /\ \E n \in 0..used_out - 1 : outf' = outf \o SubSeq(Waiting, 1, n)
  /\ Exits(-1)
  /\ UNCHANGED <<file, inVars, fifo_out, used_out, cur_out, total_out, lost, jobVars, nxVars>>

-----------------------------------------------------------------------------
\* decomp_state: the history, rounded up, in one piece or two; then the source.
Rounded(n) == QuadWord * UpDiv(n, QuadWord)
HistoryDdes(h) ==
  IF h = 0 THEN <<>>
  ELSE IF cur_out >= h THEN <<Buffer(OutBase + (cur_out - h), h)>>
  ELSE <<Buffer(OutBase + (FifoOut + cur_out) - h, h - cur_out), Buffer(OutBase, cur_out)>>
Nonempty(bs) == SelectSeq(bs, LAMBDA b : b.ddebc > 0)
SourceDdes ==
  Nonempty(<<Buffer(InBase + cur_in, UsedFirst(cur_in, used_in, FifoIn)),
             Buffer(InBase, UsedLast(cur_in, used_in, FifoIn))>>)

\* The free part of fifo_out but for what the history takes.
Room == AtLeast(0, (FifoOut - used_out) - Reserve)
TargetDdes ==
  LET first == AtMost(Room, FreeFirst(cur_out, used_out, FifoOut))
      last == AtMost(Room - first, FreeLast(cur_out, used_out, FifoOut))
  IN Nonempty(<<Buffer(OutBase + cur_out + used_out, first),
                Buffer(OutBase + FreeLastOffset(cur_out, used_out, FifoOut), last)>>)
DdeListOf(bs) == FoldLeft(Appended, Cleared, bs)

\* As much source as should fill three quarters of the target, at the ratio of
\* the last job; at first a tenth is assumed.
FirstRatio == AtLeast(1, Ratio \div 10)
RatioUsed == IF resuming THEN comp_ratio ELSE FirstRatio
Estimate == (Room * RatioUsed * 3) \div (4 * Ratio)

\* The pages faulted in before the job: those of the source, and those the
\* estimate says the output will need.
TouchedSource == SampleTouchedDde([ddl_in EXCEPT !.ddebc = source_sz], 0, PageSz)
TouchedTarget == SampleTouchedDde(ddl_out, target_est, PageSz)

Decomp ==
  /\ pc = "decomp"
  /\ LET h == IF resuming THEN Rounded(history_len) ELSE 0
         lin == DdeListOf(HistoryDdes(h) \o SourceDdes)
         lout == DdeListOf(TargetDdes)
         all == lin.ddebc - h
     IN /\ all > 0
        /\ history_len' = h
        /\ ddl_in' = lin /\ ddl_out' = lout
        /\ source_sz' = AtMost(all, Estimate) + h
        /\ target_est' = IF Estimate < all THEN Room
                         ELSE AtMost(2 * ((all * Ratio) \div (RatioUsed + 1)), Room)
  /\ retries' = RetryMax
  /\ comp_ratio' = RatioUsed
  /\ total_out' = IF resuming THEN total_out ELSE 0
  /\ in_subc' = IF resuming THEN in_subc ELSE 0
  /\ Goto("submit")
  /\ UNCHANGED <<file, rc, inVars, fifo_out, used_out, cur_out, outf, lost, is_final, resuming, item, odd>>

\* ASSERT(source_sz > history_len): nothing is left of a file cut short.
DecompAsserts ==
  /\ pc = "decomp" /\ used_in = 0
  /\ Goto("aborted")
  /\ UNCHANGED <<file, rc, inVars, outVars, jobVars, nxVars>>

-----------------------------------------------------------------------------
\* What the accelerator is given.
At(a) == IF a >= OutBase THEN fifo_out[a - OutBase] ELSE fifo_in[a - InBase]
Given == SubSeq(Addresses(ddl_in), 1, source_sz)
History == [k \in 1..history_len |-> At(Given[k])]
SourceLen == source_sz - history_len
Source == [k \in 1..SourceLen |-> At(Given[history_len + k])]
FirstBit == Bits * (Source[1] - 1) + (IF in_subc = 0 THEN 0 ELSE Bits - in_subc)

SourceIsNext ==
  /\ SourceLen > 0 /\ FirstBit = BitEnd(item)
  /\ \A k \in 1..SourceLen : Source[k] = Source[1] + k - 1
\* Bytes before the first one of the output may be anything.
HistoryIsLast ==
  /\ history_len >= AtMost(OutEnd(item), Window) /\ history_len % QuadWord = 0
  /\ \A k \in 1..AtMost(OutEnd(item), history_len) :
       History[history_len + 1 - k] = OutEnd(item) + 1 - k
TargetIsFree ==
  LET tgt == {Addresses(ddl_out)[k] : k \in 1..ddl_out.ddebc} IN
  /\ Cardinality(tgt) = ddl_out.ddebc
  /\ tgt \subseteq OutBase..OutBase + FifoOut - 1
  /\ \A k \in 1..history_len : Given[k] \notin tgt
Right == SourceIsNext /\ HistoryIsLast

FedBits == Bits * (Source[1] - 1 + SourceLen)
Reached ==
  CHOOSE i \in item..Items :
    /\ BitEnd(i) <= FedBits
    /\ i < Items => BitEnd(i + 1) > FedBits
Produced == OutEnd(Reached) - OutEnd(item)
Final == Reached = Items
Unused == FedBits - BitEnd(Reached)
Corrupt == file.bad /\ Final

\* Anything else than the cases of the switch.
JobError ==
  /\ pc = "submit"
  /\ ~Right \/ Corrupt
  /\ Exits(-1)
  /\ UNCHANGED <<file, inVars, outVars, jobVars, nxVars>>

\* ERR_NX_AT_FAULT: once again as it is, then with half of the source.
Halved == IF source_sz > PageSz THEN AtLeast(source_sz \div 2, PageSz) ELSE source_sz
JobFault ==
  /\ pc = "submit" /\ retries > 0
  /\ source_sz' = IF retries = RetryMax THEN source_sz ELSE Halved
  /\ retries' = retries - 1
  /\ UNCHANGED <<file, pc, rc, inVars, outVars, ddl_in, ddl_out, target_est, nxVars>>

JobFaultsTooOften ==
  /\ pc = "submit" /\ retries = 0
  /\ Exits(-1) /\ odd' = TRUE
  /\ UNCHANGED <<file, inVars, outVars, jobVars, is_final, resuming, history_len, in_subc, comp_ratio, item>>

\* ERR_NX_TARGET_SPACE.
Fewer == (SourceLen + 2) \div 2
JobSpace ==
  /\ pc = "submit" /\ Right /\ ~Corrupt
  /\ Produced > ddl_out.ddebc
  /\ source_sz' = Fewer + history_len
  /\ UNCHANGED <<file, pc, rc, inVars, outVars, ddl_in, ddl_out, target_est, retries, nxVars>>

\* offsets_state.  The byte in which the job stopped is given again; after the
\* final block only whole bytes are.
\* (mutant) a byte the final block ends in is not passed over
ConsumedByBits == SourceLen - UpDiv(Unused, Bits)
Consumed == SourceLen - (IF Final THEN Unused \div Bits ELSE UpDiv(Unused, Bits))
RatioAfter(s) == AtLeast(AtMost(Ratio, (Ratio * (s + 1)) \div (Produced + 1)), 1)

Offsets(consumed) ==
  /\ \E place \in {SubSeq(Addresses(ddl_out), 1, Produced)} :
       fifo_out' = [i \in DOMAIN fifo_out |->
         IF \E k \in DOMAIN place : place[k] = OutBase + i
           THEN OutEnd(item) + (CHOOSE k \in DOMAIN place : place[k] = OutBase + i)
           ELSE fifo_out[i]]
  /\ used_in' = used_in - consumed
  /\ cur_in' = (cur_in + consumed) % FifoIn
  /\ used_out' = used_out + Produced
  /\ total_out' = total_out + Produced
  /\ history_len' = AtMost(total_out + Produced, Window)
  /\ comp_ratio' = RatioAfter(consumed)
  /\ resuming' = TRUE
  /\ item' = Reached
  /\ Goto("finish")
  /\ UNCHANGED <<file, rc, fifo_in, is_eof, pos, cur_out, outf, lost, jobVars>>

JobDone ==
  /\ pc = "submit" /\ Right /\ ~Corrupt
  /\ Produced <= ddl_out.ddebc
  /\ is_final' = Final
  /\ in_subc' = IF Final THEN in_subc ELSE Unused % Bits
  /\ Offsets(Consumed)
  /\ UNCHANGED odd

\* ERR_NX_OK, which should not happen: the source ends with the stream, and the
\* program goes on as if it did not.
JobOk ==
  /\ pc = "submit" /\ Right /\ ~Corrupt
  /\ Produced <= ddl_out.ddebc
  /\ Final /\ Unused < Bits
  /\ Offsets(SourceLen)
  /\ odd' = TRUE
  /\ UNCHANGED <<is_final, in_subc>>

-----------------------------------------------------------------------------
\* finish_state: what is in fifo_out first, then the trailer, which must be in
\* fifo_in by now.
\* (mutant) the trailer is compared while output waits
NothingWaits == TRUE
AllWritten == used_out = 0

Finish ==
  /\ pc = "finish"
  /\ IF ~is_final THEN Goto("read") /\ UNCHANGED rc
     ELSE IF ~AllWritten THEN Goto("write") /\ UNCHANGED rc
     ELSE IF used_in < Trailer THEN Exits(-1)
     ELSE Exits(IF file.good /\ fifo_in[cur_in] = Body + 1 THEN 0 ELSE -1)
  /\ UNCHANGED <<file, inVars, outVars, jobVars, nxVars>>

\* fclose writes what the C library still has.  Whether it can is not asked.
Close ==
  /\ pc = "close"
  /\ \E n \in 0..AtMost(StdioSz, Len(outf)) : lost' = n
  /\ Goto("done")
  /\ UNCHANGED <<file, rc, inVars, fifo_out, used_out, cur_out, total_out, outf, jobVars, nxVars>>

Accelerator == JobError \/ JobFault \/ JobFaultsTooOften \/ JobSpace \/ JobDone \/ JobOk

Program ==
  \/ HeaderRefused \/ NameOverflows \/ HeaderRead \/ Read \/ ReadNothing
  \/ Write \/ WriteFails \/ Decomp \/ DecompAsserts \/ Finish \/ Close

Ended == pc \in {"done", "aborted"} /\ UNCHANGED vars

Next == Program \/ Accelerator \/ Ended

\* The program runs; the accelerator answers, and does not fault for ever.
Spec == Init /\ [][Next]_vars /\ WF_vars(Program \/ Accelerator)
-----------------------------------------------------------------------------
\* Files gzip may have written, whole or not, with the fields the program reads.
Ordinary == file.magic /\ file.flg \cap {"reserved", "FEXTRA", "FCOMMENT", "LongName"} = {}
Sound == Ordinary /\ ~file.bad /\ file.good /\ file.len >= WholeLen

\* What is used of the rings lies in them, and a job's list is as long as it says.
TypeOK ==
  /\ file \in Files /\ pos \in 0..file.len
  /\ pc \in {"header", "read", "write", "decomp", "submit", "finish", "close", "done", "aborted"}
  /\ rc \in {-1, 0, 1}
  /\ used_in \in 0..FifoIn /\ cur_in \in 0..FifoIn - 1
  /\ used_out \in 0..FifoOut /\ cur_out \in 0..FifoOut - 1
  /\ DOMAIN fifo_in = 0..FifoIn - 1 /\ DOMAIN fifo_out = 0..FifoOut - 1
  /\ {is_eof, is_final, resuming, odd} \subseteq BOOLEAN
  /\ history_len \in 0..UpDiv(Window, QuadWord) * QuadWord /\ in_subc \in 0..Bits - 1
  /\ comp_ratio \in 0..Ratio /\ item \in 0..Items /\ retries \in 0..RetryMax
  /\ lost \in 0..AtMost(StdioSz, Len(outf))
  /\ total_out = Len(outf) + used_out \/ rc = -1   \* a write failed
  /\ \A ddl \in {ddl_in, ddl_out} : Len(Addresses(ddl)) = ddl.ddebc

\* Every job continues where the last one stopped: its list holds the end of the
\* output, out of the ring in one piece or two, then the next bytes of the file
\* from the right bit; its target overlaps neither, the pages touched before lie in
\* the rings, and the retries never cut into the history.
JobsResume ==
  pc = "submit" /\ Ordinary /\ ~odd =>
    /\ SourceIsNext /\ HistoryIsLast /\ TargetIsFree
    /\ TouchedSource \cup TouchedTarget
         \subseteq {a \div PageSz : a \in InBase..InBase + FifoIn - 1}
                    \cup {a \div PageSz : a \in OutBase..OutBase + FifoOut - 1}

\* What is in the file is the start of the plain data, whatever failed, and the
\* program ends well only with a stored checksum that matches and with all of the data
\* handed to the C library.  All of it is in the file then, unless the last write was
\* that of fclose and failed (lost), which the program does not notice.
Written == SubSeq(outf, 1, Len(outf) - lost)
WritesPlain ==
  /\ Ordinary => \A k \in 1..Len(Written) : Written[k] = k
  /\ pc = "done" /\ rc = 0 => Len(Written) + lost = OutEnd(Items) /\ file.good

\* A sound file is decompressed and its checksum found in place, unless faults or
\* write errors prevent it: no job is halved or resumed for ever.
Decompresses == Sound ~> pc = "done" /\ (rc = 0 \/ odd \/ used_out > 0)
==============================================================================
