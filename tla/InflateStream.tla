---------------------------- MODULE InflateStream ----------------------------
(***************************************************************************)
(* nx_inflate after the header: nx_inflate_ caches small input, builds the *)
(* input of a job from the history, fifo_in and next_in, resumes the       *)
(* accelerator where it stopped, in the middle of a byte if need be,       *)
(* spreads its output over next_out and fifo_out, keeps the last 32 KB of  *)
(* it as the history of the next job, and compares the checksum at the end.*)
(*                                                                         *)
(* Output bytes are known by their place in the plain data, 0 is garbage.  *)
(***************************************************************************)
EXTENDS InflateHeader

CONSTANTS
  Bits,       \* bits of a byte
  Window,     \* INF_HIS_LEN
  QuadWord,   \* NXQWSZ
  LenOut,     \* len_out
  Threshold,  \* nx_config.cache_threshold
  MinInput,   \* INF_MIN_INPUT_LEN
  MaxLoops,   \* loop_max
  MaxFaults,  \* page faults of a call before it gives up
  Trailers,   \* Trailers[f]: bytes of the trailer of format f
  Extra,      \* bytes the application has after the end of the stream
  Chunks,     \* how much input the application gives at a time
  Rooms,      \* and how much room for output
  Flushes,    \* among "no", "sync", "finish"
  Again,      \* the streams it may be given after a reset
  MaxResets   \* bound on resets

\* An item takes at least a bit, and the first byte holds no more than the
\* header of a block.
ItemsOf(m) ==
  /\ Len(m.bit) = Len(m.out) /\ Len(m.bit) > 0 /\ m.bit[1] > 0
  /\ \A i, j \in 1..Len(m.bit) : i < j => m.bit[i] < m.bit[j] /\ m.out[i] <= m.out[j]
  /\ \A i \in 1..Len(m.bit) : m.bit[i] < Bits => m.out[i] = 0

\* The bit where item i ends.
BitAt(m, i) == IF i = 0 THEN 0 ELSE m.bit[i]

ASSUME InflateAssumption ==
  /\ {Bits, Window, QuadWord, LenOut, Threshold, MinInput, MaxLoops} \subseteq Nat \ {0}
  /\ Window % QuadWord = 0
  /\ LenOut >= 4 * Window
  /\ MaxFaults \in Nat /\ MaxResets \in Nat /\ Extra \in Nat
  /\ Trailers \in [{"raw", "zlib", "gzip"} -> Nat] /\ Trailers["raw"] = 0
  /\ Chunks \subseteq Nat /\ Rooms \subseteq Nat
  /\ Again \subseteq Members /\ Flushes \subseteq {"no", "sync", "finish"}
  /\ \A m \in Members : ItemsOf(m)
  /\ NULL \notin [0..2 * Threshold - 1 -> Nat] \cup [0..LenOut - 1 -> Nat]

\* No header of a block, nor any other piece the accelerator takes as one, is
\* longer than the input that is cached.
HeadersFit ==
  \A m \in Members : \A i \in 1..Len(m.bit) : m.bit[i] - BitAt(m, i - 1) <= Bits * Threshold

VARIABLES
  avail_out, flush,
  in0, out0,   \* what the call began with: bytes taken and given
  total_out,
  user,        \* the output bytes the application has got
  fifo_in, used_in, cur_in,
  fifo_out, used_out, cur_out,
  history_len, resuming, is_final,
  in_subc,     \* bits of the first source byte the next job is to use, 0 for all
  comp_ratio,  \* last_comp_ratio: an estimate, or 1000, which asks for all there is
  crc,         \* s->crc32: output bytes in the checksum
  trailer,
  src, tgt,    \* source_sz without the history, and target_sz
  tgt_exp,     \* target_sz_expected
  loop_cnt, faults,
  item,        \* external: items of the stream the accelerator is done with
  failed,      \* external: a job failed although the stream is good
  resets

jobVars == <<src, tgt, tgt_exp, loop_cnt, faults>>
fifoVars == <<fifo_in, used_in, cur_in, fifo_out, used_out, cur_out>>
engineVars == <<history_len, resuming, is_final, in_subc, comp_ratio, crc, trailer, item, failed>>
callVars == <<avail_out, flush, in0, out0>>
bodyVars == <<callVars, total_out, user, fifoVars, engineVars, jobVars, resets>>
vars == <<strm, pc, rc, nin, avail_in, fault, hvars, bodyVars>>

AtLeast(x, y) == IF x > y THEN x ELSE y
UpDiv(x, y) == (x + y - 1) \div y

Items == Len(strm.bit)
BitEnd(i) == IF i = 0 THEN 0 ELSE strm.bit[i]
OutEnd(i) == IF i = 0 THEN 0 ELSE strm.out[i]
Plain(m) == m.out[Len(m.out)]

\* Where the deflate data and the trailer end.
BodyEnd(m) == HeaderLen(m) + UpDiv(m.bit[Len(m.bit)], Bits)
StreamLen(m) == BodyEnd(m) + Trailers[m.fmt]
FileLen(m) == StreamLen(m) + Extra

-----------------------------------------------------------------------------
Init ==
  /\ strm \in Members
  /\ wrap \in Wraps /\ (wrap = {} <=> strm.fmt = "raw")
  /\ CarefulHcrc /\ "hcrc" \in strm.flags => wrap # {"zlib", "gzip"}
  /\ pc = "app" /\ rc = "OK"
  /\ nin = 0 /\ avail_in = 0 /\ fault = "none"
  /\ inf_state = "header" /\ inf_held = 0 /\ length = 0 /\ gzflags = {}
  /\ ckidx = 0 /\ cksum = 0 /\ hcrc16 = 0 /\ gzhead = NULL /\ dict_len = FALSE
  /\ avail_out = 0 /\ flush = "no" /\ in0 = 0 /\ out0 = 0
  /\ total_out = 0 /\ user = <<>>
  /\ fifo_in = NULL /\ used_in = 0 /\ cur_in = 0
  /\ fifo_out = NULL /\ used_out = 0 /\ cur_out = Window
  /\ history_len = 0 /\ resuming = FALSE /\ is_final = FALSE
  /\ in_subc = 0 /\ comp_ratio = "guess" /\ crc = 0 /\ trailer = <<>>
  /\ src = 0 /\ tgt = 0 /\ tgt_exp = 0 /\ loop_cnt = 0 /\ faults = 0
  /\ item = 0 /\ failed = FALSE /\ resets = 0

\* nx_inflateReset2 sets the wrapper; nx_inflateReset leaves the one that was
\* detected.  Either leaves hcrc16 and a dictionary not used yet.
Reset(m, w) ==
  /\ pc = "app" /\ rc \in {"STREAM_END", "DATA_ERROR", "STREAM_ERROR", "MEM_ERROR"}
  /\ wrap' = w /\ (IF w = {} THEN m.fmt = "raw" ELSE m.fmt \in w)
  /\ CarefulHcrc /\ "hcrc" \in m.flags => hcrc16 = 0 /\ w # {"zlib", "gzip"}
  /\ resets < MaxResets /\ resets' = resets + 1
  /\ strm' = m /\ pc' = "app" /\ rc' = "OK" /\ fault' = "none"
  /\ nin' = 0 /\ avail_in' = 0
  /\ inf_state' = "header" /\ ckidx' = 0 /\ cksum' = 0 /\ gzhead' = NULL
  /\ total_out' = 0 /\ user' = <<>>
  /\ used_in' = 0 /\ cur_in' = 0
  /\ used_out' = 0 /\ cur_out' = Window
  /\ history_len' = 0 /\ resuming' = FALSE /\ is_final' = FALSE
  /\ crc' = 0 /\ trailer' = <<>>
  /\ item' = 0 /\ failed' = FALSE
  /\ UNCHANGED <<inf_held, length, gzflags, hcrc16, dict_len, fifo_in, fifo_out,
                 in_subc, comp_ratio, callVars, jobVars>>

-----------------------------------------------------------------------------
\* nx_inflate until inf_forever.  The buffer for the overflow comes first.
Blank(n) == [i \in 0..n - 1 |-> 0]

Call(n, room, fl) ==
  /\ pc = "app" /\ rc \in {"OK", "BUF_ERROR", "NEED_DICT", "STREAM_END"}
  /\ nin + avail_in + n <= FileLen(strm)
  /\ CarefulHcrc /\ "hcrc" \in strm.flags /\ wrap = {"gzip"} =>
       gzhead # NULL /\ nin + avail_in + n # HeaderLen(strm) - 1
  /\ pc' = "header"
  /\ avail_in' = avail_in + n /\ avail_out' = room /\ flush' = fl
  /\ in0' = nin /\ out0' = total_out
  /\ fifo_out' = IF fifo_out = NULL THEN Blank(LenOut) ELSE fifo_out
  /\ UNCHANGED <<strm, rc, nin, fault, hvars, total_out, user, fifo_in, used_in, cur_in,
                 used_out, cur_out, engineVars, jobVars, resets>>

CallNoMemory ==
  /\ pc = "app" /\ rc = "OK" /\ fifo_out = NULL
  /\ rc' = "MEM_ERROR"
  /\ UNCHANGED <<strm, pc, nin, avail_in, fault, hvars, bodyVars>>

Header ==
  /\ HeaderStep
  /\ UNCHANGED bodyVars

\* inf_return: no progress, or not all with Z_FINISH, is Z_BUF_ERROR.  The call
\* and its variables are over.
Result(r) ==
  IF r = "OK" /\ ((nin = in0 /\ total_out = out0) \/ flush = "finish") THEN "BUF_ERROR" ELSE r

InfReturn ==
  /\ pc = "return"
  /\ pc' = "app" /\ rc' = Result(rc)
  /\ avail_out' = 0 /\ flush' = "no" /\ in0' = 0 /\ out0' = 0
  /\ src' = 0 /\ tgt' = 0 /\ tgt_exp' = 0 /\ loop_cnt' = 0 /\ faults' = 0
  /\ UNCHANGED <<strm, nin, avail_in, fault, hvars, total_out, user, fifoVars, engineVars,
                 resets>>

-----------------------------------------------------------------------------
\* nx_inflate_ until the loop.
\* (mutant) the end is seen while output is left in fifo_out
FinalSeen == is_final
AllDelivered == is_final /\ used_out = 0

Begin ==
  /\ pc = "inflate_"
  /\ IF avail_in = 0 /\ used_in = 0 /\ avail_out = 0 /\ used_out = 0 THEN Returns("STREAM_END")
     ELSE IF AllDelivered THEN pc' = "verify" /\ UNCHANGED rc
     ELSE IF avail_out = 0 THEN Returns("BUF_ERROR")
     ELSE pc' = "loop" /\ UNCHANGED rc
  /\ UNCHANGED <<strm, nin, avail_in, fault, hvars, bodyVars>>

\* "This should never happen."
TooManyLoops ==
  /\ pc = "loop" /\ loop_cnt + 1 = MaxLoops
  /\ Returns("STREAM_ERROR")
  /\ fault' = "loops"
  /\ UNCHANGED <<strm, nin, avail_in, hvars, bodyVars>>

\* memmove, memcpy: n places of f from place d on get the values of g.
Moved(f, d, n, g(_)) == [i \in DOMAIN f |-> IF d <= i /\ i < d + n THEN g(i - d) ELSE f[i]]

\* (mutant) only the history is moved, not what follows it
OutCheckHistory(f, cur, used) ==
  IF cur > LenOut \div 2 THEN Moved(f, 0, Window, LAMBDA k : f[cur - Window + k]) ELSE f
\* fifo_out_len_check: the history and what follows go to the beginning.
OutCheck(f, cur, used) ==
  IF cur > LenOut \div 2
    THEN Moved(f, 0, Window + used, LAMBDA k : f[cur - Window + k])
    ELSE f
OutCur(cur) == IF cur > LenOut \div 2 THEN Window ELSE cur

\* fifo_in_len_check
InCheck(f, cur, used) ==
  IF cur > Threshold THEN Moved(f, 0, used, LAMBDA k : f[cur + k]) ELSE f
InCur(cur) == IF cur > Threshold THEN 0 ELSE cur

\* update_stream_out after n bytes were written to next_out.
Give(n, g(_)) ==
  /\ user' = user \o [k \in 1..n |-> g(k - 1)]
  /\ total_out' = total_out + n
  /\ avail_out' = avail_out - n

\* copy_fifo_out_to_next_out
Drain ==
  LET w == AtMost(used_out, avail_out) IN
  /\ pc = "loop" /\ loop_cnt + 1 < MaxLoops
  /\ used_out > 0
  /\ loop_cnt' = loop_cnt + 1
  /\ Give(w, LAMBDA k : fifo_out[cur_out + k])
  /\ used_out' = used_out - w
  /\ fifo_out' = IF w = 0 THEN fifo_out ELSE OutCheck(fifo_out, cur_out + w, used_out - w)
  /\ cur_out' = IF w = 0 THEN cur_out ELSE OutCur(cur_out + w)
  /\ IF used_out - w > 0 THEN Returns("OK")
     ELSE /\ pc' = IF is_final THEN "verify" ELSE "feed"
          /\ UNCHANGED rc
  /\ UNCHANGED <<strm, nin, avail_in, fault, hvars, flush, in0, out0, fifo_in, used_in, cur_in,
                 engineVars, src, tgt, tgt_exp, faults, resets>>

NothingToDrain ==
  /\ pc = "loop" /\ loop_cnt + 1 < MaxLoops
  /\ used_out = 0
  /\ loop_cnt' = loop_cnt + 1
  /\ pc' = "feed"
  /\ UNCHANGED <<strm, rc, nin, avail_in, fault, hvars, callVars, total_out, user, fifoVars,
                 engineVars, src, tgt, tgt_exp, faults, resets>>

-----------------------------------------------------------------------------
NothingToDo == avail_out = 0 \/ (avail_in = 0 /\ used_in = 0)

ReturnIdle ==
  /\ pc = "feed" /\ NothingToDo
  /\ Returns("OK")
  /\ UNCHANGED <<strm, nin, avail_in, fault, hvars, bodyVars>>

\* (mutant) little input waits even when nothing more comes
TooLittleEver == avail_in + used_in < Threshold /\ flush \notin {"finish", "sync"}
\* Little input waits for more, unless the application asks for its output.
TooLittle ==
  /\ avail_in > 0
  /\ avail_in + used_in < Threshold
  /\ flush \notin {"finish", "sync"}

GoCache ==
  /\ pc = "feed" /\ ~NothingToDo /\ TooLittle
  /\ pc' = "cache"
  /\ UNCHANGED <<strm, rc, nin, avail_in, fault, hvars, bodyVars>>

\* copy_data_to_fifo_in.  The buffer has twice the threshold.
LenIn == 2 * Threshold
OldCur == IF used_in = 0 THEN 0 ELSE cur_in
ReadSize(cur) == AtMost(LenIn - cur - used_in, avail_in)

Cache ==
  LET old == IF fifo_in = NULL THEN Blank(LenIn) ELSE fifo_in
      cur == InCur(OldCur)
      n == ReadSize(cur)
  IN
  /\ pc = "cache"
  /\ Returns("OK")
  /\ fifo_in' = Moved(InCheck(old, OldCur, used_in), cur + used_in, n, LAMBDA k : nin + k + 1)
  /\ cur_in' = cur
  /\ used_in' = used_in + n
  /\ nin' = nin + n /\ avail_in' = avail_in - n
  /\ UNCHANGED <<strm, fault, hvars, callVars, total_out, user, fifo_out, used_out, cur_out,
                 engineVars, jobVars, resets>>

CacheNoMemory ==
  /\ pc = "cache" /\ fifo_in = NULL
  /\ Returns("MEM_ERROR")
  /\ UNCHANGED <<strm, nin, avail_in, fault, hvars, bodyVars>>

-----------------------------------------------------------------------------
\* nx_reset_dde, nx_init_dde and the lists of the job.  A job that resumes
\* nothing, or begins with a dictionary, begins with a whole byte: writing
\* in_histlen clears in_subc.
Resumes == resuming \/ dict_len
SubcCleared == dict_len \/ ~Resumes
SourceSize(expected) == AtMost(used_in + avail_in, expected)

TargetSize(expected) ==
  LET ret == AtMost(avail_out, expected)
  IN ret + AtMost(LenOut - cur_out, expected - ret)

InitDde(src_expected, expected) ==
  /\ history_len' = IF Resumes THEN history_len ELSE 0
  /\ in_subc' = IF SubcCleared THEN 0 ELSE in_subc
  /\ src' = SourceSize(src_expected)
  /\ tgt' = TargetSize(expected)
  /\ tgt_exp' = expected
  /\ pc' = "submit" /\ UNCHANGED rc

\* avail_out plus the history and a quarter.  How much source gives as much is
\* a guess from the last ratio: a tenth of it at least, all of it at most.
Wanted == avail_out + Window + Window \div 4
SourceGuess ==
  IF comp_ratio = "all" THEN {Wanted + 1} ELSE AtMost(MinInput, Wanted + 1)..(Wanted + 1)

Feed ==
  /\ pc = "feed" /\ ~NothingToDo /\ ~TooLittle
  /\ \E s \in SourceGuess : InitDde(s, Wanted)
  /\ UNCHANGED <<strm, nin, avail_in, fault, hvars, callVars, total_out, user, fifoVars,
                 resuming, is_final, comp_ratio, crc, trailer, item, failed, loop_cnt, faults,
                 resets>>

-----------------------------------------------------------------------------
\* The source bytes of the job, first those of fifo_in.
FromFifo == IF fifo_in = NULL THEN 0 ELSE AtMost(used_in, src)
Source(k) == IF k <= FromFifo THEN fifo_in[cur_in + k - 1] ELSE nin + k - FromFifo

\* External.  The accelerator goes on where it stopped if the first byte and
\* its bits say so, the bytes follow each other, and the history, of which a
\* quadword more may be given, ends with the output so far.
FirstBit == Bits * (Source(1) - 1 - HeaderLen(strm)) + (IF in_subc = 0 THEN 0 ELSE Bits - in_subc)
FeedIsRight ==
  /\ FirstBit = BitEnd(item)
  /\ \A k \in 1..src : Source(k) = Source(1) + k - 1

HistoryIsRight ==
  /\ history_len = AtMost(OutEnd(item), Window)
  /\ cur_out >= QuadWord * UpDiv(history_len, QuadWord)
  /\ \A k \in 1..history_len : fifo_out[cur_out - k] = OutEnd(item) - k + 1
  /\ OutEnd(item) < strm.refs => dict_len

Right == FeedIsRight /\ HistoryIsRight

\* The last item that ends in the source, and the output until there.
FedBits == Bits * (Source(src) - HeaderLen(strm))
Reached ==
  CHOOSE i \in item..Items :
    /\ BitEnd(i) <= FedBits
    /\ i < Items => BitEnd(i + 1) > FedBits
Produced == OutEnd(Reached) - OutEnd(item)
Corrupt == strm.bad = "body" /\ Reached = Items

\* The accelerator finds invalid data, or the job comes back without a result.
JobError(why) ==
  /\ pc = "submit"
  /\ \/ why = "garbled" /\ ~Right
     \/ why = "corrupt" /\ Right /\ Corrupt
     \/ why = "lost" /\ faults < MaxFaults
  /\ Returns("DATA_ERROR")
  /\ failed' = (failed \/ why = "lost")
  /\ fault' = IF why = "garbled" THEN "garbled" ELSE fault
  /\ UNCHANGED <<strm, nin, avail_in, hvars, callVars, total_out, user, fifoVars, history_len,
                 resuming, is_final, in_subc, comp_ratio, crc, trailer, item, jobVars, resets>>

\* ERR_NX_AT_FAULT: once more, then with less source, in the end not at all.
Halved(x, min) == IF x > 2 * min THEN UpDiv(x, 2) ELSE IF x > min THEN min ELSE x

JobFault ==
  /\ pc = "submit" /\ faults < MaxFaults
  /\ faults' = faults + 1
  /\ IF faults = 0
       THEN UNCHANGED <<pc, rc, history_len, in_subc, src, tgt, tgt_exp>>
       ELSE InitDde(Halved(src, MinInput), tgt_exp)
  /\ UNCHANGED <<strm, nin, avail_in, fault, hvars, callVars, total_out, user, fifoVars,
                 resuming, is_final, comp_ratio, crc, trailer, item, failed, loop_cnt, resets>>

JobFaultsTooLong ==
  /\ pc = "submit" /\ faults = MaxFaults /\ MaxFaults > 0
  /\ Returns("DATA_ERROR")
  /\ failed' = TRUE
  /\ UNCHANGED <<strm, nin, avail_in, fault, hvars, callVars, total_out, user, fifoVars,
                 history_len, resuming, is_final, in_subc, comp_ratio, crc, trailer, item,
                 jobVars, resets>>

\* ERR_NX_TARGET_SPACE: the output does not fit, try half of the source.
JobSpace ==
  /\ pc = "submit" /\ Right /\ ~Corrupt
  /\ Produced > tgt
  /\ InitDde(Halved(UpDiv(src, 2), MinInput), tgt_exp)
  /\ UNCHANGED <<strm, nin, avail_in, fault, hvars, callVars, total_out, user, fifoVars,
                 resuming, is_final, comp_ratio, crc, trailer, item, failed, loop_cnt, faults,
                 resets>>

-----------------------------------------------------------------------------
\* The job is done as far as its source goes.  Bits it took and did not use are
\* given again, in whole bytes; after the last block they are the trailer.
Final == Reached = Items
Unused == FedBits - BitEnd(Reached)
\* (mutant) the byte in which the job stopped is not given again
ConsumedToByte == src - Unused \div Bits
Consumed == src - (IF Final THEN Unused \div Bits ELSE UpDiv(Unused, Bits))

\* What the engine wrote: next_out first, the rest to fifo_out.
Byte(k) == OutEnd(item) + k + 1
Overflow == Produced - AtMost(avail_out, Produced)
ToUser == Produced - Overflow
Written == Moved(fifo_out, cur_out, Overflow, LAMBDA k : Byte(ToUser + k))

\* The history for the next job: append what went to next_out, or put the end
\* of it before the overflow, or have it all in the overflow.
Appended(n) == Moved(fifo_out, cur_out, n, LAMBDA k : Byte(ToUser - n + k))

Spanning ==
  IF ToUser + Overflow > Window
    THEN LET len == Window - Overflow
         IN Moved(Written, cur_out - len, len, LAMBDA k : Byte(ToUser - len + k))
    ELSE LET len == Window - (ToUser + Overflow)
             older == Moved(Written, cur_out - ToUser - len, len,
                            LAMBDA k : Written[cur_out - len + k])
         IN Moved(older, cur_out - ToUser, ToUser, LAMBDA k : Byte(k))

NewHistory ==
  IF Overflow = 0
    THEN IF Final THEN fifo_out' = fifo_out /\ cur_out' = cur_out
         ELSE LET n == AtMost(Window, Produced) IN
              /\ fifo_out' = OutCheck(Appended(n), cur_out + n, 0)
              /\ cur_out' = OutCur(cur_out + n)
    ELSE /\ fifo_out' = IF Overflow < Window THEN Spanning ELSE Written
         /\ cur_out' = cur_out

\* offsets_state: the source is taken from fifo_in, then from next_in.
TakeSource ==
  IF Consumed > used_in
    THEN /\ nin' = nin + Consumed - used_in
         /\ avail_in' = avail_in - (Consumed - used_in)
         /\ used_in' = 0
         /\ UNCHANGED <<cur_in, fifo_in>>
    ELSE /\ used_in' = used_in - Consumed
         /\ cur_in' = InCur(cur_in + Consumed)
         /\ fifo_in' = IF fifo_in = NULL THEN NULL
                       ELSE InCheck(fifo_in, cur_in + Consumed, used_in - Consumed)
         /\ UNCHANGED <<nin, avail_in>>

RatioAfter ==
  IF Consumed > 0 \/ Produced > 0 THEN "guess"
  ELSE IF Reached + 1 \in strm.hdr /\ Unused > 0 THEN "all" ELSE comp_ratio

\* The checksums of the job before are carried on.
\* (mutant) the checksum of each job begins anew
InCrcInitial == 0
InCrc == IF ~Resumes \/ (dict_len /\ wrap = {"zlib"}) THEN 0 ELSE crc

HistoryAfter == AtMost(total_out + used_out + Produced, Window)

JobDone ==
  /\ pc = "submit" /\ Right /\ ~Corrupt
  /\ Produced <= tgt
  /\ NewHistory
  /\ Give(ToUser, LAMBDA k : Byte(k))
  /\ used_out' = used_out + Overflow
  /\ TakeSource
  /\ history_len' = HistoryAfter
  /\ in_subc' = IF Final THEN in_subc ELSE Unused % Bits
  /\ crc' = InCrc + Produced
  /\ comp_ratio' = RatioAfter
  /\ resuming' = (resuming \/ ~Final) /\ is_final' = Final
  /\ dict_len' = FALSE
  /\ item' = Reached
  /\ IF Final THEN pc' = (IF used_out' = 0 THEN "verify" ELSE "copy trailer") /\ UNCHANGED rc
     ELSE IF avail_out' > 0 /\ used_in' + avail_in' > UpDiv(Unused, Bits)
       THEN pc' = "loop" /\ UNCHANGED rc
     ELSE IF avail_out' > 0 /\ avail_in' > 0 THEN pc' = "cache" /\ UNCHANGED rc
     ELSE Returns("OK")
  /\ UNCHANGED <<strm, fault, wrap, inf_state, inf_held, length, gzflags, ckidx, cksum, hcrc16,
                 gzhead, flush, in0, out0, trailer, failed, jobVars, resets>>

-----------------------------------------------------------------------------
\* nx_inflate_verify_checksum.  The trailer may come in pieces, the first ones
\* out of fifo_in.
TrailerNeed ==
  LET len == IF wrap = {} THEN 0 ELSE Trailers[strm.fmt]
  IN IF len > Len(trailer) THEN len - Len(trailer) ELSE 0
Got1 == AtMost(used_in, TrailerNeed)
Got2 == AtMost(avail_in, TrailerNeed - Got1)
Trailer ==
  (IF Got1 > 0 THEN [k \in 1..Got1 |-> fifo_in[cur_in + k - 1]] ELSE trailer)
  \o [k \in 1..Got2 |-> nin + k]

CopyTrailer ==
  /\ trailer' = Trailer
  /\ used_in' = used_in - Got1
  /\ cur_in' = IF Got1 > 0 THEN InCur(cur_in + Got1) ELSE cur_in
  /\ fifo_in' = IF Got1 > 0 THEN InCheck(fifo_in, cur_in + Got1, used_in - Got1) ELSE fifo_in
  /\ nin' = nin + Got2 /\ avail_in' = avail_in - Got2

CopyTrailerOnly ==
  /\ pc = "copy trailer"
  /\ CopyTrailer
  /\ pc' = "loop" /\ UNCHANGED rc
  /\ UNCHANGED <<strm, fault, hvars, callVars, total_out, user, fifo_out, used_out, cur_out,
                 history_len, resuming, is_final, in_subc, comp_ratio, crc, item, failed,
                 jobVars, resets>>

TrailerMatches(t) ==
  /\ strm.bad # "trailer"
  /\ t = [k \in 1..Trailers[strm.fmt] |-> BodyEnd(strm) + k]
  /\ crc = Plain(strm)
  /\ wrap = {"gzip"} => total_out = Plain(strm)

Verdict(t) ==
  IF wrap = {} THEN "STREAM_END"
  ELSE IF Len(t) < Trailers[strm.fmt] THEN "OK"
  ELSE IF TrailerMatches(t) THEN "STREAM_END" ELSE "STREAM_ERROR"

Verify ==
  /\ pc = "verify"
  /\ CopyTrailer
  /\ Returns(Verdict(trailer'))
  /\ UNCHANGED <<strm, fault, hvars, callVars, total_out, user, fifo_out, used_out, cur_out,
                 history_len, resuming, is_final, in_subc, comp_ratio, crc, item, failed,
                 jobVars, resets>>

-----------------------------------------------------------------------------
\* The application gives some of what is left of the stream, or all of it.
Left == FileLen(strm) - nin - avail_in

AppCall == \E n \in {c \in Chunks : c <= Left} \cup {Left}, room \in Rooms, fl \in Flushes :
              Call(n, room, fl)
AppReset == \E m \in Again, w \in Wraps \cup {wrap} : Reset(m, w)
AppSetDictionary == \E right \in BOOLEAN : SetDictionary(right) /\ UNCHANGED bodyVars
AppGetHeader == GetHeader /\ UNCHANGED bodyVars

Application == AppCall \/ CallNoMemory \/ AppReset \/ AppSetDictionary \/ AppGetHeader

Accelerator ==
  \/ \E why \in {"garbled", "corrupt", "lost"} : JobError(why)
  \/ JobFault \/ JobFaultsTooLong \/ JobSpace \/ JobDone

Library ==
  \/ Header \/ InfReturn \/ Begin
  \/ TooManyLoops \/ Drain \/ NothingToDrain
  \/ ReturnIdle \/ GoCache \/ Cache \/ CacheNoMemory \/ Feed
  \/ CopyTrailerOnly \/ Verify

Next == Application \/ Accelerator \/ Library

Spec == Init /\ [][Next]_vars

-----------------------------------------------------------------------------
\* Types, and what the code believes of its buffers: neither ever overflows, and
\* the history of a job, rounded up to quadwords, never begins before fifo_out.
TypeOK ==
  /\ strm \in Members /\ wrap \subseteq {"zlib", "gzip"}
  /\ pc \in {"app", "header", "return", "inflate_", "loop", "feed", "cache", "submit",
             "copy trailer", "verify", "dead"}
  /\ rc \in {"OK", "BUF_ERROR", "NEED_DICT", "STREAM_END", "DATA_ERROR", "STREAM_ERROR", "MEM_ERROR"}
  /\ fault \in {"none", "garbled", "loops", "null pointer"}
  /\ {nin, avail_in, inf_held, length, ckidx, cksum, hcrc16, avail_out, in0, out0, total_out,
      used_in, cur_in, used_out, cur_out, history_len, crc, src, tgt, tgt_exp, loop_cnt, faults,
      resets} \subseteq Nat
  /\ nin + avail_in <= FileLen(strm)
  /\ inf_state \in {"header", "gzip_id1", "gzip_id2", "gzip_cm", "gzip_flg", "gzip_mtime", "gzip_xfl",
                    "gzip_os", "gzip_xlen", "gzip_extra", "gzip_name", "gzip_hcrc", "zlib_id1",
                    "zlib_flg", "zlib_dictid", "zlib_dict", "inflate", "data_error"}
  /\ gzflags \subseteq {"hcrc", "extra", "name"}
  /\ gzhead \in {NULL, "reading", "done", "not gzip"}
  /\ dict_len \in BOOLEAN /\ resuming \in BOOLEAN /\ is_final \in BOOLEAN /\ failed \in BOOLEAN
  /\ flush \in {"no", "sync", "finish"}
  /\ user \in Seq(Nat) /\ Len(user) = total_out
  /\ fifo_in \in [0..LenIn - 1 -> Nat] \cup {NULL} /\ (used_in > 0 => fifo_in # NULL)
  /\ fifo_out \in [0..LenOut - 1 -> Nat] \cup {NULL}
  /\ cur_in + used_in <= LenIn
  /\ cur_out \in Window..LenOut \div 2 /\ cur_out + used_out <= LenOut
  /\ item \in 0..Items /\ total_out + used_out = OutEnd(item)
  /\ history_len <= Window /\ in_subc \in 0..Bits - 1
  /\ comp_ratio \in {"guess", "all"}
  /\ trailer \in Seq(Nat)
  /\ loop_cnt < MaxLoops /\ faults <= MaxFaults
  /\ used_out > 0 => pc # "submit"

\* Whatever the sizes of the calls, a job resumes at the byte and bit where the
\* one before stopped, its source has no gap between fifo_in and next_in, and
\* its history is the output just before.
JobsResume == pc = "submit" /\ strm.refs = 0 => Right

\* The application gets the plain data, in order, each byte once.
OutputRight == \A i \in 1..total_out : user[i] = i

\* What the call is about to return.
Answers(r) == pc = "return" /\ Result(rc) = r

\* An error is never the library's: the stream is bad, it is not of the format
\* asked for, or a job failed; and Z_BUF_ERROR is not returned while there is
\* input and room for output.
NoFalseError ==
  /\ Answers("DATA_ERROR") \/ Answers("STREAM_ERROR") =>
       \/ strm.bad # "none" \/ failed
       \/ Cardinality(wrap) = 1 /\ wrap # {strm.fmt}
       \/ fault = "garbled" /\ strm.refs > 0
       \/ fault = "loops"
  /\ Answers("BUF_ERROR") /\ flush # "finish" => avail_in = 0 \/ avail_out = 0

\* Z_STREAM_END only after all of the output was delivered and the trailer was
\* read and compared, and not a byte more but what was cached; or when the call
\* offered nothing.
EndIsEnd ==
  Answers("STREAM_END") =>
    \/ /\ total_out = Plain(strm) /\ used_out = 0
       /\ nin - used_in = StreamLen(strm)
       /\ strm.bad # "trailer" \/ wrap = {}
    \/ avail_in = 0 /\ used_in = 0 /\ avail_out = 0 /\ used_out = 0

=============================================================================
