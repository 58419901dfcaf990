---------------------------- MODULE InflateUsers ----------------------------
(***************************************************************************)
(* The users of nx_inflate, on top of InflateStream: an application that   *)
(* calls it as it likes, and the library's own nx_uncompress2, which       *)
(* decodes a whole buffer, and __gzread, which feeds the inflater a few    *)
(* bytes of a file at a time.  The stream these two are given may be cut   *)
(* short, or be followed by something else.                                *)
(***************************************************************************)
EXTENDS InflateStream

CONSTANTS
  MembersOf, \* the streams of each user: "app", "uncompress", "gzread"
  MaxPiece,  \* what nx_uncompress2 gives at a time
  FewBytes,  \* what __gzread reads at a time
  Dests,     \* values of destLen
  Lens       \* values of len

ASSUME UsersAssumption ==
  /\ MembersOf \in [{"app", "uncompress", "gzread"} -> SUBSET Members]
  /\ {MaxPiece, FewBytes} \subseteq Nat \ {0}
  /\ Dests \subseteq Nat /\ Lens \subseteq Nat \ {0}

VARIABLES
  who,
  at,          \* where the user is
  size,        \* sourceLen, or the size of the file
  dest,        \* destLen, or len
  left,        \* the part of dest that was not given yet
  room,        \* stream.avail_out between two calls
  last_total_out,
  result

userVars == <<who, at, size, dest, left, room, last_total_out, result>>

-----------------------------------------------------------------------------
\* inflateInit detects the format.
Sizes == {0, HeaderLen(strm), BodyEnd(strm), StreamLen(strm), FileLen(strm)}

UsersInit ==
  /\ Init
  /\ who \in DOMAIN MembersOf /\ strm \in MembersOf[who]
  /\ IF who = "app" THEN size = FileLen(strm) ELSE size \in Sizes /\ wrap = {"zlib", "gzip"}
  /\ at = "idle" /\ dest = 0 /\ left = 0 /\ room = 0 /\ last_total_out = 0 /\ result = "none"

\* What nx_inflate has not been given yet.
Remaining == size - nin - avail_in

\* The library and the accelerator work while the user waits.
Inside ==
  /\ Library \/ Accelerator
  /\ room' = IF pc = "return" THEN avail_out ELSE room
  /\ UNCHANGED <<who, at, size, dest, left, last_total_out, result>>

Inflates(n, avail, fl, next) ==
  /\ \/ Call(n, avail, fl)
     \/ CallNoMemory
  /\ at' = next

Returned(place) == at = place /\ pc = "app"

-----------------------------------------------------------------------------
\* nx_uncompress2.  Without room at all it tries with a byte of its own.
Uncompress(n) ==
  /\ who = "uncompress" /\ at = "idle"
  /\ at' = "uncompress"
  /\ dest' = n
  /\ left' = IF n = 0 THEN 1 ELSE n
  /\ UNCHANGED <<vars, who, size, room, last_total_out, result>>

UncompressCall ==
  LET more == IF room = 0 THEN AtMost(left, MaxPiece) ELSE 0
      input == IF avail_in = 0 THEN AtMost(Remaining, MaxPiece) ELSE 0
  IN
  /\ at = "uncompress"
  /\ Inflates(input, room + more, "no", "uncompressing")
  /\ left' = left - more
  /\ UNCHANGED <<who, size, dest, room, last_total_out, result>>

\* More than fits in no room at all is an error of the data.
LeftAtEnd == IF dest = 0 /\ total_out > 0 /\ rc = "BUF_ERROR" THEN 1 ELSE left

\* (mutant) Z_BUF_ERROR is always taken for bad data
UncompressResultFull ==
  IF rc = "STREAM_END" THEN "OK" ELSE IF rc \in {"NEED_DICT", "BUF_ERROR"} THEN "DATA_ERROR" ELSE rc

UncompressResult ==
  IF rc = "STREAM_END" THEN "OK"
  ELSE IF rc = "NEED_DICT" THEN "DATA_ERROR"
  ELSE IF rc = "BUF_ERROR" /\ LeftAtEnd + room > 0 THEN "DATA_ERROR" ELSE rc

UncompressReturned ==
  /\ Returned("uncompressing")
  /\ IF rc = "OK"
       THEN at' = "uncompress" /\ UNCHANGED result
       ELSE at' = "done" /\ result' = UncompressResult
  /\ UNCHANGED <<vars, who, size, dest, left, room, last_total_out>>

-----------------------------------------------------------------------------
\* __gzread, again and again.
Gzread(n) ==
  /\ who = "gzread" /\ at = "idle"
  /\ at' = "gzread"
  /\ dest' = n /\ room' = n
  /\ last_total_out' = total_out
  /\ UNCHANGED <<vars, who, size, left, result>>

\* read gives no more than there is.  What inflate left in buf comes first.
GzreadMax == IF dest > FewBytes THEN FewBytes ELSE 1

GzreadCall(n) ==
  /\ at = "gzread"
  /\ IF avail_in > 0 THEN n = 0 ELSE n \in 1..AtMost(GzreadMax, Remaining)
  /\ Inflates(n, room, "no", "gzreading")
  /\ UNCHANGED <<who, size, dest, left, room, last_total_out, result>>

\* At the end of the file there is one call more.
GzreadLast ==
  /\ at = "gzread" /\ avail_in = 0 /\ Remaining = 0
  /\ Inflates(0, room, "finish", "gzread at end")
  /\ UNCHANGED <<who, size, dest, left, room, last_total_out, result>>

\* The caller takes fewer bytes than it asked for as the end.
GzreadGives(n) == result' = n /\ at' = IF n < dest THEN "done" ELSE "given"

GzreadFails == rc \notin {"OK", "STREAM_END"}
\* (mutant) the loop ends with the piece of input
GzreadMoreInput == room > 0 /\ avail_in > 0
GzreadMore == room > 0

GzreadReturned ==
  /\ \/ /\ Returned("gzreading") /\ ~GzreadFails /\ GzreadMore
        /\ at' = "gzread" /\ UNCHANGED result
     \/ /\ Returned("gzreading") /\ GzreadFails
        /\ GzreadGives(0)
     \/ /\ Returned("gzreading") /\ ~GzreadFails /\ ~GzreadMore
        /\ GzreadGives(total_out - last_total_out)
     \/ /\ Returned("gzread at end")
        /\ GzreadGives(total_out - last_total_out)
  /\ UNCHANGED <<vars, who, size, dest, left, room, last_total_out>>

GzreadAgain ==
  /\ at = "given"
  /\ at' = "idle" /\ dest' = 0 /\ last_total_out' = 0 /\ result' = "none"
  /\ UNCHANGED <<vars, who, size, left, room>>

-----------------------------------------------------------------------------
UserStep ==
  \/ \E n \in Dests : Uncompress(n)
  \/ UncompressCall \/ UncompressReturned
  \/ \E n \in Lens : Gzread(n)
  \/ \E n \in 0..FewBytes : GzreadCall(n)
  \/ GzreadLast \/ GzreadReturned \/ GzreadAgain

\* An application that does not give up offers, again and again, all the input
\* it has and room, and the dictionary it is asked for.
ByApp(A) == who = "app" /\ A /\ UNCHANGED userVars
AppStep == ByApp(Application)
AppHelps == ByApp(\E n \in Rooms \ {0} : Call(Left, n, "no"))
AppGivesDictionary == ByApp(rc = "NEED_DICT" /\ SetDictionary(TRUE) /\ UNCHANGED bodyVars)

UsersNext == Inside \/ UserStep \/ AppStep

usersVars == <<vars, userVars>>

UsersSpec ==
  /\ UsersInit /\ [][UsersNext]_usersVars
  /\ WF_usersVars(Inside) /\ WF_usersVars(UserStep)
  /\ SF_usersVars(AppHelps) /\ SF_usersVars(AppGivesDictionary)
  /\ WF_usersVars(ByApp(AppGetHeader))

-----------------------------------------------------------------------------
\* What the user is to get, and what stands in its way.
Whole == size >= StreamLen(strm) /\ strm.bad = "none" /\ strm.refs = 0 /\ ~strm.fdict
Spoiled == failed \/ rc = "MEM_ERROR" \/ fault = "loops"

\* nx_uncompress2 answers Z_OK only if the stream is whole and good, fits in
\* dest, and every byte of it was delivered: trailing bytes do no harm.  But when
\* a source cut short ends just where dest is full, the last call offers nothing,
\* and its Z_STREAM_END is taken for the end.
BothRanOut == size < StreamLen(strm) /\ total_out = AtLeast(dest, 1)

\* A whole and good stream that fits is answered with Z_OK.  But a dest of exactly
\* the right size may be full before the end of the last block was decoded: the
\* next call finds no room and answers Z_BUF_ERROR.
FullBeforeEnd ==
  /\ result = "BUF_ERROR" /\ dest > 0 /\ dest = Plain(strm)
  /\ total_out = dest /\ ~is_final

UncompressRight ==
  who = "uncompress" /\ at = "done" =>
    /\ result = "OK" => (Whole /\ total_out = Plain(strm)) \/ BothRanOut
    /\ Whole /\ ~Spoiled /\ dest >= Plain(strm) => result = "OK" \/ FullBeforeEnd
    /\ Whole /\ ~Spoiled /\ dest < Plain(strm) /\ dest > 0 => result = "BUF_ERROR"

\* The byte that nx_uncompress2 offers when destLen is 0 is "for detection of
\* incomplete stream": a source without its end is not answered with Z_OK.
\* It does not hold: the README reports it.
IncompleteDetected ==
  who = "uncompress" /\ at = "done" /\ dest = 0 /\ size < StreamLen(strm) => result # "OK"

\* "Z_BUF_ERROR if there was not enough room in the output buffer" (nxlite.c): a
\* whole and good stream that fits is not answered with it.  It does not hold: the
\* README reports it.
BufErrorMeansNoRoom ==
  who = "uncompress" /\ at = "done" /\ Whole /\ ~Spoiled /\ result = "BUF_ERROR" =>
    dest < Plain(strm)

\* __gzread gives fewer bytes than it was asked for only when there is no more:
\* never in the middle of a good file.
GzreadRight ==
  who = "gzread" /\ at \in {"given", "done"} /\ result < dest /\ Whole /\ ~Spoiled =>
    total_out = Plain(strm)

\* Calls that give input and room come to the end of the stream, and every call
\* of uncompress and gzread comes back.  __gzread does not when there are bytes
\* after the stream: nx_inflate takes none of them and answers Z_STREAM_END for
\* ever.
Trailing == who = "gzread" /\ size > StreamLen(strm)
Ends == rc \in {"STREAM_END", "DATA_ERROR", "STREAM_ERROR", "MEM_ERROR"} \/ pc = "dead"

Completes == []<>(IF who = "app" THEN Ends ELSE at \in {"idle", "given", "done"} \/ Trailing)

=============================================================================
