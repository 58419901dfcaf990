---------------------------- MODULE DeflateUsers ----------------------------
(***************************************************************************)
(* The users of nx_deflate, on top of DeflateStream: an application that   *)
(* calls it as it likes, and the library's own nx_compress2, which encodes *)
(* a whole buffer, and __gzwrite and __gzclose, which write a file.        *)
(***************************************************************************)
EXTENDS DeflateStream

CONSTANTS
  Users,     \* among "app", "compress", "gzfile"
  MaxPiece,  \* what nx_compress2 gives at a time, input or room
  Dests,     \* values of destLen
  MaxLen     \* MAX_LEN, the buffer of __gzclose

ASSUME DeflateUsersAssumption ==
  /\ Users \subseteq {"app", "compress", "gzfile"}
  /\ MaxPiece \in 1..MaxOut /\ MaxLen \in 1..MaxOut
  /\ N <= MaxOut
  /\ Dests \subseteq Nat

VARIABLES
  who,
  at,          \* where the user is
  size,        \* sourceLen, or the len of a write
  source,      \* the part of the source that was not given yet
  dest, left,  \* destLen, and the part of it that was not given yet
  is_deflate,  \* global: the last gz file was opened for writing
  accepted,    \* the sum of what the writes returned
  last_total_in,
  lost,        \* history: a write to the file failed, or wrote less
  failed,      \* history: a job failed
  result

userVars == <<who, at, size, source, dest, left, is_deflate, accepted, last_total_in, lost,
              failed, result>>
usersVars == <<vars, userVars>>

total_in == taken + used_in
total_out == dest - left - avail_out

-----------------------------------------------------------------------------
\* compress2 writes a zlib stream, gzopen asks for gzip.
UsersInit ==
  /\ Init
  /\ who \in Users
  /\ who = "compress" => wrap = "zlib"
  /\ who = "gzfile" => wrap = "gzip"
  /\ at = "idle" /\ size = 0 /\ source = 0 /\ dest = 0 /\ left = 0
  /\ is_deflate = (who = "gzfile")
  /\ accepted = 0 /\ last_total_in = 0 /\ lost = FALSE /\ failed = FALSE /\ result = "none"

\* The library works while the user waits.
Inside ==
  /\ Library
  /\ failed' = (failed \/ ret' = "Z_STREAM_ERROR")
  /\ UNCHANGED <<who, at, size, source, dest, left, is_deflate, accepted, last_total_in, lost,
                 result>>

Deflates(a, room, f, next) ==
  /\ Call(a, room, f) \/ CallRefused(a, room, f)
  /\ at' = next

Returned(place) == at = place /\ pc = "idle"

Smaller(x, y) == IF x < y THEN x ELSE y

-----------------------------------------------------------------------------
\* nx_compress2
Compress(n, d) ==
  /\ who = "compress" /\ at = "idle"
  /\ at' = "compress"
  /\ size' = n /\ source' = n /\ dest' = d /\ left' = d
  /\ UNCHANGED <<vars, who, is_deflate, accepted, last_total_in, lost, failed, result>>

CompressCall ==
  LET room == IF avail_out = 0 THEN Smaller(left, MaxPiece) ELSE 0
      more == IF avail_in = 0 THEN Smaller(source, MaxPiece) ELSE 0
  IN
  /\ at = "compress"
  /\ Deflates(avail_in + more, avail_out + room, IF source > more THEN "NO" ELSE "FINISH",
              "compressing")
  /\ source' = source - more /\ left' = left - room
  /\ UNCHANGED <<who, size, dest, is_deflate, accepted, last_total_in, lost, failed, result>>

\* (mutant) the loop ends with the source
CompressMoreSource == ret = "Z_OK" /\ source > 0

CompressMore == ret = "Z_OK"

CompressReturned ==
  /\ Returned("compressing")
  /\ IF CompressMore
       THEN at' = "compress" /\ UNCHANGED result
       ELSE at' = "done" /\ result' = (IF ret = "Z_STREAM_END" THEN "Z_OK" ELSE ret)
  /\ UNCHANGED <<vars, who, size, source, dest, left, is_deflate, accepted, last_total_in, lost,
                 failed>>

-----------------------------------------------------------------------------
\* Another file is opened, for reading or writing.
OpenOther(writes) ==
  /\ who = "gzfile" /\ at \in {"idle", "given"}
  /\ is_deflate' = writes
  /\ UNCHANGED <<vars, who, at, size, source, dest, left, accepted, last_total_in, lost, failed,
                 result>>

\* What write makes of the output of the call: that it is short goes unnoticed.
Writes(how) ==
  /\ next_out = <<>> => how = "all"
  /\ how = "short" => Len(next_out) > 1
  /\ lost' = (lost \/ how # "all")

\* __gzwrite.  Its buffer for the output is as large as the input.
Gzwrite(n) ==
  /\ who = "gzfile" /\ at \in {"idle", "given"}
  /\ at' = "gzwrite" /\ size' = n /\ last_total_in' = total_in
  /\ UNCHANGED <<vars, who, source, dest, left, is_deflate, accepted, lost, failed, result>>

GzwriteCall ==
  /\ at = "gzwrite"
  /\ Deflates(size, size, "NO", "gzwriting")
  /\ UNCHANGED <<who, size, source, dest, left, is_deflate, accepted, last_total_in, lost, failed,
                 result>>

GzwriteGives(n) ==
  /\ at' = IF n = 0 THEN "refused" ELSE "given"
  /\ accepted' = accepted + n

NothingTaken == total_in = last_total_in

GzwriteReturned(how) ==
  /\ Returned("gzwriting")
  /\ Writes(how)
  /\ IF how = "error" \/ ret \notin {"Z_OK", "Z_STREAM_END"} THEN GzwriteGives(0)
     ELSE IF NothingTaken THEN at' = "gzwrite" /\ UNCHANGED accepted
     ELSE GzwriteGives(total_in - last_total_in)
  /\ UNCHANGED <<vars, who, size, source, dest, left, is_deflate, last_total_in, failed, result>>

\* __gzclose finishes the stream if the last file opened was for writing, else it
\* takes this one for an inflating stream.  It ends with deflateEnd's answer.
EndResult == IF status = "deflate" THEN "Z_DATA_ERROR" ELSE "Z_OK"

Gzclose ==
  /\ who = "gzfile" /\ at \in {"idle", "given", "refused"}
  /\ IF is_deflate THEN at' = "gzclose" /\ UNCHANGED result
                   ELSE at' = "closed" /\ result' = "Z_OK"
  /\ UNCHANGED <<vars, who, size, source, dest, left, is_deflate, accepted, last_total_in, lost,
                 failed>>

GzcloseCall ==
  /\ at = "gzclose"
  /\ Deflates(0, MaxLen, "FINISH", "gzclosing")
  /\ UNCHANGED <<who, size, source, dest, left, is_deflate, accepted, last_total_in, lost, failed,
                 result>>

\* (mutant) the loop ends with the first call that is no error
MoreToFinishNever == FALSE

MoreToFinish == ret # "Z_STREAM_END"

GzcloseReturned(how) ==
  /\ Returned("gzclosing")
  /\ Writes(how)
  /\ IF MoreToFinish /\ how # "error"
       THEN at' = "gzclose" /\ UNCHANGED result
       ELSE at' = "closed" /\ result' = EndResult
  /\ UNCHANGED <<vars, who, size, source, dest, left, is_deflate, accepted, last_total_in, failed>>

-----------------------------------------------------------------------------
UserStep ==
  \/ \E n \in 0..N, d \in Dests : Compress(n, d)
  \/ CompressCall \/ CompressReturned
  \/ \E n \in 1..N : n + total_in <= N /\ Gzwrite(n)
  \/ GzwriteCall \/ Gzclose \/ GzcloseCall
  \/ \E how \in {"all", "short", "error"} : GzwriteReturned(how) \/ GzcloseReturned(how)

ByApp(A) == who = "app" /\ A /\ UNCHANGED userVars

UsersNext ==
  \/ Inside \/ UserStep
  \/ \E writes \in BOOLEAN : OpenOther(writes)
  \/ ByApp(Application)

\* The thread in the library goes on, so do the library's own loops, and the
\* application asks for Z_FINISH again.
UsersSpec ==
  /\ UsersInit /\ [][UsersNext]_usersVars
  /\ WF_usersVars(Inside) /\ WF_usersVars(UserStep) /\ WF_usersVars(ByApp(FinishAgain))

-----------------------------------------------------------------------------
\* nx_compress2 answers Z_OK if and only if a whole stream of the source is in
\* dest.  It says Z_BUF_ERROR only when dest is full, and Z_STREAM_ERROR only when
\* a job failed.
CompressRight ==
  who = "compress" /\ at = "done" /\ ~spoiled =>
    /\ result = "Z_OK" <=> read.at = "end"
    /\ result = "Z_OK" => read.pos = size
    /\ result = "Z_BUF_ERROR" => total_out = dest
    /\ result = "Z_STREAM_ERROR" => failed

\* A file whose writes all went through holds, once it is closed, the whole stream
\* of what gzwrite said it took, and gzclose says Z_OK.  That __gzclose looks at
\* the last file opened, that it does not see a write that was short, and that a
\* write which fails may have taken some input are the exceptions.
GzFileWhole ==
  who = "gzfile" /\ at = "closed" /\ is_deflate /\ ~lost /\ ~spoiled =>
    /\ result = "Z_OK"
    /\ read.at = "end" /\ read.pos = total_in
    /\ IF failed THEN read.pos >= accepted ELSE read.pos = accepted

\* An application that goes on asking for Z_FINISH gets Z_STREAM_END, unless the NX
\* fails or the stream is reset.  Every call of the library's own users returns;
\* but __gzclose tries for ever when the jobs fail for ever.
Back == at \in {"idle", "given", "refused", "done", "closed"}
Waits == IF who = "app" THEN last # -1 ELSE ~Back
Served ==
  \/ who = "app" /\ (ret \in {"Z_STREAM_END", "Z_STREAM_ERROR"} \/ status = "init")
  \/ who # "app" /\ Back
  \/ who = "gzfile" /\ failed

FinishEnds == Waits ~> Served

=============================================================================
