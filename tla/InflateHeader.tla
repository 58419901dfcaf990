---------------------------- MODULE InflateHeader ----------------------------
(***************************************************************************)
(* The header states of nx_inflate: raw, zlib and gzip wrappers, whole or  *)
(* in pieces, the dictionary a zlib header asks for, and the place an      *)
(* application gives for the fields of a gzip header.                      *)
(*                                                                         *)
(* A compressed stream is a record of Members.  Its bytes are numbered     *)
(* from 1, and those of the header are known by the name of their field.   *)
(***************************************************************************)
EXTENDS Naturals, Sequences, FiniteSets

CONSTANTS
  Members,     \* the streams the application may be given, records of Member
  Wraps,       \* the values of windowBits it may ask for
  CarefulHcrc, \* it works around the handling of gzip header checksums
  NULL

Fields == {"id1", "id2", "cm", "flg", "hcrc", "cmf", "zflg", "dictid"}

(* fmt, the flags of a gzip header, its extra bytes and its name with the  *)
(* zero at the end; whether a zlib header asks for a dictionary and how    *)
(* many bytes of the output refer to it.  The items of the deflate data    *)
(* are symbols, block headers and the last end of block: item i ends at    *)
(* bit[i], and out[i] bytes are known then.  Those of hdr are headers of   *)
(* blocks that are not the last.  bad is the part that is corrupt.         *)
Member ==
  [fmt : {"raw", "zlib", "gzip"}, flags : SUBSET {"hcrc", "extra", "name"},
   extra : Nat, name : Nat, fdict : BOOLEAN, refs : Nat,
   bit : Seq(Nat), out : Seq(Nat), hdr : SUBSET Nat,
   bad : Fields \cup {"none", "body", "trailer"}]

VARIABLES
  strm,      \* the compressed stream
  pc,        \* where nx_inflate is, or "app"
  rc,        \* its result, the last one while the application runs
  nin,       \* bytes taken from next_in
  avail_in,  \* bytes next_in has left
  wrap, inf_state, inf_held, length, gzflags,
  ckidx,     \* header bytes in ckbuf
  cksum,     \* header bytes in the checksum
  hcrc16,    \* headers whose checksum has been read into it
  gzhead,    \* NULL, or the value of its field done
  dict_len,  \* whether a dictionary waits for the next job
  fault      \* what the library did wrong

hvars == <<wrap, inf_state, inf_held, length, gzflags, ckidx, cksum, hcrc16, gzhead, dict_len>>

-----------------------------------------------------------------------------
Repeat(f, n) == [i \in 1..n |-> f]
Optional(b, s) == IF b THEN s ELSE <<>>

\* rfc1952 and rfc1950.  mtime, and dictid, have 4 bytes.
Layout(m) ==
  IF m.fmt = "gzip"
    THEN <<"id1", "id2", "cm", "flg">> \o Repeat("mtime", 4) \o <<"xfl", "os">>
         \o Optional("extra" \in m.flags, <<"xlen", "xlen">> \o Repeat("extra", m.extra))
         \o Optional("name" \in m.flags, Repeat("name", m.name))
         \o Optional("hcrc" \in m.flags, <<"hcrc", "hcrc">>)
    ELSE IF m.fmt = "zlib" THEN <<"cmf", "zflg">> \o Optional(m.fdict, Repeat("dictid", 4))
                           ELSE <<>>

HeaderLen(m) == Len(Layout(m))

\* A name has its zero, only zlib asks for a dictionary, and a field that is
\* corrupt is there.
ASSUME HeaderAssumption ==
  /\ Members \subseteq Member
  /\ \A m \in Members :
       /\ "name" \in m.flags => m.name > 0
       /\ m.fdict => m.fmt = "zlib"
       /\ m.bad \in Fields => \E p \in 1..HeaderLen(m) : Layout(m)[p] = m.bad
  /\ Wraps \subseteq {{}, {"zlib"}, {"gzip"}, {"zlib", "gzip"}}
  /\ CarefulHcrc \in BOOLEAN

\* The field the next byte is of, and whether it has the value it should.
Next_in == IF nin < HeaderLen(strm) THEN Layout(strm)[nin + 1] ELSE "data"
Is(f) == Next_in = f /\ strm.bad # f

AtMost(x, y) == IF x < y THEN x ELSE y

-----------------------------------------------------------------------------
\* nx_inflate_get_byte, n times: the bytes go through ckbuf into the checksum
\* as soon as the flags say that the header has one.
Take(n) ==
  /\ nin' = nin + n
  /\ avail_in' = avail_in - n
  /\ IF n > 0 /\ "hcrc" \in gzflags
       THEN cksum' = cksum + ckidx + n /\ ckidx' = 0
       ELSE ckidx' = ckidx + n /\ cksum' = cksum

\* The bytes of extra and name go into the checksum by themselves.
TakeBulk(n) ==
  /\ nin' = nin + n
  /\ avail_in' = avail_in - n
  /\ cksum' = IF "hcrc" \in gzflags THEN cksum + n ELSE cksum
  /\ UNCHANGED ckidx

In(st) == pc = "header" /\ inf_state = st
Returns(r) == pc' = "return" /\ rc' = r
Stays == UNCHANGED <<pc, rc>>
Goto(st) == inf_state' = st

\* Every state that takes a byte returns when there is none.
TakesByte ==
  \/ inf_state \in {"gzip_id1", "gzip_id2", "gzip_cm", "gzip_flg", "gzip_mtime", "gzip_xfl",
                    "gzip_os", "zlib_id1", "zlib_flg", "zlib_dictid"}
  \/ inf_state = "header" /\ wrap = {"zlib", "gzip"}
  \/ inf_state = "gzip_xlen" /\ "extra" \in gzflags
  \/ inf_state = "gzip_extra" /\ "extra" \in gzflags /\ length > 0
  \/ inf_state = "gzip_name" /\ "name" \in gzflags
  \/ inf_state = "gzip_hcrc" /\ "hcrc" \in gzflags

NeedInput ==
  /\ pc = "header" /\ TakesByte
  /\ avail_in = 0
  /\ Returns("OK")
  /\ UNCHANGED <<strm, nin, avail_in, fault, hvars>>

\* inf_state_header: what wrapper to look for, or which one is there.
Detect ==
  /\ In("header") /\ wrap = {"zlib", "gzip"} /\ avail_in > 0
  /\ Take(1)
  /\ \/ /\ Is("id1")
        /\ Goto("gzip_id2") /\ wrap' = {"gzip"}
     \/ /\ Is("cmf")
        /\ Goto("zlib_flg") /\ wrap' = {"zlib"}
     \/ /\ ~Is("id1") /\ ~Is("cmf")
        /\ Goto("data_error") /\ UNCHANGED wrap
  /\ Stays /\ UNCHANGED <<strm, fault, inf_held, length, gzflags, hcrc16, gzhead, dict_len>>

Dispatch ==
  /\ In("header") /\ wrap # {"zlib", "gzip"}
  /\ Goto(CASE wrap = {"zlib"} -> "zlib_id1" [] wrap = {"gzip"} -> "gzip_id1"
            [] OTHER -> "inflate")
  /\ gzhead' = IF gzhead = NULL \/ wrap = {} THEN gzhead
               ELSE IF wrap = {"gzip"} THEN "reading" ELSE "not gzip"
  /\ Stays
  /\ UNCHANGED <<strm, nin, avail_in, fault, wrap, inf_held, length, gzflags, ckidx, cksum,
                 hcrc16, dict_len>>

\* States that test one byte and go to the next state.
Tests == [gzip_id1 |-> <<"id1", "gzip_id2">>, gzip_id2 |-> <<"id2", "gzip_cm">>,
          gzip_cm |-> <<"cm", "gzip_flg">>, zlib_id1 |-> <<"cmf", "zlib_flg">>]

TestByte ==
  /\ pc = "header" /\ inf_state \in DOMAIN Tests /\ avail_in > 0
  /\ Take(1)
  /\ Goto(IF Is(Tests[inf_state][1]) THEN Tests[inf_state][2] ELSE "data_error")
  /\ Stays /\ UNCHANGED <<strm, fault, wrap, inf_held, length, gzflags, hcrc16, gzhead, dict_len>>

GzipFlg ==
  /\ In("gzip_flg") /\ avail_in > 0
  /\ Take(1)
  /\ gzflags' = IF Next_in = "flg" THEN strm.flags ELSE {}
  /\ IF Is("flg") THEN Goto("gzip_mtime") /\ inf_held' = 0
                  ELSE Goto("data_error") /\ UNCHANGED inf_held
  /\ Stays /\ UNCHANGED <<strm, fault, wrap, length, hcrc16, gzhead, dict_len>>

\* Bytes whose value does not matter: n of them, then the next state.
Skip(n, next) ==
  LET k == AtMost(n - inf_held, avail_in) IN
  /\ avail_in > 0
  /\ Take(k)
  /\ IF inf_held + k = n THEN Goto(next) /\ inf_held' = 0
                         ELSE inf_held' = inf_held + k /\ UNCHANGED inf_state

GzipMtime == In("gzip_mtime") /\ Skip(4, "gzip_xfl") /\ Stays
  /\ UNCHANGED <<strm, fault, wrap, length, gzflags, hcrc16, gzhead, dict_len>>

GzipXflOs ==
  /\ \/ In("gzip_xfl") /\ Skip(1, "gzip_os") /\ UNCHANGED length
     \/ In("gzip_os") /\ Skip(1, "gzip_xlen") /\ length' = 0
  /\ Stays /\ UNCHANGED <<strm, fault, wrap, gzflags, hcrc16, gzhead, dict_len>>

GzipXlen ==
  /\ In("gzip_xlen")
  /\ IF "extra" \in gzflags
       THEN /\ Skip(2, "gzip_extra")
            /\ length' = IF inf_state' = "gzip_extra" THEN strm.extra ELSE length
       ELSE /\ Goto("gzip_extra") /\ inf_held' = 0
            /\ UNCHANGED <<nin, avail_in, ckidx, cksum, length>>
  /\ Stays /\ UNCHANGED <<strm, fault, wrap, gzflags, hcrc16, gzhead, dict_len>>

GzipExtra ==
  LET copy == IF "extra" \in gzflags THEN AtMost(length, avail_in) ELSE 0
      left == IF "extra" \in gzflags THEN length - copy ELSE 0
  IN
  /\ In("gzip_extra")
  /\ "extra" \in gzflags /\ length > 0 => avail_in > 0
  /\ TakeBulk(copy)
  /\ length' = left
  /\ IF left > 0 THEN Returns("OK") /\ UNCHANGED inf_state
                 ELSE Goto("gzip_name") /\ Stays
  /\ UNCHANGED <<strm, fault, wrap, inf_held, gzflags, hcrc16, gzhead, dict_len>>

\* Up to the zero at the end of the name.  The comment is read in the same way.
GzipName ==
  LET there == Cardinality({p \in nin + 1..HeaderLen(strm) : Layout(strm)[p] = "name"})
      copy == IF "name" \in gzflags THEN AtMost(there, avail_in) ELSE 0
  IN
  /\ In("gzip_name")
  /\ "name" \in gzflags => avail_in > 0
  /\ TakeBulk(copy)
  /\ IF "name" \in gzflags /\ copy < there
       THEN Returns("OK") /\ UNCHANGED <<inf_state, inf_held, length>>
       ELSE Goto("gzip_hcrc") /\ inf_held' = 0 /\ length' = 0 /\ Stays
  /\ UNCHANGED <<strm, fault, wrap, gzflags, hcrc16, gzhead, dict_len>>

\* The checksum is compared with what it was when this call got to the field.
GzipHcrc ==
  LET k == AtMost(2 - inf_held, avail_in)
      same == cksum = HeaderLen(strm) - 2 /\ hcrc16 = 0 /\ strm.bad # "hcrc"
  IN
  /\ In("gzip_hcrc") /\ "hcrc" \in gzflags /\ avail_in > 0
  /\ Take(k)
  /\ IF inf_held + k < 2
       THEN inf_held' = inf_held + k /\ UNCHANGED <<inf_state, hcrc16, gzhead, fault>>
       ELSE /\ hcrc16' = AtMost(hcrc16 + 1, 2)
            /\ gzhead' = IF gzhead = NULL THEN NULL ELSE "done"
            /\ inf_held' = IF same THEN 0 ELSE 2
            /\ Goto(IF same THEN "inflate" ELSE "data_error")
            /\ fault' = IF gzhead = NULL THEN "null pointer" ELSE fault
  /\ pc' = (IF fault' = "null pointer" THEN "dead" ELSE pc) /\ UNCHANGED rc
  /\ UNCHANGED <<strm, wrap, length, gzflags, dict_len>>

GzipNoHcrc ==
  /\ In("gzip_hcrc") /\ "hcrc" \notin gzflags
  /\ gzhead' = IF gzhead = NULL THEN NULL ELSE "done"
  /\ inf_held' = 0
  /\ Goto("inflate")
  /\ Stays
  /\ UNCHANGED <<strm, nin, avail_in, fault, wrap, length, gzflags, ckidx, cksum, hcrc16, dict_len>>

ZlibFlg ==
  /\ In("zlib_flg") /\ avail_in > 0
  /\ Take(1)
  /\ IF ~Is("zflg") THEN Goto("data_error") /\ UNCHANGED <<inf_held, dict_len>>
     ELSE /\ inf_held' = 0
          /\ IF strm.fdict THEN Goto("zlib_dictid") /\ dict_len' = FALSE
                           ELSE Goto("inflate") /\ UNCHANGED dict_len
  /\ Stays /\ UNCHANGED <<strm, fault, wrap, length, gzflags, hcrc16, gzhead>>

ZlibDictId ==
  /\ In("zlib_dictid") /\ Skip(4, "zlib_dict")
  /\ dict_len' = (dict_len /\ inf_state' # "zlib_dict")
  /\ Stays /\ UNCHANGED <<strm, fault, wrap, length, gzflags, hcrc16, gzhead>>

ZlibDict ==
  /\ In("zlib_dict")
  /\ IF dict_len THEN Goto("inflate") /\ Stays
                 ELSE pc' = "app" /\ rc' = "NEED_DICT" /\ UNCHANGED inf_state
  /\ UNCHANGED <<strm, nin, avail_in, fault, wrap, inf_held, length, gzflags, ckidx, cksum,
                 hcrc16, gzhead, dict_len>>

DataError ==
  /\ In("data_error")
  /\ Returns("DATA_ERROR")
  /\ UNCHANGED <<strm, nin, avail_in, fault, hvars>>

\* inf_state_inflate: on to nx_inflate_.
GoInflate ==
  /\ In("inflate")
  /\ pc' = "inflate_" /\ UNCHANGED rc
  /\ UNCHANGED <<strm, nin, avail_in, fault, hvars>>

HeaderStep ==
  \/ NeedInput \/ Detect \/ Dispatch \/ TestByte
  \/ GzipFlg \/ GzipMtime \/ GzipXflOs \/ GzipXlen \/ GzipExtra \/ GzipName
  \/ GzipHcrc \/ GzipNoHcrc
  \/ ZlibFlg \/ ZlibDictId \/ ZlibDict
  \/ DataError \/ GoInflate

-----------------------------------------------------------------------------
\* nx_inflateGetHeader: only once the stream is known to be gzip.
GetHeader ==
  /\ pc = "app" /\ nin = 0
  /\ gzhead = NULL /\ wrap = {"gzip"}
  /\ gzhead' = "reading"
  /\ UNCHANGED <<strm, pc, rc, nin, avail_in, fault, wrap, inf_state, inf_held, length,
                 gzflags, ckidx, cksum, hcrc16, dict_len>>

\* nx_inflateSetDictionary: refused before the wrapper is known, for gzip, and
\* for zlib unless it was asked for and is the one asked for.  The application
\* calls it then, or before any data.
TakesDictionary(right) ==
  \/ wrap = {}
  \/ (wrap = {"zlib"} /\ inf_state = "zlib_dict" /\ right)

SetDictionary(right) ==
  /\ pc = "app"
  /\ rc = "NEED_DICT" \/ (rc = "OK" /\ nin = 0)
  /\ dict_len' = (dict_len \/ TakesDictionary(right))
  /\ rc' = IF TakesDictionary(right) THEN "OK" ELSE rc
  /\ UNCHANGED <<strm, pc, nin, avail_in, fault, wrap, inf_state, inf_held, length, gzflags,
                 ckidx, cksum, hcrc16, gzhead>>

=============================================================================
