------------------------------- MODULE DdeList -------------------------------
(***************************************************************************)
(* Scatter-gather lists: how nx_append_dde builds one, how the accelerator *)
(* reads it, and which pages nx_touch_pages_dde faults in before a job.    *)
(*                                                                         *)
(* A list is its head (dde_count, ddebc, ddead) and the direct entries     *)
(* behind it; memory is the natural numbers.                               *)
(***************************************************************************)
EXTENDS Integers, Sequences, SequencesExt

Buffer(a, n) == [ddead |-> a, ddebc |-> n]
Bytes(b) == b.ddead..b.ddead + b.ddebc - 1

\* clear_dde
Cleared == [dde_count |-> 0, ddebc |-> 0, ddead |-> 0, entries |-> <<>>]

\* The first buffer is in the head itself; with the second the head is moved
\* behind and becomes the head of a list.
Chained(ddl, b) ==
  LET first == IF ddl.dde_count = 0 THEN <<Buffer(ddl.ddead, ddl.ddebc)>> ELSE ddl.entries
  IN [dde_count |-> Len(first) + 1, ddebc |-> ddl.ddebc + b.ddebc, ddead |-> ddl.ddead,
      entries |-> Append(first, b)]
\* nx_append_dde takes no empty buffers, the one of gunzip_nx.c does.
Appended(ddl, b) ==
  IF ddl.dde_count = 0 /\ ddl.ddebc = 0
    THEN [ddl EXCEPT !.ddebc = b.ddebc, !.ddead = b.ddead]
    ELSE Chained(ddl, b)

Buffers(ddl) == IF ddl.dde_count = 0 THEN <<Buffer(ddl.ddead, ddl.ddebc)>> ELSE ddl.entries

\* The accelerator: byte after byte, ddebc of the head in all.
Addresses(ddl) ==
  LET all == FlattenSeq([k \in 1..Len(Buffers(ddl)) |->
                [j \in 1..Buffers(ddl)[k].ddebc |-> Buffers(ddl)[k].ddead + j - 1]])
  IN SubSeq(all, 1, ddl.ddebc)

\* nx_touch_pages: the first byte, one byte further every page, and the last.
Touches(b, page) ==
  IF b.ddebc = 0 THEN {}
  ELSE {(b.ddead + k * page) \div page : k \in 0..(b.ddebc - 2) \div page}
         \cup {b.ddead \div page, (b.ddead + b.ddebc - 1) \div page}

Sizes(bufs) == [k \in 1..Len(bufs) |-> bufs[k].ddebc]
Total(bufs, k) == FoldLeft(+, 0, SubSeq(Sizes(bufs), 1, k))

\* nx_touch_pages_dde: the buffers that begin before the size-th byte, the last
\* one as far as the size-th byte; all of them for 0.
Want(ddl, size) == IF size = 0 THEN ddl.ddebc ELSE size
TouchedParts(ddl, want, page, part) ==
  LET bufs == Buffers(ddl)
      begun == {k \in 1..Len(bufs) : \A j \in 1..k - 1 : Total(bufs, j) <= want}
      len(k) == IF Total(bufs, k) > want THEN part[k] ELSE bufs[k].ddebc
  IN UNION {Touches(Buffer(bufs[k].ddead, len(k)), page) : k \in begun}

\* (mutant) what is beyond the size is touched
Beyond(len, total, want) == total - want
UpTo(len, total, want) == want - (total - len)
TouchedDde(ddl, size, page) ==
  LET bufs == Buffers(ddl)
      want == Want(ddl, size)
  IN TouchedParts(ddl, want, page,
       [k \in 1..Len(bufs) |-> UpTo(bufs[k].ddebc, Total(bufs, k), want)])

\* The samples have a copy of their own, in which the last buffer is touched as
\* far as the list goes on behind the size.
Behind(len, total, want) == IF total - want < len THEN total - want ELSE len
SampleTouchedDde(ddl, size, page) ==
  LET bufs == Buffers(ddl)
      want == Want(ddl, size)
  IN IF ddl.dde_count = 0
       THEN TouchedDde(ddl, size, page)
       ELSE TouchedParts(ddl, want, page,
              [k \in 1..Len(bufs) |-> Behind(bufs[k].ddebc, Total(bufs, k), want)])
==============================================================================
