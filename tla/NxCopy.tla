------------------------------- MODULE NxCopy -------------------------------
(***************************************************************************)
(* nx_copy, and the checksums of zlib.h: what an application that keeps    *)
(* the sums of its data gets, whichever functions it uses.  nx_copy copies *)
(* with jobs of the accelerator, whose sums begin anew in each job; it     *)
(* combines them with those it was given.  Addresses matter by their       *)
(* remainder only.                                                         *)
(***************************************************************************)
EXTENDS Startup, Checksums

CONSTANTS
  Sources,    \* data: sequences of bytes
  CrcSeeds, AdlerSeeds,  \* sums of the data before it
  Addresses,  \* of the data
  Endians,    \* among "little" and "big"
  MaxJobLen   \* bound on per_job_len: the data is not longer than a few jobs

VARIABLES
  task,       \* what is under way: "none", "copy", or "sums" when it is done
  src, dst,   \* the data, and what of it has been copied
  seed,       \* the sums of the data before
  wanted,     \* the sums asked for
  in_crc, in_adler,   \* of nx_copy
  crc, adler, \* what the application has got, or NULL
  cc          \* what nx_copy has answered

copyVars == <<task, src, dst, seed, wanted, in_crc, in_adler, crc, adler, cc>>

NoSeed == [crc |-> {}, adler |-> [a |-> 1, b |-> 0]]

CopyInit ==
  /\ task = "none" /\ src = <<>> /\ dst = <<>> /\ seed = NoSeed /\ wanted = {}
  /\ in_crc = {} /\ in_adler = NoSeed.adler /\ crc = NULL /\ adler = NULL /\ cc = "ok"

Begin(data, c, a) ==
  /\ pc = "loaded" /\ nx_config.per_job_len <= MaxJobLen
  /\ task = "none"
  /\ src' = data /\ seed' = [crc |-> c, adler |-> a]

\* crc32 of the application goes to crc32_ppc, the gzip layer's to nx_crc32;
\* the data may be given in two pieces, or summed in two and combined.
SumCrc(data, c, a, address, endian, cut) ==
  LET first == SubSeq(data, 1, cut)
      rest == SubSeq(data, cut + 1, Len(data))
      ways == {crc32_ppc(crc32_ppc(c, first, address), rest, address + cut),
               nx_crc32(endian, nx_crc32(endian, c, first, address), rest, address + cut),
               crc32_combine_(nx_crc32(endian, c, first, address),
                              nx_crc32(endian, {}, rest, address), Len(rest))}
  IN /\ Begin(data, c, a)
     /\ task' = "sums" /\ wanted' = {"crc"}
     /\ crc' \in ways
     /\ UNCHANGED <<dst, in_crc, in_adler, adler, cc>>

SumAdler(data, c, a, cut) ==
  LET first == SubSeq(data, 1, cut)
      rest == SubSeq(data, cut + 1, Len(data))
      ways == {nx_adler32(nx_adler32(a, first), rest),
               nx_adler32_combine(nx_adler32(a, first), nx_adler32(NoSeed.adler, rest), Len(rest))}
  IN /\ Begin(data, c, a)
     /\ task' = "sums" /\ wanted' = {"adler"}
     /\ adler' \in ways
     /\ UNCHANGED <<dst, in_crc, in_adler, crc, cc>>

-----------------------------------------------------------------------------
\* A short copy without sums is a memcpy.
SoftCopy(data, c, a) ==
  /\ Len(data) < nx_config.soft_copy_threshold
  /\ Begin(data, c, a)
  /\ task' = "sums" /\ wanted' = {} /\ dst' = data
  /\ UNCHANGED <<in_crc, in_adler, crc, adler, cc>>

StartCopy(data, c, a, sums) ==
  /\ Len(data) >= nx_config.soft_copy_threshold \/ sums # {}
  /\ nx_dev_count > 0
  /\ Begin(data, c, a)
  /\ task' = "copy" /\ wanted' = sums
  /\ in_crc' = c /\ in_adler' = a
  /\ UNCHANGED <<dst, crc, adler, cc>>

\* __nx_copy: a job sums its own bytes only.
JobLen == Lesser(nx_config.per_job_len, Len(src) - Len(dst))
Job == SubSeq(src, Len(dst) + 1, Len(dst) + JobLen)
out_crc == Not(crc32_align(Not({}), Job))
out_adler == Mod(FoldLeft(Add, NoSeed.adler, Job))

\* (mutant) the length of all that remains
CombineRest == Len(src) - Len(dst)
CombineLen == JobLen

CopyJob ==
  /\ task = "copy" /\ Len(dst) < Len(src)
  /\ dst' = dst \o Job
  /\ in_crc' = IF "crc" \in wanted THEN crc32_combine_(in_crc, out_crc, CombineLen) ELSE in_crc
  /\ in_adler' = IF "adler" \in wanted
                 THEN nx_adler32_combine(in_adler, out_adler, CombineLen) ELSE in_adler
  /\ UNCHANGED <<task, src, seed, wanted, crc, adler, cc>>

\* A page fault is not tried again, ticks_total being zero; any error ends the
\* copy, and the caller keeps its sums.
CopyFails ==
  /\ task = "copy" /\ Len(dst) < Len(src)
  /\ task' = "sums" /\ cc' = "error"
  /\ UNCHANGED <<src, dst, seed, wanted, in_crc, in_adler, crc, adler>>

CopyDone ==
  /\ task = "copy" /\ Len(dst) = Len(src)
  /\ task' = "sums"
  /\ crc' = IF "crc" \in wanted THEN in_crc ELSE NULL
  /\ adler' = IF "adler" \in wanted THEN in_adler ELSE NULL
  /\ UNCHANGED <<src, dst, seed, wanted, in_crc, in_adler, cc>>

\* The application has seen the result.
Forget ==
  /\ task = "sums"
  /\ task' = "none" /\ src' = <<>> /\ dst' = <<>> /\ seed' = NoSeed /\ wanted' = {}
  /\ in_crc' = {} /\ in_adler' = NoSeed.adler /\ crc' = NULL /\ adler' = NULL /\ cc' = "ok"

CopyNext ==
  \/ \E data \in Sources, c \in CrcSeeds, a \in AdlerSeeds :
       \/ \E address \in Addresses, endian \in Endians, cut \in 0..Len(data) :
            SumCrc(data, c, a, address, endian, cut)
       \/ \E cut \in 0..Len(data) : SumAdler(data, c, a, cut)
       \/ SoftCopy(data, c, a)
       \/ \E sums \in SUBSET {"crc", "adler"} : StartCopy(data, c, a, sums)
  \/ CopyJob \/ CopyFails \/ CopyDone

-----------------------------------------------------------------------------
\* The definitions: the remainder of a division by the polynomial, bit after
\* bit; the sum of the bytes, and the sum of these sums.
DividedBit(c, bit) ==
  IF (0 \in c) # bit THEN Xor(Poly, ShiftRight(c, 1)) ELSE ShiftRight(c, 1)
DividedByte == [c \in SUBSET Ones, byte \in Bytes |->
                  FoldLeft(DividedBit, c, [k \in 1..8 |-> (k - 1) \in byte])]
Remainder(c, data) == Not(FoldLeft(LAMBDA r, byte : DividedByte[r, byte], Not(c), data))
Summed(s, data) == FoldLeft(LAMBDA t, byte : Mod(Add(t, byte)), s, data)

\* However the data is cut, aligned, summed, combined or copied, the sums that
\* come out continue those that went in; a copy that is done has copied all,
\* and one that failed answers no sum.
SumsRight ==
  task = "sums" =>
    /\ crc # NULL => crc = Remainder(seed.crc, src)
    /\ adler # NULL => adler = Summed(seed.adler, src)
    /\ cc = "ok" => /\ "crc" \in wanted <=> crc # NULL
                    /\ "adler" \in wanted <=> adler # NULL
    /\ cc = "error" => crc = NULL /\ adler = NULL
=============================================================================
