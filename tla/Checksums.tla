----------------------------- MODULE Checksums -----------------------------
(***************************************************************************)
(* nx_crc.c, crc32_ppc.c and nx_adler32.c: the two checksums of a piece of *)
(* data, continued from those of the data before it, by every way the code *)
(* takes through a buffer, and how the sums of two pieces are combined.    *)
(*                                                                         *)
(* A word is the set of the bits that are one, 0 being the least           *)
(* significant; a byte is a word below 8.  An Adler-32 sum is its two      *)
(* halves.  __crc32_vpmsum, vector code, is taken to be the byte by byte   *)
(* CRC of whole 16 byte blocks.                                            *)
(***************************************************************************)
EXTENDS Integers, Sequences, SequencesExt, FiniteSetsExt

CONSTANT NMAX   \* bytes of Adler-32 summed between two divisions

ASSUME ChecksumsAssumption == NMAX \in Nat \ {0} /\ NMAX % 16 = 0

Bytes == SUBSET (0..7)
Ones == 0..31

Xor(a, b) == (a \ b) \cup (b \ a)
Not(w) == Ones \ w
ShiftRight(w, n) == {k - n : k \in {j \in w : j >= n}}
ShiftLeft(w, n) == {k + n : k \in {j \in w : j + n <= 31}}
ByteOf(w, k) == {j - 8 * k : j \in {m \in w : m \div 8 = k}}
Swap(w) == {8 * (3 - (k \div 8)) + (k % 8) : k \in w}
WordOf(four) == UNION {ShiftLeft(four[k], 8 * (k - 1)) : k \in 1..4}

-----------------------------------------------------------------------------
\* The polynomial, by the exponents that make_crc_table lists.
Poly == {31 - p : p \in {0, 1, 2, 4, 5, 7, 8, 10, 11, 12, 16, 22, 23, 26}}
OneBit(c) == IF 0 \in c THEN Xor(Poly, ShiftRight(c, 1)) ELSE ShiftRight(c, 1)

\* crc32.h: the CRC of each byte, and of each byte before one, two and three
\* bytes of zeros; then the same with their bytes in reverse.
Table0 == [n \in Bytes |-> FoldLeft(LAMBDA c, k : OneBit(c), n, [k \in 1..8 |-> k])]
ZeroAppended(table) ==
  [n \in Bytes |-> Xor(Table0[ByteOf(table[n], 0)], ShiftRight(table[n], 8))]
Table1 == ZeroAppended(Table0)
Table2 == ZeroAppended(Table1)
Table3 == ZeroAppended(Table2)
Table4 == [n \in Bytes |-> Swap(Table0[n])]
Table5 == [n \in Bytes |-> Swap(Table1[n])]
Table6 == [n \in Bytes |-> Swap(Table2[n])]
Table7 == [n \in Bytes |-> Swap(Table3[n])]

\* Byte by byte, and for a register whose bytes are in reverse.
DO1(c, byte) == Xor(Table0[Xor(ByteOf(c, 0), byte)], ShiftRight(c, 8))
DO1Big(c, byte) == Xor(Table4[Xor(ByteOf(c, 3), byte)], ShiftLeft(c, 8))

DOLIT4(c, four) ==
  LET w == Xor(c, WordOf(four))
  IN Xor(Xor(Table3[ByteOf(w, 0)], Table2[ByteOf(w, 1)]),
         Xor(Table1[ByteOf(w, 2)], Table0[ByteOf(w, 3)]))
\* (mutant) the tables in the order of DOLIT4
DOBIG4Little(c, four) ==
  LET w == Xor(c, Swap(WordOf(four)))
  IN Xor(Xor(Table7[ByteOf(w, 0)], Table6[ByteOf(w, 1)]),
         Xor(Table5[ByteOf(w, 2)], Table4[ByteOf(w, 3)]))
DOBIG4(c, four) ==
  LET w == Xor(c, Swap(WordOf(four)))
  IN Xor(Xor(Table4[ByteOf(w, 0)], Table5[ByteOf(w, 1)]),
         Xor(Table6[ByteOf(w, 2)], Table7[ByteOf(w, 3)]))

Fewer(a, b) == IF a < b THEN a ELSE b

\* The three parts of a buffer at an address: up to an aligned address, the
\* whole blocks, and the rest.
Before(buf, address, block) == SubSeq(buf, 1, Fewer((0 - address) % block, Len(buf)))
Blocks(buf, address, block) ==
  LET rest == SubSeq(buf, Len(Before(buf, address, block)) + 1, Len(buf))
  IN SubSeq(rest, 1, block * (Len(rest) \div block))
After(buf, address, block) ==
  SubSeq(buf, Len(Before(buf, address, block)) + Len(Blocks(buf, address, block)) + 1, Len(buf))
Fours(buf) == [k \in 1..Len(buf) \div 4 |-> SubSeq(buf, 4 * k - 3, 4 * k)]

crc32_little(crc, buf, address) ==
  LET head == FoldLeft(DO1, Not(crc), Before(buf, address, 4))
      body == FoldLeft(DOLIT4, head, Fours(Blocks(buf, address, 4)))
  IN Not(FoldLeft(DO1, body, After(buf, address, 4)))

crc32_big(crc, buf, address) ==
  LET head == FoldLeft(DO1Big, Not(Swap(crc)), Before(buf, address, 4))
      body == FoldLeft(DOBIG4, head, Fours(Blocks(buf, address, 4)))
  IN Swap(Not(FoldLeft(DO1Big, body, After(buf, address, 4))))

generic_crc32(endian, crc, buf, address) ==
  IF endian = "little" THEN crc32_little(crc, buf, address) ELSE crc32_big(crc, buf, address)

\* crc32_ppc.c; short buffers are not split.
crc32_align(crc, buf) == FoldLeft(DO1, crc, buf)
vpmsum(crc, buf) == FoldLeft(DO1, crc, buf)

crc32_ppc(crc, buf, address) ==
  IF Len(buf) < 16 + 15 THEN Not(crc32_align(Not(crc), buf))
  ELSE LET head == crc32_align(Not(crc), Before(buf, address, 16))
           body == vpmsum(head, Blocks(buf, address, 16))
       IN Not(crc32_align(body, After(buf, address, 16)))

nx_crc32(endian, crc, buf, address) ==
  IF Len(buf) < 32 THEN generic_crc32(endian, crc, buf, address) ELSE crc32_ppc(crc, buf, address)

-----------------------------------------------------------------------------
\* gf2_matrix_times, gf2_matrix_square: a matrix over GF(2) is its columns.
gf2_matrix_times(mat, vec) == {b \in Ones : Cardinality({n \in vec : b \in mat[n]}) % 2 = 1}
gf2_matrix_square(mat) == [n \in Ones |-> gf2_matrix_times(mat, mat[n])]

\* What one zero bit does to a CRC, and by squaring two, four and eight bits,
\* and 2, 4, ... bytes: the matrices that odd and even hold in turn.
OneZero == [n \in Ones |-> IF n = 0 THEN Poly ELSE {n - 1}]
TwoZeros == gf2_matrix_square(OneZero)
FourZeros == gf2_matrix_square(TwoZeros)
Zeros1 == gf2_matrix_square(FourZeros)
Zeros2 == gf2_matrix_square(Zeros1)
Zeros4 == gf2_matrix_square(Zeros2)
Zeros8 == gf2_matrix_square(Zeros4)
Zeros16 == gf2_matrix_square(Zeros8)
Zeros32 == gf2_matrix_square(Zeros16)
ZeroBytes == <<Zeros1, Zeros2, Zeros4, Zeros8, Zeros16, Zeros32>>   \* lengths below 64

crc32_combine_(crc1, crc2, len2) ==
  IF len2 <= 0 THEN crc1
  ELSE LET bit(k) == (len2 \div 2^k) % 2 = 1
           step(c, k) == IF bit(k - 1) THEN gf2_matrix_times(ZeroBytes[k], c) ELSE c
       IN Xor(FoldLeft(step, crc1, [k \in 1..Len(ZeroBytes) |-> k]), crc2)

-----------------------------------------------------------------------------
BASE == 65521
Value(byte) == MapThenSumSet(LAMBDA k : 2^k, byte)

Add(s, byte) == [a |-> s.a + Value(byte), b |-> s.b + s.a + Value(byte)]
Mod(s) == [a |-> s.a % BASE, b |-> s.b % BASE]
Less(n) == IF n >= BASE THEN n - BASE ELSE n

\* One byte, or fewer than 16, are too little for more than one subtraction;
\* then NMAX bytes at a time, and what remains.
nx_adler32(adler, buf) ==
  LET all == FoldLeft(Add, adler, buf)
      blocks == Len(buf) \div NMAX
      block(s, k) == Mod(FoldLeft(Add, s, SubSeq(buf, NMAX * (k - 1) + 1, NMAX * k)))
      long == FoldLeft(block, adler, [k \in 1..blocks |-> k])
  IN CASE Len(buf) = 1  -> [a |-> Less(all.a), b |-> Less(adler.b + Less(all.a))]
       [] Len(buf) < 16 /\ Len(buf) # 1 -> [a |-> Less(all.a), b |-> all.b % BASE]
       [] OTHER -> IF NMAX * blocks = Len(buf) THEN long
                   ELSE Mod(FoldLeft(Add, long, SubSeq(buf, NMAX * blocks + 1, Len(buf))))

nx_adler32_combine(adler1, adler2, len2) ==
  LET rem == len2 % BASE
      sum1 == adler1.a + adler2.a + BASE - 1
      sum2 == ((rem * adler1.a) % BASE) + adler1.b + adler2.b + BASE - rem
      twice == IF sum2 >= 2 * BASE THEN sum2 - 2 * BASE ELSE sum2
  IN [a |-> Less(Less(sum1)), b |-> Less(twice)]
=============================================================================
