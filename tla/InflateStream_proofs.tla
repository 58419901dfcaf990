------------------------ MODULE InflateStream_proofs ------------------------
(***************************************************************************)
(* For every stream, every way to cut it into calls and every way the      *)
(* accelerator cuts its jobs: a job resumes at the bit where the one       *)
(* before stopped, with the right history; the application gets the plain  *)
(* data, each byte once; and Z_STREAM_END comes at the end.                *)
(***************************************************************************)
EXTENDS InflateUsers, FiniteSetTheorems, SequenceTheorems, WellFoundedInduction, TLAPS

\* Where item i of a member ends, in bytes of its output.
OutAt(m, i) == IF i = 0 THEN 0 ELSE m.out[i]

\* How long the parts of a gzip header are that may be missing.
ExtraLen(m) == IF "extra" \in m.flags THEN 2 + m.extra ELSE 0
NameLen(m) == IF "name" \in m.flags THEN m.name ELSE 0
HcrcLen(m) == IF "hcrc" \in m.flags THEN 2 ELSE 0

-----------------------------------------------------------------------------
\* The constants.
LEMMA Consts ==
  /\ Bits \in Nat \ {0} /\ Window \in Nat \ {0} /\ QuadWord \in Nat \ {0} /\ LenOut \in Nat \ {0}
  /\ Threshold \in Nat \ {0} /\ MinInput \in Nat \ {0} /\ MaxLoops \in Nat \ {0}
  /\ MaxFaults \in Nat /\ MaxResets \in Nat /\ Extra \in Nat
  /\ Window % QuadWord = 0 /\ LenOut >= 4 * Window
  /\ \A n \in Chunks : n \in Nat
  /\ \A n \in Rooms : n \in Nat
<1>1. {Bits, Window, QuadWord, LenOut, Threshold, MinInput, MaxLoops} \subseteq Nat \ {0}
  BY InflateAssumption, Zenon
<1>2. MaxFaults \in Nat /\ MaxResets \in Nat /\ Extra \in Nat
  BY InflateAssumption, Zenon
<1>3. Chunks \subseteq Nat /\ Rooms \subseteq Nat
  BY InflateAssumption, Zenon
<1>4. Window % QuadWord = 0 /\ LenOut >= 4 * Window
  BY InflateAssumption, Zenon
<1>5. \A n \in Chunks \cup Rooms : n \in Nat
  BY <1>3
<1>6. /\ Bits \in Nat \ {0} /\ Window \in Nat \ {0} /\ QuadWord \in Nat \ {0} /\ LenOut \in Nat \ {0}
      /\ Threshold \in Nat \ {0} /\ MinInput \in Nat \ {0} /\ MaxLoops \in Nat \ {0}
  BY <1>1
<1> QED BY <1>2, <1>4, <1>5, <1>6

LEMMA TrailerFacts ==
  /\ Trailers["raw"] = 0
  /\ \A m \in Members : Trailers[m.fmt] \in Nat
<1>1. Trailers \in [{"raw", "zlib", "gzip"} -> Nat] /\ Trailers["raw"] = 0
  BY InflateAssumption, Zenon
<1>2. \A m \in Members : m.fmt \in {"raw", "zlib", "gzip"}
  BY HeaderAssumption DEF Member
<1> QED BY <1>1, <1>2

LEMMA NullFacts == NULL \notin [0..LenIn - 1 -> Nat] /\ NULL \notin [0..LenOut - 1 -> Nat]
<1>1. NULL \notin [0..2 * Threshold - 1 -> Nat] \cup [0..LenOut - 1 -> Nat]
  BY InflateAssumption, Zenon
<1> QED BY <1>1 DEF LenIn

LEMMA MemberFacts ==
  ASSUME NEW m \in Members
  PROVE  /\ m.fmt \in {"raw", "zlib", "gzip"} /\ m.flags \subseteq {"hcrc", "extra", "name"}
         /\ m.extra \in Nat /\ m.name \in Nat /\ m.refs \in Nat
         /\ m.bit \in Seq(Nat) /\ m.out \in Seq(Nat)
         /\ Len(m.bit) \in Nat \ {0} /\ Len(m.out) = Len(m.bit)
         /\ ExtraLen(m) \in Nat /\ NameLen(m) \in Nat /\ HcrcLen(m) \in Nat
<1>1. m \in Member
  BY HeaderAssumption
<1>2. ItemsOf(m)
  BY InflateAssumption, Zenon
<1>3. Len(m.bit) = Len(m.out) /\ Len(m.bit) > 0
  BY <1>2 DEF ItemsOf
<1>4. m.bit \in Seq(Nat) /\ m.out \in Seq(Nat)
  BY <1>1 DEF Member
<1>5. Len(m.bit) \in Nat
  BY <1>4
<1> QED BY <1>1, <1>3, <1>4, <1>5 DEF Member, ExtraLen, NameLen, HcrcLen

\* Items end one after another, and none that ends in the first byte has output.
LEMMA ItemFacts ==
  ASSUME NEW m \in Members
  PROVE  /\ \A i \in 0..Len(m.bit) : BitAt(m, i) \in Nat /\ OutAt(m, i) \in Nat
         /\ \A i, j \in 0..Len(m.bit) :
              i <= j => BitAt(m, i) <= BitAt(m, j) /\ OutAt(m, i) <= OutAt(m, j)
         /\ \A i \in 0..Len(m.bit) : BitAt(m, i) < Bits => OutAt(m, i) = 0
         /\ BitAt(m, 0) = 0 /\ OutAt(m, 0) = 0
<1>1. /\ \A i, j \in 1..Len(m.bit) : i < j => m.bit[i] < m.bit[j] /\ m.out[i] <= m.out[j]
      /\ \A i \in 1..Len(m.bit) : m.bit[i] < Bits => m.out[i] = 0
  BY InflateAssumption, Zenon DEF ItemsOf
<1>2. \A i \in 1..Len(m.bit) : m.bit[i] \in Nat /\ m.out[i] \in Nat
  BY MemberFacts, ElementOfSeq
<1>3. Len(m.bit) \in Nat
  BY MemberFacts
<1>4. \A i \in 0..Len(m.bit) : BitAt(m, i) \in Nat /\ OutAt(m, i) \in Nat
  BY <1>2, <1>3 DEF BitAt, OutAt
<1>5. ASSUME NEW i \in 0..Len(m.bit), NEW j \in 0..Len(m.bit), i <= j
      PROVE  BitAt(m, i) <= BitAt(m, j) /\ OutAt(m, i) <= OutAt(m, j)
  <2>1. CASE i = 0
    BY <2>1, <1>4 DEF BitAt, OutAt
  <2>2. CASE i # 0 /\ i = j
    BY <2>2, <1>4
  <2>3. CASE i # 0 /\ i < j
    <3>1. i \in 1..Len(m.bit) /\ j \in 1..Len(m.bit) /\ j # 0
      BY <2>3, <1>3
    <3>2. m.bit[i] < m.bit[j] /\ m.out[i] <= m.out[j]
      BY <3>1, <2>3, <1>1
    <3> QED BY <3>1, <3>2, <2>3, <1>2 DEF BitAt, OutAt
  <2> QED BY <1>3, <1>5, <2>1, <2>2, <2>3
<1>6. \A i \in 0..Len(m.bit) : BitAt(m, i) < Bits => OutAt(m, i) = 0
  BY <1>1, <1>3 DEF BitAt, OutAt
<1> QED BY <1>4, <1>5, <1>6 DEF BitAt, OutAt

-----------------------------------------------------------------------------
\* The header's bytes: n of them, the name behind the first a, up to b.
Names == Fields \cup {"mtime", "xfl", "os", "xlen", "extra", "name"}

Spells(s, n, a, b) ==
  /\ s \in Seq(Names) /\ n \in Nat /\ a \in Nat /\ b \in Nat
  /\ Len(s) = n
  /\ \A i \in 1..n : s[i] = "name" <=> a < i /\ i <= b

LEMMA SpellsRepeat ==
  ASSUME NEW f \in Names, NEW n \in Nat, NEW b, b = IF f = "name" THEN n ELSE 0
  PROVE  Spells(Repeat(f, n), n, 0, b)
<1> DEFINE s == Repeat(f, n)
<1>1. s \in Seq(Names) /\ Len(s) = n /\ \A i \in 1..n : s[i] = f
  BY DEF Repeat
<1> HIDE DEF s
<1>2. \A i \in 1..n : s[i] = "name" <=> 0 < i /\ i <= b
  BY <1>1
<1>3. Spells(s, n, 0, b)
  BY <1>1, <1>2 DEF Spells
<1> QED BY <1>3 DEF s

LEMMA SpellsOptional ==
  ASSUME NEW c \in BOOLEAN, NEW s, NEW n \in Nat, NEW b \in Nat, Spells(s, n, 0, b),
         NEW l, NEW d, l = IF c THEN n ELSE 0, d = IF c THEN b ELSE 0
  PROVE  Spells(Optional(c, s), l, 0, d)
<1>1. CASE c
  BY <1>1 DEF Optional
<1>2. CASE ~c
  <2>1. <<>> \in Seq(Names) /\ Len(<<>>) = 0
    BY EmptySeq
  <2>2. Spells(<<>>, 0, 0, 0)
    BY <2>1 DEF Spells
  <2> QED BY <1>2, <2>2 DEF Optional
<1> QED BY <1>1, <1>2

\* A sequence s, and behind it one without the name, or with it if s has none.
LEMMA SpellsJoined ==
  ASSUME NEW s, NEW t, NEW n \in Nat, NEW k \in Nat, NEW a \in Nat, NEW b \in Nat, NEW l, l = n + k,
         n > 0, b <= n, Spells(s, n, a, b), Spells(t, k, 0, 0)
  PROVE  Spells(s \o t, l, a, b)
<1>1. s \in Seq(Names) /\ t \in Seq(Names) /\ Len(s) = n /\ Len(t) = k
  BY DEF Spells
<1>2. /\ s \o t \in Seq(Names) /\ Len(s \o t) = Len(s) + Len(t)
      /\ \A i \in 1..Len(s) + Len(t) :
           (s \o t)[i] = IF i <= Len(s) THEN s[i] ELSE t[i - Len(s)]
  BY <1>1, ConcatProperties
<1> DEFINE r == s \o t
<1> HIDE DEF r
<1>3. /\ r \in Seq(Names) /\ Len(r) = n + k
      /\ \A i \in 1..n + k : r[i] = IF i <= n THEN s[i] ELSE t[i - n]
  BY <1>1, <1>2 DEF r
<1> QED BY <1>3 DEF Spells, r

LEMMA FirstOfJoined ==
  ASSUME NEW s, NEW t, NEW n \in Nat, NEW k, NEW a, NEW b, NEW c, NEW d,
         n > 0, Spells(s, n, a, b), Spells(t, k, c, d)
  PROVE  (s \o t)[1] = s[1]
<1>1. s \in Seq(Names) /\ t \in Seq(Names) /\ Len(s) = n /\ Len(t) \in Nat
  BY DEF Spells
<1>2. \A i \in 1..Len(s) + Len(t) :
        (s \o t)[i] = IF i <= Len(s) THEN s[i] ELSE t[i - Len(s)]
  BY <1>1, ConcatProperties
<1>3. 1 \in 1..Len(s) + Len(t) /\ 1 <= Len(s)
  BY <1>1
<1> QED BY <1>2, <1>3

LEMMA SpellsNamed ==
  ASSUME NEW s, NEW t, NEW n \in Nat, NEW k \in Nat, NEW l, l = n + k,
         n > 0, Spells(s, n, 0, 0), Spells(t, k, 0, k)
  PROVE  Spells(s \o t, l, n, l)
<1>1. s \in Seq(Names) /\ t \in Seq(Names) /\ Len(s) = n /\ Len(t) = k
  BY DEF Spells
<1>2. /\ s \o t \in Seq(Names) /\ Len(s \o t) = Len(s) + Len(t)
      /\ \A i \in 1..Len(s) + Len(t) :
           (s \o t)[i] = IF i <= Len(s) THEN s[i] ELSE t[i - Len(s)]
  BY <1>1, ConcatProperties
<1> DEFINE r == s \o t
<1> HIDE DEF r
<1>3. /\ r \in Seq(Names) /\ Len(r) = n + k
      /\ \A i \in 1..n + k : r[i] = IF i <= n THEN s[i] ELSE t[i - n]
  BY <1>1, <1>2 DEF r
<1> QED BY <1>3 DEF Spells, r

LEMMA GzipLayout ==
  ASSUME NEW m \in Members, m.fmt = "gzip"
  PROVE  /\ HeaderLen(m) = 10 + ExtraLen(m) + NameLen(m) + HcrcLen(m)
         /\ Layout(m)[1] = "id1"
         /\ \A p \in 1..HeaderLen(m) :
              Layout(m)[p] = "name" <=> p \in 11 + ExtraLen(m)..10 + ExtraLen(m) + NameLen(m)
<1> DEFINE
      fixed == <<"id1", "id2", "cm", "flg">>
      mtime == Repeat("mtime", 4)
      last == <<"xfl", "os">>
      xlen == <<"xlen", "xlen">>
      bytes == Repeat("extra", m.extra)
      extra == Optional("extra" \in m.flags, xlen \o bytes)
      letters == Repeat("name", m.name)
      name == Optional("name" \in m.flags, letters)
      sum == <<"hcrc", "hcrc">>
      hcrc == Optional("hcrc" \in m.flags, sum)
      e == ExtraLen(m)
      n == NameLen(m)
      h == HcrcLen(m)
<1>1. e \in Nat /\ n \in Nat /\ h \in Nat /\ m.extra \in Nat /\ m.name \in Nat
  BY MemberFacts
<1>2. {"mtime", "extra", "name"} \subseteq Names
  BY DEF Names
<1>3. Spells(fixed, 4, 0, 0) /\ fixed[1] = "id1"
  BY DEF Spells, Names, Fields
<1>4. Spells(last, 2, 0, 0) /\ Spells(xlen, 2, 0, 0) /\ Spells(sum, 2, 0, 0)
  BY DEF Spells, Names, Fields
<1>5. Spells(mtime, 4, 0, 0) /\ Spells(bytes, m.extra, 0, 0) /\ Spells(letters, m.name, 0, m.name)
  BY <1>1, <1>2, SpellsRepeat
<1>6. Layout(m) = (((((fixed \o mtime) \o last) \o extra) \o name) \o hcrc)
  BY DEF Layout
<1> HIDE DEF fixed, mtime, last, xlen, bytes, letters, sum
<1>7. Spells(extra, e, 0, 0)
  <2> DEFINE s == xlen \o bytes
             c == "extra" \in m.flags
  <2>1. Spells(s, 2 + m.extra, 0, 0)
    BY <1>1, <1>4, <1>5, SpellsJoined, FirstOfJoined
  <2> HIDE DEF s
  <2>2. c \in BOOLEAN /\ 2 + m.extra \in Nat /\ e = (IF c THEN 2 + m.extra ELSE 0) /\ 0 = (IF c THEN 0 ELSE 0)
    BY <1>1 DEF ExtraLen
  <2> HIDE DEF c, e
  <2>3. Spells(Optional(c, s), e, 0, 0)
    BY <2>1, <2>2, SpellsOptional
  <2> QED BY <2>3 DEF s, c
<1>8. Spells(name, n, 0, n)
  <2> DEFINE c == "name" \in m.flags
  <2>1. c \in BOOLEAN /\ n = (IF c THEN m.name ELSE 0)
    BY DEF NameLen
  <2> HIDE DEF c, n
  <2>2. Spells(Optional(c, letters), n, 0, n)
    BY <1>1, <1>5, <2>1, SpellsOptional
  <2> QED BY <2>2 DEF c
<1>9. Spells(hcrc, h, 0, 0)
  <2> DEFINE c == "hcrc" \in m.flags
  <2>1. c \in BOOLEAN /\ h = (IF c THEN 2 ELSE 0) /\ 0 = (IF c THEN 0 ELSE 0)
    BY DEF HcrcLen
  <2> HIDE DEF c, h
  <2>2. Spells(Optional(c, sum), h, 0, 0)
    BY <1>1, <1>4, <2>1, SpellsOptional
  <2> QED BY <2>2 DEF c
<1> HIDE DEF extra, name, hcrc, e, n, h
<1>10. Spells(fixed \o mtime, 8, 0, 0) /\ (fixed \o mtime)[1] = "id1"
  <2>1. Spells(fixed \o mtime, 8, 0, 0)
    BY <1>3, <1>5, SpellsJoined
  <2>2. (fixed \o mtime)[1] = fixed[1]
    BY <1>3, <1>5, 4 \in Nat, 4 > 0, FirstOfJoined, Zenon
  <2> QED BY <2>1, <2>2, <1>3, <1>5
<1> DEFINE f1 == fixed \o mtime
<1> HIDE DEF f1
<1>11. Spells(f1 \o last, 10, 0, 0) /\ (f1 \o last)[1] = "id1"
  <2>1. Spells(f1 \o last, 10, 0, 0)
    BY <1>4, <1>10, SpellsJoined DEF f1
  <2>2. (f1 \o last)[1] = f1[1]
    BY <1>4, <1>10, 8 \in Nat, 8 > 0, FirstOfJoined, Zenon DEF f1
  <2> QED BY <2>1, <2>2, <1>4, <1>10 DEF f1
<1> DEFINE f2 == f1 \o last
<1> HIDE DEF f2
<1>12. Spells(f2 \o extra, 10 + e, 0, 0) /\ (f2 \o extra)[1] = "id1"
  <2>1. Spells(f2 \o extra, 10 + e, 0, 0)
    BY <1>1, <1>7, <1>11, SpellsJoined DEF f2
  <2>2. (f2 \o extra)[1] = f2[1]
    BY <1>7, <1>11, 10 \in Nat, 10 > 0, FirstOfJoined, Zenon DEF f2
  <2> QED BY <2>1, <2>2, <1>1, <1>7, <1>11 DEF f2
<1> DEFINE f3 == f2 \o extra
<1> HIDE DEF f3
<1>13. Spells(f3 \o name, 10 + e + n, 10 + e, 10 + e + n) /\ (f3 \o name)[1] = "id1"
  <2>1. Spells(f3, 10 + e, 0, 0) /\ f3[1] = "id1" /\ 10 + e > 0 /\ 10 + e \in Nat
    BY <1>1, <1>12 DEF f3
  <2> QED BY <1>1, <1>8, <2>1, SpellsNamed, FirstOfJoined
<1> DEFINE f4 == f3 \o name
<1> HIDE DEF f4
<1>14. Spells(f4 \o hcrc, 10 + e + n + h, 10 + e, 10 + e + n) /\ (f4 \o hcrc)[1] = "id1"
  <2>1. /\ Spells(f4, 10 + e + n, 10 + e, 10 + e + n) /\ f4[1] = "id1"
        /\ 10 + e + n > 0 /\ 10 + e + n \in Nat /\ 10 + e \in Nat
    BY <1>1, <1>13 DEF f4
  <2>2. Spells(f4 \o hcrc, 10 + e + n + h, 10 + e, 10 + e + n)
    BY <1>1, <1>9, <2>1, SpellsJoined
  <2>3. (f4 \o hcrc)[1] = f4[1]
    BY <1>9, <2>1, FirstOfJoined
  <2> QED BY <2>1, <2>2, <2>3
<1>15. Layout(m) = f4 \o hcrc
  BY <1>6 DEF f1, f2, f3, f4
<1>16. /\ HeaderLen(m) = 10 + e + n + h
       /\ \A p \in 1..10 + e + n + h : Layout(m)[p] = "name" <=> 10 + e < p /\ p <= 10 + e + n
       /\ Layout(m)[1] = "id1"
  BY <1>14, <1>15 DEF Spells, HeaderLen
<1> QED BY <1>1, <1>16 DEF e, n, h

LEMMA ZlibLayout ==
  ASSUME NEW m \in Members, m.fmt = "zlib"
  PROVE  /\ HeaderLen(m) = IF m.fdict THEN 6 ELSE 2
         /\ Layout(m)[1] = "cmf"
<1> DEFINE start == <<"cmf", "zflg">>
           id == Repeat("dictid", 4)
           opt == Optional(m.fdict, id)
<1>1. Spells(start, 2, 0, 0) /\ start[1] = "cmf"
  BY DEF Spells, Names, Fields
<1>2. "dictid" \in Names /\ m.fdict \in BOOLEAN
  BY HeaderAssumption DEF Names, Fields, Member
<1>3. Spells(id, 4, 0, 0)
  BY <1>2, SpellsRepeat
<1>4. Layout(m) = start \o opt
  BY DEF Layout
<1> HIDE DEF start, id
<1> DEFINE d == IF m.fdict THEN 4 ELSE 0
           l == IF m.fdict THEN 6 ELSE 2
<1>5. d \in Nat /\ l = 2 + d /\ 0 = (IF m.fdict THEN 0 ELSE 0)
  BY <1>2
<1>6. Spells(opt, d, 0, 0)
  BY <1>2, <1>3, <1>5, SpellsOptional
<1> HIDE DEF opt, d, l
<1>7. Spells(start \o opt, l, 0, 0) /\ (start \o opt)[1] = "cmf"
  <2>1. Spells(start \o opt, l, 0, 0)
    BY <1>1, <1>5, <1>6, SpellsJoined
  <2>2. (start \o opt)[1] = start[1]
    BY <1>1, <1>6, 2 \in Nat, 2 > 0, FirstOfJoined, Zenon
  <2> QED BY <2>1, <2>2, <1>1, <1>5, <1>6
<1>8. HeaderLen(m) = l
  BY <1>4, <1>7 DEF Spells, HeaderLen
<1> QED BY <1>4, <1>7, <1>8 DEF l

LEMMA RawLayout ==
  ASSUME NEW m \in Members, m.fmt = "raw"
  PROVE  HeaderLen(m) = 0
BY DEF HeaderLen, Layout

LEMMA HeaderNat == ASSUME NEW m \in Members PROVE HeaderLen(m) \in Nat
<1>1. CASE m.fmt = "gzip"
  BY <1>1, GzipLayout, MemberFacts
<1>2. CASE m.fmt = "zlib"
  BY <1>2, ZlibLayout
<1>3. CASE m.fmt = "raw"
  BY <1>3, RawLayout
<1> QED BY <1>1, <1>2, <1>3, MemberFacts

-----------------------------------------------------------------------------
\* Whole bytes and the bits of the last one.
LEMMA Times ==
  ASSUME NEW b \in Nat, NEW x \in Int, NEW y \in Int
  PROVE  /\ b * x \in Int /\ b * (x + y) = b * x + b * y /\ b * (x - y) = b * x - b * y
         /\ x <= y => b * x <= b * y
         /\ b > 0 /\ x < y => b * x + b <= b * y
<1>1. b * x \in Int /\ b * (x + y) = b * x + b * y /\ b * (x - y) = b * x - b * y
  OBVIOUS
<1>2. ASSUME NEW z \in Nat PROVE b * z >= 0
  OBVIOUS
<1>3. ASSUME x <= y PROVE b * x <= b * y
  <2>1. y - x \in Nat /\ b * (y - x) = b * y - b * x
    BY <1>3
  <2>2. b * (y - x) >= 0
    BY <1>2, <2>1
  <2> QED BY <2>1, <2>2
<1>4. ASSUME b > 0, x < y PROVE b * x + b <= b * y
  <2>1. y - x - 1 \in Nat /\ b * (y - x - 1) = b * y - b * x - b
    BY <1>4
  <2>2. b * (y - x - 1) >= 0
    BY <1>2, <2>1
  <2> QED BY <2>1, <2>2
<1> QED BY <1>1, <1>3, <1>4

LEMMA Division ==
  ASSUME NEW b \in Nat \ {0}, NEW x \in Nat
  PROVE  /\ x \div b \in Nat /\ x % b \in Nat /\ x % b < b
         /\ x = b * (x \div b) + (x % b)
<1>1. b \in Int /\ b > 0 /\ x \in Int /\ x >= 0
  OBVIOUS
<1>2. x % b \in Int /\ 0 <= x % b /\ x % b < b
  BY <1>1
<1>3. x \div b \in Int /\ x \div b >= 0
  BY <1>1
<1>4. x = b * (x \div b) + (x % b)
  BY <1>1, SMTT(60)
<1> QED BY <1>2, <1>3, <1>4

LEMMA Quotient ==
  ASSUME NEW b \in Nat \ {0}, NEW x \in Nat, NEW q \in Int, b * q <= x, x < b * q + b
  PROVE  x \div b = q
<1> DEFINE d == x \div b
           r == x % b
<1>1. d \in Nat /\ r \in Nat /\ r < b /\ x = b * d + r
  BY Division
<1> HIDE DEF d, r
<1>2. ~(q < d)
  <2> SUFFICES ASSUME q < d PROVE FALSE
    OBVIOUS
  <2>1. b * q + b <= b * d
    BY <1>1, Times
  <2> QED BY <1>1, <2>1, Times
<1>3. ~(d < q)
  <2> SUFFICES ASSUME d < q PROVE FALSE
    OBVIOUS
  <2>1. b * d + b <= b * q
    BY <1>1, Times
  <2> QED BY <1>1, <2>1, Times
<1>4. d = q
  BY <1>1, <1>2, <1>3
<1> QED BY <1>4 DEF d

LEMMA UpDivIs ==
  ASSUME NEW b \in Nat \ {0}, NEW x \in Nat
  PROVE  /\ UpDiv(x, b) = IF x % b = 0 THEN x \div b ELSE x \div b + 1
         /\ UpDiv(x, b) \in Nat
<1> DEFINE d == x \div b
           r == x % b
<1>1. d \in Nat /\ r \in Nat /\ r < b /\ x = b * d + r
  BY Division
<1> HIDE DEF d, r
<1>2. b * d \in Int /\ b * (d + 1) = b * d + b
  BY <1>1, Times
<1>3. CASE r = 0
  <2>1. (x + b - 1) \div b = d
    BY <1>1, <1>2, <1>3, Quotient
  <2> QED BY <1>1, <1>3, <2>1 DEF UpDiv, d, r
<1>4. CASE r # 0
  <2>1. (x + b - 1) \div b = d + 1
    BY <1>1, <1>2, <1>4, Quotient
  <2> QED BY <1>1, <1>4, <2>1 DEF UpDiv, d, r
<1> QED BY <1>3, <1>4

LEMMA FileNat ==
  ASSUME NEW m \in Members
  PROVE  /\ BodyEnd(m) = HeaderLen(m) + UpDiv(BitAt(m, Len(m.bit)), Bits)
         /\ BodyEnd(m) \in Nat /\ StreamLen(m) \in Nat /\ FileLen(m) \in Nat
<1>1. Len(m.bit) \in Nat \ {0} /\ BitAt(m, Len(m.bit)) \in Nat
  BY MemberFacts, ItemFacts
<1>2. BodyEnd(m) = HeaderLen(m) + UpDiv(BitAt(m, Len(m.bit)), Bits)
  BY <1>1 DEF BodyEnd, BitAt
<1>3. UpDiv(BitAt(m, Len(m.bit)), Bits) \in Nat
  BY <1>1, Consts, UpDivIs
<1>4. HeaderLen(m) \in Nat /\ Trailers[m.fmt] \in Nat /\ Extra \in Nat
  BY HeaderNat, TrailerFacts, Consts
<1> QED BY <1>2, <1>3, <1>4 DEF StreamLen, FileLen

\* A job was fed up to byte end, and its last item ends at bit: what it did not
\* use, in bits, and where the next job begins, or the trailer.
LeavesOver(b, end, bit, u) ==
  /\ bit = b * (end - UpDiv(u, b)) + (IF u % b # 0 THEN b - (u % b) ELSE 0)
  /\ UpDiv(bit, b) = end - u \div b
  /\ UpDiv(u, b) \in Nat /\ u \div b \in Nat /\ u % b \in Nat /\ u % b < b
  /\ u \div b <= UpDiv(u, b)

LEMMA Leftover ==
  ASSUME NEW b \in Nat \ {0}, NEW end \in Nat, NEW bit \in Nat, NEW u \in Nat, u = b * end - bit
  PROVE  LeavesOver(b, end, bit, u)
<1> DEFINE d == u \div b
           r == u % b
<1>1. d \in Nat /\ r \in Nat /\ r < b /\ u = b * d + r
  BY Division
<1>2. UpDiv(u, b) = (IF r = 0 THEN d ELSE d + 1) /\ UpDiv(u, b) \in Nat
  BY UpDivIs
<1> HIDE DEF d, r
<1>3. /\ b * end \in Int /\ b * d \in Int /\ b * (end - d) = b * end - b * d
      /\ b * (end - (d + 1)) = b * end - (b * d + b) /\ b * (d + 1) = b * d + b
  BY <1>1, Times
<1>4. bit = b * (end - UpDiv(u, b)) + (IF r # 0 THEN b - r ELSE 0)
  <2>1. CASE r = 0
    <3>1. UpDiv(u, b) = d /\ bit = b * (end - d)
      BY <1>1, <1>2, <1>3, <2>1
    <3> QED BY <1>1, <1>3, <2>1, <3>1
  <2>2. CASE r # 0
    <3>1. UpDiv(u, b) = d + 1 /\ bit = b * (end - (d + 1)) + (b - r)
      BY <1>1, <1>2, <1>3, <2>2
    <3> QED BY <2>2, <3>1
  <2> QED BY <2>1, <2>2
<1>5. UpDiv(bit, b) = end - d
  <2>1. bit + b - 1 \in Nat /\ end - d \in Int
    BY <1>1
  <2>2. b * (end - d) <= bit + b - 1 /\ bit + b - 1 < b * (end - d) + b
    BY <1>1, <1>3
  <2> QED BY <2>1, <2>2, Quotient DEF UpDiv
<1> QED BY <1>1, <1>2, <1>4, <1>5 DEF d, r, LeavesOver

\* The history, in whole quadwords, is no longer than the window.
LEMMA WholeQuads ==
  ASSUME NEW h \in Nat, h <= Window
  PROVE  QuadWord * UpDiv(h, QuadWord) <= Window
<1> DEFINE q == UpDiv(h, QuadWord)
           w == Window \div QuadWord
<1>1. QuadWord \in Nat \ {0} /\ Window \in Nat /\ Window % QuadWord = 0
  BY Consts
<1>2. w \in Nat /\ Window = QuadWord * w
  BY <1>1, Division
<1>3. q \in Nat /\ QuadWord * q < h + QuadWord
  <2> DEFINE d == h \div QuadWord
             r == h % QuadWord
  <2>1. d \in Nat /\ r \in Nat /\ r < QuadWord /\ h = QuadWord * d + r
    BY <1>1, Division
  <2>2. q = (IF r = 0 THEN d ELSE d + 1) /\ q \in Nat
    BY <1>1, UpDivIs
  <2> HIDE DEF d, r, q
  <2>3. QuadWord * (d + 1) = QuadWord * d + QuadWord /\ QuadWord * d \in Int
    BY <1>1, <2>1, Times
  <2> QED BY <1>1, <2>1, <2>2, <2>3
<1> HIDE DEF q, w
<1>4. ~(w < q)
  <2> SUFFICES ASSUME w < q PROVE FALSE
    OBVIOUS
  <2>1. QuadWord * w + QuadWord <= QuadWord * q
    BY <1>1, <1>2, <1>3, Times
  <2> QED BY <1>1, <1>2, <1>3, <2>1, Times
<1>5. QuadWord * q <= QuadWord * w
  BY <1>1, <1>2, <1>3, <1>4, Times
<1> QED BY <1>2, <1>5 DEF q

-----------------------------------------------------------------------------
\* Every non-empty set of numbers has a least element ...
LEMMA Least ==
  ASSUME NEW S, S \subseteq Nat, S # {}
  PROVE  \E m \in S : \A x \in S : m <= x
<1> DEFINE R == OpToRel(<, Nat)
<1>1. IsWellFoundedOn(R, Nat)
  BY NatLessThanWellFounded
<1>2. \A x, y \in Nat : x < y => <<x, y>> \in R
  BY DEF OpToRel
<1> HIDE DEF R
<1>3. PICK x \in S : \A y \in S : ~ (<<y, x>> \in R)
  BY <1>1, WFMin
<1>4. ASSUME NEW y \in S PROVE x <= y
  <2>1. x \in Nat /\ y \in Nat
    OBVIOUS
  <2>2. ~(y < x)
    BY <1>2, <1>3, <2>1
  <2> QED BY <2>1, <2>2
<1> QED BY <1>4

\* ... so among the items that end before a bit there is a last one.
LEMMA LastItem ==
  ASSUME NEW m \in Members, NEW i \in 0..Len(m.bit), NEW fed \in Int, BitAt(m, i) <= fed
  PROVE  \E j \in i..Len(m.bit) :
           /\ BitAt(m, j) <= fed
           /\ j < Len(m.bit) => BitAt(m, j + 1) > fed
<1> DEFINE n == Len(m.bit)
           S == {d \in 0..n - i : BitAt(m, n - d) <= fed}
<1>1. n \in Nat /\ \A k \in 0..n : BitAt(m, k) \in Nat
  BY MemberFacts, ItemFacts
<1> HIDE DEF n
<1>2. i \in 0..n
  BY DEF n
<1>3. n - i \in S
  BY <1>1, <1>2
<1>4. S \subseteq Nat
  BY <1>1, <1>2
<1>5. PICK d \in S : \A x \in S : d <= x
  BY <1>3, <1>4, Least
<1>6. d \in 0..n - i /\ BitAt(m, n - d) <= fed
  BY <1>5
<1>7. ASSUME n - d < n PROVE BitAt(m, n - d + 1) > fed
  <2>1. d - 1 \in 0..n - i /\ n - (d - 1) = n - d + 1 /\ n - d + 1 \in 0..n
    BY <1>1, <1>2, <1>6, <1>7
  <2>2. d - 1 \notin S
    BY <1>1, <1>2, <1>5, <1>6
  <2>3. ~(BitAt(m, n - d + 1) <= fed)
    BY <2>1, <2>2
  <2> QED BY <1>1, <2>1, <2>3
<1>8. n - d \in i..n
  BY <1>1, <1>2, <1>6
<1> QED BY <1>6, <1>7, <1>8 DEF n

-----------------------------------------------------------------------------
\* The inductive invariant.

\* Bytes the stream is done with.
Place == nin - used_in

\* The place of the output next to come in is cur behind the bytes given: the
\* last Window bytes of all there are, and what was not given yet.
Holds(f, cur, given, all) ==
  \A p \in 1..all : p > all - Window \/ p > given => f[cur - given + p - 1] = p

\* The bytes that follow place, used of them from cur on.
Cached(f, cur, used, place) == \A k \in 0..used - 1 : f[cur + k] = place + k + 1

HeaderTypes ==
  /\ strm \in Members /\ wrap \subseteq {"zlib", "gzip"}
  /\ nin \in Nat /\ avail_in \in Nat /\ nin + avail_in <= FileLen(strm)
  /\ inf_held \in Nat /\ length \in Nat /\ ckidx \in Nat /\ cksum \in Nat /\ hcrc16 \in Nat
  /\ inf_state \in {"header", "gzip_id1", "gzip_id2", "gzip_cm", "gzip_flg", "gzip_mtime", "gzip_xfl",
                    "gzip_os", "gzip_xlen", "gzip_extra", "gzip_name", "gzip_hcrc", "zlib_id1",
                    "zlib_flg", "zlib_dictid", "zlib_dict", "inflate", "data_error"}
  /\ gzflags \subseteq {"hcrc", "extra", "name"}
  /\ gzhead \in {NULL, "reading", "done", "not gzip"}
  /\ fault \in {"none", "garbled", "loops", "null pointer"}

CallTypes ==
  /\ pc \in {"app", "header", "return", "inflate_", "loop", "feed", "cache", "submit",
             "copy trailer", "verify", "dead"}
  /\ rc \in {"OK", "BUF_ERROR", "NEED_DICT", "STREAM_END", "DATA_ERROR", "STREAM_ERROR", "MEM_ERROR"}
  /\ avail_out \in Nat /\ in0 \in Nat /\ out0 \in Nat /\ flush \in {"no", "sync", "finish"}
  /\ src \in Nat /\ tgt \in Nat /\ tgt_exp \in Nat /\ resets \in Nat
  /\ loop_cnt \in Nat /\ loop_cnt < MaxLoops /\ faults \in Nat /\ faults <= MaxFaults

FifoTypes ==
  /\ fifo_in \in [0..LenIn - 1 -> Nat] \cup {NULL} /\ (used_in > 0 => fifo_in # NULL)
  /\ fifo_out \in [0..LenOut - 1 -> Nat] \cup {NULL}
  /\ used_in \in Nat /\ cur_in \in Nat /\ cur_in + used_in <= LenIn
  /\ used_out \in Nat /\ cur_out \in Nat /\ cur_out + used_out <= LenOut
  /\ cur_out \in Window..LenOut \div 2
  /\ total_out \in Nat /\ user \in Seq(Nat) /\ Len(user) = total_out

EngineTypes ==
  /\ item \in 0..Len(strm.bit) /\ total_out + used_out = OutAt(strm, item)
  /\ history_len \in Nat /\ in_subc \in 0..Bits - 1 /\ crc \in Nat
  /\ comp_ratio \in {"guess", "all"}
  /\ trailer \in Seq(Nat)

Flags == dict_len \in BOOLEAN /\ resuming \in BOOLEAN /\ is_final \in BOOLEAN /\ failed \in BOOLEAN

Types == HeaderTypes /\ CallTypes /\ FifoTypes /\ EngineTypes /\ Flags

\* Where the header is, and what the library knows of it there.
HeaderInv ==
  /\ wrap = {} <=> strm.fmt = "raw"
  /\ inf_state \in {"header", "gzip_id1", "zlib_id1"} => nin = 0
  /\ inf_state \in {"gzip_id1", "zlib_id1"} => wrap # {}
  /\ inf_state \in {"gzip_id2", "gzip_cm", "gzip_flg", "gzip_mtime", "gzip_xfl", "gzip_os",
                    "gzip_xlen", "gzip_extra", "gzip_name", "gzip_hcrc"} => strm.fmt = "gzip"
  /\ inf_state \in {"zlib_flg", "zlib_dictid", "zlib_dict"} => strm.fmt = "zlib"
  /\ inf_state \in {"gzip_id2", "zlib_flg"} => nin = 1
  /\ inf_state = "gzip_cm" => nin = 2
  /\ inf_state = "gzip_flg" => nin = 3
  /\ inf_state \in {"gzip_mtime", "gzip_xfl", "gzip_os", "gzip_xlen", "gzip_extra", "gzip_name",
                    "gzip_hcrc"} => gzflags = strm.flags
  /\ inf_state = "gzip_mtime" => inf_held < 4 /\ nin = 4 + inf_held
  /\ inf_state = "gzip_xfl" => inf_held = 0 /\ nin = 8
  /\ inf_state = "gzip_os" => inf_held = 0 /\ nin = 9
  /\ inf_state = "gzip_xlen" => /\ inf_held < 2 /\ nin = 10 + inf_held /\ length = 0
                                /\ "extra" \notin gzflags => inf_held = 0
  /\ inf_state = "gzip_extra" => /\ length <= strm.extra /\ nin = 10 + ExtraLen(strm) - length
                                 /\ "extra" \notin gzflags => length = 0
  /\ inf_state = "gzip_name" => nin \in 10 + ExtraLen(strm)..10 + ExtraLen(strm) + NameLen(strm)
  /\ inf_state = "gzip_hcrc" => /\ inf_held < 2 /\ nin = 10 + ExtraLen(strm) + NameLen(strm) + inf_held
                                /\ "hcrc" \notin gzflags => inf_held = 0
  /\ inf_state = "zlib_dictid" => strm.fdict /\ inf_held < 4 /\ nin = 2 + inf_held
  /\ inf_state = "zlib_dict" => strm.fdict /\ nin = 6

\* Nothing is decoded before the header was read, nor without a buffer.
FreshInv ==
  /\ inf_state # "inflate" => /\ used_in = 0 /\ item = 0 /\ ~resuming /\ ~is_final
                              /\ pc \in {"app", "header", "return", "dead"}
  /\ fifo_out = NULL => pc = "app" /\ inf_state # "inflate"
  /\ pc = "app" /\ rc = "NEED_DICT" => inf_state = "zlib_dict"
  /\ pc = "return" => rc # "NEED_DICT"

\* The input that waits in fifo_in.
CachedInv == Cached(fifo_in, cur_in, used_in, Place)

\* The output the application has not got, and the history, around cur_out.
\* After the last job the history is of no use.
HistoryInv ==
  /\ history_len = AtMost(OutAt(strm, item), Window)
  /\ ~is_final \/ used_out > 0 => Holds(fifo_out, cur_out, total_out, OutAt(strm, item))

\* The bit where the next job begins: the first of a byte, or the rest of the
\* byte in which the one before stopped.
HalfByte == IF resuming /\ in_subc # 0 THEN Bits - in_subc ELSE 0

FeedInv ==
  inf_state = "inflate" /\ ~is_final =>
    /\ Place >= HeaderLen(strm)
    /\ BitAt(strm, item) = Bits * (Place - HeaderLen(strm)) + HalfByte
    /\ ~resuming => item = 0

\* A dictionary given late finds no half byte: after the first job of a raw
\* stream, which stopped in its first byte, the call goes on to take that byte
\* or fails.
DictInv ==
  /\ dict_len /\ resuming /\ ~is_final => in_subc = 0
  /\ nin = 0 /\ resuming /\ ~is_final /\ in_subc # 0 =>
       \/ pc \in {"loop", "feed", "cache", "submit"} /\ avail_in > 0 /\ avail_out > 0
       \/ pc \in {"return", "app"} /\ rc \in {"DATA_ERROR", "STREAM_ERROR", "MEM_ERROR"}

\* A job under way, and the steps before and after it.
JobInv ==
  /\ pc \in {"feed", "cache", "submit"} => used_out = 0 /\ ~is_final
  /\ pc \in {"copy trailer", "verify"} => is_final
  /\ (pc = "loop" /\ is_final) \/ pc = "copy trailer" => used_out > 0
  /\ pc = "verify" => used_out = 0
  /\ pc = "submit" =>
       /\ src >= 1 /\ src <= used_in + avail_in
       /\ avail_out > 0
       /\ tgt_exp = Wanted /\ tgt = TargetSize(tgt_exp)
       /\ ~resuming \/ dict_len => in_subc = 0

\* After the last job: what of the trailer was taken.
EndInv ==
  /\ ~is_final => trailer = <<>>
  /\ is_final =>
       /\ item = Len(strm.bit)
       /\ Place = BodyEnd(strm) + Len(trailer)
       /\ Len(trailer) <= Trailers[strm.fmt]
       /\ used_in > 0 => Len(trailer) \in {0, Trailers[strm.fmt]}
  /\ pc = "return" /\ rc = "STREAM_END" =>
       \/ /\ is_final /\ used_out = 0 /\ Len(trailer) = Trailers[strm.fmt]
          /\ strm.bad # "trailer" \/ wrap = {}
       \/ avail_in = 0 /\ used_in = 0 /\ avail_out = 0 /\ used_out = 0

IInv ==
  /\ Types /\ HeaderInv /\ FreshInv /\ CachedInv /\ HistoryInv /\ FeedInv /\ DictInv /\ JobInv
  /\ EndInv /\ OutputRight

LEMMA ItemEnds == \A i : BitEnd(i) = BitAt(strm, i) /\ OutEnd(i) = OutAt(strm, i)
  BY DEF BitEnd, OutEnd, BitAt, OutAt

\* What is known of the stream and its items.
LEMMA Streams ==
  ASSUME Types
  PROVE  /\ strm \in Members
         /\ Len(strm.bit) \in Nat \ {0} /\ item \in 0..Len(strm.bit)
         /\ BitAt(strm, item) \in Nat /\ OutAt(strm, item) \in Nat
         /\ HeaderLen(strm) \in Nat /\ Trailers[strm.fmt] \in Nat
<1> USE DEF Types, HeaderTypes, EngineTypes
<1>1. strm \in Members /\ item \in 0..Len(strm.bit)
  OBVIOUS
<1> QED BY <1>1, MemberFacts, ItemFacts, HeaderNat, TrailerFacts

LEMMA LeastNat ==
  ASSUME NEW x \in Nat, NEW y \in Nat
  PROVE  /\ AtMost(x, y) \in Nat /\ AtMost(x, y) <= x /\ AtMost(x, y) <= y
         /\ AtMost(x, y) = x \/ AtMost(x, y) = y
  BY DEF AtMost

LEMMA IInvTypeOK == IInv => TypeOK
<1> SUFFICES ASSUME IInv PROVE TypeOK
  OBVIOUS
<1> USE DEF IInv, Types
<1>1. {nin, avail_in, inf_held, length, ckidx, cksum, hcrc16, avail_out, in0, out0, total_out,
       used_in, cur_in, used_out, cur_out, history_len, crc, src, tgt, tgt_exp, loop_cnt, faults,
       resets} \subseteq Nat
  BY DEF HeaderTypes, CallTypes, FifoTypes, EngineTypes
<1>2. total_out + used_out = OutEnd(item) /\ item \in 0..Items
  BY ItemEnds DEF EngineTypes, Items
<1>3. history_len <= Window
  BY Consts, Streams, LeastNat DEF HistoryInv
<1>4. used_out > 0 => pc # "submit"
  <2>1. pc = "submit" => used_out = 0
    BY Zenon DEF JobInv
  <2> QED BY <2>1
<1> QED
  BY <1>1, <1>2, <1>3, <1>4 DEF TypeOK, HeaderTypes, CallTypes, FifoTypes, EngineTypes, Flags

-----------------------------------------------------------------------------
LEMMA InitInv == Init => IInv
<1> SUFFICES ASSUME Init PROVE IInv
  OBVIOUS
<1>1. strm \in Members /\ wrap \in Wraps /\ (wrap = {} <=> strm.fmt = "raw")
  BY DEF Init
<1>2. /\ pc = "app" /\ rc = "OK" /\ nin = 0 /\ avail_in = 0 /\ fault = "none"
      /\ inf_state = "header" /\ inf_held = 0 /\ length = 0 /\ gzflags = {}
      /\ ckidx = 0 /\ cksum = 0 /\ hcrc16 = 0 /\ gzhead = NULL /\ dict_len = FALSE
      /\ avail_out = 0 /\ flush = "no" /\ in0 = 0 /\ out0 = 0
      /\ total_out = 0 /\ user = <<>>
      /\ fifo_in = NULL /\ used_in = 0 /\ cur_in = 0
      /\ fifo_out = NULL /\ used_out = 0 /\ cur_out = Window
      /\ history_len = 0 /\ resuming = FALSE /\ is_final = FALSE
      /\ in_subc = 0 /\ comp_ratio = "guess" /\ crc = 0 /\ trailer = <<>>
      /\ src = 0 /\ tgt = 0 /\ tgt_exp = 0 /\ loop_cnt = 0 /\ faults = 0
      /\ item = 0 /\ failed = FALSE /\ resets = 0
  BY DEF Init
<1>3. wrap \subseteq {"zlib", "gzip"}
  BY <1>1, HeaderAssumption
<1>4. <<>> \in Seq(Nat) /\ Len(<<>>) = 0
  BY EmptySeq
<1>5. Len(strm.bit) \in Nat \ {0} /\ BitAt(strm, 0) = 0 /\ OutAt(strm, 0) = 0 /\ HeaderLen(strm) \in Nat
  BY <1>1, MemberFacts, ItemFacts, HeaderNat
<1>6. FileLen(strm) \in Nat
  BY <1>1, FileNat
<1>7. Types
  <2>1. HeaderTypes
    BY <1>1, <1>2, <1>3, <1>6 DEF HeaderTypes
  <2>2. CallTypes
    BY <1>2, Consts DEF CallTypes
  <2>3. FifoTypes
    BY <1>2, <1>4, Consts DEF FifoTypes, LenIn
  <2>4. EngineTypes
    BY <1>2, <1>4, <1>5, Consts DEF EngineTypes
  <2>5. Flags
    BY <1>2, Zenon DEF Flags
  <2> QED BY <2>1, <2>2, <2>3, <2>4, <2>5 DEF Types
<1>8. HeaderInv /\ FreshInv
  BY <1>1, <1>2 DEF HeaderInv, FreshInv
<1>9. CachedInv /\ HistoryInv
  BY <1>2, <1>5, Consts DEF CachedInv, Cached, HistoryInv, Holds, AtMost
<1>10. FeedInv /\ DictInv /\ JobInv
  BY <1>2 DEF FeedInv, DictInv, JobInv
<1>11. EndInv /\ OutputRight
  BY <1>2 DEF EndInv, OutputRight
<1> QED BY <1>7, <1>8, <1>9, <1>10, <1>11 DEF IInv

-----------------------------------------------------------------------------
\* What a step keeps that leaves the variables alone.
LEMMA HeaderKept ==
  ASSUME HeaderInv, UNCHANGED <<strm, nin, wrap, inf_state, inf_held, length, gzflags>>
  PROVE  HeaderInv'
  BY DEF HeaderInv

LEMMA HeaderTypesKept ==
  ASSUME HeaderTypes, UNCHANGED <<strm, nin, avail_in, fault, hvars>>
  PROVE  HeaderTypes'
  BY DEF HeaderTypes, hvars

LEMMA EngineKept ==
  ASSUME EngineTypes, UNCHANGED <<strm, total_out, used_out, item, history_len, in_subc, crc,
                                  comp_ratio, trailer>>
  PROVE  EngineTypes'
  BY DEF EngineTypes

LEMMA FifoKept ==
  ASSUME FifoTypes, UNCHANGED <<fifoVars, total_out, user>>
  PROVE  FifoTypes'
  BY DEF FifoTypes, fifoVars

LEMMA OutKept ==
  ASSUME HistoryInv, UNCHANGED <<strm, item, history_len, is_final, used_out, fifo_out, cur_out, total_out>>
  PROVE  HistoryInv'
  BY DEF HistoryInv

LEMMA InKept ==
  ASSUME CachedInv, UNCHANGED <<nin, used_in, cur_in, fifo_in>>
  PROVE  CachedInv'
  BY DEF CachedInv, Place

LEMMA FeedKept ==
  ASSUME FeedInv, UNCHANGED <<strm, inf_state, is_final, nin, used_in, item, resuming, in_subc>>
  PROVE  FeedInv'
  BY DEF FeedInv, Place, HalfByte

LEMMA UserKept ==
  ASSUME OutputRight, UNCHANGED <<user, total_out>>
  PROVE  OutputRight'
  BY DEF OutputRight

LEMMA EndKept ==
  ASSUME EndInv, UNCHANGED <<strm, is_final, trailer, item, nin, used_in>>,
         pc' = "return" /\ rc' = "STREAM_END" => FALSE
  PROVE  EndInv'
  BY DEF EndInv, Place

\* A step that only decides where to go, or counts.
dataVars == <<total_out, user, fifoVars, history_len, resuming, is_final, in_subc, comp_ratio, crc,
              trailer, item>>

LEMMA DataKept ==
  ASSUME IInv, UNCHANGED <<strm, nin, wrap, inf_state, inf_held, length, gzflags, dataVars>>
  PROVE  HeaderInv' /\ FifoTypes' /\ EngineTypes' /\ CachedInv' /\ HistoryInv' /\ FeedInv' /\ OutputRight'
<1>1. UNCHANGED <<strm, nin, wrap, inf_state, inf_held, length, gzflags>> /\ UNCHANGED dataVars
  OBVIOUS
<1>2. /\ UNCHANGED <<total_out, user, fifoVars, history_len, resuming, is_final, in_subc, comp_ratio,
                      crc, trailer, item>>
      /\ UNCHANGED <<fifo_in, used_in, cur_in, fifo_out, used_out, cur_out>>
  BY <1>1 DEF dataVars, fifoVars
<1>3. IInv
  OBVIOUS
<1> QED
  BY <1>1, <1>2, <1>3, HeaderKept, EngineKept, FifoKept, OutKept, InKept, FeedKept, UserKept
     DEF IInv, Types

-----------------------------------------------------------------------------
\* The header.  Nothing else has begun.
LEMMA HeaderGoesOn ==
  ASSUME IInv, pc = "header", inf_state # "inflate", UNCHANGED bodyVars,
         HeaderTypes', HeaderInv', strm' = strm, dict_len' \in BOOLEAN,
         inf_state' = "inflate" => nin' = HeaderLen(strm) /\ pc' \in {"header", "dead"},
         \/ pc' \in {"header", "dead"} /\ rc' = rc
         \/ pc' = "return" /\ rc' \in {"OK", "DATA_ERROR"}
         \/ pc' = "app" /\ rc' = "NEED_DICT" /\ inf_state' = "zlib_dict"
  PROVE  IInv'
<1>1. /\ UNCHANGED <<avail_out, flush, in0, out0, total_out, user, resets>>
      /\ UNCHANGED <<fifo_in, used_in, cur_in, fifo_out, used_out, cur_out>> /\ UNCHANGED fifoVars
      /\ UNCHANGED <<history_len, resuming, is_final, in_subc, comp_ratio, crc, trailer, item, failed>>
      /\ UNCHANGED <<src, tgt, tgt_exp, loop_cnt, faults>>
  BY DEF bodyVars, callVars, fifoVars, engineVars, jobVars
<1>2. used_in = 0 /\ item = 0 /\ ~resuming /\ ~is_final /\ fifo_out # NULL /\ trailer = <<>>
  BY DEF IInv, FreshInv, EndInv
<1>3. Types'
  <2>1. CallTypes'
    BY <1>1 DEF IInv, Types, CallTypes
  <2>2. FifoTypes'
    BY <1>1, FifoKept DEF IInv, Types
  <2>3. EngineTypes'
    BY <1>1, EngineKept DEF IInv, Types
  <2>4. Flags'
    BY <1>1, Zenon DEF IInv, Types, Flags
  <2> QED BY <2>1, <2>2, <2>3, <2>4 DEF Types
<1>4. FreshInv'
  BY <1>1, <1>2 DEF FreshInv
<1>5. CachedInv' /\ HistoryInv'
  <2>1. CachedInv'
    BY <1>1, <1>2 DEF CachedInv, Cached
  <2> QED BY <1>1, <2>1, OutKept DEF IInv
<1>6. FeedInv'
  <2> SUFFICES ASSUME inf_state' = "inflate" PROVE FeedInv'
    BY DEF FeedInv
  <2>1. BitAt(strm, 0) = 0 /\ HeaderLen(strm) \in Nat /\ Bits \in Nat
    BY Streams, ItemFacts, Consts DEF IInv
  <2>2. nin' = HeaderLen(strm) /\ used_in' = 0 /\ item' = 0 /\ ~resuming'
    BY <1>1, <1>2
  <2>3. Bits * (HeaderLen(strm) - HeaderLen(strm)) + 0 = 0
    BY <2>1
  <2> QED BY <2>1, <2>2, <2>3 DEF FeedInv, Place, HalfByte
<1>7. DictInv'
  BY <1>1, <1>2 DEF DictInv
<1>8. JobInv'
  BY <1>1, <1>2 DEF JobInv
<1>9. EndInv'
  BY <1>1, <1>2 DEF EndInv
<1>10. OutputRight'
  BY <1>1, UserKept DEF IInv
<1> QED BY <1>3, <1>4, <1>5, <1>6, <1>7, <1>8, <1>9, <1>10 DEF IInv

LEMMA Takes ==
  ASSUME HeaderTypes, NEW n \in Nat, n <= avail_in, Take(n), strm' = strm
  PROVE  /\ nin' = nin + n /\ avail_in' = avail_in - n /\ nin' \in Nat /\ avail_in' \in Nat
         /\ nin' + avail_in' <= FileLen(strm') /\ cksum' \in Nat /\ ckidx' \in Nat
<1>1. FileLen(strm) \in Nat /\ FileLen(strm') = FileLen(strm)
  BY FileNat DEF HeaderTypes
<1>2. nin \in Nat /\ avail_in \in Nat /\ nin + avail_in <= FileLen(strm) /\ ckidx \in Nat /\ cksum \in Nat
  BY DEF HeaderTypes
<1>3. nin' = nin + n /\ avail_in' = avail_in - n
  BY DEF Take
<1>4. cksum' \in Nat /\ ckidx' \in Nat
  BY <1>2 DEF Take
<1> QED BY <1>1, <1>2, <1>3, <1>4

LEMMA TakesBulk ==
  ASSUME HeaderTypes, NEW n \in Nat, n <= avail_in, TakeBulk(n), strm' = strm
  PROVE  /\ nin' = nin + n /\ avail_in' = avail_in - n /\ nin' \in Nat /\ avail_in' \in Nat
         /\ nin' + avail_in' <= FileLen(strm') /\ cksum' \in Nat /\ ckidx' \in Nat
<1>1. FileLen(strm) \in Nat /\ FileLen(strm') = FileLen(strm)
  BY FileNat DEF HeaderTypes
<1>2. nin \in Nat /\ avail_in \in Nat /\ nin + avail_in <= FileLen(strm) /\ ckidx \in Nat /\ cksum \in Nat
  BY DEF HeaderTypes
<1>3. nin' = nin + n /\ avail_in' = avail_in - n
  BY DEF TakeBulk
<1>4. cksum' \in Nat /\ ckidx' \in Nat
  BY <1>2 DEF TakeBulk
<1> QED BY <1>1, <1>2, <1>3, <1>4

LEMMA FirstByte ==
  ASSUME Types, nin = 0
  PROVE  /\ Is("id1") => strm.fmt = "gzip"
         /\ Is("cmf") => strm.fmt = "zlib"
<1>1. strm \in Members /\ HeaderLen(strm) \in Nat
  BY Streams
<1>2. CASE strm.fmt = "gzip"
  <2>1. Layout(strm)[1] = "id1"
    BY <1>1, <1>2, GzipLayout
  <2> QED BY <2>1, <1>2 DEF Is, Next_in
<1>3. CASE strm.fmt = "zlib"
  <2>1. Layout(strm)[1] = "cmf"
    BY <1>1, <1>3, ZlibLayout
  <2> QED BY <2>1, <1>3 DEF Is, Next_in
<1>4. CASE strm.fmt = "raw"
  <2>1. HeaderLen(strm) = 0
    BY <1>1, <1>4, RawLayout
  <2> QED BY <2>1 DEF Is, Next_in
<1> QED BY <1>1, <1>2, <1>3, <1>4, MemberFacts

\* What the steps of the header need of the invariant.
LEMMA HeaderFacts ==
  ASSUME IInv
  PROVE  /\ strm \in Members /\ wrap \subseteq {"zlib", "gzip"}
         /\ nin \in Nat /\ avail_in \in Nat /\ inf_held \in Nat /\ length \in Nat
         /\ ckidx \in Nat /\ cksum \in Nat /\ hcrc16 \in Nat
         /\ ExtraLen(strm) \in Nat /\ NameLen(strm) \in Nat /\ HeaderLen(strm) \in Nat
         /\ strm.extra \in Nat
         /\ dict_len \in BOOLEAN
<1>1. strm \in Members
  BY DEF IInv, Types, HeaderTypes
<1> QED BY <1>1, MemberFacts, HeaderNat DEF IInv, Types, HeaderTypes, Flags

LEMMA NeedInputInv == ASSUME IInv, NeedInput, UNCHANGED bodyVars PROVE IInv'
<1>1. /\ pc = "header" /\ pc' = "return" /\ rc' = "OK"
      /\ UNCHANGED <<strm, nin, avail_in, fault, hvars>>
  BY DEF NeedInput, Returns
<1>2. inf_state # "inflate"
  BY DEF NeedInput, TakesByte
<1>3. UNCHANGED <<wrap, inf_state, inf_held, length, gzflags, dict_len>>
  BY <1>1 DEF hvars
<1>4. HeaderTypes' /\ HeaderInv'
  BY <1>1, <1>3, HeaderKept, HeaderTypesKept DEF IInv, Types
<1> QED BY <1>1, <1>2, <1>3, <1>4, HeaderFacts, HeaderGoesOn

LEMMA DataErrorInv == ASSUME IInv, DataError, UNCHANGED bodyVars PROVE IInv'
<1>1. /\ pc = "header" /\ inf_state = "data_error" /\ pc' = "return" /\ rc' = "DATA_ERROR"
      /\ UNCHANGED <<strm, nin, avail_in, fault, hvars>>
  BY DEF DataError, Returns, In
<1>3. UNCHANGED <<wrap, inf_state, inf_held, length, gzflags, dict_len>>
  BY <1>1 DEF hvars
<1>4. HeaderTypes' /\ HeaderInv'
  BY <1>1, <1>3, HeaderKept, HeaderTypesKept DEF IInv, Types
<1> QED BY <1>1, <1>3, <1>4, HeaderFacts, HeaderGoesOn

LEMMA DetectInv == ASSUME IInv, Detect, UNCHANGED bodyVars PROVE IInv'
<1>1. /\ pc = "header" /\ inf_state = "header" /\ wrap = {"zlib", "gzip"} /\ avail_in > 0
      /\ Take(1) /\ pc' = pc /\ rc' = rc
      /\ UNCHANGED <<strm, fault, inf_held, length, gzflags, hcrc16, gzhead, dict_len>>
  BY DEF Detect, In, Stays
<1>2. \/ Is("id1") /\ inf_state' = "gzip_id2" /\ wrap' = {"gzip"}
      \/ Is("cmf") /\ inf_state' = "zlib_flg" /\ wrap' = {"zlib"}
      \/ inf_state' = "data_error" /\ wrap' = wrap
  BY DEF Detect, Goto
<1>3. /\ nin' = nin + 1 /\ nin' \in Nat /\ avail_in' \in Nat
      /\ nin' + avail_in' <= FileLen(strm') /\ cksum' \in Nat /\ ckidx' \in Nat
  BY <1>1, HeaderFacts, Takes DEF IInv, Types
<1>4. nin = 0 /\ strm.fmt # "raw"
  BY <1>1 DEF IInv, HeaderInv
<1>5. HeaderTypes'
  BY <1>1, <1>2, <1>3 DEF IInv, Types, HeaderTypes
<1>6. HeaderInv'
  <2>1. \/ strm.fmt = "gzip" /\ inf_state' = "gzip_id2" /\ wrap' = {"gzip"}
        \/ strm.fmt = "zlib" /\ inf_state' = "zlib_flg" /\ wrap' = {"zlib"}
        \/ inf_state' = "data_error" /\ wrap' # {}
    BY <1>1, <1>2, <1>4, FirstByte DEF IInv
  <2> QED BY <1>1, <1>3, <1>4, <2>1 DEF HeaderInv
<1> QED BY <1>1, <1>2, <1>5, <1>6, HeaderFacts, HeaderGoesOn

LEMMA DispatchInv == ASSUME IInv, Dispatch, UNCHANGED bodyVars PROVE IInv'
<1>1. /\ pc = "header" /\ inf_state = "header" /\ wrap # {"zlib", "gzip"}
      /\ pc' = pc /\ rc' = rc
      /\ UNCHANGED <<strm, nin, avail_in, fault, wrap, inf_held, length, gzflags, ckidx, cksum,
                     hcrc16, dict_len>>
  BY DEF Dispatch, In, Stays
<1>2. inf_state' = CASE wrap = {"zlib"} -> "zlib_id1" [] wrap = {"gzip"} -> "gzip_id1"
                     [] OTHER -> "inflate"
  BY DEF Dispatch, Goto
<1>3. wrap = {} \/ wrap = {"zlib"} \/ wrap = {"gzip"}
  BY <1>1, HeaderFacts
<1>4. \/ inf_state' = "zlib_id1" /\ wrap # {}
      \/ inf_state' = "gzip_id1" /\ wrap # {}
      \/ inf_state' = "inflate" /\ wrap = {}
  BY <1>2, <1>3
<1>5. gzhead' \in {gzhead, "reading", "not gzip"}
  BY DEF Dispatch
<1>6. HeaderTypes'
  BY <1>1, <1>4, <1>5 DEF IInv, Types, HeaderTypes
<1>7. HeaderInv'
  BY <1>1, <1>4 DEF IInv, HeaderInv
<1>8. inf_state' = "inflate" => nin' = HeaderLen(strm)
  <2> SUFFICES ASSUME inf_state' = "inflate" PROVE nin' = HeaderLen(strm)
    OBVIOUS
  <2>1. strm.fmt = "raw" /\ nin = 0
    BY <1>1, <1>4 DEF IInv, HeaderInv
  <2> QED BY <1>1, <2>1, RawLayout, HeaderFacts
<1> QED BY <1>1, <1>6, <1>7, <1>8, HeaderFacts, HeaderGoesOn

LEMMA TestByteInv == ASSUME IInv, TestByte, UNCHANGED bodyVars PROVE IInv'
<1>1. /\ pc = "header" /\ inf_state \in DOMAIN Tests /\ avail_in > 0
      /\ Take(1) /\ pc' = pc /\ rc' = rc
      /\ UNCHANGED <<strm, fault, wrap, inf_held, length, gzflags, hcrc16, gzhead, dict_len>>
      /\ inf_state' = IF Is(Tests[inf_state][1]) THEN Tests[inf_state][2] ELSE "data_error"
  BY DEF TestByte, Stays, Goto
<1>2. \/ inf_state = "gzip_id1" /\ Tests[inf_state][1] = "id1" /\ Tests[inf_state][2] = "gzip_id2"
      \/ inf_state = "gzip_id2" /\ Tests[inf_state][2] = "gzip_cm"
      \/ inf_state = "gzip_cm" /\ Tests[inf_state][2] = "gzip_flg"
      \/ inf_state = "zlib_id1" /\ Tests[inf_state][1] = "cmf" /\ Tests[inf_state][2] = "zlib_flg"
  BY <1>1 DEF Tests
<1>3. \/ inf_state = "gzip_id1" /\ inf_state' = "gzip_id2" /\ Is("id1")
      \/ inf_state = "gzip_id2" /\ inf_state' = "gzip_cm"
      \/ inf_state = "gzip_cm" /\ inf_state' = "gzip_flg"
      \/ inf_state = "zlib_id1" /\ inf_state' = "zlib_flg" /\ Is("cmf")
      \/ inf_state \in {"gzip_id1", "zlib_id1", "gzip_id2", "gzip_cm"} /\ inf_state' = "data_error"
  BY <1>1, <1>2, Zenon
<1>4. /\ nin' = nin + 1 /\ nin' \in Nat /\ avail_in' \in Nat
      /\ nin' + avail_in' <= FileLen(strm') /\ cksum' \in Nat /\ ckidx' \in Nat
  BY <1>1, HeaderFacts, Takes DEF IInv, Types
<1>5. inf_state \in {"gzip_id1", "zlib_id1"} => nin = 0
  BY DEF IInv, HeaderInv
<1>6. \/ inf_state = "gzip_id1" /\ inf_state' = "gzip_id2" /\ strm.fmt = "gzip"
      \/ inf_state = "gzip_id2" /\ inf_state' = "gzip_cm"
      \/ inf_state = "gzip_cm" /\ inf_state' = "gzip_flg"
      \/ inf_state = "zlib_id1" /\ inf_state' = "zlib_flg" /\ strm.fmt = "zlib"
      \/ inf_state \in {"gzip_id1", "zlib_id1", "gzip_id2", "gzip_cm"} /\ inf_state' = "data_error"
  BY <1>3, <1>5, FirstByte DEF IInv
<1>7. HeaderTypes'
  BY <1>1, <1>4, <1>6 DEF IInv, Types, HeaderTypes
<1>8. HeaderInv'
  BY <1>1, <1>4, <1>6 DEF IInv, HeaderInv
<1> QED BY <1>1, <1>6, <1>7, <1>8, HeaderFacts, HeaderGoesOn

LEMMA GzipFlgInv == ASSUME IInv, GzipFlg, UNCHANGED bodyVars PROVE IInv'
<1>1. /\ pc = "header" /\ inf_state = "gzip_flg" /\ avail_in > 0
      /\ Take(1) /\ pc' = pc /\ rc' = rc
      /\ UNCHANGED <<strm, fault, wrap, length, hcrc16, gzhead, dict_len>>
      /\ gzflags' = IF Next_in = "flg" THEN strm.flags ELSE {}
  BY DEF GzipFlg, In, Stays
<1>2. \/ inf_state' = "gzip_mtime" /\ inf_held' = 0 /\ gzflags' = strm.flags
      \/ inf_state' = "data_error" /\ inf_held' = inf_held
  BY <1>1 DEF GzipFlg, Goto, Is
<1>3. /\ nin' = nin + 1 /\ nin' \in Nat /\ avail_in' \in Nat
      /\ nin' + avail_in' <= FileLen(strm') /\ cksum' \in Nat /\ ckidx' \in Nat
  BY <1>1, HeaderFacts, Takes DEF IInv, Types
<1>4. gzflags' \subseteq {"hcrc", "extra", "name"}
  BY <1>1, HeaderFacts, MemberFacts
<1>5. HeaderTypes'
  <2>1. inf_held' \in Nat /\ inf_state' \in {"gzip_mtime", "data_error"}
    BY <1>2, HeaderFacts
  <2> QED BY <1>1, <1>3, <1>4, <2>1 DEF IInv, Types, HeaderTypes
<1>6. HeaderInv'
  BY <1>1, <1>2, <1>3 DEF IInv, HeaderInv
<1> QED BY <1>1, <1>2, <1>5, <1>6, HeaderFacts, HeaderGoesOn

LEMMA Skips ==
  ASSUME IInv, NEW n \in Nat, NEW next, NEW b \in Nat, nin = b + inf_held, inf_held < n,
         Skip(n, next), strm' = strm
  PROVE  /\ nin' \in Nat /\ avail_in' \in Nat
         /\ nin' + avail_in' <= FileLen(strm') /\ cksum' \in Nat /\ ckidx' \in Nat
         /\ inf_held' \in Nat
         /\ \/ inf_state' = next /\ inf_held' = 0 /\ nin' = b + n
            \/ inf_state' = inf_state /\ inf_held' < n /\ nin' = b + inf_held'
<1> DEFINE k == AtMost(n - inf_held, avail_in)
<1>1. inf_held \in Nat /\ avail_in \in Nat /\ nin \in Nat /\ n - inf_held \in Nat
  BY HeaderFacts
<1>2. k \in Nat /\ k <= avail_in /\ k <= n - inf_held
  BY <1>1, LeastNat
<1>3. /\ Take(k)
      /\ IF inf_held + k = n THEN inf_state' = next /\ inf_held' = 0
                             ELSE inf_held' = inf_held + k /\ inf_state' = inf_state
  BY DEF Skip, Goto
<1> HIDE DEF k
<1>4. /\ nin' = nin + k /\ nin' \in Nat /\ avail_in' \in Nat
      /\ nin' + avail_in' <= FileLen(strm') /\ cksum' \in Nat /\ ckidx' \in Nat
  BY <1>2, <1>3, Takes DEF IInv, Types
<1>5. CASE inf_held + k = n
  <2>1. inf_state' = next /\ inf_held' = 0 /\ nin' = b + n
    BY <1>1, <1>2, <1>3, <1>4, <1>5
  <2> QED BY <1>4, <2>1
<1>6. CASE inf_held + k # n
  <2>1. inf_held' = inf_held + k /\ inf_state' = inf_state
    BY <1>3, <1>6
  <2>2. inf_held + k \in Nat /\ inf_held + k < n /\ nin + k = b + (inf_held + k)
    BY <1>1, <1>2, <1>6
  <2> QED BY <1>4, <2>1, <2>2
<1> QED BY <1>5, <1>6

LEMMA GzipMtimeInv == ASSUME IInv, GzipMtime, UNCHANGED bodyVars PROVE IInv'
<1>1. /\ pc = "header" /\ inf_state = "gzip_mtime" /\ Skip(4, "gzip_xfl")
      /\ pc' = pc /\ rc' = rc
      /\ UNCHANGED <<strm, fault, wrap, length, gzflags, hcrc16, gzhead, dict_len>>
  BY DEF GzipMtime, In, Stays
<1>2. inf_held < 4 /\ nin = 4 + inf_held
  BY <1>1 DEF IInv, HeaderInv
<1>3. /\ nin' \in Nat /\ avail_in' \in Nat
      /\ nin' + avail_in' <= FileLen(strm') /\ cksum' \in Nat /\ ckidx' \in Nat
      /\ inf_held' \in Nat
      /\ \/ inf_state' = "gzip_xfl" /\ inf_held' = 0 /\ nin' = 4 + 4
         \/ inf_state' = inf_state /\ inf_held' < 4 /\ nin' = 4 + inf_held'
  BY <1>1, <1>2, Skips
<1>4. HeaderTypes'
  BY <1>1, <1>3 DEF IInv, Types, HeaderTypes
<1>5. HeaderInv'
  <2>1. CASE inf_state' = "gzip_xfl" /\ inf_held' = 0 /\ nin' = 4 + 4
    BY <1>1, <2>1 DEF IInv, HeaderInv
  <2>2. CASE inf_state' = inf_state /\ inf_held' < 4 /\ nin' = 4 + inf_held'
    BY <1>1, <2>2 DEF IInv, HeaderInv
  <2> QED BY <1>3, <2>1, <2>2
<1> QED BY <1>1, <1>3, <1>4, <1>5, HeaderFacts, HeaderGoesOn

LEMMA GzipXflOsInv == ASSUME IInv, GzipXflOs, UNCHANGED bodyVars PROVE IInv'
<1>1. /\ pc = "header" /\ pc' = pc /\ rc' = rc
      /\ UNCHANGED <<strm, fault, wrap, gzflags, hcrc16, gzhead, dict_len>>
      /\ \/ inf_state = "gzip_xfl" /\ Skip(1, "gzip_os") /\ length' = length
         \/ inf_state = "gzip_os" /\ Skip(1, "gzip_xlen") /\ length' = 0
  BY DEF GzipXflOs, In, Stays
<1>2. inf_held = 0 /\ (inf_state = "gzip_xfl" => nin = 8) /\ (inf_state = "gzip_os" => nin = 9)
  BY <1>1 DEF IInv, HeaderInv
<1>3. ASSUME NEW next, Skip(1, next)
      PROVE  /\ nin' \in Nat /\ avail_in' \in Nat
             /\ nin' + avail_in' <= FileLen(strm') /\ cksum' \in Nat /\ ckidx' \in Nat
             /\ inf_held' = 0 /\ nin' = nin + 1 /\ inf_state' = next
  <2>1. AtMost(1 - inf_held, avail_in) = 1
    BY <1>2, <1>3, HeaderFacts DEF AtMost, Skip
  <2>2. inf_held' = 0 /\ inf_state' = next
    BY <1>2, <1>3, <2>1 DEF Skip, Goto
  <2> QED BY <1>1, <1>2, <1>3, <2>1, <2>2, HeaderFacts, Takes DEF Skip, IInv, Types
<1>4. \/ inf_state = "gzip_xfl" /\ inf_state' = "gzip_os" /\ nin' = 9 /\ length' = length
      \/ inf_state = "gzip_os" /\ inf_state' = "gzip_xlen" /\ nin' = 10 /\ length' = 0
  BY <1>1, <1>2, <1>3
<1>5. /\ nin' \in Nat /\ avail_in' \in Nat
      /\ nin' + avail_in' <= FileLen(strm') /\ cksum' \in Nat /\ ckidx' \in Nat /\ inf_held' = 0
  BY <1>1, <1>3
<1>6. HeaderTypes'
  <2>1. length' \in Nat /\ inf_state' \in {"gzip_os", "gzip_xlen"}
    BY <1>4, HeaderFacts
  <2> QED BY <1>1, <1>5, <2>1 DEF IInv, Types, HeaderTypes
<1>7. HeaderInv'
  BY <1>1, <1>4, <1>5 DEF IInv, HeaderInv
<1> QED BY <1>1, <1>4, <1>6, <1>7, HeaderFacts, HeaderGoesOn

LEMMA GzipXlenInv == ASSUME IInv, GzipXlen, UNCHANGED bodyVars PROVE IInv'
<1>1. /\ pc = "header" /\ inf_state = "gzip_xlen" /\ pc' = pc /\ rc' = rc
      /\ UNCHANGED <<strm, fault, wrap, gzflags, hcrc16, gzhead, dict_len>>
  BY DEF GzipXlen, In, Stays
<1>2. /\ inf_held < 2 /\ nin = 10 + inf_held /\ length = 0 /\ gzflags = strm.flags /\ strm.fmt = "gzip"
      /\ "extra" \notin gzflags => inf_held = 0
  BY <1>1 DEF IInv, HeaderInv
<1>3. CASE "extra" \in gzflags
  <2>1. Skip(2, "gzip_extra") /\ length' = IF inf_state' = "gzip_extra" THEN strm.extra ELSE length
    BY <1>3 DEF GzipXlen
  <2>2. /\ nin' \in Nat /\ avail_in' \in Nat
        /\ nin' + avail_in' <= FileLen(strm') /\ cksum' \in Nat /\ ckidx' \in Nat
        /\ inf_held' \in Nat
        /\ \/ inf_state' = "gzip_extra" /\ inf_held' = 0 /\ nin' = 10 + 2
           \/ inf_state' = inf_state /\ inf_held' < 2 /\ nin' = 10 + inf_held'
    BY <1>1, <1>2, <2>1, Skips
  <2>3. ExtraLen(strm) = 2 + strm.extra
    BY <1>2, <1>3 DEF ExtraLen
  <2>4. \/ /\ inf_state' = "gzip_extra" /\ length' = strm.extra /\ nin' = 10 + ExtraLen(strm) - length'
        \/ inf_state' = "gzip_xlen" /\ inf_held' < 2 /\ nin' = 10 + inf_held' /\ length' = 0
    <3>1. 10 + 2 = 10 + ExtraLen(strm) - strm.extra
      BY <2>3, HeaderFacts
    <3>2. CASE inf_state' = "gzip_extra" /\ inf_held' = 0 /\ nin' = 10 + 2
      BY <2>1, <3>1, <3>2
    <3>3. CASE inf_state' = inf_state /\ inf_held' < 2 /\ nin' = 10 + inf_held'
      BY <1>1, <1>2, <2>1, <3>3
    <3> QED BY <2>2, <3>2, <3>3
  <2>5. length' \in Nat
    BY <2>4, HeaderFacts
  <2>6. HeaderTypes'
    BY <1>1, <2>2, <2>4, <2>5 DEF IInv, Types, HeaderTypes
  <2>7. HeaderInv'
    BY <1>1, <1>2, <1>3, <2>4, HeaderFacts DEF IInv, HeaderInv
  <2> QED BY <1>1, <2>4, <2>6, <2>7, HeaderFacts, HeaderGoesOn
<1>4. CASE "extra" \notin gzflags
  <2>1. /\ inf_state' = "gzip_extra" /\ inf_held' = 0
        /\ UNCHANGED <<nin, avail_in, ckidx, cksum, length>>
    BY <1>4 DEF GzipXlen, Goto
  <2>2. ExtraLen(strm) = 0
    BY <1>2, <1>4 DEF ExtraLen
  <2>3. HeaderTypes'
    BY <1>1, <2>1 DEF IInv, Types, HeaderTypes
  <2>4. nin' = 10 + ExtraLen(strm') - length' /\ length' <= strm'.extra
    BY <1>1, <1>2, <1>4, <2>1, <2>2, HeaderFacts
  <2>5. HeaderInv'
    BY <1>1, <1>2, <1>4, <2>1, <2>4 DEF IInv, HeaderInv
  <2> QED BY <1>1, <2>1, <2>3, <2>5, HeaderFacts, HeaderGoesOn
<1> QED BY <1>3, <1>4

LEMMA GzipExtraInv == ASSUME IInv, GzipExtra, UNCHANGED bodyVars PROVE IInv'
<1> DEFINE copy == IF "extra" \in gzflags THEN AtMost(length, avail_in) ELSE 0
           rest == IF "extra" \in gzflags THEN length - copy ELSE 0
<1>1. /\ pc = "header" /\ inf_state = "gzip_extra" /\ TakeBulk(copy) /\ length' = rest
      /\ UNCHANGED <<strm, fault, wrap, inf_held, gzflags, hcrc16, gzhead, dict_len>>
  BY DEF GzipExtra, In
<1>2. \/ rest > 0 /\ pc' = "return" /\ rc' = "OK" /\ inf_state' = inf_state
      \/ ~(rest > 0) /\ inf_state' = "gzip_name" /\ pc' = pc /\ rc' = rc
  BY DEF GzipExtra, Returns, Goto, Stays
<1>3. /\ length <= strm.extra /\ nin = 10 + ExtraLen(strm) - length
      /\ "extra" \notin gzflags => length = 0
      /\ gzflags = strm.flags /\ strm.fmt = "gzip"
  BY <1>1 DEF IInv, HeaderInv
<1>4. /\ copy \in Nat /\ copy <= avail_in /\ copy <= length
      /\ rest \in Nat /\ rest = length - copy
  BY <1>3, HeaderFacts, LeastNat
<1> HIDE DEF copy, rest
<1>5. /\ nin' = nin + copy /\ nin' \in Nat /\ avail_in' \in Nat
      /\ nin' + avail_in' <= FileLen(strm') /\ cksum' \in Nat /\ ckidx' \in Nat
  BY <1>1, <1>4, TakesBulk DEF IInv, Types
<1>6. HeaderTypes'
  <2>1. length' \in Nat /\ inf_state' \in {"gzip_extra", "gzip_name"}
    BY <1>1, <1>2, <1>4
  <2> QED BY <1>1, <1>5, <2>1 DEF IInv, Types, HeaderTypes
<1>7. nin + copy = 10 + ExtraLen(strm) - rest /\ rest <= strm.extra /\ ("extra" \notin gzflags => rest = 0)
  BY <1>3, <1>4, HeaderFacts
<1>8. HeaderInv'
  <2>1. CASE inf_state' = inf_state
    BY <1>1, <1>3, <1>5, <1>7, <2>1 DEF IInv, HeaderInv
  <2>2. CASE ~(rest > 0) /\ inf_state' = "gzip_name"
    <3>1. rest = 0 /\ nin + copy = 10 + ExtraLen(strm)
      BY <1>4, <1>7, <2>2, HeaderFacts
    <3>2. nin + copy \in 10 + ExtraLen(strm)..10 + ExtraLen(strm) + NameLen(strm)
      BY <3>1, HeaderFacts
    <3> QED BY <1>1, <1>3, <1>5, <2>2, <3>2 DEF IInv, HeaderInv
  <2> QED BY <1>2, <2>1, <2>2
<1> QED BY <1>1, <1>2, <1>6, <1>8, HeaderFacts, HeaderGoesOn

\* What is left of the name, with its zero.
LEMMA NameLeft ==
  ASSUME IInv, inf_state = "gzip_name"
  PROVE  LET there == Cardinality({p \in nin + 1..HeaderLen(strm) : Layout(strm)[p] = "name"})
         IN there \in Nat /\ nin + there = 10 + ExtraLen(strm) + NameLen(strm)
<1> DEFINE S == {p \in nin + 1..HeaderLen(strm) : Layout(strm)[p] = "name"}
           there == Cardinality(S)
           e == ExtraLen(strm)
           n == NameLen(strm)
<1>1. nin \in 10 + e..10 + e + n /\ strm.fmt = "gzip"
  BY DEF IInv, HeaderInv
<1>2. strm \in Members /\ e \in Nat /\ n \in Nat /\ nin \in Nat
  BY HeaderFacts
<1>3. /\ HeaderLen(strm) = 10 + e + n + HcrcLen(strm) /\ HcrcLen(strm) \in Nat
      /\ \A p \in 1..HeaderLen(strm) : Layout(strm)[p] = "name" <=> p \in 11 + e..10 + e + n
  BY <1>1, <1>2, GzipLayout, MemberFacts
<1>4. S = nin + 1..10 + e + n
  BY <1>1, <1>2, <1>3
<1>5. there = IF nin + 1 > 10 + e + n THEN 0 ELSE (10 + e + n) - (nin + 1) + 1
  <2>1. nin + 1 \in Int /\ 10 + e + n \in Int
    BY <1>2
  <2> QED BY <1>4, <2>1, FS_Interval
<1>6. there \in Nat /\ nin + there = 10 + e + n
  BY <1>1, <1>2, <1>5
<1> QED BY <1>6 DEF S, there

LEMMA GzipNameInv == ASSUME IInv, GzipName, UNCHANGED bodyVars PROVE IInv'
<1> DEFINE S == {p \in nin + 1..HeaderLen(strm) : Layout(strm)[p] = "name"}
           there == Cardinality(S)
           copy == IF "name" \in gzflags THEN AtMost(there, avail_in) ELSE 0
           e == ExtraLen(strm)
           n == NameLen(strm)
<1>1. /\ pc = "header" /\ inf_state = "gzip_name" /\ TakeBulk(copy)
      /\ UNCHANGED <<strm, fault, wrap, gzflags, hcrc16, gzhead, dict_len>>
  BY DEF GzipName, In
<1>2. \/ /\ pc' = "return" /\ rc' = "OK" /\ "name" \in gzflags /\ copy < there
         /\ UNCHANGED <<inf_state, inf_held, length>>
      \/ /\ ~("name" \in gzflags /\ copy < there)
         /\ inf_state' = "gzip_hcrc" /\ inf_held' = 0 /\ length' = 0 /\ pc' = pc /\ rc' = rc
  BY DEF GzipName, Returns, Goto, Stays
<1>3. nin \in 10 + e..10 + e + n /\ gzflags = strm.flags /\ strm.fmt = "gzip"
  BY <1>1 DEF IInv, HeaderInv
<1>4. strm \in Members /\ e \in Nat /\ n \in Nat /\ nin \in Nat /\ avail_in \in Nat
  BY HeaderFacts
<1>5. there \in Nat /\ nin + there = 10 + e + n
  BY <1>1, NameLeft
<1> HIDE DEF S, there
<1>6. /\ copy \in Nat /\ copy <= avail_in /\ copy <= there
      /\ "name" \notin gzflags => copy = 0
  <2>1. AtMost(there, avail_in) \in Nat /\ AtMost(there, avail_in) <= there /\ AtMost(there, avail_in) <= avail_in
    BY <1>4, <1>5, LeastNat
  <2>2. CASE "name" \in gzflags
    BY <2>1, <2>2
  <2>3. CASE "name" \notin gzflags
    BY <1>4, <1>5, <2>3
  <2> QED BY <2>2, <2>3
<1> HIDE DEF copy
<1>7. /\ nin' = nin + copy /\ nin' \in Nat /\ avail_in' \in Nat
      /\ nin' + avail_in' <= FileLen(strm') /\ cksum' \in Nat /\ ckidx' \in Nat
  BY <1>1, <1>6, TakesBulk DEF IInv, Types
<1>8. HeaderTypes'
  <2>1. length' \in Nat /\ inf_held' \in Nat /\ inf_state' \in {"gzip_name", "gzip_hcrc"}
    BY <1>1, <1>2, HeaderFacts
  <2> QED BY <1>1, <1>7, <2>1 DEF IInv, Types, HeaderTypes
<1>9. HeaderInv'
  <2>1. CASE inf_state' = inf_state
    <3>1. nin + copy \in 10 + e..10 + e + n
      BY <1>3, <1>4, <1>5, <1>6
    <3> QED BY <1>1, <1>3, <1>7, <2>1, <3>1 DEF IInv, HeaderInv
  <2>2. CASE ~("name" \in gzflags /\ copy < there) /\ inf_state' = "gzip_hcrc" /\ inf_held' = 0
    <3>1. nin + copy = 10 + e + n + 0
      <4>1. CASE "name" \in gzflags
        BY <1>4, <1>5, <1>6, <2>2, <4>1
      <4>2. CASE "name" \notin gzflags
        <5>1. n = 0
          BY <1>3, <4>2 DEF NameLen
        <5> QED BY <1>3, <1>4, <1>6, <4>2, <5>1
      <4> QED BY <4>1, <4>2
    <3> QED BY <1>1, <1>3, <1>7, <2>2, <3>1 DEF IInv, HeaderInv
  <2> QED BY <1>2, <2>1, <2>2
<1> QED BY <1>1, <1>2, <1>8, <1>9, HeaderFacts, HeaderGoesOn

LEMMA GzipHcrcInv == ASSUME IInv, GzipHcrc, UNCHANGED bodyVars PROVE IInv'
<1> DEFINE k == AtMost(2 - inf_held, avail_in)
           b == 10 + ExtraLen(strm) + NameLen(strm)
<1>1. /\ pc = "header" /\ inf_state = "gzip_hcrc" /\ "hcrc" \in gzflags /\ Take(k)
      /\ pc' = (IF fault' = "null pointer" THEN "dead" ELSE pc) /\ rc' = rc
      /\ UNCHANGED <<strm, wrap, length, gzflags, dict_len>>
  BY DEF GzipHcrc, In
<1>2. \/ /\ inf_held + k < 2 /\ inf_held' = inf_held + k
         /\ UNCHANGED <<inf_state, hcrc16, gzhead, fault>>
      \/ /\ ~(inf_held + k < 2)
         /\ hcrc16' = AtMost(hcrc16 + 1, 2)
         /\ gzhead' = IF gzhead = NULL THEN NULL ELSE "done"
         /\ inf_held' \in {0, 2}
         /\ inf_state' \in {"inflate", "data_error"}
         /\ fault' = IF gzhead = NULL THEN "null pointer" ELSE fault
  BY DEF GzipHcrc, Goto
<1>3. inf_held < 2 /\ nin = b + inf_held /\ gzflags = strm.flags /\ strm.fmt = "gzip"
  BY <1>1 DEF IInv, HeaderInv
<1>4. b \in Nat /\ inf_held \in Nat /\ nin \in Nat /\ avail_in \in Nat /\ hcrc16 \in Nat
  BY HeaderFacts
<1>5. k \in Nat /\ k <= avail_in /\ k <= 2 - inf_held
  <2>1. 2 - inf_held \in Nat
    BY <1>3, <1>4
  <2> QED BY <1>4, <2>1, LeastNat
<1>6. HeaderLen(strm) = b + 2
  <2>1. HcrcLen(strm) = 2
    BY <1>1, <1>3 DEF HcrcLen
  <2> QED BY <1>3, <2>1, GzipLayout, HeaderFacts
<1> HIDE DEF k, b
<1>7. /\ nin' = nin + k /\ nin' \in Nat /\ avail_in' \in Nat
      /\ nin' + avail_in' <= FileLen(strm') /\ cksum' \in Nat /\ ckidx' \in Nat
  BY <1>1, <1>5, Takes DEF IInv, Types
<1>8. HeaderTypes'
  <2>1. inf_held + k \in Nat /\ AtMost(hcrc16 + 1, 2) \in Nat /\ {0, 2} \subseteq Nat
    BY <1>4, <1>5, LeastNat
  <2>2. /\ inf_held' \in Nat /\ hcrc16' \in Nat
        /\ inf_state' \in {inf_state, "inflate", "data_error"}
    BY <1>2, <1>4, <2>1, Zenon
  <2>3. gzhead' \in {gzhead, NULL, "done"} /\ fault' \in {fault, "null pointer"}
    BY <1>2
  <2> QED BY <1>1, <1>7, <2>1, <2>2, <2>3 DEF IInv, Types, HeaderTypes
<1>9. HeaderInv'
  <2>1. CASE inf_held + k < 2 /\ inf_held' = inf_held + k /\ inf_state' = inf_state
    <3>1. nin + k = b + (inf_held + k)
      BY <1>3, <1>4, <1>5
    <3> QED BY <1>1, <1>3, <1>7, <2>1, <3>1 DEF IInv, HeaderInv, b
  <2>2. CASE inf_state' \in {"inflate", "data_error"}
    BY <1>1, <1>3, <2>2 DEF IInv, HeaderInv
  <2> QED BY <1>2, <2>1, <2>2
<1>10. inf_state' = "inflate" => nin' = HeaderLen(strm)
  <2> SUFFICES ASSUME inf_state' = "inflate" PROVE nin' = HeaderLen(strm)
    OBVIOUS
  <2>1. ~(inf_held + k < 2)
    BY <1>1, <1>2
  <2> QED BY <1>3, <1>4, <1>5, <1>6, <1>7, <2>1
<1>11. pc' \in {"header", "dead"}
  BY <1>1
<1> QED BY <1>1, <1>8, <1>9, <1>10, <1>11, HeaderFacts, HeaderGoesOn

LEMMA GzipNoHcrcInv == ASSUME IInv, GzipNoHcrc, UNCHANGED bodyVars PROVE IInv'
<1>1. /\ pc = "header" /\ inf_state = "gzip_hcrc" /\ "hcrc" \notin gzflags
      /\ gzhead' \in {gzhead, NULL, "done"}
      /\ inf_held' = 0 /\ inf_state' = "inflate" /\ pc' = pc /\ rc' = rc
      /\ UNCHANGED <<strm, nin, avail_in, fault, wrap, length, gzflags, ckidx, cksum, hcrc16, dict_len>>
  BY DEF GzipNoHcrc, In, Goto, Stays
<1>2. /\ nin = 10 + ExtraLen(strm) + NameLen(strm) + inf_held /\ inf_held = 0
      /\ gzflags = strm.flags /\ strm.fmt = "gzip"
  BY <1>1 DEF IInv, HeaderInv
<1>3. nin = HeaderLen(strm)
  <2>1. HcrcLen(strm) = 0
    BY <1>1, <1>2 DEF HcrcLen
  <2> QED BY <1>2, <2>1, GzipLayout, HeaderFacts
<1>4. HeaderTypes'
  BY <1>1 DEF IInv, Types, HeaderTypes
<1>5. HeaderInv'
  BY <1>1, <1>2 DEF IInv, HeaderInv
<1> QED BY <1>1, <1>3, <1>4, <1>5, HeaderFacts, HeaderGoesOn

LEMMA ZlibFlgInv == ASSUME IInv, ZlibFlg, UNCHANGED bodyVars PROVE IInv'
<1>1. /\ pc = "header" /\ inf_state = "zlib_flg" /\ avail_in > 0
      /\ Take(1) /\ pc' = pc /\ rc' = rc
      /\ UNCHANGED <<strm, fault, wrap, length, gzflags, hcrc16, gzhead>>
  BY DEF ZlibFlg, In, Stays
<1>2. \/ inf_state' = "data_error" /\ UNCHANGED <<inf_held, dict_len>>
      \/ inf_state' = "zlib_dictid" /\ inf_held' = 0 /\ strm.fdict /\ dict_len' = FALSE
      \/ inf_state' = "inflate" /\ inf_held' = 0 /\ ~strm.fdict /\ dict_len' = dict_len
  BY DEF ZlibFlg, Goto
<1>3. /\ nin' = nin + 1 /\ nin' \in Nat /\ avail_in' \in Nat
      /\ nin' + avail_in' <= FileLen(strm') /\ cksum' \in Nat /\ ckidx' \in Nat
  BY <1>1, HeaderFacts, Takes DEF IInv, Types
<1>4. nin = 1 /\ strm.fmt = "zlib"
  BY <1>1 DEF IInv, HeaderInv
<1>5. HeaderTypes'
  <2>1. inf_held' \in Nat /\ inf_state' \in {"zlib_dictid", "inflate", "data_error"}
    BY <1>2, HeaderFacts
  <2> QED BY <1>1, <1>3, <2>1 DEF IInv, Types, HeaderTypes
<1>6. HeaderInv'
  BY <1>1, <1>2, <1>3, <1>4 DEF IInv, HeaderInv
<1>7. inf_state' = "inflate" => nin' = HeaderLen(strm)
  BY <1>2, <1>3, <1>4, ZlibLayout, HeaderFacts
<1>8. dict_len' \in BOOLEAN
  BY <1>2, HeaderFacts
<1> QED BY <1>1, <1>5, <1>6, <1>7, <1>8, HeaderGoesOn

LEMMA ZlibDictIdInv == ASSUME IInv, ZlibDictId, UNCHANGED bodyVars PROVE IInv'
<1>1. /\ pc = "header" /\ inf_state = "zlib_dictid" /\ Skip(4, "zlib_dict")
      /\ pc' = pc /\ rc' = rc
      /\ UNCHANGED <<strm, fault, wrap, length, gzflags, hcrc16, gzhead>>
      /\ dict_len' = (dict_len /\ inf_state' # "zlib_dict")
  BY DEF ZlibDictId, In, Stays
<1>2. inf_held < 4 /\ nin = 2 + inf_held /\ strm.fdict /\ strm.fmt = "zlib"
  BY <1>1 DEF IInv, HeaderInv
<1>3. /\ nin' \in Nat /\ avail_in' \in Nat
      /\ nin' + avail_in' <= FileLen(strm') /\ cksum' \in Nat /\ ckidx' \in Nat
      /\ inf_held' \in Nat
      /\ \/ inf_state' = "zlib_dict" /\ inf_held' = 0 /\ nin' = 2 + 4
         \/ inf_state' = inf_state /\ inf_held' < 4 /\ nin' = 2 + inf_held'
  BY <1>1, <1>2, Skips
<1>4. HeaderTypes'
  BY <1>1, <1>3 DEF IInv, Types, HeaderTypes
<1>5. HeaderInv'
  <2>1. CASE inf_state' = "zlib_dict" /\ inf_held' = 0 /\ nin' = 2 + 4
    BY <1>1, <1>2, <2>1 DEF IInv, HeaderInv
  <2>2. CASE inf_state' = inf_state /\ inf_held' < 4 /\ nin' = 2 + inf_held'
    BY <1>1, <1>2, <2>2 DEF IInv, HeaderInv
  <2> QED BY <1>3, <2>1, <2>2
<1>6. dict_len' \in BOOLEAN /\ inf_state' # "inflate"
  BY <1>1, <1>3
<1> QED BY <1>1, <1>4, <1>5, <1>6, HeaderGoesOn

LEMMA ZlibDictInv == ASSUME IInv, ZlibDict, UNCHANGED bodyVars PROVE IInv'
<1>1. /\ pc = "header" /\ inf_state = "zlib_dict"
      /\ \/ inf_state' = "inflate" /\ pc' = pc /\ rc' = rc
         \/ pc' = "app" /\ rc' = "NEED_DICT" /\ inf_state' = inf_state
      /\ UNCHANGED <<strm, nin, avail_in, fault, wrap, inf_held, length, gzflags, ckidx, cksum,
                     hcrc16, gzhead, dict_len>>
  BY DEF ZlibDict, In, Goto, Stays
<1>2. strm.fdict /\ nin = 6 /\ strm.fmt = "zlib"
  BY <1>1 DEF IInv, HeaderInv
<1>3. nin = HeaderLen(strm)
  BY <1>2, ZlibLayout, HeaderFacts
<1>4. HeaderTypes'
  BY <1>1 DEF IInv, Types, HeaderTypes
<1>5. HeaderInv'
  BY <1>1, <1>2 DEF IInv, HeaderInv
<1> QED BY <1>1, <1>3, <1>4, <1>5, HeaderFacts, HeaderGoesOn

-----------------------------------------------------------------------------
\* Steps that only decide where to go, or count.
LEMMA BodyParts ==
  ASSUME UNCHANGED bodyVars
  PROVE  /\ UNCHANGED dataVars
         /\ UNCHANGED <<avail_out, flush, in0, out0, src, tgt, tgt_exp, loop_cnt, faults, failed, resets>>
  BY DEF bodyVars, dataVars, callVars, fifoVars, engineVars, jobVars

LEMMA DataParts ==
  ASSUME UNCHANGED dataVars
  PROVE  UNCHANGED <<total_out, user, fifo_in, used_in, cur_in, fifo_out, used_out, cur_out,
                     history_len, resuming, is_final, in_subc, comp_ratio, crc, trailer, item>>
  BY DEF dataVars, fifoVars

LEMMA ControlInv ==
  ASSUME IInv, UNCHANGED <<strm, nin, wrap, inf_state, inf_held, length, gzflags>>, UNCHANGED dataVars,
         HeaderTypes', CallTypes', dict_len' \in BOOLEAN, failed' \in BOOLEAN,
         FreshInv', DictInv', JobInv', EndInv'
  PROVE  IInv'
<1>1. HeaderInv' /\ FifoTypes' /\ EngineTypes' /\ CachedInv' /\ HistoryInv' /\ FeedInv' /\ OutputRight'
  BY DataKept
<1>2. UNCHANGED <<resuming, is_final>>
  BY DataParts
<1>3. Flags'
  BY <1>2, Zenon DEF IInv, Types, Flags
<1> QED BY <1>1, <1>3 DEF IInv, Types

LEMMA GoInflateInv == ASSUME IInv, GoInflate, UNCHANGED bodyVars PROVE IInv'
<1>1. /\ pc = "header" /\ inf_state = "inflate" /\ pc' = "inflate_" /\ rc' = rc
      /\ UNCHANGED <<strm, nin, avail_in, fault, hvars>>
  BY DEF GoInflate, In
<1>2. UNCHANGED <<wrap, inf_state, inf_held, length, gzflags, dict_len>>
  BY <1>1 DEF hvars
<1>3. /\ UNCHANGED dataVars
      /\ UNCHANGED <<avail_out, flush, in0, out0, src, tgt, tgt_exp, loop_cnt, faults, failed, resets>>
  BY BodyParts
<1>4. UNCHANGED <<fifo_out, used_in, used_out, resuming, is_final, in_subc, trailer, item>>
  BY <1>3, DataParts
<1>5. HeaderTypes'
  BY <1>1, HeaderTypesKept DEF IInv, Types
<1>6. CallTypes'
  BY <1>1, <1>3 DEF IInv, Types, CallTypes
<1>7. FreshInv' /\ JobInv'
  BY <1>1, <1>2, <1>4 DEF IInv, FreshInv, JobInv
<1>8. DictInv'
  BY <1>1, <1>2, <1>4 DEF IInv, DictInv
<1>9. EndInv'
  BY <1>1, <1>4, EndKept DEF IInv
<1>10. dict_len' \in BOOLEAN /\ failed' \in BOOLEAN
  BY <1>2, <1>3 DEF IInv, Types, Flags
<1> QED BY <1>1, <1>2, <1>3, <1>5, <1>6, <1>7, <1>8, <1>9, <1>10, ControlInv

LEMMA HeaderInvs == ASSUME IInv, Header PROVE IInv'
<1>1. UNCHANGED bodyVars /\ HeaderStep
  BY DEF Header
<1> QED
  BY <1>1, NeedInputInv, DetectInv, DispatchInv, TestByteInv, GzipFlgInv, GzipMtimeInv,
     GzipXflOsInv, GzipXlenInv, GzipExtraInv, GzipNameInv, GzipHcrcInv, GzipNoHcrcInv,
     ZlibFlgInv, ZlibDictIdInv, ZlibDictInv, DataErrorInv, GoInflateInv DEF HeaderStep

\* In nx_inflate_ the header has been read and the buffer is there.
Body == {"inflate_", "loop", "feed", "cache", "submit", "copy trailer", "verify"}

LEMMA InBody ==
  ASSUME IInv, pc \in Body
  PROVE  inf_state = "inflate" /\ fifo_out # NULL
  BY DEF IInv, FreshInv, Body

\* A raw stream that is still at its first byte has given nothing.
LEMMA AtFirstByte ==
  ASSUME IInv, nin = 0, resuming, ~is_final, in_subc # 0
  PROVE  used_out = 0 /\ total_out = 0 /\ used_in = 0 /\ HeaderLen(strm) = 0 /\ inf_state = "inflate"
<1>1. inf_state = "inflate"
  BY DEF IInv, FreshInv
<1>2. Place >= HeaderLen(strm) /\ BitAt(strm, item) = Bits * (Place - HeaderLen(strm)) + HalfByte
  BY <1>1 DEF IInv, FeedInv
<1>3. /\ strm \in Members /\ item \in 0..Len(strm.bit) /\ HeaderLen(strm) \in Nat
      /\ BitAt(strm, item) \in Nat
  BY Streams DEF IInv
<1>4. used_in \in Nat /\ used_out \in Nat /\ total_out \in Nat /\ in_subc \in 0..Bits - 1
      /\ total_out + used_out = OutAt(strm, item)
  BY DEF IInv, Types, FifoTypes, EngineTypes
<1>5. used_in = 0 /\ HeaderLen(strm) = 0 /\ Place - HeaderLen(strm) = 0
  BY <1>2, <1>3, <1>4 DEF Place
<1>6. HalfByte = Bits - in_subc
  BY DEF HalfByte
<1>7. BitAt(strm, item) = Bits - in_subc /\ Bits - in_subc < Bits
  BY <1>2, <1>3, <1>4, <1>5, <1>6, Consts
<1>8. OutAt(strm, item) = 0
  BY <1>3, <1>7, ItemFacts
<1> QED BY <1>1, <1>4, <1>5, <1>8

LEMMA LibraryInv ==
  ASSUME IInv, pc \in Body, UNCHANGED <<strm, nin, avail_in, hvars>>, UNCHANGED dataVars,
         fault' \in {"none", "garbled", "loops", "null pointer"}, CallTypes', failed' \in BOOLEAN,
         pc' # "app", pc' = "return" => rc' # "NEED_DICT",
         DictInv', JobInv', EndInv'
  PROVE  IInv'
<1>1. UNCHANGED <<wrap, inf_state, inf_held, length, gzflags, dict_len>> /\ UNCHANGED <<strm, nin, avail_in>>
  BY DEF hvars
<1>2. inf_state = "inflate" /\ fifo_out # NULL
  BY InBody
<1>3. fifo_out' # NULL
  BY <1>2, DataParts
<1>4. HeaderTypes'
  BY DEF IInv, Types, HeaderTypes, hvars
<1>5. FreshInv'
  BY <1>1, <1>2, <1>3 DEF FreshInv
<1>6. dict_len' \in BOOLEAN
  BY <1>1 DEF IInv, Types, Flags
<1> QED BY <1>1, <1>4, <1>5, <1>6, ControlInv

\* Facts about the flags, for steps whose other facts are about numbers.
LEMMA FlagFacts == ASSUME IInv PROVE failed \in BOOLEAN /\ dict_len \in BOOLEAN
  BY DEF IInv, Types, Flags

LEMMA BeginInv == ASSUME IInv, Begin PROVE IInv'
<1>1. pc = "inflate_" /\ UNCHANGED <<strm, nin, avail_in, fault, hvars>> /\ UNCHANGED bodyVars
  BY DEF Begin
<1>2. \/ /\ avail_in = 0 /\ used_in = 0 /\ avail_out = 0 /\ used_out = 0
         /\ pc' = "return" /\ rc' = "STREAM_END"
      \/ is_final /\ used_out = 0 /\ pc' = "verify" /\ rc' = rc
      \/ pc' = "return" /\ rc' = "BUF_ERROR"
      \/ ~(is_final /\ used_out = 0) /\ pc' = "loop" /\ rc' = rc
  BY DEF Begin, Returns, AllDelivered
<1>3. /\ UNCHANGED dataVars
      /\ UNCHANGED <<avail_out, flush, in0, out0, src, tgt, tgt_exp, loop_cnt, faults, failed, resets>>
      /\ UNCHANGED <<used_in, used_out, resuming, is_final, in_subc, trailer, item>>
  BY <1>1, BodyParts, DataParts
<1>4. CallTypes'
  BY <1>1, <1>2, <1>3 DEF IInv, Types, CallTypes
<1>5. UNCHANGED dict_len /\ UNCHANGED wrap /\ UNCHANGED <<strm, nin, avail_in>>
  BY <1>1 DEF hvars
<1>6. DictInv'
  BY <1>1, <1>2, <1>3, <1>5 DEF IInv, DictInv
<1>7. JobInv'
  <2>1. used_out' = used_out /\ is_final' = is_final
    BY <1>3
  <2>2. CASE pc' = "return"
    BY <2>2 DEF JobInv
  <2>3. CASE is_final /\ used_out = 0 /\ pc' = "verify"
    BY <2>1, <2>3 DEF JobInv
  <2>4. CASE ~(is_final /\ used_out = 0) /\ pc' = "loop"
    <3>1. ~(used_out = 0) => used_out > 0
      BY DEF IInv, Types, FifoTypes
    <3>2. is_final' => used_out' > 0
      BY <2>1, <2>4, <3>1, Zenon
    <3> QED BY <2>4, <3>2 DEF JobInv
  <2> QED BY <1>2, <2>2, <2>3, <2>4
<1>8. EndInv'
  <2>1. CASE pc' = "return" /\ rc' = "STREAM_END"
    <3>1. avail_in' = 0 /\ used_in' = 0 /\ avail_out' = 0 /\ used_out' = 0
      BY <1>1, <1>2, <1>3, <1>5, <2>1
    <3> QED BY <1>3, <1>5, <3>1 DEF IInv, EndInv, Place
  <2>2. CASE ~(pc' = "return" /\ rc' = "STREAM_END")
    BY <1>3, <1>5, <2>2, EndKept DEF IInv
  <2> QED BY <2>1, <2>2
<1>9. fault' \in {"none", "garbled", "loops", "null pointer"}
  BY <1>1 DEF IInv, Types, HeaderTypes
<1> QED BY <1>1, <1>2, <1>3, <1>4, <1>6, <1>7, <1>8, <1>9, FlagFacts, LibraryInv DEF Body

LEMMA FailsInv ==
  ASSUME IInv, pc \in Body, UNCHANGED <<strm, nin, avail_in, hvars>>, UNCHANGED dataVars,
         UNCHANGED <<avail_out, flush, in0, out0, src, tgt, tgt_exp, loop_cnt, faults, resets>>,
         fault' \in {fault, "garbled", "loops"}, failed' \in BOOLEAN,
         pc' = "return", rc' \in {"DATA_ERROR", "STREAM_ERROR", "MEM_ERROR"}
  PROVE  IInv'
<1>1. CallTypes'
  BY DEF IInv, Types, CallTypes
<1>2. UNCHANGED dict_len /\ UNCHANGED <<strm, nin, avail_in>>
  BY DEF hvars
<1>3. UNCHANGED <<used_in, used_out, resuming, is_final, in_subc, trailer, item>>
  BY DataParts
<1>4. DictInv'
  BY <1>2, <1>3 DEF IInv, DictInv
<1>5. JobInv'
  BY DEF JobInv
<1>6. EndInv'
  BY <1>2, <1>3, EndKept DEF IInv
<1>7. fault' \in {"none", "garbled", "loops", "null pointer"}
  BY DEF IInv, Types, HeaderTypes
<1> QED BY <1>1, <1>4, <1>5, <1>6, <1>7, LibraryInv

LEMMA TooManyLoopsInv == ASSUME IInv, TooManyLoops PROVE IInv'
<1>1. /\ pc = "loop" /\ pc' = "return" /\ rc' = "STREAM_ERROR" /\ fault' = "loops"
      /\ UNCHANGED <<strm, nin, avail_in, hvars>> /\ UNCHANGED bodyVars
  BY DEF TooManyLoops, Returns
<1> QED BY <1>1, BodyParts, FlagFacts, FailsInv DEF Body

LEMMA CacheNoMemoryInv == ASSUME IInv, CacheNoMemory PROVE IInv'
<1>1. /\ pc = "cache" /\ pc' = "return" /\ rc' = "MEM_ERROR" /\ fault' = fault
      /\ UNCHANGED <<strm, nin, avail_in, hvars>> /\ UNCHANGED bodyVars
  BY DEF CacheNoMemory, Returns
<1> QED BY <1>1, BodyParts, FlagFacts, FailsInv DEF Body

LEMMA JobErrorInv ==
  ASSUME IInv, NEW why, JobError(why)
  PROVE  IInv'
<1>1. /\ pc = "submit" /\ pc' = "return" /\ rc' = "DATA_ERROR"
      /\ fault' \in {fault, "garbled"} /\ failed' = (failed \/ why = "lost")
      /\ UNCHANGED <<strm, nin, avail_in, hvars>>
      /\ UNCHANGED <<callVars, total_out, user, fifoVars, history_len,
                     resuming, is_final, in_subc, comp_ratio, crc, trailer, item, jobVars, resets>>
  BY DEF JobError, Returns
<1>2. UNCHANGED dataVars
  BY <1>1 DEF dataVars
<1>3. UNCHANGED <<avail_out, flush, in0, out0, src, tgt, tgt_exp, loop_cnt, faults, resets>>
  BY <1>1 DEF callVars, jobVars
<1>4. failed' \in BOOLEAN
  BY <1>1, FlagFacts
<1> QED BY <1>1, <1>2, <1>3, <1>4, FailsInv DEF Body

LEMMA JobFaultsTooLongInv == ASSUME IInv, JobFaultsTooLong PROVE IInv'
<1>1. /\ pc = "submit" /\ pc' = "return" /\ rc' = "DATA_ERROR" /\ fault' = fault /\ failed' = TRUE
      /\ UNCHANGED <<strm, nin, avail_in, hvars>>
      /\ UNCHANGED <<callVars, total_out, user, fifoVars, history_len,
                     resuming, is_final, in_subc, comp_ratio, crc, trailer, item, jobVars, resets>>
  BY DEF JobFaultsTooLong, Returns
<1>2. UNCHANGED dataVars
  BY <1>1 DEF dataVars
<1>3. UNCHANGED <<avail_out, flush, in0, out0, src, tgt, tgt_exp, loop_cnt, faults, resets>>
  BY <1>1 DEF callVars, jobVars
<1> QED BY <1>1, <1>2, <1>3, FailsInv DEF Body

LEMMA NothingToDrainInv == ASSUME IInv, NothingToDrain PROVE IInv'
<1>1. /\ pc = "loop" /\ used_out = 0 /\ loop_cnt + 1 < MaxLoops /\ loop_cnt' = loop_cnt + 1
      /\ pc' = "feed" /\ rc' = rc
      /\ UNCHANGED <<strm, nin, avail_in, fault, hvars, callVars, total_out, user, fifoVars,
                     engineVars, src, tgt, tgt_exp, faults, resets>>
  BY DEF NothingToDrain
<1>2. UNCHANGED dataVars
  BY <1>1 DEF dataVars, engineVars
<1>3. UNCHANGED <<avail_out, flush, in0, out0, src, tgt, tgt_exp, faults, resets, failed>>
  BY <1>1 DEF callVars, engineVars
<1>4. UNCHANGED dict_len /\ UNCHANGED <<strm, nin, avail_in, fault>>
  BY <1>1 DEF hvars
<1>5. UNCHANGED <<used_in, used_out, resuming, is_final, in_subc, trailer, item>>
  BY <1>2, DataParts
<1>6. CallTypes'
  BY <1>1, <1>3, Consts DEF IInv, Types, CallTypes
<1>7. DictInv'
  BY <1>1, <1>3, <1>4, <1>5 DEF IInv, DictInv
<1>8. JobInv'
  <2>1. ~is_final
    BY <1>1 DEF IInv, JobInv
  <2> QED BY <1>1, <1>5, <2>1 DEF JobInv
<1>9. EndInv'
  BY <1>1, <1>4, <1>5, EndKept DEF IInv
<1>10. fault' \in {"none", "garbled", "loops", "null pointer"}
  BY <1>4 DEF IInv, Types, HeaderTypes
<1> QED BY <1>1, <1>2, <1>3, <1>6, <1>7, <1>8, <1>9, <1>10, FlagFacts, LibraryInv DEF Body

LEMMA ReturnIdleInv == ASSUME IInv, ReturnIdle PROVE IInv'
<1>1. /\ pc = "feed" /\ NothingToDo /\ pc' = "return" /\ rc' = "OK"
      /\ UNCHANGED <<strm, nin, avail_in, fault, hvars>> /\ UNCHANGED bodyVars
  BY DEF ReturnIdle, Returns
<1>2. /\ UNCHANGED dataVars
      /\ UNCHANGED <<avail_out, flush, in0, out0, src, tgt, tgt_exp, loop_cnt, faults, failed, resets>>
      /\ UNCHANGED <<used_in, used_out, resuming, is_final, in_subc, trailer, item>>
  BY <1>1, BodyParts, DataParts
<1>3. UNCHANGED dict_len /\ UNCHANGED <<strm, nin, avail_in, fault>>
  BY <1>1 DEF hvars
<1>4. CallTypes'
  BY <1>1, <1>2 DEF IInv, Types, CallTypes
<1>5. ~(nin = 0 /\ resuming /\ ~is_final /\ in_subc # 0)
  <2>1. avail_out \in Nat /\ avail_in \in Nat
    BY DEF IInv, Types, HeaderTypes, CallTypes
  <2>2. avail_out = 0 \/ avail_in = 0
    BY <1>1 DEF NothingToDo
  <2>3. ~(avail_in > 0 /\ avail_out > 0)
    BY <2>1, <2>2
  <2> QED BY <1>1, <2>3 DEF IInv, DictInv
<1>6. DictInv'
  BY <1>1, <1>2, <1>3, <1>5 DEF IInv, DictInv
<1>7. JobInv'
  BY <1>1 DEF JobInv
<1>8. EndInv'
  BY <1>1, <1>2, <1>3, EndKept DEF IInv
<1>9. fault' \in {"none", "garbled", "loops", "null pointer"}
  BY <1>3 DEF IInv, Types, HeaderTypes
<1> QED BY <1>1, <1>2, <1>4, <1>6, <1>7, <1>8, <1>9, FlagFacts, LibraryInv DEF Body

LEMMA GoCacheInv == ASSUME IInv, GoCache PROVE IInv'
<1>1. /\ pc = "feed" /\ pc' = "cache" /\ rc' = rc
      /\ UNCHANGED <<strm, nin, avail_in, fault, hvars>> /\ UNCHANGED bodyVars
  BY DEF GoCache
<1>2. /\ UNCHANGED dataVars
      /\ UNCHANGED <<avail_out, flush, in0, out0, src, tgt, tgt_exp, loop_cnt, faults, failed, resets>>
      /\ UNCHANGED <<used_in, used_out, resuming, is_final, in_subc, trailer, item>>
  BY <1>1, BodyParts, DataParts
<1>3. UNCHANGED dict_len /\ UNCHANGED <<strm, nin, avail_in, fault>>
  BY <1>1 DEF hvars
<1>4. CallTypes'
  BY <1>1, <1>2 DEF IInv, Types, CallTypes
<1>5. DictInv'
  BY <1>1, <1>2, <1>3 DEF IInv, DictInv
<1>6. JobInv'
  <2>1. used_out = 0 /\ ~is_final
    BY <1>1 DEF IInv, JobInv
  <2> QED BY <1>1, <1>2, <2>1 DEF JobInv
<1>7. EndInv'
  BY <1>1, <1>2, <1>3, EndKept DEF IInv
<1>8. fault' \in {"none", "garbled", "loops", "null pointer"}
  BY <1>3 DEF IInv, Types, HeaderTypes
<1> QED BY <1>1, <1>2, <1>4, <1>5, <1>6, <1>7, <1>8, FlagFacts, LibraryInv DEF Body

-----------------------------------------------------------------------------
\* What the steps of the body need of the types.
LEMMA Numbers ==
  ASSUME IInv
  PROVE  /\ nin \in Nat /\ avail_in \in Nat /\ avail_out \in Nat /\ total_out \in Nat
         /\ used_in \in Nat /\ cur_in \in Nat /\ used_out \in Nat /\ cur_out \in Nat
         /\ src \in Nat /\ tgt \in Nat
         /\ LenIn \in Nat \ {0} /\ cur_in + used_in <= LenIn
         /\ cur_out + used_out <= LenOut /\ Window <= cur_out /\ cur_out <= LenOut \div 2
         /\ LenOut \div 2 \in Nat /\ 2 * Window <= LenOut \div 2 /\ 2 * (LenOut \div 2) <= LenOut
         /\ in_subc \in Nat /\ in_subc < Bits
<1>1. /\ nin \in Nat /\ avail_in \in Nat /\ avail_out \in Nat /\ total_out \in Nat
      /\ used_in \in Nat /\ cur_in \in Nat /\ used_out \in Nat /\ cur_out \in Nat
      /\ src \in Nat /\ tgt \in Nat
      /\ cur_in + used_in <= LenIn /\ cur_out + used_out <= LenOut
  BY DEF IInv, Types, HeaderTypes, CallTypes, FifoTypes
<1>2. cur_out \in Window..LenOut \div 2 /\ in_subc \in 0..Bits - 1
  BY DEF IInv, Types, FifoTypes, EngineTypes
<1>3. LenIn \in Nat \ {0}
  BY Consts DEF LenIn
<1>4. LenOut \in Nat /\ Window \in Nat /\ LenOut >= 4 * Window /\ Bits \in Nat
  BY Consts
<1>5. LenOut \div 2 \in Nat /\ 2 * Window <= LenOut \div 2 /\ 2 * (LenOut \div 2) <= LenOut
  BY <1>4
<1>6. Window <= cur_out /\ cur_out <= LenOut \div 2 /\ in_subc \in Nat /\ in_subc < Bits
  BY <1>2, <1>4, <1>5
<1> QED BY <1>1, <1>3, <1>5, <1>6

\* How much a job may give: what next_out and fifo_out have room for.
LEMMA Targets ==
  ASSUME IInv
  PROVE  /\ Wanted \in Nat /\ Wanted > avail_out
         /\ TargetSize(Wanted) \in Nat /\ TargetSize(Wanted) <= avail_out + (LenOut - cur_out)
<1>1. avail_out \in Nat /\ cur_out \in Nat /\ cur_out <= LenOut /\ LenOut \in Nat /\ Window \in Nat \ {0}
  BY Consts, Numbers
<1>2. Wanted \in Nat /\ Wanted > avail_out
  BY <1>1 DEF Wanted
<1> DEFINE ret == AtMost(avail_out, Wanted)
           rest == AtMost(LenOut - cur_out, Wanted - ret)
<1>3. ret = avail_out
  BY <1>1, <1>2 DEF AtMost
<1>4. LenOut - cur_out \in Nat /\ Wanted - ret \in Nat
  BY <1>1, <1>2, <1>3
<1>5. rest \in Nat /\ rest <= LenOut - cur_out
  BY <1>4, LeastNat
<1>6. TargetSize(Wanted) = ret + rest
  BY DEF TargetSize
<1> HIDE DEF ret, rest
<1> QED BY <1>1, <1>2, <1>3, <1>5, <1>6

LEMMA InitDdeInv ==
  ASSUME IInv, pc \in {"feed", "submit"}, NEW s \in Nat, s >= 1, InitDde(s, Wanted),
         avail_out > 0, used_in + avail_in > 0, faults' \in Nat, faults' <= MaxFaults,
         loop_cnt' = loop_cnt,
         UNCHANGED <<strm, nin, avail_in, fault, hvars, callVars, total_out, user, fifoVars,
                     resuming, is_final, comp_ratio, crc, trailer, item, failed, resets>>
  PROVE  IInv'
<1>1. /\ UNCHANGED <<strm, nin, avail_in, fault, total_out, user, resuming, is_final, comp_ratio, crc,
                     trailer, item, failed, resets>>
      /\ UNCHANGED <<wrap, inf_state, inf_held, length, gzflags, dict_len>>
      /\ UNCHANGED <<fifo_in, used_in, cur_in, fifo_out, used_out, cur_out>>
      /\ UNCHANGED <<avail_out, flush, in0, out0>>
      /\ UNCHANGED fifoVars
  BY DEF hvars, callVars, fifoVars
<1>2. /\ history_len' = IF resuming \/ dict_len THEN history_len ELSE 0
      /\ in_subc' = IF dict_len \/ ~(resuming \/ dict_len) THEN 0 ELSE in_subc
      /\ src' = AtMost(used_in + avail_in, s)
      /\ tgt' = TargetSize(Wanted) /\ tgt_exp' = Wanted
      /\ pc' = "submit" /\ rc' = rc
  BY DEF InitDde, Resumes, SubcCleared, SourceSize
<1>3. inf_state = "inflate" /\ fifo_out # NULL
  BY InBody DEF Body
<1>4. used_out = 0 /\ ~is_final
  BY DEF IInv, JobInv
<1>5. /\ ~resuming => item = 0
      /\ dict_len /\ resuming => in_subc = 0
  BY <1>3, <1>4 DEF IInv, FeedInv, DictInv
<1>6. history_len' = history_len
  <2> SUFFICES ASSUME ~(resuming \/ dict_len) PROVE history_len = 0
    BY <1>2
  <2>1. OutAt(strm, item) = 0
    BY <1>5, Streams, ItemFacts DEF IInv
  <2> QED BY <2>1, Consts DEF IInv, HistoryInv, AtMost
<1>7. in_subc' = in_subc \/ (in_subc' = 0 /\ (~resuming \/ in_subc = 0))
  BY <1>2, <1>5
<1>8. used_in + avail_in \in Nat /\ in_subc \in 0..Bits - 1 /\ 0 \in 0..Bits - 1
  BY Consts, Numbers
<1>9. src' \in Nat /\ src' >= 1 /\ src' <= used_in + avail_in
  BY <1>2, <1>8 DEF AtMost
<1>10. Wanted' = Wanted /\ TargetSize(tgt_exp)' = TargetSize(Wanted)
  BY <1>1, <1>2 DEF Wanted, TargetSize
<1>11. Types'
  <2>1. HeaderTypes'
    BY HeaderTypesKept DEF IInv, Types
  <2>2. CallTypes'
    BY <1>1, <1>2, <1>9, Targets DEF IInv, Types, CallTypes
  <2>3. FifoTypes'
    BY <1>1, FifoKept DEF IInv, Types
  <2>4. EngineTypes'
    BY <1>1, <1>6, <1>7, <1>8 DEF IInv, Types, EngineTypes
  <2>5. Flags'
    BY <1>1, Zenon DEF IInv, Types, Flags
  <2> QED BY <2>1, <2>2, <2>3, <2>4, <2>5 DEF Types
<1>12. HeaderInv'
  BY <1>1, HeaderKept DEF IInv
<1>13. FreshInv'
  BY <1>1, <1>2, <1>3 DEF FreshInv
<1>14. CachedInv' /\ HistoryInv'
  BY <1>1, <1>6, InKept, OutKept DEF IInv
<1>15. FeedInv'
  <2>1. HalfByte' = HalfByte
    BY <1>1, <1>7 DEF HalfByte
  <2> QED BY <1>1, <2>1 DEF IInv, FeedInv, Place
<1>16. DictInv'
  BY <1>1, <1>2, <1>5, <1>7 DEF IInv, DictInv
<1>17. JobInv'
  <2>1. used_out' = 0 /\ ~is_final' /\ avail_out' > 0
    BY <1>1, <1>4
  <2>2. ~resuming' \/ dict_len' => in_subc' = 0
    BY <1>1, <1>2
  <2>3. src' <= (used_in + avail_in)'
    BY <1>1, <1>9
  <2> QED BY <1>2, <1>9, <1>10, <2>1, <2>2, <2>3 DEF JobInv
<1>18. EndInv'
  BY <1>1, <1>2, EndKept DEF IInv
<1>19. OutputRight'
  BY <1>1, UserKept DEF IInv
<1> QED
  BY <1>11, <1>12, <1>13, <1>14, <1>15, <1>16, <1>17, <1>18, <1>19 DEF IInv

LEMMA FeedStepInv == ASSUME IInv, Feed PROVE IInv'
<1>1. /\ pc = "feed" /\ ~NothingToDo
      /\ UNCHANGED <<strm, nin, avail_in, fault, hvars, callVars, total_out, user, fifoVars,
                     resuming, is_final, comp_ratio, crc, trailer, item, failed, loop_cnt, faults,
                     resets>>
  BY DEF Feed
<1>2. PICK s \in SourceGuess : InitDde(s, Wanted)
  BY DEF Feed
<1>3. s \in Nat /\ s >= 1
  <2>1. Wanted \in Nat /\ MinInput \in Nat \ {0} /\ Wanted + 1 \in Nat /\ Wanted + 1 >= 1
    BY Targets, Consts
  <2>2. AtMost(MinInput, Wanted + 1) \in Nat /\ AtMost(MinInput, Wanted + 1) >= 1
    BY <2>1 DEF AtMost
  <2> QED BY <2>1, <2>2 DEF SourceGuess
<1>4. avail_out > 0 /\ used_in + avail_in > 0
  <2>1. avail_out # 0 /\ ~(avail_in = 0 /\ used_in = 0)
    BY <1>1 DEF NothingToDo
  <2> QED BY <2>1, Numbers
<1>5. faults' \in Nat /\ faults' <= MaxFaults
  BY <1>1 DEF IInv, Types, CallTypes
<1> QED BY <1>1, <1>2, <1>3, <1>4, <1>5, InitDdeInv

LEMMA HalvedNat ==
  ASSUME NEW x \in Nat, NEW min \in Nat \ {0}, x >= 1
  PROVE  Halved(x, min) \in Nat /\ Halved(x, min) >= 1
<1>1. UpDiv(x, 2) \in Nat /\ UpDiv(x, 2) >= 1
  BY DEF UpDiv
<1> QED BY <1>1 DEF Halved

\* What a job under way has.
LEMMA Submitted ==
  ASSUME IInv, pc = "submit"
  PROVE  /\ src >= 1 /\ src <= used_in + avail_in /\ avail_out > 0
         /\ tgt_exp = Wanted /\ tgt = TargetSize(Wanted)
         /\ used_out = 0 /\ ~is_final
         /\ ~resuming \/ dict_len => in_subc = 0
         /\ used_in + avail_in > 0
         /\ inf_state = "inflate" /\ fifo_out # NULL
<1>1. /\ src >= 1 /\ src <= used_in + avail_in /\ avail_out > 0
      /\ tgt_exp = Wanted /\ tgt = TargetSize(Wanted)
      /\ used_out = 0 /\ ~is_final
      /\ ~resuming \/ dict_len => in_subc = 0
  BY DEF IInv, JobInv
<1>2. used_in + avail_in > 0
  BY <1>1, Numbers
<1> QED BY <1>1, <1>2, InBody DEF Body

LEMMA JobFaultInv == ASSUME IInv, JobFault PROVE IInv'
<1>1. /\ pc = "submit" /\ faults < MaxFaults /\ faults' = faults + 1
      /\ UNCHANGED <<strm, nin, avail_in, fault, hvars, callVars, total_out, user, fifoVars,
                     resuming, is_final, comp_ratio, crc, trailer, item, failed, loop_cnt, resets>>
  BY DEF JobFault
<1>2. faults' \in Nat /\ faults' <= MaxFaults
  BY <1>1, Consts DEF IInv, Types, CallTypes
<1>3. CASE faults = 0
  <2>1. UNCHANGED <<pc, rc, history_len, in_subc, src, tgt, tgt_exp>>
    BY <1>3 DEF JobFault
  <2>2. UNCHANGED dataVars
    BY <1>1, <2>1 DEF dataVars
  <2>3. UNCHANGED <<avail_out, flush, in0, out0, dict_len, nin, strm, avail_in>>
    BY <1>1 DEF callVars, hvars
  <2>4. UNCHANGED <<used_in, used_out, resuming, is_final, in_subc, trailer, item, cur_out>>
    BY <2>2, DataParts
  <2>5. CallTypes'
    BY <1>1, <1>2, <2>1, <2>3 DEF IInv, Types, CallTypes
  <2>6. DictInv'
    BY <2>1, <2>3, <2>4 DEF IInv, DictInv
  <2>7. JobInv'
    BY <2>1, <2>3, <2>4 DEF IInv, JobInv, Wanted, TargetSize
  <2>8. EndInv'
    BY <1>1, <2>1, <2>3, <2>4, EndKept DEF IInv
  <2>9. fault' \in {"none", "garbled", "loops", "null pointer"} /\ failed' \in BOOLEAN
    BY <1>1, FlagFacts DEF IInv, Types, HeaderTypes
  <2> QED BY <1>1, <2>1, <2>2, <2>5, <2>6, <2>7, <2>8, <2>9, LibraryInv DEF Body
<1>4. CASE faults # 0
  <2>1. InitDde(Halved(src, MinInput), tgt_exp)
    BY <1>4 DEF JobFault
  <2>2. Halved(src, MinInput) \in Nat /\ Halved(src, MinInput) >= 1
    BY <1>1, Submitted, Numbers, Consts, HalvedNat
  <2> QED BY <1>1, <1>2, <2>1, <2>2, Submitted, InitDdeInv
<1> QED BY <1>3, <1>4

LEMMA JobSpaceInv == ASSUME IInv, JobSpace PROVE IInv'
<1>1. /\ pc = "submit" /\ InitDde(Halved(UpDiv(src, 2), MinInput), tgt_exp)
      /\ UNCHANGED <<strm, nin, avail_in, fault, hvars, callVars, total_out, user, fifoVars,
                     resuming, is_final, comp_ratio, crc, trailer, item, failed, loop_cnt, faults,
                     resets>>
  BY DEF JobSpace
<1>2. UpDiv(src, 2) \in Nat /\ UpDiv(src, 2) >= 1
  BY <1>1, Submitted, Numbers DEF UpDiv
<1>3. Halved(UpDiv(src, 2), MinInput) \in Nat /\ Halved(UpDiv(src, 2), MinInput) >= 1
  BY <1>2, Consts, HalvedNat
<1>4. faults' \in Nat /\ faults' <= MaxFaults
  BY <1>1 DEF IInv, Types, CallTypes
<1> QED BY <1>1, <1>3, <1>4, Submitted, InitDdeInv

-----------------------------------------------------------------------------
\* The application.
LEMMA InfReturnInv == ASSUME IInv, InfReturn PROVE IInv'
<1>1. /\ pc = "return" /\ pc' = "app" /\ rc' = Result(rc)
      /\ avail_out' = 0 /\ flush' = "no" /\ in0' = 0 /\ out0' = 0
      /\ src' = 0 /\ tgt' = 0 /\ tgt_exp' = 0 /\ loop_cnt' = 0 /\ faults' = 0
      /\ UNCHANGED <<strm, nin, avail_in, fault, hvars, total_out, user, fifoVars, engineVars, resets>>
  BY DEF InfReturn
<1>2. UNCHANGED dataVars /\ failed' = failed
  BY <1>1 DEF dataVars, engineVars
<1>3. UNCHANGED <<wrap, inf_state, inf_held, length, gzflags, dict_len>> /\ UNCHANGED <<strm, nin, avail_in>>
  BY <1>1 DEF hvars
<1>4. UNCHANGED <<fifo_out, used_in, used_out, resuming, is_final, in_subc, trailer, item>>
  BY <1>2, DataParts
<1>5. rc' = rc \/ (rc = "OK" /\ rc' = "BUF_ERROR")
  BY <1>1 DEF Result
<1>6. HeaderTypes'
  BY <1>1, HeaderTypesKept DEF IInv, Types
<1>7. CallTypes'
  BY <1>1, <1>5, Consts DEF IInv, Types, CallTypes
<1>8. FreshInv'
  BY <1>1, <1>3, <1>4, <1>5 DEF IInv, FreshInv
<1>9. DictInv'
  BY <1>1, <1>3, <1>4, <1>5 DEF IInv, DictInv
<1>10. JobInv'
  BY <1>1 DEF JobInv
<1>11. EndInv'
  BY <1>1, <1>3, <1>4, EndKept DEF IInv
<1> QED
  BY <1>2, <1>3, <1>6, <1>7, <1>8, <1>9, <1>10, <1>11, FlagFacts, ControlInv

LEMMA CallNoMemoryInv == ASSUME IInv, CallNoMemory PROVE IInv'
<1>1. /\ pc = "app" /\ rc = "OK" /\ rc' = "MEM_ERROR" /\ pc' = pc
      /\ UNCHANGED <<strm, nin, avail_in, fault, hvars>> /\ UNCHANGED bodyVars
  BY DEF CallNoMemory
<1>2. /\ UNCHANGED dataVars
      /\ UNCHANGED <<avail_out, flush, in0, out0, src, tgt, tgt_exp, loop_cnt, faults, failed, resets>>
      /\ UNCHANGED <<fifo_out, used_in, used_out, resuming, is_final, in_subc, trailer, item>>
  BY <1>1, BodyParts, DataParts
<1>3. UNCHANGED <<wrap, inf_state, inf_held, length, gzflags, dict_len>> /\ UNCHANGED <<strm, nin, avail_in>>
  BY <1>1 DEF hvars
<1>4. HeaderTypes'
  BY <1>1, HeaderTypesKept DEF IInv, Types
<1>5. CallTypes'
  BY <1>1, <1>2 DEF IInv, Types, CallTypes
<1>6. FreshInv'
  BY <1>1, <1>2, <1>3 DEF IInv, FreshInv
<1>7. DictInv'
  BY <1>1, <1>2, <1>3 DEF IInv, DictInv
<1>8. JobInv'
  BY <1>1 DEF JobInv
<1>9. EndInv'
  BY <1>1, <1>2, <1>3, EndKept DEF IInv
<1> QED
  BY <1>2, <1>3, <1>4, <1>5, <1>6, <1>7, <1>8, <1>9, FlagFacts, ControlInv

\* A dictionary may come late, but not when half a byte is left.
LEMMA SetDictionaryInv ==
  ASSUME IInv, NEW right, SetDictionary(right), UNCHANGED bodyVars
  PROVE  IInv'
<1>1. /\ pc = "app" /\ pc' = pc
      /\ rc = "NEED_DICT" \/ (rc = "OK" /\ nin = 0)
      /\ dict_len' = (dict_len \/ TakesDictionary(right))
      /\ rc' \in {rc, "OK"}
      /\ UNCHANGED <<strm, nin, avail_in, fault, wrap, inf_state, inf_held, length, gzflags,
                     ckidx, cksum, hcrc16, gzhead>>
  BY DEF SetDictionary
<1>2. /\ UNCHANGED dataVars
      /\ UNCHANGED <<avail_out, flush, in0, out0, src, tgt, tgt_exp, loop_cnt, faults, failed, resets>>
      /\ UNCHANGED <<fifo_out, used_in, used_out, resuming, is_final, in_subc, trailer, item>>
  BY <1>1, BodyParts, DataParts
<1>3. HeaderTypes'
  BY <1>1 DEF IInv, Types, HeaderTypes
<1>4. CallTypes'
  BY <1>1, <1>2 DEF IInv, Types, CallTypes
<1>5. FreshInv'
  BY <1>1, <1>2 DEF IInv, FreshInv
<1>6. DictInv'
  <2>1. rc = "NEED_DICT" => ~resuming
    BY <1>1 DEF IInv, FreshInv
  <2>2. ~(resuming /\ ~is_final /\ in_subc # 0)
    BY <1>1, <2>1 DEF IInv, DictInv
  <2> QED BY <1>2, <2>2 DEF DictInv
<1>7. JobInv'
  BY <1>1 DEF JobInv
<1>8. EndInv'
  BY <1>1, <1>2, EndKept DEF IInv
<1>9. dict_len' \in BOOLEAN
  BY <1>1, FlagFacts DEF TakesDictionary
<1> QED
  BY <1>1, <1>2, <1>3, <1>4, <1>5, <1>6, <1>7, <1>8, <1>9, FlagFacts, ControlInv

LEMMA GetHeaderInv == ASSUME IInv, GetHeader, UNCHANGED bodyVars PROVE IInv'
<1>1. /\ pc = "app" /\ pc' = pc /\ rc' = rc /\ gzhead' = "reading"
      /\ UNCHANGED <<strm, nin, avail_in, fault, wrap, inf_state, inf_held, length, gzflags,
                     ckidx, cksum, hcrc16, dict_len>>
  BY DEF GetHeader
<1>2. /\ UNCHANGED dataVars
      /\ UNCHANGED <<avail_out, flush, in0, out0, src, tgt, tgt_exp, loop_cnt, faults, failed, resets>>
      /\ UNCHANGED <<fifo_out, used_in, used_out, resuming, is_final, in_subc, trailer, item>>
  BY <1>1, BodyParts, DataParts
<1>3. HeaderTypes'
  BY <1>1 DEF IInv, Types, HeaderTypes
<1>4. CallTypes'
  BY <1>1, <1>2 DEF IInv, Types, CallTypes
<1>5. FreshInv'
  BY <1>1, <1>2 DEF IInv, FreshInv
<1>6. DictInv'
  BY <1>1, <1>2 DEF IInv, DictInv
<1>7. JobInv'
  BY <1>1 DEF JobInv
<1>8. EndInv'
  BY <1>1, <1>2, EndKept DEF IInv
<1> QED
  BY <1>1, <1>2, <1>3, <1>4, <1>5, <1>6, <1>7, <1>8, FlagFacts, ControlInv

LEMMA BlankIs == ASSUME NEW n \in Nat PROVE Blank(n) \in [0..n - 1 -> Nat]
  BY DEF Blank

LEMMA CallInv ==
  ASSUME IInv, NEW n \in Nat, NEW r \in Nat, NEW fl \in {"no", "sync", "finish"}, Call(n, r, fl)
  PROVE  IInv'
<1>1. /\ pc = "app" /\ rc \in {"OK", "BUF_ERROR", "NEED_DICT", "STREAM_END"}
      /\ nin + avail_in + n <= FileLen(strm)
      /\ pc' = "header" /\ avail_in' = avail_in + n /\ avail_out' = r /\ flush' = fl
      /\ in0' = nin /\ out0' = total_out
      /\ fifo_out' = IF fifo_out = NULL THEN Blank(LenOut) ELSE fifo_out
      /\ UNCHANGED <<strm, rc, nin, fault, hvars, total_out, user, fifo_in, used_in, cur_in,
                     used_out, cur_out, engineVars, jobVars, resets>>
  BY DEF Call
<1>2. /\ UNCHANGED <<strm, rc, nin, fault, total_out, user, fifo_in, used_in, cur_in, used_out, cur_out>>
      /\ UNCHANGED <<wrap, inf_state, inf_held, length, gzflags, ckidx, cksum, hcrc16, gzhead, dict_len>>
      /\ UNCHANGED <<history_len, resuming, is_final, in_subc, comp_ratio, crc, trailer, item, failed>>
      /\ UNCHANGED <<src, tgt, tgt_exp, loop_cnt, faults, resets>>
  BY <1>1 DEF hvars, engineVars, jobVars
<1>3. Blank(LenOut) \in [0..LenOut - 1 -> Nat] /\ Blank(LenOut) # NULL
  BY Consts, BlankIs, NullFacts
<1>4. fifo_out' # NULL
  BY <1>1, <1>3
<1>5. Types'
  <2>1. HeaderTypes'
    <3> DEFINE l == FileLen(strm)
    <3>0. nin \in Nat /\ avail_in \in Nat /\ l \in Nat /\ nin + avail_in + n <= l
      BY <1>1, Numbers, FileNat, HeaderFacts
    <3> HIDE DEF l
    <3>1. nin \in Nat /\ avail_in \in Nat /\ avail_in + n \in Nat /\ nin + (avail_in + n) <= l
      BY <3>0
    <3> QED BY <1>1, <1>2, <3>1 DEF IInv, Types, HeaderTypes, l
  <2>2. CallTypes'
    BY <1>1, <1>2, Numbers DEF IInv, Types, CallTypes
  <2>3. FifoTypes'
    BY <1>1, <1>2, <1>3 DEF IInv, Types, FifoTypes
  <2>4. EngineTypes'
    BY <1>2, EngineKept DEF IInv, Types
  <2>5. Flags'
    BY <1>2, Zenon DEF IInv, Types, Flags
  <2> QED BY <2>1, <2>2, <2>3, <2>4, <2>5 DEF Types
<1>6. HeaderInv'
  BY <1>2, HeaderKept DEF IInv
<1>7. FreshInv'
  BY <1>1, <1>2, <1>4 DEF IInv, FreshInv
<1>8. CachedInv'
  BY <1>2, InKept DEF IInv
<1>9. HistoryInv'
  <2>1. CASE fifo_out # NULL
    BY <1>1, <1>2, <2>1, OutKept DEF IInv
  <2>2. CASE fifo_out = NULL
    <3>1. item = 0
      BY <2>2 DEF IInv, FreshInv
    <3>2. OutAt(strm, item) = 0
      BY <3>1, Streams, ItemFacts DEF IInv
    <3>3. Holds(fifo_out', cur_out', total_out', 0)
      BY DEF Holds
    <3> QED BY <1>2, <3>2, <3>3 DEF IInv, HistoryInv
  <2> QED BY <2>1, <2>2
<1>10. FeedInv'
  BY <1>2, FeedKept DEF IInv
<1>11. DictInv'
  BY <1>1, <1>2 DEF IInv, DictInv
<1>12. JobInv'
  BY <1>1 DEF JobInv
<1>13. EndInv'
  BY <1>1, <1>2, EndKept DEF IInv
<1>14. OutputRight'
  BY <1>2, UserKept DEF IInv
<1> QED
  BY <1>5, <1>6, <1>7, <1>8, <1>9, <1>10, <1>11, <1>12, <1>13, <1>14 DEF IInv

LEMMA ResetInv ==
  ASSUME IInv, NEW m \in Members, NEW w \in Wraps \cup {wrap}, Reset(m, w)
  PROVE  IInv'
<1>1. /\ pc = "app" /\ wrap' = w /\ (IF w = {} THEN m.fmt = "raw" ELSE m.fmt \in w)
      /\ resets' = resets + 1
      /\ strm' = m /\ pc' = "app" /\ rc' = "OK" /\ fault' = "none"
      /\ nin' = 0 /\ avail_in' = 0
      /\ inf_state' = "header" /\ ckidx' = 0 /\ cksum' = 0 /\ gzhead' = NULL
      /\ total_out' = 0 /\ user' = <<>>
      /\ used_in' = 0 /\ cur_in' = 0
      /\ used_out' = 0 /\ cur_out' = Window
      /\ history_len' = 0 /\ resuming' = FALSE /\ is_final' = FALSE
      /\ crc' = 0 /\ trailer' = <<>>
      /\ item' = 0 /\ failed' = FALSE
      /\ UNCHANGED <<inf_held, length, gzflags, hcrc16, dict_len, fifo_in, fifo_out,
                     in_subc, comp_ratio, callVars, jobVars>>
  BY DEF Reset
<1>2. UNCHANGED <<avail_out, flush, in0, out0, src, tgt, tgt_exp, loop_cnt, faults>>
  BY <1>1 DEF callVars, jobVars
<1>3. w \subseteq {"zlib", "gzip"}
  BY HeaderAssumption, HeaderFacts
<1>4. w = {} <=> m.fmt = "raw"
  BY <1>1, <1>3
<1>5. <<>> \in Seq(Nat) /\ Len(<<>>) = 0
  BY EmptySeq
<1>6. /\ Len(m.bit) \in Nat \ {0} /\ BitAt(m, 0) = 0 /\ OutAt(m, 0) = 0 /\ FileLen(m) \in Nat
  BY MemberFacts, ItemFacts, FileNat
<1>7. Types'
  <2>1. HeaderTypes'
    <3>1. 0 + 0 <= FileLen(m) /\ 0 \in Nat
      BY <1>6
    <3>2. inf_held \in Nat /\ length \in Nat /\ hcrc16 \in Nat
          /\ gzflags \subseteq {"hcrc", "extra", "name"}
      BY DEF IInv, Types, HeaderTypes
    <3> QED BY <1>1, <1>3, <3>1, <3>2 DEF HeaderTypes
  <2>2. CallTypes'
    BY <1>1, <1>2 DEF IInv, Types, CallTypes
  <2>3. FifoTypes'
    BY <1>1, <1>5, Numbers, Consts DEF IInv, Types, FifoTypes
  <2>4. EngineTypes'
    BY <1>1, <1>5, <1>6 DEF IInv, Types, EngineTypes
  <2>5. Flags'
    BY <1>1, Zenon DEF IInv, Types, Flags
  <2> QED BY <2>1, <2>2, <2>3, <2>4, <2>5 DEF Types
<1>8. HeaderInv'
  BY <1>1, <1>4 DEF HeaderInv
<1>9. FreshInv'
  BY <1>1 DEF FreshInv
<1>10. CachedInv' /\ HistoryInv'
  BY <1>1, <1>6, Consts DEF CachedInv, Cached, HistoryInv, Holds, AtMost
<1>11. FeedInv' /\ DictInv' /\ JobInv'
  BY <1>1 DEF FeedInv, DictInv, JobInv
<1>12. EndInv' /\ OutputRight'
  BY <1>1 DEF EndInv, OutputRight
<1> QED BY <1>7, <1>8, <1>9, <1>10, <1>11, <1>12 DEF IInv

-----------------------------------------------------------------------------
\* The buffers.  Moving what is of use to the beginning loses nothing of it.
LEMMA OutCheckIs ==
  ASSUME NEW f \in [0..LenOut - 1 -> Nat], NEW cur \in Nat, NEW used \in Nat,
         Window <= cur, cur + used <= LenOut
  PROVE  /\ OutCheck(f, cur, used) \in [0..LenOut - 1 -> Nat]
         /\ cur <= LenOut \div 2 => OutCheck(f, cur, used) = f
         /\ cur > LenOut \div 2 =>
              \A i \in 0..LenOut - 1 :
                i < Window + used => OutCheck(f, cur, used)[i] = f[cur - Window + i]
<1>1. LenOut \in Nat /\ Window \in Nat /\ LenOut \div 2 \in Nat
  BY Consts
<1>2. CASE cur <= LenOut \div 2
  <2>1. OutCheck(f, cur, used) = f
    BY <1>1, <1>2 DEF OutCheck
  <2> QED BY <1>1, <1>2, <2>1
<1>3. CASE cur > LenOut \div 2
  <2> DEFINE g == [i \in 0..LenOut - 1 |-> IF i < Window + used THEN f[cur - Window + i] ELSE f[i]]
  <2>1. OutCheck(f, cur, used) = g
    <3>1. OutCheck(f, cur, used) =
            [i \in DOMAIN f |-> IF 0 <= i /\ i < 0 + (Window + used) THEN f[cur - Window + (i - 0)] ELSE f[i]]
      BY <1>3 DEF OutCheck, Moved
    <3>2. DOMAIN f = 0..LenOut - 1
      OBVIOUS
    <3> QED BY <1>1, <3>1, <3>2
  <2>2. ASSUME NEW i \in 0..LenOut - 1, i < Window + used
        PROVE  cur - Window + i \in 0..LenOut - 1
    BY <1>1, <2>2
  <2>3. g \in [0..LenOut - 1 -> Nat]
    BY <2>2
  <2> QED BY <1>1, <1>3, <2>1, <2>3
<1> QED BY <1>1, <1>2, <1>3

LEMMA OutCheckKeeps ==
  ASSUME NEW f \in [0..LenOut - 1 -> Nat], NEW cur \in Nat, NEW used \in Nat,
         Window <= cur, cur + used <= LenOut,
         NEW given \in Nat, NEW all, all = given + used, Holds(f, cur, given, all)
  PROVE  Holds(OutCheck(f, cur, used), OutCur(cur), given, all)
<1>1. LenOut \in Nat /\ Window \in Nat \ {0} /\ LenOut \div 2 \in Nat
  BY Consts
<1>2. CASE cur <= LenOut \div 2
  BY <1>1, <1>2, OutCheckIs DEF OutCur
<1>3. CASE cur > LenOut \div 2
  <2> DEFINE g == OutCheck(f, cur, used)
  <2>1. \A i \in 0..LenOut - 1 : i < Window + used => g[i] = f[cur - Window + i]
    BY <1>3, OutCheckIs
  <2> HIDE DEF g
  <2>2. ASSUME NEW p \in 1..all, p > all - Window \/ p > given
        PROVE  g[Window - given + p - 1] = p
    <3>1. f[cur - given + p - 1] = p
      BY <2>2 DEF Holds
    <3> DEFINE i == Window - given + p - 1
    <3>2. i \in 0..LenOut - 1 /\ i < Window + used /\ cur - Window + i = cur - given + p - 1
      BY <1>1, <2>2
    <3>3. g[i] = f[cur - Window + i]
      BY <2>1, <3>2
    <3> QED BY <3>1, <3>2, <3>3
  <2>3. OutCur(cur) = Window
    BY <1>3 DEF OutCur
  <2> QED BY <2>2, <2>3 DEF Holds, g
<1> QED BY <1>1, <1>2, <1>3

LEMMA OutCurIs ==
  ASSUME NEW cur \in Nat, NEW used \in Nat, Window <= cur, cur + used <= LenOut
  PROVE  /\ OutCur(cur) \in Nat /\ OutCur(cur) \in Window..LenOut \div 2
         /\ OutCur(cur) + used <= LenOut
<1>1. LenOut \in Nat /\ Window \in Nat \ {0} /\ LenOut >= 4 * Window
  BY Consts
<1>2. LenOut \div 2 \in Nat /\ Window <= LenOut \div 2
  BY <1>1
<1> QED BY <1>1, <1>2 DEF OutCur

LEMMA InCheckIs ==
  ASSUME NEW f \in [0..LenIn - 1 -> Nat], NEW cur \in Nat, NEW used \in Nat, cur + used <= LenIn
  PROVE  /\ InCheck(f, cur, used) \in [0..LenIn - 1 -> Nat]
         /\ cur <= Threshold => InCheck(f, cur, used) = f
         /\ cur > Threshold =>
              \A i \in 0..LenIn - 1 : i < used => InCheck(f, cur, used)[i] = f[cur + i]
<1>1. LenIn \in Nat /\ Threshold \in Nat
  BY Consts DEF LenIn
<1>2. CASE cur <= Threshold
  <2>1. InCheck(f, cur, used) = f
    BY <1>1, <1>2 DEF InCheck
  <2> QED BY <1>1, <1>2, <2>1
<1>3. CASE cur > Threshold
  <2> DEFINE g == [i \in 0..LenIn - 1 |-> IF i < used THEN f[cur + i] ELSE f[i]]
  <2>1. InCheck(f, cur, used) = g
    <3>1. InCheck(f, cur, used) =
            [i \in DOMAIN f |-> IF 0 <= i /\ i < 0 + used THEN f[cur + (i - 0)] ELSE f[i]]
      BY <1>3 DEF InCheck, Moved
    <3>2. DOMAIN f = 0..LenIn - 1
      OBVIOUS
    <3> QED BY <1>1, <3>1, <3>2
  <2>2. ASSUME NEW i \in 0..LenIn - 1, i < used
        PROVE  cur + i \in 0..LenIn - 1
    BY <1>1, <2>2
  <2>3. g \in [0..LenIn - 1 -> Nat]
    BY <2>2
  <2> QED BY <1>1, <1>3, <2>1, <2>3
<1> QED BY <1>1, <1>2, <1>3

LEMMA InCheckKeeps ==
  ASSUME NEW f \in [0..LenIn - 1 -> Nat], NEW cur \in Nat, NEW used \in Nat, cur + used <= LenIn,
         NEW place \in Int, Cached(f, cur, used, place)
  PROVE  Cached(InCheck(f, cur, used), InCur(cur), used, place)
<1>1. LenIn \in Nat /\ Threshold \in Nat
  BY Consts DEF LenIn
<1>2. CASE cur <= Threshold
  BY <1>1, <1>2, InCheckIs DEF InCur
<1>3. CASE cur > Threshold
  <2> DEFINE g == InCheck(f, cur, used)
  <2>1. \A i \in 0..LenIn - 1 : i < used => g[i] = f[cur + i]
    BY <1>3, InCheckIs
  <2> HIDE DEF g
  <2>2. ASSUME NEW k \in 0..used - 1 PROVE g[0 + k] = place + k + 1
    <3>1. f[cur + k] = place + k + 1
      BY <2>2 DEF Cached
    <3>2. k \in 0..LenIn - 1 /\ k < used /\ 0 + k = k
      BY <1>1, <2>2
    <3> QED BY <2>1, <3>1, <3>2
  <2>3. InCur(cur) = 0
    BY <1>3 DEF InCur
  <2> QED BY <2>2, <2>3 DEF Cached, g
<1> QED BY <1>1, <1>2, <1>3

LEMMA InCurIs ==
  ASSUME NEW cur \in Nat
  PROVE  InCur(cur) \in Nat /\ InCur(cur) <= cur
<1>1. Threshold \in Nat
  BY Consts
<1> QED BY <1>1 DEF InCur

-----------------------------------------------------------------------------
\* The output buffer is drained.
LEMMA UserGrows ==
  ASSUME user \in Seq(Nat), total_out \in Nat, Len(user) = total_out, OutputRight,
         NEW n \in Nat, NEW s \in Seq(Nat), Len(s) = n, \A k \in 1..n : s[k] = total_out + k,
         user' = user \o s, total_out' = total_out + n
  PROVE  user' \in Seq(Nat) /\ Len(user') = total_out' /\ OutputRight'
<1>1. user \o s \in Seq(Nat) /\ Len(user \o s) = total_out + n
  BY ConcatProperties
<1>2. ASSUME NEW i \in 1..total_out + n PROVE (user \o s)[i] = i
  <2>1. CASE i <= total_out
    <3>1. (user \o s)[i] = user[i] /\ i \in 1..total_out
      BY <2>1, ConcatProperties
    <3> QED BY <3>1 DEF OutputRight
  <2>2. CASE i > total_out
    <3>1. (user \o s)[i] = s[i - total_out] /\ i - total_out \in 1..n
      BY <2>2, ConcatProperties
    <3> QED BY <3>1
  <2> QED BY <2>1, <2>2
<1> QED BY <1>1, <1>2 DEF OutputRight

\* The bytes that wait in fifo_out from cur_out on are the next ones.
LEMMA Waiting ==
  ASSUME NEW f, NEW cur \in Nat, NEW given \in Nat, NEW used \in Nat,
         Holds(f, cur, given, given + used), NEW k \in 1..used
  PROVE  f[cur + (k - 1)] = given + k
<1> DEFINE p == given + k
<1>1. p \in 1..(given + used) /\ p > given /\ cur - given + p - 1 = cur + (k - 1)
  OBVIOUS
<1>2. f[cur - given + p - 1] = p
  BY <1>1 DEF Holds
<1> QED BY <1>1, <1>2

LEMMA HoldsAfter ==
  ASSUME NEW f, NEW cur \in Nat, NEW given \in Nat, NEW all \in Nat,
         Holds(f, cur, given, all), NEW w \in Nat
  PROVE  Holds(f, cur + w, given + w, all)
<1> SUFFICES ASSUME NEW p \in 1..all, p > all - Window \/ p > given + w
             PROVE  f[(cur + w) - (given + w) + p - 1] = p
  BY DEF Holds
<1>1. p > all - Window \/ p > given
  OBVIOUS
<1>2. f[cur - given + p - 1] = p
  BY <1>1 DEF Holds
<1>3. (cur + w) - (given + w) + p - 1 = cur - given + p - 1
  OBVIOUS
<1> QED BY <1>2, <1>3

LEMMA DrainInv == ASSUME IInv, Drain PROVE IInv'
<1> DEFINE w == AtMost(used_out, avail_out)
           s == [k \in 1..w |-> fifo_out[cur_out + (k - 1)]]
           f == IF w = 0 THEN fifo_out ELSE OutCheck(fifo_out, cur_out + w, used_out - w)
           c == IF w = 0 THEN cur_out ELSE OutCur(cur_out + w)
           all == OutAt(strm, item)
<1>1. /\ pc = "loop" /\ loop_cnt + 1 < MaxLoops /\ used_out > 0 /\ loop_cnt' = loop_cnt + 1
      /\ user' = user \o s /\ total_out' = total_out + w /\ avail_out' = avail_out - w
      /\ used_out' = used_out - w /\ fifo_out' = f /\ cur_out' = c
      /\ UNCHANGED <<strm, nin, avail_in, fault, hvars, flush, in0, out0, fifo_in, used_in, cur_in,
                     engineVars, src, tgt, tgt_exp, faults, resets>>
  BY DEF Drain, Give
<1>2. \/ used_out - w > 0 /\ pc' = "return" /\ rc' = "OK"
      \/ ~(used_out - w > 0) /\ is_final /\ pc' = "verify" /\ rc' = rc
      \/ ~(used_out - w > 0) /\ ~is_final /\ pc' = "feed" /\ rc' = rc
  BY DEF Drain, Returns
<1>3. /\ UNCHANGED <<strm, nin, avail_in, fault, flush, in0, out0, fifo_in, used_in, cur_in>>
      /\ UNCHANGED <<wrap, inf_state, inf_held, length, gzflags, dict_len>>
      /\ UNCHANGED <<history_len, resuming, is_final, in_subc, comp_ratio, crc, trailer, item, failed>>
      /\ UNCHANGED <<src, tgt, tgt_exp, faults, resets>>
  BY <1>1 DEF hvars, engineVars
<1>4. /\ inf_state = "inflate" /\ fifo_out # NULL /\ fifo_out \in [0..LenOut - 1 -> Nat]
  <2>1. inf_state = "inflate" /\ fifo_out # NULL
    BY <1>1, InBody DEF Body
  <2> QED BY <2>1 DEF IInv, Types, FifoTypes
<1>5. w \in Nat /\ w <= used_out /\ w <= avail_out
  BY Numbers, LeastNat
<1>6. total_out + used_out = all /\ Holds(fifo_out, cur_out, total_out, all)
  BY <1>1 DEF IInv, Types, EngineTypes, HistoryInv
<1>7. /\ \A k \in 1..used_out : fifo_out[cur_out + (k - 1)] = total_out + k
      /\ Holds(fifo_out, cur_out + w, total_out + w, all)
  <2>1. w \in Nat /\ cur_out \in Nat /\ total_out \in Nat /\ used_out \in Nat
    BY <1>5, Numbers
  <2> HIDE DEF w, all
  <2>2. all = total_out + used_out /\ all \in Nat /\ Holds(fifo_out, cur_out, total_out, total_out + used_out)
    BY <1>6, <2>1
  <2>3. \A k \in 1..used_out : fifo_out[cur_out + (k - 1)] = total_out + k
    <3> TAKE k \in 1..used_out
    <3>1. Holds(fifo_out, cur_out, total_out, total_out + used_out)
      BY <2>2
    <3>2. k \in 1..used_out /\ cur_out \in Nat /\ total_out \in Nat /\ used_out \in Nat
      BY <2>1
    <3> QED BY ONLY <3>1, <3>2, Waiting, Zenon
  <2>4. Holds(fifo_out, cur_out + w, total_out + w, all)
    BY <1>6, <2>1, <2>2, HoldsAfter
  <2> QED BY <2>3, <2>4
<1>8. s \in Seq(Nat) /\ Len(s) = w /\ \A k \in 1..w : s[k] = total_out + k
  <2> HIDE DEF w, all
  <2>1. \A k \in 1..w : fifo_out[cur_out + (k - 1)] = total_out + k
    BY <1>5, <1>7, Numbers
  <2>2. s = [k \in 1..w |-> total_out + k]
    BY <2>1
  <2>3. w \in Nat /\ total_out \in Nat
    BY <1>5, Numbers
  <2> HIDE DEF s
  <2> QED BY <2>2, <2>3
<1> HIDE DEF w, s, all
<1>9. /\ cur_out + w \in Nat /\ used_out - w \in Nat /\ avail_out - w \in Nat /\ total_out + w \in Nat
      /\ Window <= cur_out + w /\ (cur_out + w) + (used_out - w) <= LenOut
      /\ (total_out + w) + (used_out - w) = all
  BY <1>5, <1>6, Numbers, Consts
<1>10. /\ f \in [0..LenOut - 1 -> Nat] /\ Holds(f, c, total_out + w, all)
       /\ c \in Nat /\ c \in Window..LenOut \div 2 /\ c + (used_out - w) <= LenOut
  <2>1. CASE w = 0
    <3>1. f = fifo_out /\ c = cur_out /\ total_out + w = total_out /\ used_out - w = used_out
      BY <2>1, Numbers
    <3>2. c \in Nat /\ c \in Window..LenOut \div 2 /\ c + (used_out - w) <= LenOut
      BY <3>1, Numbers, Consts
    <3> QED BY <1>4, <1>6, <3>1, <3>2
  <2>2. CASE w # 0
    <3>1. f = OutCheck(fifo_out, cur_out + w, used_out - w) /\ c = OutCur(cur_out + w)
      BY <2>2
    <3>2. f \in [0..LenOut - 1 -> Nat]
      BY <1>4, <1>9, <3>1, OutCheckIs
    <3>3. Holds(f, c, total_out + w, all)
      BY <1>4, <1>7, <1>9, <3>1, OutCheckKeeps
    <3>4. c \in Nat /\ c \in Window..LenOut \div 2 /\ c + (used_out - w) <= LenOut
      BY <1>9, <3>1, OutCurIs
    <3> QED BY <3>2, <3>3, <3>4
  <2> QED BY <2>1, <2>2
<1> HIDE DEF f, c
<1>11. user' \in Seq(Nat) /\ Len(user') = total_out' /\ OutputRight'
  <2>1. user \in Seq(Nat) /\ total_out \in Nat /\ Len(user) = total_out /\ OutputRight
    BY DEF IInv, Types, FifoTypes
  <2> QED BY <1>1, <1>5, <1>8, <2>1, UserGrows
<1>12. Types'
  <2>1. HeaderTypes'
    BY <1>1, HeaderTypesKept DEF IInv, Types
  <2>2. CallTypes'
    <3>1. loop_cnt \in Nat /\ loop_cnt + 1 \in Nat
      <4>1. loop_cnt \in Nat
        BY DEF IInv, Types, CallTypes
      <4> QED BY <4>1
    <3> QED BY <1>1, <1>2, <1>3, <1>9, <3>1 DEF IInv, Types, CallTypes
  <2>3. FifoTypes'
    <3>1. total_out' \in Nat /\ used_out' \in Nat
      BY <1>1, <1>9
    <3> QED BY <1>1, <1>3, <1>10, <1>11, <3>1 DEF IInv, Types, FifoTypes
  <2>4. EngineTypes'
    <3>1. total_out' + used_out' = all
      BY <1>1, <1>9
    <3>2. OutAt(strm, item)' = all
      BY <1>3 DEF all
    <3> QED BY <1>3, <3>1, <3>2 DEF IInv, Types, EngineTypes
  <2>5. Flags'
    BY <1>3, Zenon DEF IInv, Types, Flags
  <2> QED BY <2>1, <2>2, <2>3, <2>4, <2>5 DEF Types
<1>13. HeaderInv'
  BY <1>3, HeaderKept DEF IInv
<1>14. FreshInv'
  <2>1. f # NULL
    BY <1>10, NullFacts
  <2> QED BY <1>1, <1>2, <1>3, <1>4, <2>1 DEF IInv, FreshInv
<1>15. CachedInv' /\ HistoryInv'
  <2>1. Holds(fifo_out', cur_out', total_out', OutAt(strm', item'))
    BY <1>1, <1>3, <1>10 DEF all
  <2>2. history_len' = AtMost(OutAt(strm', item'), Window)
    BY <1>3 DEF IInv, HistoryInv
  <2> QED BY <1>3, <2>1, <2>2, InKept DEF IInv, HistoryInv
<1>16. FeedInv'
  BY <1>3, FeedKept DEF IInv
<1>17. DictInv'
  <2>1. ~(nin = 0 /\ resuming /\ ~is_final /\ in_subc # 0)
    BY <1>1, AtFirstByte
  <2> QED BY <1>3, <2>1 DEF IInv, DictInv
<1>18. JobInv'
  <2>1. ~(used_out - w > 0) => used_out' = 0
    BY <1>1, <1>9
  <2> QED BY <1>2, <1>3, <2>1 DEF JobInv
<1>19. EndInv'
  BY <1>2, <1>3, EndKept DEF IInv, EndInv
<1> QED
  BY <1>11, <1>12, <1>13, <1>14, <1>15, <1>16, <1>17, <1>18, <1>19 DEF IInv

-----------------------------------------------------------------------------
\* Input is cached behind what waits.
LEMMA CachedMore ==
  ASSUME NEW f \in [0..LenIn - 1 -> Nat], NEW cur \in Nat, NEW used \in Nat, NEW n \in Nat,
         cur + used + n <= LenIn, NEW from \in Nat, Cached(f, cur, used, from - used)
  PROVE  /\ Moved(f, cur + used, n, LAMBDA k : from + k + 1) \in [0..LenIn - 1 -> Nat]
         /\ Cached(Moved(f, cur + used, n, LAMBDA k : from + k + 1), cur, used + n, from - used)
<1>1. LenIn \in Nat
  BY Consts DEF LenIn
<1> DEFINE g == [i \in 0..LenIn - 1 |->
                  IF cur + used <= i /\ i < cur + used + n THEN from + (i - (cur + used)) + 1 ELSE f[i]]
<1>2. Moved(f, cur + used, n, LAMBDA k : from + k + 1) = g
  <2>1. Moved(f, cur + used, n, LAMBDA k : from + k + 1) =
          [i \in DOMAIN f |->
            IF cur + used <= i /\ i < cur + used + n THEN from + (i - (cur + used)) + 1 ELSE f[i]]
    BY DEF Moved
  <2>2. DOMAIN f = 0..LenIn - 1
    OBVIOUS
  <2> QED BY <2>1, <2>2
<1>3. g \in [0..LenIn - 1 -> Nat]
  <2>1. ASSUME NEW i \in 0..LenIn - 1, cur + used <= i PROVE from + (i - (cur + used)) + 1 \in Nat
    BY <1>1, <2>1
  <2> QED BY <2>1
<1>4. ASSUME NEW k \in 0..(used + n) - 1 PROVE g[cur + k] = (from - used) + k + 1
  <2>1. cur + k \in 0..LenIn - 1
    BY <1>1
  <2>2. CASE k < used
    <3>1. g[cur + k] = f[cur + k] /\ k \in 0..used - 1
      BY <2>1, <2>2
    <3> QED BY <3>1 DEF Cached
  <2>3. CASE k >= used
    <3>1. cur + used <= cur + k /\ cur + k < cur + used + n
      BY <2>3
    <3>2. g[cur + k] = from + ((cur + k) - (cur + used)) + 1
      BY <2>1, <3>1
    <3> QED BY <3>2
  <2> QED BY <2>2, <2>3
<1> QED BY <1>2, <1>3, <1>4 DEF Cached

LEMMA CacheInv == ASSUME IInv, Cache PROVE IInv'
<1> DEFINE old == IF fifo_in = NULL THEN Blank(LenIn) ELSE fifo_in
           cur == InCur(OldCur)
           n == ReadSize(cur)
           g == InCheck(old, OldCur, used_in)
           f == Moved(g, cur + used_in, n, LAMBDA k : nin + k + 1)
<1>1. /\ pc = "cache" /\ pc' = "return" /\ rc' = "OK"
      /\ fifo_in' = f /\ cur_in' = cur /\ used_in' = used_in + n
      /\ nin' = nin + n /\ avail_in' = avail_in - n
      /\ UNCHANGED <<strm, fault, hvars, callVars, total_out, user, fifo_out, used_out, cur_out,
                     engineVars, jobVars, resets>>
  BY DEF Cache, Returns
<1>2. /\ UNCHANGED <<strm, fault, total_out, user, fifo_out, used_out, cur_out>>
      /\ UNCHANGED <<wrap, inf_state, inf_held, length, gzflags, ckidx, cksum, hcrc16, gzhead, dict_len>>
      /\ UNCHANGED <<history_len, resuming, is_final, in_subc, comp_ratio, crc, trailer, item, failed>>
      /\ UNCHANGED <<src, tgt, tgt_exp, loop_cnt, faults, resets>>
      /\ UNCHANGED <<avail_out, flush, in0, out0>>
  BY <1>1 DEF hvars, engineVars, jobVars, callVars
<1>3. inf_state = "inflate" /\ fifo_out # NULL /\ ~is_final /\ used_out = 0
  <2>1. inf_state = "inflate" /\ fifo_out # NULL
    BY <1>1, InBody DEF Body
  <2> QED BY <1>1, <2>1 DEF IInv, JobInv
<1>4. old \in [0..LenIn - 1 -> Nat]
  <2>1. CASE fifo_in = NULL
    BY <2>1, Numbers, BlankIs
  <2>2. CASE fifo_in # NULL
    BY <2>2 DEF IInv, Types, FifoTypes
  <2> QED BY <2>1, <2>2
<1>5. OldCur \in Nat /\ OldCur + used_in <= LenIn
  BY Numbers DEF OldCur
<1>6. Cached(old, OldCur, used_in, nin - used_in)
  <2>1. CASE used_in = 0
    BY <2>1 DEF Cached
  <2>2. CASE used_in # 0
    <3>1. used_in > 0
      BY <2>2, Numbers
    <3>2. old = fifo_in /\ OldCur = cur_in
      BY <2>2, <3>1 DEF OldCur, IInv, Types, FifoTypes
    <3> QED BY <3>2 DEF IInv, CachedInv, Place
  <2> QED BY <2>1, <2>2
<1> HIDE DEF old
<1>7. cur \in Nat /\ cur <= OldCur
  BY <1>5, InCurIs
<1>8. g \in [0..LenIn - 1 -> Nat] /\ Cached(g, cur, used_in, nin - used_in)
  <2>1. used_in \in Nat /\ nin - used_in \in Int
    BY Numbers
  <2> QED BY <1>4, <1>5, <1>6, <2>1, InCheckIs, InCheckKeeps
<1> HIDE DEF g, cur
<1>9. n \in Nat /\ n <= avail_in /\ cur + used_in + n <= LenIn
  <2>1. LenIn - cur - used_in \in Nat /\ avail_in \in Nat
    BY <1>5, <1>7, Numbers
  <2>2. n \in Nat /\ n <= LenIn - cur - used_in /\ n <= avail_in
    BY <2>1, LeastNat DEF ReadSize
  <2> HIDE DEF n
  <2> QED BY <1>7, <2>1, <2>2, Numbers
<1> HIDE DEF n
<1>10. f \in [0..LenIn - 1 -> Nat] /\ Cached(f, cur, used_in + n, nin - used_in)
  BY <1>7, <1>8, <1>9, Numbers, CachedMore
<1> HIDE DEF f
<1>11. /\ nin + n \in Nat /\ avail_in - n \in Nat /\ used_in + n \in Nat
       /\ (nin + n) + (avail_in - n) = nin + avail_in
       /\ (nin + n) - (used_in + n) = nin - used_in
  BY <1>9, Numbers
<1>12. Place' = Place
  BY <1>1, <1>11 DEF Place
<1>13. Types'
  <2>1. HeaderTypes'
    <3> DEFINE l == FileLen(strm)
    <3>0. nin + avail_in <= l
      BY DEF IInv, Types, HeaderTypes
    <3>1. (nin + n) + (avail_in - n) <= l
      BY <1>11, <3>0
    <3> HIDE DEF l
    <3>2. nin' + avail_in' <= FileLen(strm')
      BY <1>1, <1>2, <3>1 DEF l
    <3>3. nin' \in Nat /\ avail_in' \in Nat
      BY <1>1, <1>11
    <3> QED BY <1>2, <3>2, <3>3 DEF IInv, Types, HeaderTypes
  <2>2. CallTypes'
    BY <1>1, <1>2 DEF IInv, Types, CallTypes
  <2>3. FifoTypes'
    <3>1. f # NULL
      BY <1>10, NullFacts
    <3>2. cur + (used_in + n) <= LenIn
      BY <1>7, <1>9, Numbers
    <3> QED BY <1>1, <1>2, <1>7, <1>10, <1>11, <3>1, <3>2 DEF IInv, Types, FifoTypes
  <2>4. EngineTypes'
    BY <1>2, EngineKept DEF IInv, Types
  <2>5. Flags'
    BY <1>2, Zenon DEF IInv, Types, Flags
  <2> QED BY <2>1, <2>2, <2>3, <2>4, <2>5 DEF Types
<1>14. HeaderInv'
  BY <1>2, <1>3 DEF IInv, HeaderInv
<1>15. FreshInv'
  BY <1>1, <1>2, <1>3 DEF FreshInv
<1>16. CachedInv' /\ HistoryInv'
  <2>1. CachedInv'
    BY <1>1, <1>10, <1>11 DEF CachedInv, Place
  <2> QED BY <1>2, <2>1, OutKept DEF IInv
<1>17. FeedInv'
  <2>1. HalfByte' = HalfByte
    BY <1>2 DEF HalfByte
  <2> QED BY <1>2, <1>12, <2>1 DEF IInv, FeedInv
<1>18. DictInv'
  <2>1. ASSUME nin' = 0, resuming, in_subc # 0 PROVE FALSE
    <3>1. nin + n = 0
      BY <1>1, <2>1
    <3>2. nin = 0 /\ n = 0
      BY <1>9, <3>1, Numbers
    <3>3. used_in = 0
      BY <1>3, <2>1, <3>2, AtFirstByte
    <3>4. avail_in > 0
      BY <1>1, <1>3, <2>1, <3>2 DEF IInv, DictInv
    <3>5. cur = 0
      BY <3>3, Consts DEF cur, InCur, OldCur
    <3>6. n = AtMost(LenIn, avail_in)
      BY <3>3, <3>5, Numbers DEF n, ReadSize
    <3> QED BY <3>2, <3>4, <3>6, Numbers DEF AtMost
  <2> QED BY <1>2, <2>1 DEF IInv, DictInv
<1>19. JobInv'
  BY <1>1 DEF JobInv
<1>20. EndInv'
  BY <1>1, <1>2, <1>3 DEF IInv, EndInv
<1>21. OutputRight'
  BY <1>2, UserKept DEF IInv
<1> QED
  BY <1>13, <1>14, <1>15, <1>16, <1>17, <1>18, <1>19, <1>20, <1>21 DEF IInv

-----------------------------------------------------------------------------
\* The trailer.
LEMMA CachedAfter ==
  ASSUME NEW f, NEW cur \in Nat, NEW used \in Nat, NEW place \in Int,
         Cached(f, cur, used, place), NEW n \in Nat, n <= used
  PROVE  Cached(f, cur + n, used - n, place + n)
<1> SUFFICES ASSUME NEW k \in 0..(used - n) - 1 PROVE f[(cur + n) + k] = (place + n) + k + 1
  BY DEF Cached
<1> DEFINE j == n + k
<1>1. j \in 0..used - 1 /\ (cur + n) + k = cur + j /\ (place + n) + k + 1 = place + j + 1
  OBVIOUS
<1>2. f[cur + j] = place + j + 1
  BY <1>1 DEF Cached
<1> QED BY <1>1, <1>2

\* The two pieces: if there is one in fifo_in, the trailer had not begun.
LEMMA Pieces ==
  ASSUME IInv, is_final
  PROVE  /\ Got1 \in Nat /\ Got1 <= used_in /\ Got2 \in Nat /\ Got2 <= avail_in
         /\ Trailer \in Seq(Nat) /\ Len(Trailer) = Len(trailer) + Got1 + Got2
         /\ Len(Trailer) <= Trailers[strm.fmt]
         /\ used_in - Got1 > 0 => Got2 = 0 /\ Len(Trailer) = Trailers[strm.fmt]
         /\ Got1 > 0 => fifo_in \in [0..LenIn - 1 -> Nat]
<1> DEFINE T == Trailers[strm.fmt]
           L == Len(trailer)
           head == IF Got1 > 0 THEN [k \in 1..Got1 |-> fifo_in[cur_in + k - 1]] ELSE trailer
           tail == [k \in 1..Got2 |-> nin + k]
<1>1. T \in Nat /\ (wrap = {} => T = 0)
  BY Streams, TrailerFacts DEF IInv, HeaderInv
<1>2. trailer \in Seq(Nat) /\ L \in Nat /\ L <= T /\ (used_in > 0 => L \in {0, T})
  <2>1. trailer \in Seq(Nat) /\ L <= T /\ (used_in > 0 => L \in {0, T})
    BY DEF IInv, Types, EngineTypes, EndInv
  <2> QED BY <2>1
<1>3. TrailerNeed = T - L /\ T - L \in Nat
  <2> HIDE DEF T, L
  <2>1. TrailerNeed = (IF (IF wrap = {} THEN 0 ELSE T) > L THEN (IF wrap = {} THEN 0 ELSE T) - L ELSE 0)
    BY DEF TrailerNeed, T, L
  <2>2. (IF wrap = {} THEN 0 ELSE T) = T
    BY <1>1
  <2> QED BY <1>1, <1>2, <2>1, <2>2
<1> HIDE DEF T, L
<1>4. Got1 \in Nat /\ Got1 <= used_in /\ Got1 <= T - L /\ (used_in - Got1 > 0 => Got1 = T - L)
  <2>1. Got1 = AtMost(used_in, T - L)
    BY <1>3 DEF Got1
  <2> QED BY <1>3, <2>1, Numbers DEF AtMost
<1>5. Got2 \in Nat /\ Got2 <= avail_in /\ Got2 <= T - L - Got1
  <2>1. Got2 = AtMost(avail_in, T - L - Got1)
    BY <1>3 DEF Got2
  <2>2. T - L - Got1 \in Nat
    BY <1>3, <1>4
  <2> QED BY <2>1, <2>2, Numbers, LeastNat
<1>6. Got1 > 0 => L = 0 /\ fifo_in \in [0..LenIn - 1 -> Nat]
  <2> SUFFICES ASSUME Got1 > 0 PROVE L = 0 /\ fifo_in \in [0..LenIn - 1 -> Nat]
    OBVIOUS
  <2>1. used_in > 0 /\ L # T
    BY <1>1, <1>2, <1>4, Numbers
  <2>2. fifo_in # NULL
    BY <2>1 DEF IInv, Types, FifoTypes
  <2> QED BY <1>2, <2>1, <2>2 DEF IInv, Types, FifoTypes
<1>7. head \in Seq(Nat) /\ Len(head) = L + Got1
  <2>1. CASE Got1 > 0
    <3>1. \A k \in 1..Got1 : fifo_in[cur_in + k - 1] \in Nat
      <4> TAKE k \in 1..Got1
      <4>1. cur_in + k - 1 \in 0..LenIn - 1
        BY <1>4, Numbers
      <4> QED BY <1>6, <2>1, <4>1
    <3>2. head = [k \in 1..Got1 |-> fifo_in[cur_in + k - 1]]
      BY <2>1
    <3>3. head \in Seq(Nat) /\ Len(head) = Got1
      BY <1>4, <3>1, <3>2
    <3> QED BY <1>4, <1>6, <2>1, <3>3
  <2>2. CASE ~(Got1 > 0)
    <3>1. head = trailer /\ Got1 = 0
      BY <1>4, <2>2
    <3> QED BY <1>2, <3>1 DEF L
  <2> QED BY <2>1, <2>2
<1>8. tail \in Seq(Nat) /\ Len(tail) = Got2
  BY <1>5, Numbers
<1>9. Trailer = head \o tail
  BY DEF Trailer
<1> HIDE DEF head, tail
<1>10. Trailer \in Seq(Nat) /\ Len(Trailer) = L + Got1 + Got2
  BY <1>2, <1>4, <1>5, <1>7, <1>8, <1>9, ConcatProperties
<1>11. Len(Trailer) <= T /\ (used_in - Got1 > 0 => Got2 = 0 /\ Len(Trailer) = T)
  BY <1>1, <1>2, <1>4, <1>5, <1>10, Numbers
<1> QED BY <1>4, <1>5, <1>6, <1>10, <1>11 DEF T, L

LEMMA CopyTrailerInv ==
  ASSUME IInv, is_final, pc \in Body, CopyTrailer,
         UNCHANGED <<strm, fault, hvars, callVars, total_out, user, fifo_out, used_out, cur_out,
                     history_len, resuming, is_final, in_subc, comp_ratio, crc, item, failed,
                     jobVars, resets>>,
         \/ pc' = "loop" /\ rc' = rc /\ used_out > 0
         \/ /\ pc' = "return" /\ rc' \in {"OK", "STREAM_END", "STREAM_ERROR"}
            /\ rc' = "STREAM_END" => /\ used_out = 0 /\ Len(trailer') = Trailers[strm.fmt]
                                     /\ strm.bad # "trailer" \/ wrap = {}
  PROVE  IInv'
<1> DEFINE f == IF Got1 > 0 THEN InCheck(fifo_in, cur_in + Got1, used_in - Got1) ELSE fifo_in
           c == IF Got1 > 0 THEN InCur(cur_in + Got1) ELSE cur_in
<1>1. /\ trailer' = Trailer /\ used_in' = used_in - Got1
      /\ cur_in' = c /\ fifo_in' = f
      /\ nin' = nin + Got2 /\ avail_in' = avail_in - Got2
  BY DEF CopyTrailer
<1>2. /\ UNCHANGED <<strm, fault, total_out, user, fifo_out, used_out, cur_out>>
      /\ UNCHANGED <<wrap, inf_state, inf_held, length, gzflags, ckidx, cksum, hcrc16, gzhead, dict_len>>
      /\ UNCHANGED <<history_len, resuming, is_final, in_subc, comp_ratio, crc, item, failed>>
      /\ UNCHANGED <<src, tgt, tgt_exp, loop_cnt, faults, resets>>
      /\ UNCHANGED <<avail_out, flush, in0, out0>>
  BY DEF hvars, jobVars, callVars
<1>3. /\ Got1 \in Nat /\ Got1 <= used_in /\ Got2 \in Nat /\ Got2 <= avail_in
      /\ Trailer \in Seq(Nat) /\ Len(Trailer) = Len(trailer) + Got1 + Got2
      /\ Len(Trailer) <= Trailers[strm.fmt]
      /\ used_in - Got1 > 0 => Got2 = 0 /\ Len(Trailer) = Trailers[strm.fmt]
      /\ Got1 > 0 => fifo_in \in [0..LenIn - 1 -> Nat]
  BY Pieces
<1>4. inf_state = "inflate" /\ fifo_out # NULL
  BY InBody
<1>5. /\ nin + Got2 \in Nat /\ avail_in - Got2 \in Nat /\ used_in - Got1 \in Nat /\ cur_in + Got1 \in Nat
      /\ (nin + Got2) + (avail_in - Got2) = nin + avail_in
      /\ (cur_in + Got1) + (used_in - Got1) <= LenIn
      /\ (nin + Got2) - (used_in - Got1) = (nin - used_in) + Got1 + Got2
  <2>1. /\ nin \in Nat /\ avail_in \in Nat /\ used_in \in Nat /\ cur_in \in Nat /\ LenIn \in Nat
        /\ cur_in + used_in <= LenIn
    BY Numbers
  <2>2. Got1 \in Nat /\ Got1 <= used_in /\ Got2 \in Nat /\ Got2 <= avail_in
    BY <1>3
  <2> QED BY <2>1, <2>2
<1>6. /\ f \in [0..LenIn - 1 -> Nat] \cup {NULL} /\ (used_in - Got1 > 0 => f # NULL)
      /\ c \in Nat /\ c + (used_in - Got1) <= LenIn
      /\ Cached(f, c, used_in - Got1, Place + Got1)
  <2>1. CASE Got1 > 0
    <3>1. f = InCheck(fifo_in, cur_in + Got1, used_in - Got1) /\ c = InCur(cur_in + Got1)
      BY <2>1
    <3>2. Cached(fifo_in, cur_in + Got1, used_in - Got1, Place + Got1) /\ Place + Got1 \in Int
      <4>1. Place \in Int /\ cur_in \in Nat /\ used_in \in Nat
        BY Numbers DEF Place
      <4>2. Cached(fifo_in, cur_in, used_in, Place)
        BY DEF IInv, CachedInv
      <4>3. Cached(fifo_in, cur_in + Got1, used_in - Got1, Place + Got1)
        BY <1>3, <4>1, <4>2, CachedAfter
      <4> QED BY <1>3, <4>1, <4>3
    <3>3. f \in [0..LenIn - 1 -> Nat] /\ f # NULL
      <4>1. fifo_in \in [0..LenIn - 1 -> Nat]
        BY <1>3, <2>1
      <4> QED BY <1>5, <3>1, <4>1, InCheckIs, NullFacts
    <3>4. Cached(f, c, used_in - Got1, Place + Got1)
      BY <1>3, <1>5, <2>1, <3>1, <3>2, InCheckKeeps
    <3>5. c \in Nat /\ c <= cur_in + Got1
      BY <1>5, <3>1, InCurIs
    <3> HIDE DEF f, c
    <3>6. c + (used_in - Got1) <= LenIn
      <4>1. LenIn \in Nat
        BY Numbers
      <4> QED BY <1>5, <3>5, <4>1
    <3> QED BY <3>3, <3>4, <3>5, <3>6
  <2>2. CASE ~(Got1 > 0)
    <3>1. f = fifo_in /\ c = cur_in /\ Got1 = 0 /\ used_in - Got1 = used_in /\ Place + Got1 = Place
      BY <1>3, <2>2, Numbers DEF Place
    <3>2. /\ fifo_in \in [0..LenIn - 1 -> Nat] \cup {NULL} /\ (used_in > 0 => fifo_in # NULL)
          /\ Cached(fifo_in, cur_in, used_in, Place)
      BY DEF IInv, Types, FifoTypes, CachedInv
    <3> HIDE DEF f, c
    <3> QED BY <3>1, <3>2, Numbers
  <2> QED BY <2>1, <2>2
<1> HIDE DEF f, c
<1>7. Cached(f, c, used_in - Got1, (nin + Got2) - (used_in - Got1))
  <2>1. CASE used_in - Got1 > 0
    <3>1. (nin + Got2) - (used_in - Got1) = Place + Got1
      BY <1>3, <2>1, Numbers DEF Place
    <3> QED BY <1>6, <3>1
  <2>2. CASE ~(used_in - Got1 > 0)
    BY <1>5, <2>2 DEF Cached
  <2> QED BY <2>1, <2>2
<1>8. (nin + Got2) - (used_in - Got1) = Place + Got1 + Got2
  BY <1>5 DEF Place
<1>9. Types'
  <2>1. HeaderTypes'
    <3> DEFINE l == FileLen(strm)
    <3>0. nin + avail_in <= l
      BY DEF IInv, Types, HeaderTypes
    <3>1. (nin + Got2) + (avail_in - Got2) <= l
      BY <1>5, <3>0
    <3> HIDE DEF l
    <3>2. nin' + avail_in' <= FileLen(strm')
      BY <1>1, <1>2, <3>1 DEF l
    <3>3. nin' \in Nat /\ avail_in' \in Nat
      BY <1>1, <1>5
    <3> QED BY <1>2, <3>2, <3>3 DEF IInv, Types, HeaderTypes
  <2>2. CallTypes'
    BY <1>2 DEF IInv, Types, CallTypes
  <2>3. FifoTypes'
    BY <1>1, <1>2, <1>5, <1>6 DEF IInv, Types, FifoTypes
  <2>4. EngineTypes'
    BY <1>1, <1>2, <1>3 DEF IInv, Types, EngineTypes
  <2>5. Flags'
    BY <1>2, Zenon DEF IInv, Types, Flags
  <2> QED BY <2>1, <2>2, <2>3, <2>4, <2>5 DEF Types
<1>10. HeaderInv'
  BY <1>2, <1>4 DEF IInv, HeaderInv
<1>11. FreshInv'
  BY <1>2, <1>4 DEF FreshInv
<1>12. CachedInv' /\ HistoryInv'
  <2>1. CachedInv'
    BY <1>1, <1>7 DEF CachedInv, Place
  <2> QED BY <1>2, <2>1, OutKept DEF IInv
<1>13. FeedInv' /\ DictInv'
  BY <1>2 DEF FeedInv, DictInv
<1>14. JobInv'
  BY <1>2 DEF JobInv
<1>15. EndInv'
  <2>1. item = Len(strm.bit) /\ Place = BodyEnd(strm) + Len(trailer)
    BY DEF IInv, EndInv
  <2>2. (nin + Got2) - (used_in - Got1) = BodyEnd(strm) + Len(Trailer)
    <3>1. BodyEnd(strm) \in Nat /\ Len(trailer) \in Nat
      BY Streams, FileNat DEF IInv, Types, EngineTypes
    <3> QED BY <1>3, <1>8, <2>1, <3>1
  <2>3. Place' = BodyEnd(strm') + Len(trailer')
    BY <1>1, <1>2, <2>2 DEF Place
  <2>4. Len(trailer') <= Trailers[strm'.fmt] /\ (used_in' > 0 => Len(trailer') = Trailers[strm'.fmt])
    BY <1>1, <1>2, <1>3
  <2> QED BY <1>2, <2>1, <2>3, <2>4 DEF EndInv
<1>16. OutputRight'
  BY <1>2, UserKept DEF IInv
<1> QED
  BY <1>9, <1>10, <1>11, <1>12, <1>13, <1>14, <1>15, <1>16 DEF IInv

LEMMA CopyTrailerOnlyInv == ASSUME IInv, CopyTrailerOnly PROVE IInv'
<1>1. /\ pc = "copy trailer" /\ CopyTrailer /\ pc' = "loop" /\ rc' = rc
      /\ UNCHANGED <<strm, fault, hvars, callVars, total_out, user, fifo_out, used_out, cur_out,
                     history_len, resuming, is_final, in_subc, comp_ratio, crc, item, failed,
                     jobVars, resets>>
  BY DEF CopyTrailerOnly
<1>2. is_final /\ used_out > 0
  BY <1>1 DEF IInv, JobInv
<1> QED BY <1>1, <1>2, CopyTrailerInv DEF Body

LEMMA VerifyInv == ASSUME IInv, Verify PROVE IInv'
<1>1. /\ pc = "verify" /\ CopyTrailer /\ pc' = "return" /\ rc' = Verdict(trailer')
      /\ UNCHANGED <<strm, fault, hvars, callVars, total_out, user, fifo_out, used_out, cur_out,
                     history_len, resuming, is_final, in_subc, comp_ratio, crc, item, failed,
                     jobVars, resets>>
  BY DEF Verify, Returns
<1>2. is_final /\ used_out = 0
  BY <1>1 DEF IInv, JobInv
<1>3. trailer' = Trailer
  BY <1>1 DEF CopyTrailer
<1>4. Trailer \in Seq(Nat) /\ Len(Trailer) <= Trailers[strm.fmt] /\ Trailers[strm.fmt] \in Nat
  BY <1>2, Pieces, Streams DEF IInv
<1>5. wrap = {} => Trailers[strm.fmt] = 0
  BY TrailerFacts DEF IInv, HeaderInv
<1>6. rc' \in {"OK", "STREAM_END", "STREAM_ERROR"}
  BY <1>1 DEF Verdict
<1>7. Verdict(Trailer) = "STREAM_END" =>
        Len(Trailer) = Trailers[strm.fmt] /\ (strm.bad # "trailer" \/ wrap = {})
  <2> DEFINE T == Trailers[strm.fmt]
             L == Len(Trailer)
  <2>1. L \in Nat /\ T \in Nat /\ L <= T
    BY <1>4
  <2>2. Verdict(Trailer) = "STREAM_END" => wrap = {} \/ (~(L < T) /\ strm.bad # "trailer")
    BY DEF Verdict, TrailerMatches
  <2>3. wrap = {} => T = 0
    BY <1>5
  <2> HIDE DEF T, L
  <2>4. wrap = {} \/ ~(L < T) => L = T
    BY <2>1, <2>3
  <2> QED BY <2>2, <2>4 DEF T, L
<1>8. rc' = "STREAM_END" => /\ used_out = 0 /\ Len(trailer') = Trailers[strm.fmt]
                            /\ strm.bad # "trailer" \/ wrap = {}
  BY <1>1, <1>2, <1>3, <1>7
<1> QED BY <1>1, <1>2, <1>6, <1>8, CopyTrailerInv DEF Body

-----------------------------------------------------------------------------
\* The source of a job is what follows the place where the one before stopped.
LEMMA SourceIs ==
  ASSUME IInv, pc = "submit", NEW k \in 1..src
  PROVE  Source(k) = Place + k
<1> DEFINE n == FromFifo
<1>1. nin \in Nat /\ used_in \in Nat /\ src \in Nat /\ cur_in \in Nat
  BY Numbers
<1>2. CASE fifo_in = NULL
  <2>1. used_in = 0
    BY <1>1, <1>2 DEF IInv, Types, FifoTypes
  <2>2. n = 0 /\ k \in Nat /\ ~(k <= n)
    BY <1>1, <1>2 DEF FromFifo
  <2>3. Source(k) = nin + k - n
    BY <2>2 DEF Source
  <2> HIDE DEF n
  <2> QED BY <1>1, <2>1, <2>2, <2>3 DEF Place
<1>3. CASE fifo_in # NULL
  <2>1. n = AtMost(used_in, src)
    BY <1>3 DEF FromFifo
  <2>2. Source(k) = IF k <= n THEN fifo_in[cur_in + k - 1] ELSE nin + k - n
    BY DEF Source
  <2> HIDE DEF n
  <2>3. n \in Nat /\ n <= used_in /\ (n < src => n = used_in)
    BY <1>1, <2>1 DEF AtMost
  <2>4. CASE k <= n
    <3>1. k - 1 \in 0..used_in - 1 /\ cur_in + (k - 1) = cur_in + k - 1
      BY <1>1, <2>3, <2>4
    <3>2. fifo_in[cur_in + (k - 1)] = Place + (k - 1) + 1
      BY <3>1 DEF IInv, CachedInv, Cached
    <3> QED BY <1>1, <2>2, <2>4, <3>1, <3>2 DEF Place
  <2>5. CASE ~(k <= n)
    <3>1. n = used_in /\ k \in Nat
      BY <1>1, <2>3, <2>5
    <3> QED BY <1>1, <2>2, <2>5, <3>1 DEF Place
  <2> QED BY <2>4, <2>5
<1> QED BY <1>2, <1>3

\* Where the deflate data ends that the job is fed, in bytes.
End == (Place - HeaderLen(strm)) + src

LEMMA FedIs ==
  ASSUME IInv, pc = "submit"
  PROVE  /\ Place - HeaderLen(strm) \in Nat /\ End \in Nat
         /\ FedBits = Bits * End /\ FedBits \in Nat
         /\ HalfByte \in Nat /\ HalfByte < Bits
         /\ BitAt(strm, item) = Bits * (Place - HeaderLen(strm)) + HalfByte
         /\ BitAt(strm, item) <= FedBits
<1> DEFINE q == Place - HeaderLen(strm)
<1>1. /\ src >= 1 /\ ~is_final /\ inf_state = "inflate"
  BY Submitted
<1>2. Place >= HeaderLen(strm) /\ BitAt(strm, item) = Bits * q + HalfByte
  BY <1>1 DEF IInv, FeedInv
<1>3. HeaderLen(strm) \in Nat /\ Place \in Int /\ src \in Nat /\ Bits \in Nat \ {0}
  BY Streams, Numbers, Consts DEF IInv, Place
<1>4. q \in Nat /\ End = q + src /\ End \in Nat
  BY <1>2, <1>3 DEF End
<1>5. Source(src) = Place + src
  <2>1. src \in 1..src
    BY <1>1, <1>3
  <2> QED BY <2>1, SourceIs
<1>6. FedBits = Bits * End
  <2>1. Source(src) - HeaderLen(strm) = End
    BY <1>3, <1>5 DEF End
  <2> QED BY <2>1 DEF FedBits
<1>7. HalfByte \in Nat /\ HalfByte < Bits
  BY <1>3, Numbers DEF HalfByte
<1> HIDE DEF q
<1>8. Bits * q + HalfByte <= Bits * End /\ Bits * End \in Nat
  <2>1. Bits * q + Bits <= Bits * End /\ Bits * q \in Int
    BY <1>1, <1>3, <1>4, Times
  <2>2. Bits * 0 <= Bits * End /\ Bits * End \in Int
    BY <1>3, <1>4, Times
  <2> QED BY <1>3, <1>7, <2>1, <2>2
<1> QED BY <1>2, <1>4, <1>6, <1>7, <1>8 DEF q

LEMMA ReachedIs ==
  ASSUME IInv, pc = "submit"
  PROVE  /\ Reached \in item..Len(strm.bit) /\ Reached \in 0..Len(strm.bit)
         /\ BitAt(strm, Reached) <= FedBits
<1>1. strm \in Members /\ item \in 0..Len(strm.bit) /\ Len(strm.bit) \in Nat
  BY Streams DEF IInv
<1>2. FedBits \in Int /\ BitAt(strm, item) <= FedBits
  BY FedIs
<1>3. \E j \in item..Len(strm.bit) :
        BitAt(strm, j) <= FedBits /\ (j < Len(strm.bit) => BitAt(strm, j + 1) > FedBits)
  BY <1>1, <1>2, LastItem
<1>4. Reached \in item..Items /\ BitEnd(Reached) <= FedBits
  <2>1. \E i \in item..Items : BitEnd(i) <= FedBits /\ (i < Items => BitEnd(i + 1) > FedBits)
    BY <1>3, ItemEnds DEF Items
  <2> QED BY <2>1 DEF Reached
<1>5. Reached \in item..Len(strm.bit) /\ BitAt(strm, Reached) <= FedBits
  BY <1>4, ItemEnds DEF Items
<1> QED BY <1>1, <1>5

\* What the job takes of its source, and where the next one begins.
LEMMA UnusedIs ==
  ASSUME IInv, pc = "submit"
  PROVE  /\ Unused \in Nat /\ Unused = Bits * End - BitAt(strm, Reached)
         /\ BitAt(strm, Reached) \in Nat /\ BitAt(strm, item) <= BitAt(strm, Reached)
         /\ OutAt(strm, Reached) \in Nat /\ OutAt(strm, item) <= OutAt(strm, Reached)
<1>1. strm \in Members /\ item \in 0..Len(strm.bit) /\ Len(strm.bit) \in Nat
  BY Streams DEF IInv
<1>2. Reached \in item..Len(strm.bit) /\ Reached \in 0..Len(strm.bit) /\ BitAt(strm, Reached) <= FedBits
  BY ReachedIs
<1>3. item <= Reached
  BY <1>1, <1>2
<1>4. BitAt(strm, Reached) \in Nat /\ OutAt(strm, Reached) \in Nat
  BY <1>1, <1>2, ItemFacts
<1>5. BitAt(strm, item) <= BitAt(strm, Reached) /\ OutAt(strm, item) <= OutAt(strm, Reached)
  BY <1>1, <1>2, <1>3, ItemFacts
<1>6. Unused = FedBits - BitAt(strm, Reached) /\ FedBits = Bits * End /\ FedBits \in Nat
  BY FedIs, ItemEnds DEF Unused
<1> QED BY <1>2, <1>4, <1>5, <1>6

LEMMA ConsumedIs ==
  ASSUME IInv, pc = "submit"
  PROVE  /\ Consumed \in Nat /\ Consumed <= src
         /\ Final => Place + Consumed = BodyEnd(strm)
         /\ ~Final => BitAt(strm, Reached) = Bits * ((Place + Consumed) - HeaderLen(strm))
                        + (IF Unused % Bits # 0 THEN Bits - (Unused % Bits) ELSE 0)
         /\ Unused % Bits \in Nat /\ Unused % Bits < Bits
<1> DEFINE bit == BitAt(strm, Reached)
           u == Unused
           q == Place - HeaderLen(strm)
           up == UpDiv(u, Bits)
           down == u \div Bits
           r == u % Bits
<1>1. Bits \in Nat \ {0} /\ src \in Nat /\ HeaderLen(strm) \in Nat /\ Place \in Int
  BY Consts, Numbers, Streams DEF IInv, Place
<1>2. q \in Nat /\ End \in Nat /\ End = q + src
  BY FedIs DEF End
<1>3. u \in Nat /\ bit \in Nat /\ u = Bits * End - bit /\ BitAt(strm, item) <= bit
  BY UnusedIs
<1>4. BitAt(strm, item) = Bits * q + HalfByte /\ HalfByte \in Nat
  BY FedIs
<1>5. Consumed = src - (IF Final THEN down ELSE up)
  BY DEF Consumed
<1> HIDE DEF bit, u, q
<1>6. /\ bit = Bits * (End - up) + (IF r # 0 THEN Bits - r ELSE 0)
      /\ UpDiv(bit, Bits) = End - down
      /\ up \in Nat /\ down \in Nat /\ r \in Nat /\ r < Bits /\ down <= up
  <2>1. Bits \in Nat \ {0} /\ End \in Nat /\ bit \in Nat /\ u \in Nat /\ u = Bits * End - bit
    BY <1>1, <1>2, <1>3
  <2>2. LeavesOver(Bits, End, bit, u)
    BY <2>1, Leftover
  <2> QED BY <2>2, Zenon DEF LeavesOver
<1> HIDE DEF up, down, r
<1>7. ~(End - up < q)
  <2> SUFFICES ASSUME End - up < q PROVE FALSE
    OBVIOUS
  <2>1. Bits * (End - up) + Bits <= Bits * q /\ Bits * (End - up) \in Int /\ Bits * q \in Int
    BY <1>1, <1>2, <1>6, Times
  <2>2. bit < Bits * (End - up) + Bits
    BY <1>1, <1>6, <2>1
  <2> QED BY <1>1, <1>3, <1>4, <2>1, <2>2
<1>8. Consumed \in Nat /\ Consumed <= src
  <2>1. src - up \in Nat /\ src - down \in Nat
    BY <1>1, <1>2, <1>6, <1>7
  <2>2. Consumed = src - down \/ Consumed = src - up
    BY <1>5
  <2> QED BY <1>1, <1>6, <2>1, <2>2
<1>9. ASSUME Final PROVE Place + Consumed = BodyEnd(strm)
  <2>1. Consumed = src - down /\ Place = q + HeaderLen(strm)
    BY <1>1, <1>5, <1>9 DEF q
  <2>2. bit = BitAt(strm, Len(strm.bit)) /\ strm \in Members
    BY <1>9, Streams DEF IInv, Final, Items, bit
  <2>3. BodyEnd(strm) = HeaderLen(strm) + (End - down)
    BY <1>6, <2>2, FileNat
  <2> QED BY <1>1, <1>2, <1>6, <2>1, <2>3
<1>10. ASSUME ~Final PROVE bit = Bits * ((Place + Consumed) - HeaderLen(strm)) + (IF r # 0 THEN Bits - r ELSE 0)
  <2>1. Consumed = src - up /\ Place = q + HeaderLen(strm)
    BY <1>1, <1>5, <1>10 DEF q
  <2>2. (Place + Consumed) - HeaderLen(strm) = End - up
    BY <1>1, <1>2, <1>6, <2>1
  <2> QED BY <1>6, <2>2
<1> QED BY <1>6, <1>8, <1>9, <1>10 DEF bit, r, u

\* The input after the job.
TakenNin == IF Consumed > used_in THEN nin + (Consumed - used_in) ELSE nin
TakenAvail == IF Consumed > used_in THEN avail_in - (Consumed - used_in) ELSE avail_in
TakenUsed == IF Consumed > used_in THEN 0 ELSE used_in - Consumed
TakenCur == IF Consumed > used_in THEN cur_in ELSE InCur(cur_in + Consumed)
TakenFifo == IF Consumed > used_in \/ fifo_in = NULL THEN fifo_in
             ELSE InCheck(fifo_in, cur_in + Consumed, used_in - Consumed)

LEMMA TakeSourceIs ==
  ASSUME IInv, pc = "submit", TakeSource
  PROVE  /\ nin' = TakenNin /\ avail_in' = TakenAvail /\ used_in' = TakenUsed
         /\ cur_in' = TakenCur /\ fifo_in' = TakenFifo
<1>1. CASE Consumed > used_in
  <2>1. nin + Consumed - used_in = nin + (Consumed - used_in)
    BY Numbers, ConsumedIs
  <2>2. nin' = nin + Consumed - used_in /\ avail_in' = avail_in - (Consumed - used_in) /\ used_in' = 0
        /\ cur_in' = cur_in /\ fifo_in' = fifo_in
    BY <1>1 DEF TakeSource
  <2> QED BY <1>1, <2>1, <2>2 DEF TakenNin, TakenAvail, TakenUsed, TakenCur, TakenFifo
<1>2. CASE ~(Consumed > used_in)
  <2>1. /\ used_in' = used_in - Consumed /\ cur_in' = InCur(cur_in + Consumed)
        /\ fifo_in' = IF fifo_in = NULL THEN NULL
                      ELSE InCheck(fifo_in, cur_in + Consumed, used_in - Consumed)
        /\ nin' = nin /\ avail_in' = avail_in
    BY <1>2 DEF TakeSource
  <2> QED BY <1>2, <2>1 DEF TakenNin, TakenAvail, TakenUsed, TakenCur, TakenFifo
<1> QED BY <1>1, <1>2

LEMMA TakenIs ==
  ASSUME IInv, pc = "submit"
  PROVE  /\ TakenNin \in Nat /\ TakenAvail \in Nat /\ TakenUsed \in Nat /\ TakenCur \in Nat
         /\ TakenNin + TakenAvail = nin + avail_in
         /\ TakenNin - TakenUsed = Place + Consumed
         /\ TakenCur + TakenUsed <= LenIn
         /\ TakenNin >= nin
         /\ TakenNin = 0 => nin = 0 /\ TakenAvail = avail_in
<1>1. /\ nin \in Nat /\ avail_in \in Nat /\ used_in \in Nat /\ cur_in \in Nat /\ LenIn \in Nat
      /\ cur_in + used_in <= LenIn /\ src \in Nat
  BY Numbers
<1>2. Consumed \in Nat /\ Consumed <= src /\ src <= used_in + avail_in
  BY ConsumedIs, Submitted
<1>3. CASE Consumed > used_in
  <2>1. TakenNin = nin + (Consumed - used_in) /\ TakenAvail = avail_in - (Consumed - used_in)
        /\ TakenUsed = 0 /\ TakenCur = cur_in
    BY <1>3 DEF TakenNin, TakenAvail, TakenUsed, TakenCur
  <2> QED BY <1>1, <1>2, <1>3, <2>1 DEF Place
<1>4. CASE ~(Consumed > used_in)
  <2>1. TakenNin = nin /\ TakenAvail = avail_in /\ TakenUsed = used_in - Consumed
        /\ TakenCur = InCur(cur_in + Consumed)
    BY <1>4 DEF TakenNin, TakenAvail, TakenUsed, TakenCur
  <2>2. cur_in + Consumed \in Nat
    BY <1>1, <1>2
  <2>3. TakenCur \in Nat /\ TakenCur <= cur_in + Consumed
    BY <2>1, <2>2, InCurIs
  <2> QED BY <1>1, <1>2, <1>4, <2>1, <2>3 DEF Place
<1> QED BY <1>3, <1>4

LEMMA TakenFifoIs ==
  ASSUME IInv, pc = "submit"
  PROVE  /\ TakenFifo \in [0..LenIn - 1 -> Nat] \cup {NULL}
         /\ TakenUsed > 0 => TakenFifo # NULL
         /\ Cached(TakenFifo, TakenCur, TakenUsed, TakenNin - TakenUsed)
<1>1. /\ nin \in Nat /\ avail_in \in Nat /\ used_in \in Nat /\ cur_in \in Nat /\ LenIn \in Nat
      /\ cur_in + used_in <= LenIn /\ Place \in Int
  BY Numbers DEF Place
<1>2. Consumed \in Nat
  BY ConsumedIs
<1>3. fifo_in \in [0..LenIn - 1 -> Nat] \cup {NULL} /\ (used_in > 0 => fifo_in # NULL)
  BY DEF IInv, Types, FifoTypes
<1>4. CASE Consumed > used_in
  <2>1. TakenFifo = fifo_in /\ TakenUsed = 0
    BY <1>4 DEF TakenFifo, TakenUsed
  <2> QED BY <1>3, <2>1 DEF Cached
<1>5. CASE ~(Consumed > used_in) /\ fifo_in = NULL
  <2>1. used_in = 0
    BY <1>1, <1>3, <1>5
  <2>2. TakenFifo = fifo_in /\ TakenUsed = 0
    BY <1>1, <1>2, <1>5, <2>1 DEF TakenFifo, TakenUsed
  <2> QED BY <1>3, <2>2 DEF Cached
<1>6. CASE ~(Consumed > used_in) /\ fifo_in # NULL
  <2>1. /\ TakenFifo = InCheck(fifo_in, cur_in + Consumed, used_in - Consumed)
        /\ TakenUsed = used_in - Consumed /\ TakenCur = InCur(cur_in + Consumed)
    BY <1>6 DEF TakenFifo, TakenUsed, TakenCur
  <2>2. fifo_in \in [0..LenIn - 1 -> Nat]
    BY <1>3, <1>6
  <2>3. /\ cur_in + Consumed \in Nat /\ used_in - Consumed \in Nat /\ Place + Consumed \in Int
        /\ (cur_in + Consumed) + (used_in - Consumed) <= LenIn
        /\ Consumed <= used_in
    BY <1>1, <1>2, <1>6
  <2>4. Cached(fifo_in, cur_in + Consumed, used_in - Consumed, Place + Consumed)
    <3>1. Cached(fifo_in, cur_in, used_in, Place)
      BY DEF IInv, CachedInv
    <3> QED BY <1>1, <1>2, <2>3, <3>1, CachedAfter
  <2>5. InCheck(fifo_in, cur_in + Consumed, used_in - Consumed) \in [0..LenIn - 1 -> Nat]
    BY <2>2, <2>3, InCheckIs
  <2>6. Cached(TakenFifo, TakenCur, TakenUsed, Place + Consumed)
    BY <2>1, <2>2, <2>3, <2>4, InCheckKeeps
  <2>7. TakenNin - TakenUsed = Place + Consumed
    BY TakenIs
  <2> QED BY <2>1, <2>5, <2>6, <2>7, NullFacts
<1> QED BY <1>4, <1>5, <1>6

-----------------------------------------------------------------------------
\* How the output of a job comes into fifo_out: appended to the history when
\* all of it went to next_out; or the overflow at cur, and before it the end of
\* what went to next_out, behind what is left of the history if that is short.
Cells == 0..LenOut - 1
AppendedTo(f, cur, all, t, n) ==
  [i \in Cells |-> IF cur <= i /\ i < cur + n THEN all + (t - n + (i - cur)) + 1 ELSE f[i]]
WrittenTo(f, cur, all, t, o) ==
  [i \in Cells |-> IF cur <= i /\ i < cur + o THEN all + (t + (i - cur)) + 1 ELSE f[i]]
EndBefore(f, cur, all, t, n) ==
  [i \in Cells |-> IF cur - n <= i /\ i < cur - n + n THEN all + (t - n + (i - (cur - n))) + 1 ELSE f[i]]
MovedBack(f, cur, t, n) ==
  [i \in Cells |-> IF cur - t - n <= i /\ i < cur - t - n + n THEN f[cur - n + (i - (cur - t - n))] ELSE f[i]]
AllBefore(f, cur, all, t) ==
  [i \in Cells |-> IF cur - t <= i /\ i < cur - t + t THEN all + (i - (cur - t)) + 1 ELSE f[i]]

LEMMA AppendedHolds ==
  ASSUME NEW f \in [Cells -> Nat], NEW cur \in Nat, NEW all \in Nat, NEW t \in Nat, NEW n \in Nat,
         Window <= cur, cur + n <= LenOut, n = AtMost(Window, t), Holds(f, cur, all, all)
  PROVE  /\ AppendedTo(f, cur, all, t, n) \in [Cells -> Nat]
         /\ Holds(AppendedTo(f, cur, all, t, n), cur + n, all + t, all + t)
<1> DEFINE g == AppendedTo(f, cur, all, t, n)
<1>1. LenOut \in Nat /\ Window \in Nat \ {0}
  BY Consts
<1>2. n <= t /\ (n = Window \/ n = t)
  BY <1>1 DEF AtMost
<1>3. g = [i \in Cells |-> IF cur <= i /\ i < cur + n THEN all + (t - n + (i - cur)) + 1 ELSE f[i]]
  BY DEF AppendedTo
<1> HIDE DEF g
<1>4. g \in [Cells -> Nat]
  <2>1. ASSUME NEW i \in Cells, cur <= i PROVE all + (t - n + (i - cur)) + 1 \in Nat
    <3>1. t - n \in Nat
      BY <1>2
    <3>2. i - cur \in Nat
      BY <1>1, <2>1 DEF Cells
    <3> QED BY <3>1, <3>2
  <2>2. \A i \in Cells : f[i] \in Nat
    OBVIOUS
  <2> QED BY <1>3, <2>1, <2>2
<1>5. ASSUME NEW p \in 1..all + t, p > (all + t) - Window \/ p > all + t
      PROVE  g[(cur + n) - (all + t) + p - 1] = p
  <2> DEFINE i == (cur + n) - (all + t) + p - 1
  <2>1. CASE i >= cur
    <3>1. i \in Cells /\ i < cur + n
      <4>1. p \in Int /\ p <= all + t
        OBVIOUS
      <4>2. i \in Int /\ i < cur + n
        BY <4>1
      <4> HIDE DEF i
      <4>3. i \in Int /\ 0 <= i /\ i <= LenOut - 1
        BY <1>1, <2>1, <4>2
      <4> QED
        BY <4>2, <4>3 DEF Cells
    <3>2. g[i] = all + (t - n + (i - cur)) + 1
      BY <1>3, <2>1, <3>1
    <3> QED BY <3>2
  <2>2. CASE ~(i >= cur)
    <3>1. n = t /\ p \in 1..all /\ p > all - Window
      BY <1>1, <1>2, <1>5, <2>2
    <3>2. i = cur - all + p - 1 /\ i \in Cells
      BY <1>1, <3>1 DEF Cells
    <3>3. f[cur - all + p - 1] = p
      BY <3>1 DEF Holds
    <3> QED BY <1>3, <2>2, <3>2, <3>3
  <2> QED BY <2>1, <2>2
<1> QED BY <1>4, <1>5 DEF Holds, g

LEMMA WrittenHolds ==
  ASSUME NEW f \in [Cells -> Nat], NEW cur \in Nat, NEW all \in Nat, NEW t \in Nat, NEW o \in Nat,
         Window <= cur, cur + o <= LenOut
  PROVE  /\ WrittenTo(f, cur, all, t, o) \in [Cells -> Nat]
         /\ \A i \in Cells : i < cur => WrittenTo(f, cur, all, t, o)[i] = f[i]
         /\ \A p \in 1..all + t + o : p > all + t =>
              /\ cur - (all + t) + p - 1 \in Cells /\ cur - (all + t) + p - 1 >= cur
              /\ WrittenTo(f, cur, all, t, o)[cur - (all + t) + p - 1] = p
<1> DEFINE g == WrittenTo(f, cur, all, t, o)
<1>1. LenOut \in Nat
  BY Consts
<1>2. g = [i \in Cells |-> IF cur <= i /\ i < cur + o THEN all + (t + (i - cur)) + 1 ELSE f[i]]
  BY DEF WrittenTo
<1> HIDE DEF g
<1>3. g \in [Cells -> Nat]
  <2>1. ASSUME NEW i \in Cells, cur <= i PROVE all + (t + (i - cur)) + 1 \in Nat
    BY <1>1, <2>1 DEF Cells
  <2>2. \A i \in Cells : f[i] \in Nat
    OBVIOUS
  <2> QED BY <1>2, <2>1, <2>2
<1>4. \A i \in Cells : i < cur => g[i] = f[i]
  BY <1>1, <1>2 DEF Cells
<1>5. ASSUME NEW p \in 1..all + t + o, p > all + t
      PROVE  /\ cur - (all + t) + p - 1 \in Cells /\ cur - (all + t) + p - 1 >= cur
             /\ g[cur - (all + t) + p - 1] = p
  <2> DEFINE i == cur - (all + t) + p - 1
  <2>1. i \in Cells /\ i >= cur /\ i < cur + o
    BY <1>1, <1>5 DEF Cells
  <2>2. g[i] = all + (t + (i - cur)) + 1
    BY <1>2, <2>1
  <2> QED BY <2>1, <2>2
<1> QED BY <1>3, <1>4, <1>5 DEF g

\* The overflow is as long as the window.
LEMMA LongHolds ==
  ASSUME NEW f \in [Cells -> Nat], NEW cur \in Nat, NEW all \in Nat, NEW t \in Nat, NEW o \in Nat,
         Window <= cur, cur + o <= LenOut, o >= Window
  PROVE  Holds(WrittenTo(f, cur, all, t, o), cur, all + t, all + t + o)
<1>1. Window \in Nat
  BY Consts
<1> SUFFICES ASSUME NEW p \in 1..all + t + o, p > (all + t + o) - Window \/ p > all + t
             PROVE  WrittenTo(f, cur, all, t, o)[cur - (all + t) + p - 1] = p
  BY DEF Holds
<1>2. p > all + t
  BY <1>1
<1> QED BY <1>2, WrittenHolds

\* The end of what went to next_out fills the window.
LEMMA EndBeforeHolds ==
  ASSUME NEW f \in [Cells -> Nat], NEW cur \in Nat, NEW all \in Nat, NEW t \in Nat, NEW o \in Nat,
         Window <= cur, cur + o <= LenOut, o < Window, t + o > Window,
         NEW n, n = Window - o, NEW w, w = WrittenTo(f, cur, all, t, o)
  PROVE  /\ EndBefore(w, cur, all, t, n) \in [Cells -> Nat]
         /\ Holds(EndBefore(w, cur, all, t, n), cur, all + t, all + t + o)
<1> DEFINE g == EndBefore(w, cur, all, t, n)
<1>1. LenOut \in Nat /\ Window \in Nat \ {0}
  BY Consts
<1>2. n \in Nat /\ n < t /\ n <= cur
  BY <1>1
<1>3. /\ w \in [Cells -> Nat]
      /\ \A i \in Cells : i < cur => w[i] = f[i]
      /\ \A p \in 1..all + t + o : p > all + t =>
           /\ cur - (all + t) + p - 1 \in Cells /\ cur - (all + t) + p - 1 >= cur
           /\ w[cur - (all + t) + p - 1] = p
  BY WrittenHolds
<1>4. g = [i \in Cells |->
             IF cur - n <= i /\ i < cur - n + n THEN all + (t - n + (i - (cur - n))) + 1 ELSE w[i]]
  BY DEF EndBefore
<1> HIDE DEF g
<1>5. g \in [Cells -> Nat]
  <2>1. ASSUME NEW i \in Cells, cur - n <= i PROVE all + (t - n + (i - (cur - n))) + 1 \in Nat
    <3>1. t - n \in Nat
      BY <1>2
    <3>2. i - (cur - n) \in Nat
      BY <1>1, <1>2, <2>1 DEF Cells
    <3> QED BY <3>1, <3>2
  <2>2. \A i \in Cells : w[i] \in Nat
    BY <1>3
  <2> QED BY <1>4, <2>1, <2>2
<1>6. ASSUME NEW p \in 1..all + t + o, p > (all + t + o) - Window \/ p > all + t
      PROVE  g[cur - (all + t) + p - 1] = p
  <2> DEFINE i == cur - (all + t) + p - 1
  <2>1. CASE p > all + t
    <3>1. i \in Cells /\ i >= cur /\ w[i] = p
      BY <1>3, <2>1
    <3>2. ~(i < cur - n + n)
      BY <1>1, <1>2, <3>1 DEF Cells
    <3> HIDE DEF i
    <3>3. g[i] = p
      BY <1>4, <3>1, <3>2
    <3> QED BY <3>3 DEF i
  <2>2. CASE ~(p > all + t)
    <3>1. i \in Cells /\ cur - n <= i /\ i < cur - n + n
      BY <1>1, <1>2, <1>6, <2>2 DEF Cells
    <3>2. g[i] = all + (t - n + (i - (cur - n))) + 1
      BY <1>4, <3>1
    <3>3. all + (t - n + (i - (cur - n))) + 1 = p
      BY <1>2
    <3> QED BY <3>2, <3>3
  <2> QED BY <2>1, <2>2
<1> QED BY <1>5, <1>6 DEF Holds, g

\* All that went to next_out and the overflow are shorter than the window.
LEMMA AllBeforeHolds ==
  ASSUME NEW f \in [Cells -> Nat], NEW cur \in Nat, NEW all \in Nat, NEW t \in Nat, NEW o \in Nat,
         Window <= cur, cur + o <= LenOut, t + o <= Window, Holds(f, cur, all, all),
         NEW n, n = Window - (t + o), NEW w, w = WrittenTo(f, cur, all, t, o),
         NEW b, b = MovedBack(w, cur, t, n)
  PROVE  /\ AllBefore(b, cur, all, t) \in [Cells -> Nat]
         /\ Holds(AllBefore(b, cur, all, t), cur, all + t, all + t + o)
<1> DEFINE g == AllBefore(b, cur, all, t)
<1>1. LenOut \in Nat /\ Window \in Nat \ {0}
  BY Consts
<1>2. n \in Nat /\ n + t <= cur
  BY <1>1
<1>3. /\ w \in [Cells -> Nat]
      /\ \A i \in Cells : i < cur => w[i] = f[i]
      /\ \A p \in 1..all + t + o : p > all + t =>
           /\ cur - (all + t) + p - 1 \in Cells /\ cur - (all + t) + p - 1 >= cur
           /\ w[cur - (all + t) + p - 1] = p
  BY WrittenHolds
<1>4. b = [i \in Cells |->
             IF cur - t - n <= i /\ i < cur - t - n + n THEN w[cur - n + (i - (cur - t - n))] ELSE w[i]]
  BY DEF MovedBack
<1>5. g = [i \in Cells |-> IF cur - t <= i /\ i < cur - t + t THEN all + (i - (cur - t)) + 1 ELSE b[i]]
  BY DEF AllBefore
<1> HIDE DEF g
<1>6. g \in [Cells -> Nat]
  <2>1. \A i \in Cells : w[i] \in Nat
    BY <1>3
  <2>2. ASSUME NEW i \in Cells, cur - t - n <= i, i < cur - t - n + n
        PROVE  cur - n + (i - (cur - t - n)) \in Cells
    BY <1>1, <1>2, <2>2 DEF Cells
  <2>3. \A i \in Cells : b[i] \in Nat
    BY <1>4, <2>1, <2>2
  <2>4. ASSUME NEW i \in Cells, cur - t <= i PROVE all + (i - (cur - t)) + 1 \in Nat
    BY <1>1, <2>4 DEF Cells
  <2> QED BY <1>5, <2>3, <2>4
<1>7. ASSUME NEW p \in 1..all + t + o, p > (all + t + o) - Window \/ p > all + t
      PROVE  g[cur - (all + t) + p - 1] = p
  <2> DEFINE i == cur - (all + t) + p - 1
  <2>1. CASE p > all + t
    <3>1. i \in Cells /\ i >= cur /\ w[i] = p
      BY <1>3, <2>1
    <3>2. ~(i < cur - t + t) /\ ~(i < cur - t - n + n)
      BY <1>1, <1>2, <3>1 DEF Cells
    <3> HIDE DEF i
    <3>3. b[i] = w[i]
      BY <1>4, <3>1, <3>2
    <3>4. g[i] = b[i]
      BY <1>5, <3>1, <3>2
    <3> QED BY <3>1, <3>3, <3>4 DEF i
  <2>2. CASE ~(p > all + t) /\ p > all
    <3>1. i \in Cells /\ cur - t <= i /\ i < cur - t + t
      BY <1>1, <1>2, <2>2 DEF Cells
    <3>2. g[i] = all + (i - (cur - t)) + 1
      BY <1>5, <3>1
    <3> QED BY <3>2
  <2>3. CASE ~(p > all)
    <3>1. p \in 1..all /\ p > all - n /\ p > all - Window
      BY <1>1, <1>7, <2>3
    <3>2. i \in Cells /\ cur - t - n <= i /\ i < cur - t - n + n /\ ~(cur - t <= i)
      BY <1>1, <1>2, <3>1 DEF Cells
    <3> DEFINE j == cur - all + p - 1
    <3>3. cur - n + (i - (cur - t - n)) = j /\ j \in Cells /\ j < cur
      BY <1>1, <1>2, <3>1 DEF Cells
    <3>4. f[j] = p
      BY <3>1 DEF Holds
    <3> HIDE DEF i, j
    <3>5. b[i] = w[j]
      BY <1>4, <3>2, <3>3
    <3>6. g[i] = b[i]
      BY <1>5, <3>2
    <3>7. w[j] = f[j]
      BY <1>3, <3>3
    <3> QED BY <3>4, <3>5, <3>6, <3>7 DEF i
  <2> QED BY <2>1, <2>2, <2>3
<1> QED BY <1>6, <1>7 DEF Holds, g

\* What the job gave, and how much of it overflows.
LEMMA ProducedIs ==
  ASSUME IInv, pc = "submit", Produced <= tgt
  PROVE  /\ Produced \in Nat /\ Overflow \in Nat /\ ToUser \in Nat
         /\ Produced = ToUser + Overflow /\ ToUser <= avail_out /\ cur_out + Overflow <= LenOut
         /\ OutAt(strm, item) = total_out /\ OutEnd(item) = total_out
         /\ OutAt(strm, Reached) = total_out + ToUser + Overflow
         /\ OutAt(strm, Reached) = total_out + Produced
<1>1. /\ avail_out \in Nat /\ cur_out \in Nat /\ cur_out <= LenOut /\ LenOut \in Nat
      /\ total_out \in Nat
  BY Consts, Numbers
<1>2. tgt <= avail_out + (LenOut - cur_out) /\ tgt \in Nat
  BY Submitted, Targets
<1>3. OutAt(strm, item) = total_out
  BY Submitted, Numbers DEF IInv, Types, EngineTypes
<1>4. OutEnd(item) = total_out /\ OutEnd(Reached) = OutAt(strm, Reached)
  BY <1>3, ItemEnds
<1>5. OutAt(strm, Reached) \in Nat /\ total_out <= OutAt(strm, Reached)
  BY <1>3, UnusedIs
<1>6. Produced = OutAt(strm, Reached) - total_out
  BY <1>4 DEF Produced
<1>7. Produced \in Nat /\ OutAt(strm, Reached) = total_out + Produced
  BY <1>1, <1>5, <1>6
<1> DEFINE m == AtMost(avail_out, Produced)
<1>8. m \in Nat /\ m <= avail_out /\ m <= Produced /\ (m = Produced \/ m = avail_out)
  BY <1>1, <1>7, LeastNat
<1>9. Overflow = Produced - m /\ ToUser = Produced - Overflow
  BY DEF Overflow, ToUser
<1> HIDE DEF m
<1>10. Overflow \in Nat /\ ToUser \in Nat /\ Produced = ToUser + Overflow /\ ToUser <= avail_out
  BY <1>7, <1>8, <1>9
<1>11. cur_out + Overflow <= LenOut
  BY <1>1, <1>2, <1>7, <1>8, <1>9
<1>12. OutAt(strm, Reached) = total_out + ToUser + Overflow
  BY <1>1, <1>7, <1>10
<1> QED BY <1>3, <1>4, <1>7, <1>10, <1>11, <1>12

LEMMA CellsOut ==
  ASSUME IInv, pc = "submit"
  PROVE  fifo_out \in [Cells -> Nat] /\ DOMAIN fifo_out = Cells
<1>1. fifo_out \in [0..LenOut - 1 -> Nat]
  BY Submitted DEF IInv, Types, FifoTypes
<1> QED BY <1>1 DEF Cells

LEMMA WrittenIs ==
  ASSUME IInv, pc = "submit"
  PROVE  Written = WrittenTo(fifo_out, cur_out, OutEnd(item), ToUser, Overflow)
<1>1. Written = [i \in DOMAIN fifo_out |->
                   IF cur_out <= i /\ i < cur_out + Overflow
                   THEN OutEnd(item) + (ToUser + (i - cur_out)) + 1 ELSE fifo_out[i]]
  BY DEF Written, Moved, Byte
<1> QED BY <1>1, CellsOut DEF WrittenTo

LEMMA AppendedIs ==
  ASSUME IInv, pc = "submit", NEW n
  PROVE  Appended(n) = AppendedTo(fifo_out, cur_out, OutEnd(item), ToUser, n)
<1>1. Appended(n) = [i \in DOMAIN fifo_out |->
                       IF cur_out <= i /\ i < cur_out + n
                       THEN OutEnd(item) + (ToUser - n + (i - cur_out)) + 1 ELSE fifo_out[i]]
  BY DEF Appended, Moved, Byte
<1> QED BY <1>1, CellsOut DEF AppendedTo

LEMMA SpanningIs ==
  ASSUME IInv, pc = "submit", NEW w, w = Written, DOMAIN w = Cells
  PROVE  Spanning = IF ToUser + Overflow > Window
                    THEN EndBefore(w, cur_out, OutEnd(item), ToUser, Window - Overflow)
                    ELSE AllBefore(MovedBack(w, cur_out, ToUser, Window - (ToUser + Overflow)),
                                   cur_out, OutEnd(item), ToUser)
<1>1. CASE ToUser + Overflow > Window
  <2> DEFINE n == Window - Overflow
  <2>1. Spanning = Moved(w, cur_out - n, n, LAMBDA k : Byte(ToUser - n + k))
    BY <1>1 DEF Spanning
  <2>2. Spanning = [i \in DOMAIN w |->
                      IF cur_out - n <= i /\ i < cur_out - n + n
                      THEN OutEnd(item) + (ToUser - n + (i - (cur_out - n))) + 1 ELSE w[i]]
    BY <2>1 DEF Moved, Byte
  <2> QED BY <1>1, <2>2 DEF EndBefore
<1>2. CASE ~(ToUser + Overflow > Window)
  <2> DEFINE n == Window - (ToUser + Overflow)
             b == Moved(w, cur_out - ToUser - n, n, LAMBDA k : w[cur_out - n + k])
  <2>1. Spanning = Moved(b, cur_out - ToUser, ToUser, LAMBDA k : Byte(k))
    BY <1>2 DEF Spanning
  <2>2. b = [i \in DOMAIN w |->
               IF cur_out - ToUser - n <= i /\ i < cur_out - ToUser - n + n
               THEN w[cur_out - n + (i - (cur_out - ToUser - n))] ELSE w[i]]
    BY DEF Moved
  <2>3. b = MovedBack(w, cur_out, ToUser, n) /\ DOMAIN b = Cells
    BY <2>2 DEF MovedBack
  <2> HIDE DEF b
  <2>4. Spanning = [i \in DOMAIN b |->
                      IF cur_out - ToUser <= i /\ i < cur_out - ToUser + ToUser
                      THEN OutEnd(item) + (i - (cur_out - ToUser)) + 1 ELSE b[i]]
    BY <2>1 DEF Moved, Byte
  <2> QED BY <1>2, <2>3, <2>4 DEF AllBefore
<1> QED BY <1>1, <1>2

\* fifo_out after the job.
OutRight(f, c, given, o, all) ==
  /\ f \in [0..LenOut - 1 -> Nat] /\ c \in Nat /\ c \in Window..LenOut \div 2 /\ c + o <= LenOut
  /\ ~Final \/ o > 0 => Holds(f, c, given, all)

LEMMA NewHistoryIs ==
  ASSUME IInv, pc = "submit", Produced <= tgt, NewHistory
  PROVE  OutRight(fifo_out', cur_out', total_out + ToUser, Overflow, OutAt(strm, Reached))
<1> DEFINE f == fifo_out
           all == total_out
           t == ToUser
           o == Overflow
<1>1. /\ Produced \in Nat /\ o \in Nat /\ t \in Nat /\ Produced = t + o /\ cur_out + o <= LenOut
      /\ OutAt(strm, item) = all /\ OutEnd(item) = all
      /\ OutAt(strm, Reached) = all + t + o
  BY ProducedIs
<1>2. f \in [Cells -> Nat]
  BY CellsOut
<1>3. /\ cur_out \in Nat /\ Window <= cur_out /\ cur_out <= LenOut \div 2 /\ all \in Nat
      /\ LenOut \in Nat /\ Window \in Nat \ {0} /\ LenOut \div 2 \in Nat
      /\ 2 * Window <= LenOut \div 2 /\ 2 * (LenOut \div 2) <= LenOut
  BY Numbers, Consts
<1>4. cur_out \in Window..LenOut \div 2
  BY <1>3
<1>5. Holds(f, cur_out, all, all)
  BY <1>1, Submitted DEF IInv, HistoryInv
<1> HIDE DEF f, all, t, o
<1>6. CASE o = 0 /\ Final
  <2>1. fifo_out' = f /\ cur_out' = cur_out
    BY <1>6 DEF NewHistory, o, f
  <2> QED BY <1>1, <1>2, <1>3, <1>4, <1>6, <2>1 DEF OutRight, Cells, all, t, o
<1>7. CASE o = 0 /\ ~Final
  <2> DEFINE n == AtMost(Window, Produced)
             g == AppendedTo(f, cur_out, all, t, n)
  <2>1. fifo_out' = OutCheck(Appended(n), cur_out + n, 0) /\ cur_out' = OutCur(cur_out + n)
    BY <1>7 DEF NewHistory, o
  <2>2. Appended(n) = g
    BY <1>1, AppendedIs DEF f, t
  <2>3. Produced = t /\ OutAt(strm, Reached) = all + t /\ all + t \in Nat
    BY <1>1, <1>3, <1>7
  <2>4. n \in Nat /\ n <= Window /\ n = AtMost(Window, t)
    BY <1>1, <1>3, <2>3, LeastNat
  <2> HIDE DEF n
  <2>5. cur_out + n \in Nat /\ cur_out + n <= LenOut /\ Window <= cur_out + n
    BY <1>3, <2>4
  <2>6. g \in [Cells -> Nat] /\ Holds(g, cur_out + n, all + t, all + t)
    BY <1>1, <1>2, <1>3, <1>5, <2>4, <2>5, AppendedHolds
  <2> HIDE DEF g
  <2>7. OutCheck(g, cur_out + n, 0) \in [0..LenOut - 1 -> Nat]
    BY <2>5, <2>6, OutCheckIs DEF Cells
  <2>8. Holds(OutCheck(g, cur_out + n, 0), OutCur(cur_out + n), all + t, all + t)
    <3>1. g \in [0..LenOut - 1 -> Nat]
      BY <2>6 DEF Cells
    <3>2. all + t = (all + t) + 0 /\ (cur_out + n) + 0 <= LenOut
      BY <2>3, <2>5
    <3> QED BY <2>3, <2>5, <2>6, <3>1, <3>2, OutCheckKeeps
  <2>9. /\ OutCur(cur_out + n) \in Nat /\ OutCur(cur_out + n) \in Window..LenOut \div 2
        /\ OutCur(cur_out + n) + 0 <= LenOut
    BY <2>5, OutCurIs
  <2> QED BY <1>7, <2>1, <2>2, <2>3, <2>7, <2>8, <2>9 DEF OutRight, all, t, o
<1>8. CASE o > 0
  <2> DEFINE w == Written
  <2>1. fifo_out' = (IF o < Window THEN Spanning ELSE Written) /\ cur_out' = cur_out
    BY <1>8 DEF NewHistory, o
  <2>2. w = WrittenTo(f, cur_out, all, t, o)
    BY <1>1, WrittenIs DEF f, t, o
  <2>3. w \in [Cells -> Nat] /\ DOMAIN w = Cells
    BY <1>1, <1>2, <1>3, <2>2, WrittenHolds
  <2>4. fifo_out' \in [Cells -> Nat] /\ Holds(fifo_out', cur_out, all + t, all + t + o)
    <3>1. CASE ~(o < Window)
      <4>1. fifo_out' = w
        BY <2>1, <3>1
      <4>2. o >= Window
        BY <1>1, <1>3, <3>1
      <4>3. Holds(WrittenTo(f, cur_out, all, t, o), cur_out, all + t, all + t + o)
        BY <1>1, <1>2, <1>3, <4>2, LongHolds
      <4> QED BY <2>2, <2>3, <4>1, <4>3
    <3>2. CASE o < Window /\ t + o > Window
      <4> DEFINE n == Window - o
      <4>1. fifo_out' = EndBefore(w, cur_out, all, t, n)
        BY <1>1, <2>1, <2>3, <3>2, SpanningIs DEF t, o
      <4> HIDE DEF w
      <4>2. EndBefore(w, cur_out, all, t, n) \in [Cells -> Nat]
            /\ Holds(EndBefore(w, cur_out, all, t, n), cur_out, all + t, all + t + o)
        BY <1>1, <1>2, <1>3, <2>2, <3>2, EndBeforeHolds
      <4> QED BY <4>1, <4>2
    <3>3. CASE o < Window /\ ~(t + o > Window)
      <4> DEFINE n == Window - (t + o)
                 b == MovedBack(w, cur_out, t, n)
      <4>1. fifo_out' = AllBefore(b, cur_out, all, t)
        BY <1>1, <2>1, <2>3, <3>3, SpanningIs DEF t, o
      <4> HIDE DEF w
      <4>2. t + o <= Window
        BY <1>1, <1>3, <3>3
      <4>3. AllBefore(b, cur_out, all, t) \in [Cells -> Nat]
            /\ Holds(AllBefore(b, cur_out, all, t), cur_out, all + t, all + t + o)
        BY <1>1, <1>2, <1>3, <1>5, <2>2, <4>2, AllBeforeHolds
      <4> QED BY <4>1, <4>3
    <3> QED BY <3>1, <3>2, <3>3
  <2> QED BY <1>1, <1>3, <1>4, <2>1, <2>4 DEF OutRight, Cells, all, t, o
<1> QED BY <1>1, <1>6, <1>7, <1>8

\* Where a job that is not the last leaves a raw stream that is still at its
\* first byte.
LEMMA StillAtFirstByte ==
  ASSUME IInv, pc = "submit", Produced <= tgt, ~Final, TakenNin = 0, Unused % Bits # 0
  PROVE  TakenAvail > 0 /\ ToUser = 0 /\ Overflow = 0 /\ avail_out > 0
<1>1. /\ nin \in Nat /\ avail_in \in Nat /\ used_in \in Nat /\ avail_out \in Nat /\ total_out \in Nat
      /\ src \in Nat /\ Bits \in Nat \ {0} /\ HeaderLen(strm) \in Nat
  BY Numbers, Consts, Streams DEF IInv
<1>2. /\ src >= 1 /\ src <= used_in + avail_in /\ avail_out > 0
  BY Submitted
<1>3. Place - HeaderLen(strm) \in Nat
  BY FedIs
<1>4. TakenNin - TakenUsed = Place + Consumed /\ nin = 0 /\ TakenAvail = avail_in /\ TakenUsed \in Nat
  BY TakenIs
<1>5. Consumed \in Nat
  BY ConsumedIs
<1>6. used_in = 0 /\ Consumed = 0 /\ HeaderLen(strm) = 0 /\ Place = 0
  BY <1>1, <1>3, <1>4, <1>5 DEF Place
<1> DEFINE r == Unused % Bits
           bit == BitAt(strm, Reached)
<1>7. bit = Bits * ((Place + Consumed) - HeaderLen(strm)) + (Bits - r) /\ r \in Nat /\ r # 0 /\ r < Bits
  BY ConsumedIs
<1> HIDE DEF r
<1>8. bit < Bits
  <2>1. (Place + Consumed) - HeaderLen(strm) = 0
    BY <1>6
  <2>2. bit = Bits * 0 + (Bits - r)
    BY <1>7, <2>1
  <2> HIDE DEF bit
  <2> QED BY <1>1, <1>7, <2>2
<1>9. OutAt(strm, Reached) = 0
  <2>1. strm \in Members /\ Reached \in 0..Len(strm.bit)
    BY Streams, ReachedIs DEF IInv
  <2> QED BY <1>8, <2>1, ItemFacts
<1>10. ToUser = 0 /\ Overflow = 0
  <2>1. /\ OutAt(strm, Reached) = total_out + ToUser + Overflow /\ ToUser \in Nat /\ Overflow \in Nat
    BY ProducedIs
  <2> QED BY <1>1, <1>9, <2>1
<1> QED BY <1>1, <1>2, <1>4, <1>6, <1>10

\* Room in next_out means that nothing overflowed.
LEMMA NoOverflow ==
  ASSUME IInv, pc = "submit", Produced <= tgt, avail_out - ToUser > 0
  PROVE  Overflow = 0
<1>1. avail_out \in Nat /\ Produced \in Nat /\ Overflow \in Nat /\ ToUser \in Nat
  BY Numbers, ProducedIs
<1>2. Overflow = Produced - AtMost(avail_out, Produced) /\ ToUser = Produced - Overflow
  BY DEF Overflow, ToUser
<1> QED BY <1>1, <1>2 DEF AtMost

LEMMA JobDoneInv == ASSUME IInv, JobDone PROVE IInv'
<1> DEFINE s == [k \in 1..ToUser |-> Byte(k - 1)]
           g == total_out + ToUser
           a == avail_out - ToUser
<1>1. /\ pc = "submit" /\ Produced <= tgt /\ NewHistory /\ TakeSource
      /\ user' = user \o s /\ total_out' = g /\ avail_out' = a
      /\ used_out' = used_out + Overflow
      /\ history_len' = HistoryAfter
      /\ in_subc' = IF Final THEN in_subc ELSE Unused % Bits
      /\ crc' = InCrc + Produced /\ comp_ratio' = RatioAfter
      /\ resuming' = (resuming \/ ~Final) /\ is_final' = Final
      /\ dict_len' = FALSE /\ item' = Reached
      /\ UNCHANGED <<strm, fault, wrap, inf_state, inf_held, length, gzflags, ckidx, cksum, hcrc16,
                     gzhead, flush, in0, out0, trailer, failed, jobVars, resets>>
  BY DEF JobDone, Give
<1>2. \/ Final /\ used_out' = 0 /\ pc' = "verify" /\ rc' = rc
      \/ Final /\ used_out' # 0 /\ pc' = "copy trailer" /\ rc' = rc
      \/ ~Final /\ pc' = "loop" /\ rc' = rc
      \/ ~Final /\ avail_out' > 0 /\ pc' = "cache" /\ rc' = rc
      \/ ~Final /\ ~(avail_out' > 0 /\ avail_in' > 0) /\ pc' = "return" /\ rc' = "OK"
  BY DEF JobDone, Returns
<1>3. /\ nin' = TakenNin /\ avail_in' = TakenAvail /\ used_in' = TakenUsed
      /\ cur_in' = TakenCur /\ fifo_in' = TakenFifo
  BY <1>1, TakeSourceIs
<1>4. OutRight(fifo_out', cur_out', g, Overflow, OutAt(strm, Reached))
  BY <1>1, NewHistoryIs
<1>5. /\ Produced \in Nat /\ Overflow \in Nat /\ ToUser \in Nat
      /\ Produced = ToUser + Overflow /\ ToUser <= avail_out
      /\ OutEnd(item) = total_out
      /\ OutAt(strm, Reached) = total_out + ToUser + Overflow
      /\ OutAt(strm, Reached) = total_out + Produced
  BY <1>1, ProducedIs
<1>6. /\ used_out = 0 /\ ~is_final /\ avail_out > 0 /\ inf_state = "inflate"
  BY <1>1, Submitted
<1>7. total_out \in Nat /\ avail_out \in Nat
  BY Numbers
<1>8. g \in Nat /\ a \in Nat /\ g + Overflow = OutAt(strm, Reached) /\ used_out + Overflow = Overflow
  BY <1>5, <1>6, <1>7
<1>9. used_out' = Overflow
  BY <1>1, <1>8
<1>10. s \in Seq(Nat) /\ Len(s) = ToUser /\ \A k \in 1..ToUser : s[k] = total_out + k
  <2>1. ToUser \in Nat /\ OutEnd(item) = total_out
    BY <1>5
  <2>2. \A k \in 1..ToUser : Byte(k - 1) = total_out + k
    BY <1>7, <2>1 DEF Byte
  <2>3. s = [k \in 1..ToUser |-> total_out + k]
    BY <2>2
  <2> HIDE DEF s
  <2> QED BY <1>7, <2>1, <2>3
<1> HIDE DEF s
<1>11. user' \in Seq(Nat) /\ Len(user') = total_out' /\ OutputRight'
  <2>1. user \in Seq(Nat) /\ Len(user) = total_out /\ OutputRight
    BY DEF IInv, Types, FifoTypes
  <2> QED BY <1>1, <1>5, <1>7, <1>10, <2>1, UserGrows
<1> HIDE DEF g, a
<1>12. /\ UNCHANGED <<strm, fault, wrap, inf_state, inf_held, length, gzflags, ckidx, cksum, hcrc16, gzhead>>
       /\ UNCHANGED <<flush, in0, out0, trailer, failed, resets>>
       /\ UNCHANGED <<src, tgt, tgt_exp, loop_cnt, faults>>
  BY <1>1 DEF jobVars
<1>13. /\ TakenNin \in Nat /\ TakenAvail \in Nat /\ TakenUsed \in Nat /\ TakenCur \in Nat
       /\ TakenNin + TakenAvail = nin + avail_in /\ TakenCur + TakenUsed <= LenIn
       /\ TakenNin - TakenUsed = Place + Consumed
  BY <1>1, TakenIs
<1>14. /\ TakenFifo \in [0..LenIn - 1 -> Nat] \cup {NULL} /\ (TakenUsed > 0 => TakenFifo # NULL)
       /\ Cached(TakenFifo, TakenCur, TakenUsed, TakenNin - TakenUsed)
  BY <1>1, TakenFifoIs
<1>15. Place' = Place + Consumed
  BY <1>3, <1>13 DEF Place
<1>16. Reached \in 0..Len(strm.bit)
  BY <1>1, ReachedIs
<1>17. Unused % Bits \in Nat /\ Unused % Bits < Bits
  BY <1>1, ConsumedIs
<1>18. Types'
  <2>1. HeaderTypes'
    <3> DEFINE l == FileLen(strm)
    <3>0. nin + avail_in <= l
      BY DEF IInv, Types, HeaderTypes
    <3> HIDE DEF l
    <3>1. TakenNin + TakenAvail <= l
      BY <1>13, <3>0
    <3>2. nin' + avail_in' <= FileLen(strm')
      BY <1>3, <1>12, <3>1 DEF l
    <3>3. nin' \in Nat /\ avail_in' \in Nat
      BY <1>3, <1>13
    <3> QED BY <1>12, <3>2, <3>3 DEF IInv, Types, HeaderTypes
  <2>2. CallTypes'
    BY <1>1, <1>2, <1>8, <1>12 DEF IInv, Types, CallTypes
  <2>3. FifoTypes'
    <3>1. /\ fifo_out' \in [0..LenOut - 1 -> Nat] /\ cur_out' \in Nat /\ cur_out' \in Window..LenOut \div 2
          /\ cur_out' + used_out' <= LenOut
      BY <1>4, <1>9 DEF OutRight
    <3>2. used_out' \in Nat /\ total_out' \in Nat
      BY <1>1, <1>5, <1>8, <1>9
    <3> QED BY <1>3, <1>11, <1>13, <1>14, <3>1, <3>2 DEF FifoTypes
  <2>4. EngineTypes'
    <3>1. total_out' + used_out' = OutAt(strm', item')
      BY <1>1, <1>8, <1>9, <1>12
    <3>2. HistoryAfter \in Nat
      <4>1. OutAt(strm, Reached) \in Nat /\ Window \in Nat /\ total_out + used_out + Produced = OutAt(strm, Reached)
        BY <1>5, <1>6, <1>7, Consts
      <4> QED BY <4>1, LeastNat DEF HistoryAfter
    <3>3. in_subc' \in 0..Bits - 1
      <4>1. in_subc \in 0..Bits - 1 /\ Unused % Bits \in 0..Bits - 1
        BY <1>17, Consts DEF IInv, Types, EngineTypes
      <4> QED BY <1>1, <4>1
    <3>4. crc' \in Nat
      <4>1. crc \in Nat
        BY DEF IInv, Types, EngineTypes
      <4>2. InCrc \in Nat /\ InCrc + Produced \in Nat
        BY <1>5, <4>1 DEF InCrc
      <4> QED BY <1>1, <4>2
    <3>5. comp_ratio' \in {"guess", "all"}
      <4>1. comp_ratio \in {"guess", "all"}
        BY DEF IInv, Types, EngineTypes
      <4> QED BY <1>1, <4>1 DEF RatioAfter
    <3>6. trailer' \in Seq(Nat)
      BY <1>12 DEF IInv, Types, EngineTypes
    <3>7. item' \in 0..Len(strm'.bit)
      BY <1>1, <1>12, <1>16
    <3> QED BY <1>1, <3>1, <3>2, <3>3, <3>4, <3>5, <3>6, <3>7 DEF EngineTypes
  <2>5. Flags'
    <3>1. Final \in BOOLEAN
      BY DEF Final
    <3>2. (resuming \/ ~Final) \in BOOLEAN
      OBVIOUS
    <3> QED BY <1>1, <1>12, <3>1, <3>2, FlagFacts, Zenon DEF Flags
  <2> QED BY <2>1, <2>2, <2>3, <2>4, <2>5 DEF Types
<1>19. HeaderInv'
  BY <1>6, <1>12 DEF IInv, HeaderInv
<1>20. FreshInv'
  <2>1. fifo_out' # NULL
    BY <1>4, NullFacts DEF OutRight
  <2>2. pc' # "app" /\ ~(pc' = "return" /\ rc' = "NEED_DICT") /\ inf_state' = "inflate"
    BY <1>2, <1>6, <1>12
  <2> QED BY <2>1, <2>2 DEF FreshInv
<1>21. CachedInv'
  BY <1>3, <1>14 DEF CachedInv, Place
<1>22. HistoryInv'
  <2>1. history_len' = AtMost(OutAt(strm', item'), Window)
    <3>1. total_out + used_out + Produced = OutAt(strm, Reached)
      BY <1>5, <1>6, <1>7
    <3> QED BY <1>1, <1>12, <3>1 DEF HistoryAfter
  <2>2. ~Final \/ Overflow > 0 => Holds(fifo_out', cur_out', g, OutAt(strm, Reached))
    BY <1>4 DEF OutRight
  <2>3. ~is_final' \/ used_out' > 0 => Holds(fifo_out', cur_out', total_out', OutAt(strm', item'))
    BY <1>1, <1>9, <1>12, <2>2
  <2> QED BY <2>1, <2>3 DEF HistoryInv
<1>23. FeedInv'
  <2> SUFFICES ASSUME ~Final PROVE FeedInv'
    BY <1>1 DEF FeedInv
  <2> DEFINE h == IF Unused % Bits # 0 THEN Bits - (Unused % Bits) ELSE 0
  <2>1. BitAt(strm, Reached) = Bits * ((Place + Consumed) - HeaderLen(strm)) + h
    BY <1>1, ConsumedIs
  <2>2. Place + Consumed >= HeaderLen(strm)
    <3>1. Place - HeaderLen(strm) \in Nat /\ Consumed \in Nat /\ HeaderLen(strm) \in Nat /\ Place \in Int
      <4>1. Place - HeaderLen(strm) \in Nat /\ Consumed \in Nat
        BY <1>1, FedIs, ConsumedIs
      <4>2. HeaderLen(strm) \in Nat
        BY Streams DEF IInv
      <4>3. Place \in Int
        BY Numbers DEF Place
      <4> QED BY <4>1, <4>2, <4>3
    <3> QED BY <3>1
  <2>3. HalfByte' = h /\ resuming'
    BY <1>1 DEF HalfByte
  <2> HIDE DEF h
  <2>4. BitAt(strm', item') = Bits * (Place' - HeaderLen(strm')) + HalfByte' /\ Place' >= HeaderLen(strm')
    BY <1>1, <1>12, <1>15, <2>1, <2>2, <2>3
  <2> QED BY <2>3, <2>4 DEF FeedInv
<1>24. DictInv'
  <2> SUFFICES ASSUME nin' = 0, ~is_final', in_subc' # 0
               PROVE  pc' \in {"loop", "cache"} /\ avail_in' > 0 /\ avail_out' > 0
    BY <1>1 DEF DictInv
  <2>1. ~Final /\ Unused % Bits # 0 /\ TakenNin = 0
    BY <1>1, <1>3
  <2>2. TakenAvail > 0 /\ ToUser = 0 /\ avail_out > 0
    BY <1>1, <2>1, StillAtFirstByte
  <2>3. a = avail_out
    BY <1>7, <2>2 DEF a
  <2>4. avail_in' > 0 /\ avail_out' > 0
    BY <1>1, <1>3, <2>2, <2>3
  <2> QED BY <1>2, <2>1, <2>4
<1>25. JobInv'
  <2>1. CASE Final /\ used_out' = 0 /\ pc' = "verify"
    BY <1>1, <2>1 DEF JobInv
  <2>2. CASE Final /\ used_out' # 0 /\ pc' = "copy trailer"
    <3>1. used_out' > 0
      <4>1. Overflow # 0
        BY <1>9, <2>2
      <4>2. Overflow > 0
        BY <1>5, <4>1
      <4> QED BY <1>9, <4>2
    <3> QED BY <1>1, <2>2, <3>1 DEF JobInv
  <2>3. CASE ~Final /\ pc' = "loop"
    BY <1>1, <2>3 DEF JobInv
  <2>4. CASE ~Final /\ avail_out' > 0 /\ pc' = "cache"
    <3>1. avail_out - ToUser > 0
      BY <1>1, <2>4 DEF a
    <3>2. used_out' = 0
      BY <1>1, <1>9, <3>1, NoOverflow
    <3> QED BY <1>1, <2>4, <3>2 DEF JobInv
  <2>5. CASE pc' = "return"
    BY <2>5 DEF JobInv
  <2> QED BY <1>2, <2>1, <2>2, <2>3, <2>4, <2>5
<1>26. EndInv'
  <2>1. trailer = <<>> /\ Len(<<>>) = 0
    BY <1>6, EmptySeq DEF IInv, EndInv
  <2>2. ~(pc' = "return" /\ rc' = "STREAM_END")
    BY <1>2
  <2>3. CASE ~Final
    BY <1>1, <1>12, <2>1, <2>2, <2>3 DEF EndInv
  <2>4. CASE Final
    <3>1. Place + Consumed = BodyEnd(strm) /\ BodyEnd(strm) \in Nat
      BY <1>1, <2>4, ConsumedIs, FileNat, Streams DEF IInv
    <3>2. Place + Consumed = BodyEnd(strm) + Len(trailer)
      BY <2>1, <3>1
    <3>3. Place' = BodyEnd(strm') + Len(trailer')
      BY <1>12, <1>15, <3>2
    <3>4. Len(trailer') = 0 /\ Len(trailer') <= Trailers[strm'.fmt]
      <4>1. Trailers[strm.fmt] \in Nat
        BY Streams DEF IInv
      <4>2. Len(trailer) = 0 /\ Len(trailer) <= Trailers[strm.fmt]
        BY <2>1, <4>1
      <4> QED BY <1>12, <4>2
    <3>5. item' = Len(strm'.bit) /\ trailer' = <<>>
      BY <1>1, <1>12, <2>1, <2>4 DEF Final, Items
    <3> QED BY <2>2, <3>3, <3>4, <3>5 DEF EndInv
  <2> QED BY <2>3, <2>4
<1> QED
  BY <1>11, <1>18, <1>19, <1>20, <1>21, <1>22, <1>23, <1>24, <1>25, <1>26 DEF IInv

-----------------------------------------------------------------------------
\* Every step.
LEMMA StutterInv == ASSUME IInv, UNCHANGED vars PROVE IInv'
<1>1. UNCHANGED <<strm, pc, rc, nin, avail_in, fault>> /\ UNCHANGED hvars /\ UNCHANGED bodyVars
  BY DEF vars
<1>2. /\ UNCHANGED dataVars
      /\ UNCHANGED <<avail_out, flush, in0, out0, src, tgt, tgt_exp, loop_cnt, faults, failed, resets>>
      /\ UNCHANGED <<fifo_out, used_in, used_out, cur_out, resuming, is_final, in_subc, trailer, item>>
  BY <1>1, BodyParts, DataParts
<1>3. UNCHANGED <<wrap, inf_state, inf_held, length, gzflags, dict_len>>
  BY <1>1 DEF hvars
<1>4. HeaderTypes'
  BY <1>1, HeaderTypesKept DEF IInv, Types
<1>5. CallTypes'
  BY <1>1, <1>2 DEF IInv, Types, CallTypes
<1>6. FreshInv'
  BY <1>1, <1>2, <1>3 DEF IInv, FreshInv
<1>7. DictInv'
  BY <1>1, <1>2, <1>3 DEF IInv, DictInv
<1>8. JobInv'
  BY <1>1, <1>2, <1>3 DEF IInv, JobInv, Wanted, TargetSize
<1>9. EndInv'
  BY <1>1, <1>2, <1>3 DEF IInv, EndInv, Place
<1> QED
  BY <1>1, <1>2, <1>3, <1>4, <1>5, <1>6, <1>7, <1>8, <1>9, FlagFacts, ControlInv

LEMMA AcceleratorInv == ASSUME IInv, Accelerator PROVE IInv'
<1>1. CASE \E why \in {"garbled", "corrupt", "lost"} : JobError(why)
  BY <1>1, JobErrorInv
<1> QED BY <1>1, JobFaultInv, JobFaultsTooLongInv, JobSpaceInv, JobDoneInv DEF Accelerator

LEMMA LibraryStepInv == ASSUME IInv, Library PROVE IInv'
  BY HeaderInvs, InfReturnInv, BeginInv, TooManyLoopsInv, DrainInv, NothingToDrainInv,
     ReturnIdleInv, GoCacheInv, CacheInv, CacheNoMemoryInv, FeedStepInv, CopyTrailerOnlyInv,
     VerifyInv DEF Library

LEMMA ApplicationInv == ASSUME IInv, Application PROVE IInv'
<1>1. CASE AppCall
  <2>1. PICK n \in {c \in Chunks : c <= Left} \cup {Left}, r \in Rooms, fl \in Flushes :
          Call(n, r, fl)
    BY <1>1 DEF AppCall
  <2>2. Left \in Nat
    <3> DEFINE l == FileLen(strm)
    <3>1. l \in Nat /\ nin \in Nat /\ avail_in \in Nat
      BY Numbers, Streams, FileNat DEF IInv
    <3>2. nin + avail_in <= l
      BY DEF IInv, Types, HeaderTypes
    <3> HIDE DEF l
    <3>3. l - nin - avail_in \in Nat
      BY <3>1, <3>2
    <3> QED BY <3>3 DEF Left, l
  <2>3. n \in Nat /\ r \in Nat
    BY <2>2, Consts
  <2>4. fl \in {"no", "sync", "finish"}
    BY InflateAssumption, Zenon
  <2> QED BY <2>1, <2>3, <2>4, CallInv
<1>2. CASE AppReset
  <2>1. PICK m \in Again, w \in Wraps \cup {wrap} : Reset(m, w)
    BY <1>2 DEF AppReset
  <2>2. m \in Members
    BY InflateAssumption, Zenon
  <2> QED BY <2>1, <2>2, ResetInv
<1>3. CASE AppSetDictionary
  <2>1. PICK right \in BOOLEAN : SetDictionary(right) /\ UNCHANGED bodyVars
    BY <1>3 DEF AppSetDictionary
  <2> QED BY <2>1, SetDictionaryInv
<1>4. CASE AppGetHeader
  BY <1>4, GetHeaderInv DEF AppGetHeader
<1> QED BY <1>1, <1>2, <1>3, <1>4, CallNoMemoryInv DEF Application

LEMMA NextInv == ASSUME IInv, [Next]_vars PROVE IInv'
  BY StutterInv, AcceleratorInv, LibraryStepInv, ApplicationInv DEF Next

\* What the invariant is for.
LEMMA IInvJobsResume == IInv => JobsResume
<1> SUFFICES ASSUME IInv, pc = "submit", strm.refs = 0 PROVE Right
  BY DEF JobsResume
<1>1. /\ src >= 1 /\ used_out = 0 /\ ~is_final /\ (~resuming \/ dict_len => in_subc = 0)
  BY Submitted
<1>2. /\ src \in Nat /\ total_out \in Nat /\ cur_out \in Nat /\ Window <= cur_out /\ in_subc \in Nat
      /\ Window \in Nat /\ Place \in Int
  BY Numbers, Consts DEF Place
<1>3. \A k \in 1..src : Source(k) = Place + k
  BY SourceIs
<1>4. Source(1) = Place + 1
  BY <1>1, <1>2, <1>3
<1>5. FeedIsRight
  <2>1. FirstBit = BitEnd(item)
    <3>1. BitAt(strm, item) = Bits * (Place - HeaderLen(strm)) + HalfByte
      BY FedIs
    <3>2. HeaderLen(strm) \in Nat
      BY Streams DEF IInv
    <3>3. Source(1) - 1 - HeaderLen(strm) = Place - HeaderLen(strm)
      BY <1>2, <1>4, <3>2
    <3>4. HalfByte = IF in_subc = 0 THEN 0 ELSE Bits - in_subc
      BY <1>1 DEF HalfByte
    <3> QED BY <3>1, <3>3, <3>4, ItemEnds DEF FirstBit
  <2>2. \A k \in 1..src : Source(k) = Source(1) + k - 1
    BY <1>2, <1>3, <1>4
  <2> QED BY <2>1, <2>2 DEF FeedIsRight
<1>6. HistoryIsRight
  <2> DEFINE all == OutAt(strm, item)
  <2>1. all = total_out /\ OutEnd(item) = all
    BY <1>1, <1>2, ItemEnds DEF IInv, Types, EngineTypes
  <2>2. history_len = AtMost(all, Window) /\ Holds(fifo_out, cur_out, total_out, all)
    BY <1>1 DEF IInv, HistoryInv
  <2> HIDE DEF all
  <2>3. history_len \in Nat /\ history_len <= Window /\ history_len <= all
    BY <1>2, <2>1, <2>2, LeastNat
  <2>4. QuadWord * UpDiv(history_len, QuadWord) <= Window
    BY <2>3, WholeQuads
  <2>5. cur_out >= QuadWord * UpDiv(history_len, QuadWord)
    <3>1. QuadWord * UpDiv(history_len, QuadWord) \in Int
      <4>1. QuadWord \in Nat \ {0} /\ UpDiv(history_len, QuadWord) \in Nat
        BY <2>3, Consts, UpDivIs
      <4> QED BY <4>1, Times
    <3> QED BY <1>2, <2>4, <3>1
  <2>6. ASSUME NEW k \in 1..history_len PROVE fifo_out[cur_out - k] = OutEnd(item) - k + 1
    <3> DEFINE p == all - k + 1
    <3>1. p \in 1..all /\ p > all - Window /\ cur_out - total_out + p - 1 = cur_out - k
      BY <1>2, <2>1, <2>3
    <3>2. fifo_out[cur_out - total_out + p - 1] = p
      BY <2>2, <3>1 DEF Holds
    <3> QED BY <2>1, <3>1, <3>2
  <2>7. ~(OutEnd(item) < strm.refs)
    BY <1>2, <2>1
  <2> QED BY <2>1, <2>2, <2>5, <2>6, <2>7 DEF HistoryIsRight
<1> QED BY <1>5, <1>6 DEF Right

LEMMA IInvEndIsEnd == IInv => EndIsEnd
<1> SUFFICES ASSUME IInv, pc = "return", Result(rc) = "STREAM_END" PROVE EndIsEnd
  BY DEF EndIsEnd, Answers
<1>1. rc = "STREAM_END"
  BY DEF Result
<1>2. CASE avail_in = 0 /\ used_in = 0 /\ avail_out = 0 /\ used_out = 0
  BY <1>2 DEF EndIsEnd
<1>3. CASE /\ is_final /\ used_out = 0 /\ Len(trailer) = Trailers[strm.fmt]
           /\ strm.bad # "trailer" \/ wrap = {}
  <2>1. item = Len(strm.bit) /\ Place = BodyEnd(strm) + Len(trailer)
    BY <1>3 DEF IInv, EndInv
  <2>2. nin - used_in = StreamLen(strm)
    BY <1>3, <2>1 DEF Place, StreamLen
  <2>3. total_out = Plain(strm)
    <3>1. total_out + used_out = OutAt(strm, item) /\ total_out \in Nat
      BY Numbers DEF IInv, Types, EngineTypes
    <3>2. strm \in Members /\ Len(strm.bit) \in Nat \ {0} /\ Len(strm.out) = Len(strm.bit)
      BY Streams, MemberFacts DEF IInv
    <3>3. OutAt(strm, item) = Plain(strm)
      BY <2>1, <3>2 DEF OutAt, Plain
    <3> QED BY <1>3, <3>1, <3>3
  <2> QED BY <1>3, <2>2, <2>3 DEF EndIsEnd
<1> QED BY <1>1, <1>2, <1>3 DEF IInv, EndInv

-----------------------------------------------------------------------------
\* The users.  What the library takes of the input it was given.
TakesInput == \E n \in Nat : nin' = nin + n /\ avail_in' = avail_in - n

LEMMA Idle == ASSUME IInv, UNCHANGED <<nin, avail_in>> PROVE TakesInput
<1>1. nin' = nin + 0 /\ avail_in' = avail_in - 0
  BY Numbers
<1> QED BY <1>1 DEF TakesInput

LEMMA HeaderTakes == ASSUME IInv, HeaderStep PROVE TakesInput
<1>1. avail_in \in Nat /\ inf_held \in Nat /\ length \in Nat
  BY HeaderFacts
<1>2. ASSUME NEW n \in Nat, NEW next, inf_held < n, Skip(n, next) PROVE TakesInput
  <2>1. AtMost(n - inf_held, avail_in) \in Nat
    BY <1>1, <1>2 DEF AtMost
  <2>2. Take(AtMost(n - inf_held, avail_in))
    BY <1>2 DEF Skip
  <2> QED BY <2>1, <2>2 DEF Take, TakesInput
<1>3. CASE NeedInput \/ Dispatch \/ GzipNoHcrc \/ ZlibDict \/ DataError \/ GoInflate
  BY <1>3, Idle DEF NeedInput, Dispatch, GzipNoHcrc, ZlibDict, DataError, GoInflate
<1>4. CASE Detect \/ TestByte \/ GzipFlg \/ ZlibFlg
  BY <1>4 DEF Detect, TestByte, GzipFlg, ZlibFlg, Take, TakesInput
<1>5. CASE GzipMtime \/ GzipXflOs \/ ZlibDictId
  <2>1. /\ GzipMtime \/ ZlibDictId => inf_held < 4
        /\ GzipXflOs => inf_held < 1
    BY DEF GzipMtime, GzipXflOs, ZlibDictId, In, IInv, HeaderInv
  <2> QED BY <1>2, <1>5, <2>1 DEF GzipMtime, GzipXflOs, ZlibDictId
<1>6. CASE GzipXlen
  <2>1. CASE "extra" \in gzflags
    <3>1. inf_held < 2
      BY <1>6 DEF GzipXlen, In, IInv, HeaderInv
    <3> QED BY <1>2, <1>6, <2>1, <3>1 DEF GzipXlen
  <2>2. CASE "extra" \notin gzflags
    BY <1>6, <2>2, Idle DEF GzipXlen
  <2> QED BY <2>1, <2>2
<1>7. CASE GzipExtra
  <2> DEFINE copy == IF "extra" \in gzflags THEN AtMost(length, avail_in) ELSE 0
  <2>1. copy \in Nat
    BY <1>1 DEF AtMost
  <2>2. TakeBulk(copy)
    BY <1>7 DEF GzipExtra
  <2> QED BY <2>1, <2>2 DEF TakeBulk, TakesInput
<1>8. CASE GzipName
  <2> DEFINE there == Cardinality({p \in nin + 1..HeaderLen(strm) : Layout(strm)[p] = "name"})
             copy == IF "name" \in gzflags THEN AtMost(there, avail_in) ELSE 0
  <2>1. copy \in Nat
    <3>1. there \in Nat
      BY <1>8, NameLeft DEF GzipName, In
    <3> HIDE DEF there
    <3> QED BY <1>1, <3>1 DEF AtMost
  <2>2. TakeBulk(copy)
    BY <1>8 DEF GzipName
  <2> HIDE DEF copy
  <2> QED BY <2>1, <2>2 DEF TakeBulk, TakesInput
<1>9. CASE GzipHcrc
  <2>1. AtMost(2 - inf_held, avail_in) \in Nat
    <3>1. inf_held < 2
      BY <1>9 DEF GzipHcrc, In, IInv, HeaderInv
    <3> QED BY <1>1, <3>1 DEF AtMost
  <2>2. Take(AtMost(2 - inf_held, avail_in))
    BY <1>9 DEF GzipHcrc
  <2> QED BY <2>1, <2>2 DEF Take, TakesInput
<1> QED BY <1>3, <1>4, <1>5, <1>6, <1>7, <1>8, <1>9 DEF HeaderStep

LEMMA StepTakes == ASSUME IInv, Library \/ Accelerator PROVE TakesInput
<1>1. CASE \/ InfReturn \/ Begin \/ TooManyLoops \/ Drain \/ NothingToDrain \/ ReturnIdle \/ GoCache
           \/ CacheNoMemory \/ Feed \/ JobFault \/ JobFaultsTooLong \/ JobSpace
           \/ \E why \in {"garbled", "corrupt", "lost"} : JobError(why)
  BY <1>1, Idle
     DEF InfReturn, Begin, TooManyLoops, Drain, NothingToDrain, ReturnIdle, GoCache, CacheNoMemory,
         Feed, JobFault, JobFaultsTooLong, JobSpace, JobError
<1>2. CASE Header
  BY <1>2, HeaderTakes DEF Header
<1>3. CASE Cache
  <2> DEFINE n == ReadSize(InCur(OldCur))
  <2>1. nin' = nin + n /\ avail_in' = avail_in - n
    BY <1>3 DEF Cache
  <2>2. n \in Nat
    <3>1. OldCur \in Nat /\ OldCur + used_in <= LenIn
      BY Numbers DEF OldCur
    <3>2. InCur(OldCur) \in Nat /\ InCur(OldCur) <= OldCur
      BY <3>1, InCurIs
    <3>3. LenIn - InCur(OldCur) - used_in \in Nat /\ avail_in \in Nat
      BY <3>1, <3>2, Numbers
    <3> QED BY <3>3 DEF ReadSize, AtMost
  <2> QED BY <2>1, <2>2 DEF TakesInput
<1>4. CASE CopyTrailerOnly \/ Verify
  <2>1. nin' = nin + Got2 /\ avail_in' = avail_in - Got2
    BY <1>4 DEF CopyTrailerOnly, Verify, CopyTrailer
  <2>2. Got2 \in Nat
    <3>1. is_final
      BY <1>4 DEF CopyTrailerOnly, Verify, IInv, JobInv
    <3> QED BY <3>1, Pieces
  <2> QED BY <2>1, <2>2 DEF TakesInput
<1>5. CASE JobDone
  <2>1. pc = "submit" /\ TakeSource
    BY <1>5 DEF JobDone
  <2>2. nin' = TakenNin /\ avail_in' = TakenAvail
    BY <2>1, TakeSourceIs
  <2>3. TakenNin = nin + (TakenNin - nin) /\ TakenAvail = avail_in - (TakenNin - nin)
        /\ TakenNin - nin \in Nat
    <3>1. /\ TakenNin \in Nat /\ TakenAvail \in Nat /\ TakenNin + TakenAvail = nin + avail_in
          /\ TakenNin >= nin
      BY <2>1, TakenIs
    <3> QED BY <3>1, Numbers
  <2> QED BY <2>2, <2>3 DEF TakesInput
<1> QED BY <1>1, <1>2, <1>3, <1>4, <1>5 DEF Library, Accelerator

\* What the users keep: the input offered never runs past the end of the source.
UserInv ==
  /\ size \in Nat /\ left \in Nat /\ room \in Nat
  /\ who = "app" => at = "idle"
  /\ who # "app" => nin + avail_in <= size

UsersInv == IInv /\ UserInv

LEMMA UsersConsts ==
  /\ MaxPiece \in Nat /\ FewBytes \in Nat
  /\ \A n \in Dests : n \in Nat
  /\ \A n \in Lens : n \in Nat
  BY UsersAssumption

LEMMA UsersInitInv == UsersInit => UsersInv
<1> SUFFICES ASSUME UsersInit PROVE UsersInv
  OBVIOUS
<1>1. IInv
  BY InitInv DEF UsersInit
<1>2. size \in Nat
  <2>1. strm \in Members
    BY <1>1, Streams DEF IInv
  <2>2. size \in {0, HeaderLen(strm), BodyEnd(strm), StreamLen(strm), FileLen(strm)}
    BY DEF UsersInit, Sizes
  <2>3. HeaderLen(strm) \in Nat
    BY <2>1, HeaderNat
  <2>4. BodyEnd(strm) \in Nat /\ StreamLen(strm) \in Nat /\ FileLen(strm) \in Nat
    BY <2>1, FileNat
  <2> QED BY <2>2, <2>3, <2>4
<1>3. nin = 0 /\ avail_in = 0
  BY DEF UsersInit, Init
<1>4. left = 0 /\ room = 0 /\ at = "idle"
  BY DEF UsersInit
<1> QED BY <1>1, <1>2, <1>3, <1>4 DEF UsersInv, UserInv

\* A call of a user offers at most what the source still has.
LEMMA InflatesInv ==
  ASSUME UsersInv, NEW n \in Nat, NEW r \in Nat, NEW fl \in {"no", "sync", "finish"}, NEW next,
         Inflates(n, r, fl, next), who # "app", n <= Remaining
  PROVE  /\ IInv'
         /\ nin' + avail_in' <= size
<1>1. IInv /\ size \in Nat /\ nin + avail_in <= size /\ nin \in Nat /\ avail_in \in Nat
  BY Numbers DEF UsersInv, UserInv
<1>2. CASE Call(n, r, fl)
  <2>1. nin' = nin /\ avail_in' = avail_in + n
    BY <1>2 DEF Call
  <2>2. nin + (avail_in + n) <= size
    BY <1>1 DEF Remaining
  <2>3. IInv'
    BY <1>1, <1>2, CallInv
  <2> QED BY <2>1, <2>2, <2>3
<1>3. CASE CallNoMemory
  <2>1. nin' = nin /\ avail_in' = avail_in
    BY <1>3 DEF CallNoMemory
  <2>2. IInv'
    BY <1>1, <1>3, CallNoMemoryInv
  <2> QED BY <1>1, <2>1, <2>2
<1> QED BY <1>2, <1>3 DEF Inflates

LEMMA UncompressCallInv == ASSUME UsersInv, UncompressCall PROVE UsersInv'
<1> DEFINE more == IF room = 0 THEN AtMost(left, MaxPiece) ELSE 0
           input == IF avail_in = 0 THEN AtMost(Remaining, MaxPiece) ELSE 0
<1>1. /\ size \in Nat /\ left \in Nat /\ room \in Nat /\ who # "app"
      /\ nin + avail_in <= size /\ nin \in Nat /\ avail_in \in Nat
  BY Numbers DEF UsersInv, UserInv, UncompressCall
<1>2. /\ Inflates(input, room + more, "no", "uncompressing")
      /\ left' = left - more
      /\ UNCHANGED <<who, size, dest, room, last_total_out, result>>
  BY DEF UncompressCall
<1>3. more \in Nat /\ left - more \in Nat /\ room + more \in Nat
  BY <1>1, UsersConsts DEF AtMost
<1>4. input \in Nat /\ input <= Remaining
  BY <1>1, UsersConsts DEF AtMost, Remaining
<1> HIDE DEF more, input
<1>5. IInv' /\ nin' + avail_in' <= size
  BY <1>1, <1>2, <1>3, <1>4, InflatesInv
<1> QED BY <1>1, <1>2, <1>3, <1>5 DEF UsersInv, UserInv

LEMMA GzreadCallInv ==
  ASSUME UsersInv, NEW n \in 0..FewBytes, GzreadCall(n) PROVE UsersInv'
<1>1. /\ size \in Nat /\ left \in Nat /\ room \in Nat /\ who # "app"
      /\ nin + avail_in <= size /\ nin \in Nat /\ avail_in \in Nat
  BY Numbers DEF UsersInv, UserInv, GzreadCall
<1>2. /\ Inflates(n, room, "no", "gzreading")
      /\ UNCHANGED <<who, size, dest, left, room, last_total_out, result>>
      /\ IF avail_in > 0 THEN n = 0 ELSE n \in 1..AtMost(GzreadMax, Remaining)
  BY DEF GzreadCall
<1>3. n \in Nat /\ n <= Remaining
  <2>1. Remaining \in Nat
    BY <1>1 DEF Remaining
  <2>2. GzreadMax \in Nat
    BY UsersConsts DEF GzreadMax
  <2>3. AtMost(GzreadMax, Remaining) <= Remaining
    BY <2>1, <2>2 DEF AtMost
  <2>4. AtMost(GzreadMax, Remaining) \in Nat
    BY <2>1, <2>2 DEF AtMost
  <2> HIDE DEF Remaining
  <2> QED BY <1>2, <2>1, <2>3, <2>4, UsersConsts
<1>4. IInv' /\ nin' + avail_in' <= size
  BY <1>1, <1>2, <1>3, InflatesInv
<1> QED BY <1>1, <1>2, <1>4 DEF UsersInv, UserInv

LEMMA GzreadLastInv == ASSUME UsersInv, GzreadLast PROVE UsersInv'
<1>1. size \in Nat /\ left \in Nat /\ room \in Nat /\ who # "app"
  BY DEF UsersInv, UserInv, GzreadLast
<1>2. /\ Inflates(0, room, "finish", "gzread at end")
      /\ UNCHANGED <<who, size, dest, left, room, last_total_out, result>>
  BY DEF GzreadLast
<1>3. IInv' /\ nin' + avail_in' <= size
  <2>1. Remaining = 0
    BY DEF GzreadLast
  <2>2. 0 <= Remaining
    BY <2>1
  <2> QED BY <1>1, <1>2, <2>2, InflatesInv
<1> QED BY <1>1, <1>2, <1>3 DEF UsersInv, UserInv

\* The library takes from the input what it was given, and no more.
LEMMA InsideInv == ASSUME UsersInv, Inside PROVE UsersInv'
<1>1. IInv /\ (Library \/ Accelerator)
  BY DEF UsersInv, Inside
<1>2. IInv'
  BY <1>1, LibraryStepInv, AcceleratorInv
<1>3. PICK n \in Nat : nin' = nin + n /\ avail_in' = avail_in - n
  BY <1>1, StepTakes DEF TakesInput
<1>4. (nin + n) + (avail_in - n) = nin + avail_in
  BY <1>1, Numbers
<1>5. nin' + avail_in' = nin + avail_in
  BY <1>3, <1>4
<1>6. UNCHANGED <<who, at, size, left>> /\ room' = IF pc = "return" THEN avail_out ELSE room
  BY DEF Inside
<1>7. room' \in Nat
  BY <1>1, <1>6, Numbers DEF UsersInv, UserInv
<1> QED BY <1>2, <1>5, <1>6, <1>7 DEF UsersInv, UserInv

LEMMA UserStepInv == ASSUME UsersInv, UserStep PROVE UsersInv'
<1>1. ASSUME UNCHANGED vars, UNCHANGED size, left' \in Nat, room' \in Nat, UNCHANGED who,
             who # "app"
      PROVE  UsersInv'
  <2>1. IInv'
    BY <1>1, StutterInv DEF UsersInv
  <2>2. nin' = nin /\ avail_in' = avail_in
    BY <1>1 DEF vars
  <2> QED BY <1>1, <2>1, <2>2 DEF UsersInv, UserInv
<1>2. left \in Nat /\ room \in Nat /\ (who = "app" => at = "idle")
  BY DEF UsersInv, UserInv
<1>3. ASSUME NEW n \in Dests, Uncompress(n) PROVE UsersInv'
  <2>1. left' \in Nat
    BY <1>3, UsersConsts DEF Uncompress
  <2> QED BY <1>1, <1>2, <1>3, <2>1 DEF Uncompress
<1>4. ASSUME NEW n \in Lens, Gzread(n) PROVE UsersInv'
  <2>1. room' \in Nat
    BY <1>4, UsersConsts DEF Gzread
  <2> QED BY <1>1, <1>2, <1>4, <2>1 DEF Gzread
<1>5. CASE UncompressReturned
  BY <1>1, <1>2, <1>5 DEF UncompressReturned, Returned
<1>6. CASE GzreadReturned
  BY <1>1, <1>2, <1>6 DEF GzreadReturned, Returned
<1>7. CASE GzreadAgain
  BY <1>1, <1>2, <1>7 DEF GzreadAgain
<1> QED BY <1>3, <1>4, <1>5, <1>6, <1>7, UncompressCallInv, GzreadCallInv, GzreadLastInv
        DEF UserStep

LEMMA UsersNextInv == ASSUME UsersInv, [UsersNext]_usersVars PROVE UsersInv'
<1>1. CASE UNCHANGED usersVars
  <2>1. UNCHANGED vars /\ UNCHANGED userVars
    BY <1>1 DEF usersVars
  <2>2. IInv'
    BY <2>1, StutterInv DEF UsersInv
  <2>3. UNCHANGED <<nin, avail_in, who, at, size, left, room>>
    BY <2>1 DEF vars, userVars
  <2> QED BY <2>2, <2>3 DEF UsersInv, UserInv
<1>2. CASE AppStep
  <2>1. who = "app" /\ Application /\ UNCHANGED userVars
    BY <1>2 DEF AppStep, ByApp
  <2>2. IInv'
    BY <2>1, ApplicationInv DEF UsersInv
  <2>3. UNCHANGED <<who, at, size, left, room>>
    BY <2>1 DEF userVars
  <2> QED BY <2>1, <2>2, <2>3 DEF UsersInv, UserInv
<1> QED BY <1>1, <1>2, InsideInv, UserStepInv DEF UsersNext

\* The fields of a header, and the bytes that are tested.
FieldsOf(m) ==
  IF m.fmt = "gzip"
    THEN {"id1", "id2", "cm", "flg"} \cup (IF "hcrc" \in m.flags THEN {"hcrc"} ELSE {})
    ELSE IF m.fmt = "zlib" THEN {"cmf", "zflg"} \cup (IF m.fdict THEN {"dictid"} ELSE {}) ELSE {}

Begins(m, s) ==
  /\ s \in Seq(FieldsOf(m) \cup (Names \ Fields)) /\ Len(s) >= 4
  /\ s[1] = "id1" /\ s[2] = "id2" /\ s[3] = "cm" /\ s[4] = "flg"

LEMMA BeginsJoined ==
  ASSUME NEW m, NEW s, NEW t \in Seq(FieldsOf(m) \cup (Names \ Fields)), Begins(m, s)
  PROVE  Begins(m, s \o t)
<1> DEFINE S == FieldsOf(m) \cup (Names \ Fields)
<1>1. s \in Seq(S) /\ t \in Seq(S) /\ Len(s) >= 4 /\ Len(s) \in Nat /\ Len(t) \in Nat
  BY DEF Begins
<1> HIDE DEF S
<1>2. /\ s \o t \in Seq(S) /\ Len(s \o t) = Len(s) + Len(t)
      /\ \A i \in 1..Len(s) + Len(t) :
           (s \o t)[i] = IF i <= Len(s) THEN s[i] ELSE t[i - Len(s)]
  BY <1>1, ConcatProperties
<1>3. \A i \in 1..4 : (s \o t)[i] = s[i]
  BY <1>1, <1>2
<1>4. Len(s \o t) >= 4
  BY <1>1, <1>2
<1> DEFINE r == s \o t
<1>5. /\ r \in Seq(S) /\ Len(r) >= 4
      /\ r[1] = s[1] /\ r[2] = s[2] /\ r[3] = s[3] /\ r[4] = s[4]
  BY <1>2, <1>3, <1>4
<1> HIDE DEF r
<1>6. Begins(m, r)
  BY <1>5 DEF Begins, S
<1> QED BY <1>6 DEF r

\* A field that is corrupt is there, and what a header begins with.
LEMMA GzipFields ==
  ASSUME NEW m \in Members, m.fmt = "gzip"
  PROVE  Begins(m, Layout(m))
<1> DEFINE S == FieldsOf(m) \cup (Names \ Fields)
      fixed == <<"id1", "id2", "cm", "flg">>
      mtime == Repeat("mtime", 4)
      last == <<"xfl", "os">>
      xlen == <<"xlen", "xlen">>
      bytes == Repeat("extra", m.extra)
      extra == Optional("extra" \in m.flags, xlen \o bytes)
      letters == Repeat("name", m.name)
      name == Optional("name" \in m.flags, letters)
      sum == <<"hcrc", "hcrc">>
      hcrc == Optional("hcrc" \in m.flags, sum)
<1>1. m.extra \in Nat /\ m.name \in Nat
  BY MemberFacts
<1>2. {"id1", "id2", "cm", "flg", "mtime", "xfl", "os", "xlen", "extra", "name"} \subseteq S
  BY DEF FieldsOf, Names, Fields
<1>3. "hcrc" \in m.flags => "hcrc" \in S
  BY DEF FieldsOf
<1> HIDE DEF S
<1>4. fixed \in Seq(S) /\ last \in Seq(S) /\ xlen \in Seq(S) /\ <<>> \in Seq(S)
  BY <1>2
<1>5. mtime \in Seq(S) /\ bytes \in Seq(S) /\ letters \in Seq(S)
  BY <1>1, <1>2 DEF Repeat
<1>6. hcrc \in Seq(S)
  BY <1>3, <1>4 DEF Optional
<1>7. extra \in Seq(S) /\ name \in Seq(S)
  <2>1. xlen \o bytes \in Seq(S)
    BY <1>4, <1>5, ConcatProperties
  <2> QED BY <2>1, <1>4, <1>5 DEF Optional
<1>8. Layout(m) = (((((fixed \o mtime) \o last) \o extra) \o name) \o hcrc)
  BY DEF Layout
<1>9. Begins(m, fixed)
  BY <1>4 DEF Begins, S
<1> HIDE DEF fixed, mtime, last, extra, name, hcrc
<1>10. \A s : \A t \in Seq(S) : Begins(m, s) => Begins(m, s \o t)
  BY BeginsJoined DEF S
<1> QED BY <1>4, <1>5, <1>6, <1>7, <1>8, <1>9, <1>10, Zenon

LEMMA ZlibFields ==
  ASSUME NEW m \in Members, m.fmt = "zlib"
  PROVE  /\ Layout(m) \in Seq(FieldsOf(m))
         /\ Layout(m)[1] = "cmf" /\ Layout(m)[2] = "zflg"
<1> DEFINE start == <<"cmf", "zflg">>
           id == Repeat("dictid", 4)
           opt == Optional(m.fdict, id)
           S == FieldsOf(m)
<1>1. start \in Seq(S) /\ Len(start) = 2 /\ start[1] = "cmf" /\ start[2] = "zflg"
  BY DEF FieldsOf
<1>2. opt \in Seq(S)
  <2>1. CASE m.fdict
    <3>1. "dictid" \in S
      BY <2>1 DEF FieldsOf
    <3>2. id \in Seq(S)
      BY <3>1 DEF Repeat
    <3> QED BY <2>1, <3>2 DEF Optional
  <2>2. CASE ~m.fdict
    BY <2>2 DEF Optional
  <2> QED BY <2>1, <2>2
<1>3. Layout(m) = start \o opt
  BY DEF Layout
<1> HIDE DEF start, opt, S
<1>4. /\ start \o opt \in Seq(S)
      /\ \A i \in 1..Len(start) + Len(opt) :
           (start \o opt)[i] = IF i <= Len(start) THEN start[i] ELSE opt[i - Len(start)]
  BY <1>1, <1>2, ConcatProperties
<1> DEFINE r == start \o opt
<1> HIDE DEF r
<1>5. r \in Seq(S) /\ r[1] = start[1] /\ r[2] = start[2]
  <2>1. /\ r \in Seq(S)
        /\ \A i \in 1..Len(start) + Len(opt) :
             r[i] = IF i <= Len(start) THEN start[i] ELSE opt[i - Len(start)]
    BY <1>4 DEF r
  <2>2. Len(start) = 2 /\ Len(opt) \in Nat
    BY <1>1, <1>2
  <2>3. 1 \in 1..Len(start) + Len(opt) /\ 2 \in 1..Len(start) + Len(opt)
    BY <2>2
  <2>4. r[1] = start[1] /\ r[2] = start[2]
    BY <2>1, <2>2, <2>3
  <2> QED BY <2>1, <2>4
<1>6. r \in Seq(FieldsOf(m)) /\ r[1] = "cmf" /\ r[2] = "zflg"
  BY <1>1, <1>5 DEF S
<1> QED BY <1>3, <1>6 DEF r

LEMMA BadField ==
  ASSUME NEW m \in Members, m.bad \in Fields
  PROVE  m.bad \in FieldsOf(m)
<1>1. PICK p \in 1..HeaderLen(m) : Layout(m)[p] = m.bad
  BY HeaderAssumption
<1>2. CASE m.fmt = "gzip"
  <2>1. Layout(m) \in Seq(FieldsOf(m) \cup (Names \ Fields))
    BY <1>2, GzipFields DEF Begins
  <2>2. Layout(m)[p] \in FieldsOf(m) \cup (Names \ Fields)
    BY <2>1, <1>1, ElementOfSeq DEF HeaderLen
  <2> QED BY <2>2, <1>1
<1>3. CASE m.fmt = "zlib"
  <2>1. Layout(m) \in Seq(FieldsOf(m))
    BY <1>3, ZlibFields
  <2>2. Layout(m)[p] \in FieldsOf(m)
    BY <2>1, <1>1, ElementOfSeq DEF HeaderLen
  <2> QED BY <2>2, <1>1
<1>4. CASE m.fmt = "raw"
  BY <1>4, <1>1, RawLayout
<1> QED BY <1>2, <1>3, <1>4, MemberFacts

-----------------------------------------------------------------------------
\* The answers of nx_inflate.  The format asked for is not that of the stream.
Mismatch == wrap # {} /\ wrap # {"zlib", "gzip"} /\ wrap # {strm.fmt}

\* What has been found right by the states of the header: an error is one of
\* the stream, or of the format asked for.
TestedInv ==
  /\ inf_state \in {"gzip_id1", "gzip_id2", "gzip_cm", "gzip_flg", "gzip_mtime", "gzip_xfl", "gzip_os",
                    "gzip_xlen", "gzip_extra", "gzip_name", "gzip_hcrc"} => wrap = {"gzip"}
  /\ inf_state \in {"zlib_id1", "zlib_flg", "zlib_dictid", "zlib_dict"} => wrap = {"zlib"}
  /\ inf_state = "inflate" => wrap # {"zlib", "gzip"}
  /\ inf_state \in {"gzip_id2", "gzip_cm", "gzip_flg", "gzip_mtime", "gzip_xfl", "gzip_os", "gzip_xlen",
                    "gzip_extra", "gzip_name", "gzip_hcrc"} => strm.bad # "id1"
  /\ inf_state \in {"gzip_cm", "gzip_flg", "gzip_mtime", "gzip_xfl", "gzip_os", "gzip_xlen",
                    "gzip_extra", "gzip_name", "gzip_hcrc"} => strm.bad # "id2"
  /\ inf_state \in {"gzip_flg", "gzip_mtime", "gzip_xfl", "gzip_os", "gzip_xlen", "gzip_extra",
                    "gzip_name", "gzip_hcrc"} => strm.bad # "cm"
  /\ inf_state \in {"gzip_mtime", "gzip_xfl", "gzip_os", "gzip_xlen", "gzip_extra", "gzip_name",
                    "gzip_hcrc"} => strm.bad # "flg"
  /\ inf_state \in {"zlib_flg", "zlib_dictid", "zlib_dict"} => strm.bad # "cmf"
  /\ inf_state \in {"zlib_dictid", "zlib_dict"} => strm.bad # "zflg"
  /\ inf_state = "inflate" => strm.bad \notin Fields \ {"dictid"}
  /\ inf_state = "data_error" => strm.bad # "none" \/ Mismatch

\* The checksum of a gzip header takes all the bytes before it, and an
\* application that is careful does not cut it in two.
SumsInv ==
  strm.fmt = "gzip" /\ "hcrc" \in strm.flags =>
    /\ wrap # {"zlib", "gzip"}
    /\ inf_state \notin {"inflate", "data_error"} => hcrc16 = 0 /\ cksum + ckidx = nin
    /\ inf_state \in {"gzip_xfl", "gzip_os", "gzip_xlen", "gzip_extra", "gzip_name", "gzip_hcrc"} =>
         ckidx = 0
    /\ inf_state = "gzip_hcrc" => inf_held = 0
    /\ pc = "header" /\ wrap = {"gzip"} => nin + avail_in # HeaderLen(strm) - 1

\* The state of the name is left with its last byte.
NameInv ==
  inf_state = "gzip_name" /\ "name" \in strm.flags => nin < 10 + ExtraLen(strm) + NameLen(strm)

\* The field of each byte that is tested.
LEMMA NextField ==
  ASSUME Types
  PROVE  /\ strm.fmt = "gzip" => /\ nin = 0 => Next_in = "id1"
                                 /\ nin = 1 => Next_in = "id2"
                                 /\ nin = 2 => Next_in = "cm"
                                 /\ nin = 3 => Next_in = "flg"
         /\ strm.fmt = "zlib" => /\ nin = 0 => Next_in = "cmf"
                                 /\ nin = 1 => Next_in = "zflg"
<1>1. strm \in Members /\ HeaderLen(strm) \in Nat
  BY Streams
<1>2. ASSUME strm.fmt = "gzip"
      PROVE  /\ HeaderLen(strm) >= 4 /\ Layout(strm)[1] = "id1" /\ Layout(strm)[2] = "id2"
             /\ Layout(strm)[3] = "cm" /\ Layout(strm)[4] = "flg"
  <2>1. Begins(strm, Layout(strm))
    BY <1>1, <1>2, GzipFields
  <2> QED BY <2>1 DEF Begins, HeaderLen
<1>3. ASSUME strm.fmt = "zlib"
      PROVE  HeaderLen(strm) >= 2 /\ Layout(strm)[1] = "cmf" /\ Layout(strm)[2] = "zflg"
  BY <1>1, <1>3, ZlibFields, ZlibLayout
<1>4. strm.fmt = "gzip" => /\ nin = 0 => Next_in = "id1"
                           /\ nin = 1 => Next_in = "id2"
                           /\ nin = 2 => Next_in = "cm"
                           /\ nin = 3 => Next_in = "flg"
  BY <1>1, <1>2 DEF Next_in
<1>5. strm.fmt = "zlib" => /\ nin = 0 => Next_in = "cmf"
                           /\ nin = 1 => Next_in = "zflg"
  BY <1>1, <1>3 DEF Next_in
<1> QED BY <1>4, <1>5

LEMMA TestedKept ==
  ASSUME TestedInv, UNCHANGED <<strm, wrap, inf_state>>
  PROVE  TestedInv'
  BY DEF TestedInv, Mismatch

LEMMA DetectTested ==
  ASSUME IInv, TestedInv, SumsInv, Detect
  PROVE  TestedInv'
<1>1. inf_state = "header" /\ wrap = {"zlib", "gzip"} /\ strm' = strm
  BY DEF Detect, In
<1>2. \/ Is("id1") /\ inf_state' = "gzip_id2" /\ wrap' = {"gzip"}
      \/ Is("cmf") /\ inf_state' = "zlib_flg" /\ wrap' = {"zlib"}
      \/ ~Is("id1") /\ ~Is("cmf") /\ inf_state' = "data_error" /\ wrap' = wrap
  BY DEF Detect, Goto
<1>3. nin = 0 /\ strm.fmt # "raw"
  BY <1>1 DEF IInv, HeaderInv
<1>4. \/ strm.fmt = "gzip" /\ Next_in = "id1"
      \/ strm.fmt = "zlib" /\ Next_in = "cmf"
  BY <1>3, NextField, HeaderFacts, MemberFacts DEF IInv
<1>5. \/ strm.bad # "id1" /\ inf_state' = "gzip_id2" /\ wrap' = {"gzip"}
      \/ strm.bad # "cmf" /\ inf_state' = "zlib_flg" /\ wrap' = {"zlib"}
      \/ strm.bad # "none" /\ inf_state' = "data_error" /\ wrap' = wrap
  BY <1>2, <1>4 DEF Is
<1> QED BY <1>1, <1>5 DEF TestedInv

LEMMA DispatchTested ==
  ASSUME IInv, TestedInv, Dispatch
  PROVE  TestedInv'
<1>1. inf_state = "header" /\ wrap # {"zlib", "gzip"} /\ strm' = strm /\ wrap' = wrap
  BY DEF Dispatch, In
<1>2. inf_state' = CASE wrap = {"zlib"} -> "zlib_id1" [] wrap = {"gzip"} -> "gzip_id1"
                     [] OTHER -> "inflate"
  BY DEF Dispatch, Goto
<1>3. wrap = {} \/ wrap = {"zlib"} \/ wrap = {"gzip"}
  BY <1>1, HeaderFacts
<1>4. CASE wrap = {}
  <2>1. strm.fmt = "raw" /\ strm \in Members
    BY <1>4, HeaderFacts DEF IInv, HeaderInv
  <2>2. strm.bad \notin Fields
    BY <2>1, BadField DEF FieldsOf
  <2>3. inf_state' = "inflate"
    BY <1>2, <1>4
  <2> QED BY <1>1, <1>4, <2>2, <2>3 DEF TestedInv
<1>5. CASE wrap = {"zlib"}
  BY <1>1, <1>2, <1>5 DEF TestedInv
<1>6. CASE wrap = {"gzip"}
  <2>1. inf_state' = "gzip_id1"
    BY <1>2, <1>6
  <2> QED BY <1>1, <1>6, <2>1 DEF TestedInv
<1> QED BY <1>3, <1>4, <1>5, <1>6

LEMMA TestByteTested ==
  ASSUME IInv, TestedInv, TestByte
  PROVE  TestedInv'
<1>1. /\ inf_state \in DOMAIN Tests /\ UNCHANGED <<strm, wrap>>
      /\ inf_state' = IF Is(Tests[inf_state][1]) THEN Tests[inf_state][2] ELSE "data_error"
  BY DEF TestByte, Goto
<1>2. \/ inf_state = "gzip_id1" /\ Tests[inf_state][1] = "id1" /\ Tests[inf_state][2] = "gzip_id2"
      \/ inf_state = "gzip_id2" /\ Tests[inf_state][1] = "id2" /\ Tests[inf_state][2] = "gzip_cm"
      \/ inf_state = "gzip_cm" /\ Tests[inf_state][1] = "cm" /\ Tests[inf_state][2] = "gzip_flg"
      \/ inf_state = "zlib_id1" /\ Tests[inf_state][1] = "cmf" /\ Tests[inf_state][2] = "zlib_flg"
  BY <1>1 DEF Tests
<1>3. \/ inf_state = "gzip_id1" /\ inf_state' = IF Is("id1") THEN "gzip_id2" ELSE "data_error"
      \/ inf_state = "gzip_id2" /\ inf_state' = IF Is("id2") THEN "gzip_cm" ELSE "data_error"
      \/ inf_state = "gzip_cm" /\ inf_state' = IF Is("cm") THEN "gzip_flg" ELSE "data_error"
      \/ inf_state = "zlib_id1" /\ inf_state' = IF Is("cmf") THEN "zlib_flg" ELSE "data_error"
  BY <1>1, <1>2, Zenon
<1>4. /\ inf_state \in {"gzip_id1", "zlib_id1"} => nin = 0
      /\ inf_state = "gzip_id2" => nin = 1 /\ strm.fmt = "gzip"
      /\ inf_state = "gzip_cm" => nin = 2 /\ strm.fmt = "gzip"
  BY DEF IInv, HeaderInv
<1>5. CASE inf_state = "gzip_id1"
  <2>1. wrap = {"gzip"}
    BY <1>5 DEF TestedInv
  <2>2. strm.fmt = "gzip" => Next_in = "id1"
    BY <1>4, <1>5, NextField DEF IInv
  <2>3. \/ strm.bad # "id1" /\ inf_state' = "gzip_id2"
        \/ (strm.bad # "none" \/ strm.fmt # "gzip") /\ inf_state' = "data_error"
    BY <1>3, <1>5, <2>2 DEF Is
  <2>4. strm.fmt # "gzip" => Mismatch
    BY <2>1 DEF Mismatch
  <2> QED BY <1>1, <1>5, <2>1, <2>3, <2>4 DEF TestedInv, Mismatch
<1>6. CASE inf_state = "zlib_id1"
  <2>1. wrap = {"zlib"}
    BY <1>6 DEF TestedInv
  <2>2. strm.fmt = "zlib" => Next_in = "cmf"
    BY <1>4, <1>6, NextField DEF IInv
  <2>3. \/ strm.bad # "cmf" /\ inf_state' = "zlib_flg"
        \/ (strm.bad # "none" \/ strm.fmt # "zlib") /\ inf_state' = "data_error"
    BY <1>3, <1>6, <2>2 DEF Is
  <2>4. strm.fmt # "zlib" => Mismatch
    BY <2>1 DEF Mismatch
  <2> QED BY <1>1, <1>6, <2>1, <2>3, <2>4 DEF TestedInv, Mismatch
<1>7. CASE inf_state = "gzip_id2"
  <2>1. Next_in = "id2"
    BY <1>4, <1>7, NextField DEF IInv
  <2>2. \/ strm.bad # "id2" /\ inf_state' = "gzip_cm"
        \/ strm.bad # "none" /\ inf_state' = "data_error"
    BY <1>3, <1>7, <2>1 DEF Is
  <2> QED BY <1>1, <1>7, <2>2 DEF TestedInv
<1>8. CASE inf_state = "gzip_cm"
  <2>1. Next_in = "cm"
    BY <1>4, <1>8, NextField DEF IInv
  <2>2. \/ strm.bad # "cm" /\ inf_state' = "gzip_flg"
        \/ strm.bad # "none" /\ inf_state' = "data_error"
    BY <1>3, <1>8, <2>1 DEF Is
  <2> QED BY <1>1, <1>8, <2>2 DEF TestedInv
<1> QED BY <1>2, <1>5, <1>6, <1>7, <1>8

LEMMA GzipFlgTested ==
  ASSUME IInv, TestedInv, GzipFlg
  PROVE  TestedInv'
<1>1. inf_state = "gzip_flg" /\ UNCHANGED <<strm, wrap>>
  BY DEF GzipFlg, In
<1>2. Next_in = "flg"
  <2>1. nin = 3 /\ strm.fmt = "gzip"
    BY <1>1 DEF IInv, HeaderInv
  <2> QED BY <2>1, NextField DEF IInv
<1>3. \/ strm.bad # "flg" /\ inf_state' = "gzip_mtime"
      \/ strm.bad # "none" /\ inf_state' = "data_error"
  BY <1>2 DEF GzipFlg, Goto, Is
<1> QED BY <1>1, <1>3 DEF TestedInv

\* Behind the flags nothing is tested before the checksum.
LEMMA SkippedTested ==
  ASSUME IInv, TestedInv, GzipMtime \/ GzipXflOs \/ GzipXlen \/ GzipExtra \/ GzipName
  PROVE  TestedInv'
<1>1. UNCHANGED <<strm, wrap>>
  BY DEF GzipMtime, GzipXflOs, GzipXlen, GzipExtra, GzipName
<1>2. inf_state \in {"gzip_mtime", "gzip_xfl", "gzip_os", "gzip_xlen", "gzip_extra", "gzip_name"}
  BY DEF GzipMtime, GzipXflOs, GzipXlen, GzipExtra, GzipName, In
<1>3. inf_state' \in {inf_state, "gzip_xfl", "gzip_os", "gzip_xlen", "gzip_extra", "gzip_name", "gzip_hcrc"}
  BY DEF GzipMtime, GzipXflOs, GzipXlen, GzipExtra, GzipName, Skip, Goto, Returns
<1> QED BY <1>1, <1>2, <1>3 DEF TestedInv

\* The checksum is what it should be when it comes in one piece.
LEMMA HcrcIsRight ==
  ASSUME IInv, TestedInv, SumsInv, GzipHcrc
  PROVE  \/ strm.bad # "hcrc" /\ inf_state' = "inflate"
         \/ strm.bad = "hcrc" /\ inf_state' = "data_error"
<1> DEFINE k == AtMost(2 - inf_held, avail_in)
<1>1. /\ pc = "header" /\ inf_state = "gzip_hcrc" /\ "hcrc" \in gzflags /\ avail_in > 0
      /\ inf_held + k < 2 \/
           inf_state' = IF cksum = HeaderLen(strm) - 2 /\ hcrc16 = 0 /\ strm.bad # "hcrc"
                          THEN "inflate" ELSE "data_error"
  BY DEF GzipHcrc, In, Goto
<1>2. strm.fmt = "gzip" /\ gzflags = strm.flags /\ wrap = {"gzip"}
  BY <1>1 DEF IInv, HeaderInv, TestedInv
<1>3. /\ inf_held = 0 /\ ckidx = 0 /\ hcrc16 = 0 /\ cksum + ckidx = nin
      /\ nin + avail_in # HeaderLen(strm) - 1
  BY <1>1, <1>2 DEF SumsInv
<1>4. nin = HeaderLen(strm) - 2
  <2>1. HcrcLen(strm) = 2
    BY <1>1, <1>2 DEF HcrcLen
  <2>2. nin = 10 + ExtraLen(strm) + NameLen(strm) + inf_held
    BY <1>1 DEF IInv, HeaderInv
  <2> QED BY <1>2, <1>3, <2>1, <2>2, GzipLayout, HeaderFacts
<1>5. k = 2
  BY <1>1, <1>3, <1>4, HeaderFacts DEF AtMost
<1>6. cksum = HeaderLen(strm) - 2
  BY <1>3, <1>4, HeaderFacts
<1> QED BY <1>1, <1>3, <1>5, <1>6

LEMMA GzipHcrcTested ==
  ASSUME IInv, TestedInv, SumsInv, GzipHcrc
  PROVE  TestedInv'
<1>1. inf_state = "gzip_hcrc" /\ UNCHANGED <<strm, wrap>>
  BY DEF GzipHcrc, In
<1>2. wrap = {"gzip"} /\ strm.bad \notin {"id1", "id2", "cm", "flg"}
  BY <1>1 DEF TestedInv
<1>3. strm.bad \in Fields => strm.bad = "hcrc"
  <2>1. strm.fmt = "gzip" /\ strm \in Members
    BY <1>1, HeaderFacts DEF IInv, HeaderInv
  <2> QED BY <1>2, <2>1, BadField DEF FieldsOf
<1> QED BY <1>1, <1>2, <1>3, HcrcIsRight DEF TestedInv

LEMMA GzipNoHcrcTested ==
  ASSUME IInv, TestedInv, GzipNoHcrc
  PROVE  TestedInv'
<1>1. /\ inf_state = "gzip_hcrc" /\ UNCHANGED <<strm, wrap>> /\ "hcrc" \notin gzflags
      /\ inf_state' = "inflate"
  BY DEF GzipNoHcrc, In, Goto
<1>2. wrap = {"gzip"} /\ strm.bad \notin {"id1", "id2", "cm", "flg"}
  BY <1>1 DEF TestedInv
<1>3. strm.bad \notin Fields
  <2>1. strm.fmt = "gzip" /\ strm \in Members /\ gzflags = strm.flags
    BY <1>1, HeaderFacts DEF IInv, HeaderInv
  <2> QED BY <1>1, <1>2, <2>1, BadField DEF FieldsOf
<1> QED BY <1>1, <1>2, <1>3 DEF TestedInv

LEMMA ZlibTested ==
  ASSUME IInv, TestedInv, ZlibFlg \/ ZlibDictId \/ ZlibDict
  PROVE  TestedInv'
<1>1. UNCHANGED <<strm, wrap>> /\ inf_state \in {"zlib_flg", "zlib_dictid", "zlib_dict"}
  BY DEF ZlibFlg, ZlibDictId, ZlibDict, In
<1>2. wrap = {"zlib"} /\ strm.bad # "cmf"
  BY <1>1 DEF TestedInv
<1>3. strm.bad \in Fields => strm.bad \in {"zflg", "dictid"}
  <2>1. strm.fmt = "zlib" /\ strm \in Members
    BY <1>1, HeaderFacts DEF IInv, HeaderInv
  <2> QED BY <1>2, <2>1, BadField DEF FieldsOf
<1>4. CASE ZlibFlg
  <2>1. Next_in = "zflg"
    <3>1. nin = 1 /\ strm.fmt = "zlib"
      BY <1>4 DEF ZlibFlg, In, IInv, HeaderInv
    <3> QED BY <3>1, NextField DEF IInv
  <2>2. \/ strm.bad # "zflg" /\ inf_state' \in {"zlib_dictid", "inflate"}
        \/ strm.bad # "none" /\ inf_state' = "data_error"
    BY <1>4, <2>1 DEF ZlibFlg, Goto, Is
  <2> QED BY <1>1, <1>2, <1>3, <2>2 DEF TestedInv
<1>5. CASE ZlibDictId \/ ZlibDict
  <2>1. inf_state \in {"zlib_dictid", "zlib_dict"} /\ inf_state' \in {inf_state, "zlib_dict", "inflate"}
    BY <1>5 DEF ZlibDictId, ZlibDict, In, Skip, Goto
  <2>2. strm.bad # "zflg"
    BY <2>1 DEF TestedInv
  <2> QED BY <1>1, <1>2, <1>3, <2>1, <2>2 DEF TestedInv
<1> QED BY <1>4, <1>5

LEMMA HeaderTested ==
  ASSUME IInv, TestedInv, SumsInv, HeaderStep
  PROVE  TestedInv'
<1>1. CASE NeedInput \/ DataError \/ GoInflate
  <2>1. UNCHANGED <<strm, wrap, inf_state>>
    BY <1>1 DEF NeedInput, DataError, GoInflate, hvars
  <2> QED BY <2>1, TestedKept
<1>2. CASE GzipMtime \/ GzipXflOs \/ GzipXlen \/ GzipExtra \/ GzipName
  BY <1>2, SkippedTested
<1>3. CASE ZlibFlg \/ ZlibDictId \/ ZlibDict
  BY <1>3, ZlibTested
<1> QED
  BY <1>1, <1>2, <1>3, DetectTested, DispatchTested, TestByteTested, GzipFlgTested, GzipHcrcTested,
     GzipNoHcrcTested DEF HeaderStep

\* What a byte taken does to the sums.
LEMMA TakeSums ==
  ASSUME HeaderTypes, NEW n \in Nat, Take(n)
  PROVE  /\ nin' = nin + n /\ nin' + avail_in' = nin + avail_in
         /\ cksum' + ckidx' = cksum + ckidx + n
         /\ n > 0 /\ "hcrc" \in gzflags => ckidx' = 0
<1>1. nin \in Nat /\ avail_in \in Nat /\ ckidx \in Nat /\ cksum \in Nat
  BY DEF HeaderTypes
<1>2. nin' = nin + n /\ avail_in' = avail_in - n
  BY DEF Take
<1>3. \/ n > 0 /\ "hcrc" \in gzflags /\ cksum' = cksum + ckidx + n /\ ckidx' = 0
      \/ ~(n > 0 /\ "hcrc" \in gzflags) /\ cksum' = cksum /\ ckidx' = ckidx + n
  BY DEF Take
<1>4. (nin + n) + (avail_in - n) = nin + avail_in
  BY <1>1
<1>5. cksum + (ckidx + n) = cksum + ckidx + n /\ (cksum + ckidx + n) + 0 = cksum + ckidx + n
  BY <1>1
<1>6. cksum' + ckidx' = cksum + ckidx + n
  BY <1>3, <1>5
<1> QED BY <1>2, <1>3, <1>4, <1>6

LEMMA BulkSums ==
  ASSUME HeaderTypes, NEW n \in Nat, TakeBulk(n), "hcrc" \in gzflags, ckidx = 0
  PROVE  /\ nin' = nin + n /\ nin' + avail_in' = nin + avail_in
         /\ cksum' + ckidx' = cksum + ckidx + n /\ ckidx' = 0
<1>1. nin \in Nat /\ avail_in \in Nat /\ cksum \in Nat
  BY DEF HeaderTypes
<1>2. nin' = nin + n /\ avail_in' = avail_in - n /\ cksum' = cksum + n /\ ckidx' = 0
  BY DEF TakeBulk
<1>3. (nin + n) + (avail_in - n) = nin + avail_in /\ (cksum + n) + 0 = cksum + 0 + n
  BY <1>1
<1> QED BY <1>2, <1>3

\* A step of the header that keeps the sums.
LEMMA SumsStep ==
  ASSUME IInv, SumsInv, pc = "header", strm.fmt = "gzip", "hcrc" \in strm.flags,
         UNCHANGED <<strm, wrap>>, nin' + avail_in' = nin + avail_in,
         NEW n \in Nat, inf_state \notin {"inflate", "data_error"},
         nin' = nin + n, cksum' + ckidx' = cksum + ckidx + n,
         \/ inf_state' \in {"inflate", "data_error"}
         \/ /\ hcrc16' = hcrc16
            /\ inf_state' \in {"gzip_xfl", "gzip_os", "gzip_xlen", "gzip_extra", "gzip_name", "gzip_hcrc"}
                 => ckidx' = 0
            /\ inf_state' = "gzip_hcrc" => inf_held' = 0
  PROVE  SumsInv'
<1>1. /\ wrap # {"zlib", "gzip"} /\ hcrc16 = 0 /\ cksum + ckidx = nin
      /\ wrap = {"gzip"} => nin + avail_in # HeaderLen(strm) - 1
  BY DEF SumsInv
<1>2. cksum' + ckidx' = nin'
  BY <1>1
<1> QED BY <1>1, <1>2 DEF SumsInv

LEMMA OneByteSums ==
  ASSUME IInv, SumsInv, Detect \/ TestByte \/ GzipFlg \/ ZlibFlg
  PROVE  SumsInv'
<1> SUFFICES ASSUME strm'.fmt = "gzip", "hcrc" \in strm'.flags PROVE SumsInv'
  BY DEF SumsInv
<1>1. pc = "header" /\ strm' = strm /\ Take(1)
  BY DEF Detect, TestByte, GzipFlg, ZlibFlg, In
<1>2. ~Detect
  BY <1>1 DEF Detect, SumsInv
<1>3. wrap' = wrap /\ hcrc16' = hcrc16
  BY <1>2 DEF TestByte, GzipFlg, ZlibFlg
<1>4. inf_state \in {"gzip_id1", "gzip_id2", "gzip_cm", "gzip_flg", "zlib_id1", "zlib_flg"}
  BY <1>2 DEF TestByte, Tests, GzipFlg, ZlibFlg, In
<1>5. inf_state' \in {"gzip_id2", "gzip_cm", "gzip_flg", "gzip_mtime", "zlib_flg", "zlib_dictid",
                      "inflate", "data_error"}
  <2>1. CASE TestByte
    BY <2>1 DEF TestByte, Tests, Goto
  <2>2. CASE GzipFlg \/ ZlibFlg
    BY <2>2 DEF GzipFlg, ZlibFlg, Goto
  <2> QED BY <1>2, <2>1, <2>2
<1>6. nin' = nin + 1 /\ nin' + avail_in' = nin + avail_in /\ cksum' + ckidx' = cksum + ckidx + 1
  BY <1>1, TakeSums DEF IInv, Types
<1> QED BY <1>1, <1>3, <1>4, <1>5, <1>6, SumsStep

LEMMA SkipSums ==
  ASSUME HeaderTypes, NEW n \in Nat, NEW next, inf_held < n, Skip(n, next)
  PROVE  \E k \in Nat :
           /\ nin' = nin + k /\ nin' + avail_in' = nin + avail_in
           /\ cksum' + ckidx' = cksum + ckidx + k
           /\ "hcrc" \in gzflags => ckidx' = 0
           /\ inf_state' \in {inf_state, next}
<1> DEFINE k == AtMost(n - inf_held, avail_in)
<1>1. inf_held \in Nat /\ avail_in \in Nat /\ avail_in > 0
  BY DEF HeaderTypes, Skip
<1>2. k \in Nat /\ k > 0
  BY <1>1 DEF AtMost
<1>3. Take(k) /\ inf_state' \in {inf_state, next}
  BY DEF Skip, Goto
<1> HIDE DEF k
<1> QED BY <1>2, <1>3, TakeSums

LEMMA SkippedSums ==
  ASSUME IInv, SumsInv, GzipMtime \/ GzipXflOs \/ GzipXlen \/ ZlibDictId
  PROVE  SumsInv'
<1> SUFFICES ASSUME strm'.fmt = "gzip", "hcrc" \in strm'.flags PROVE SumsInv'
  BY DEF SumsInv
<1>1. pc = "header" /\ UNCHANGED <<strm, wrap, hcrc16, gzflags>>
  BY DEF GzipMtime, GzipXflOs, GzipXlen, ZlibDictId, In
<1>2. ~ZlibDictId
  BY <1>1 DEF ZlibDictId, In, IInv, HeaderInv
<1>3. inf_state \in {"gzip_mtime", "gzip_xfl", "gzip_os", "gzip_xlen"}
  BY <1>2 DEF GzipMtime, GzipXflOs, GzipXlen, In
<1>4. "hcrc" \in gzflags
  BY <1>1, <1>3 DEF IInv, HeaderInv
<1>5. CASE \E n \in Nat : \E next \in {"gzip_xfl", "gzip_os", "gzip_xlen", "gzip_extra"} :
              inf_held < n /\ Skip(n, next)
  <2>1. PICK n \in Nat, next \in {"gzip_xfl", "gzip_os", "gzip_xlen", "gzip_extra"} :
               inf_held < n /\ Skip(n, next)
    BY <1>5
  <2>2. PICK k \in Nat :
           /\ nin' = nin + k /\ nin' + avail_in' = nin + avail_in
           /\ cksum' + ckidx' = cksum + ckidx + k
           /\ "hcrc" \in gzflags => ckidx' = 0
           /\ inf_state' \in {inf_state, next}
    BY <2>1, SkipSums DEF IInv, Types
  <2> QED BY <1>1, <1>3, <1>4, <2>2, SumsStep
<1>6. CASE GzipXlen /\ "extra" \notin gzflags
  <2>1. inf_state' = "gzip_extra" /\ UNCHANGED <<nin, avail_in, ckidx, cksum>> /\ ckidx = 0
    BY <1>1, <1>3, <1>6 DEF GzipXlen, Goto, SumsInv, In
  <2>2. nin + 0 = nin /\ cksum + ckidx + 0 = cksum + ckidx
    BY HeaderFacts
  <2>3. nin' = nin + 0 /\ nin' + avail_in' = nin + avail_in /\ cksum' + ckidx' = cksum + ckidx + 0
    BY <2>1, <2>2
  <2> QED BY <1>1, <1>3, <2>1, <2>3, 0 \in Nat, SumsStep
<1>7. CASE GzipMtime
  <2>1. inf_held < 4 /\ Skip(4, "gzip_xfl")
    BY <1>7 DEF GzipMtime, In, IInv, HeaderInv
  <2> QED BY <2>1, <1>5
<1>8. CASE GzipXflOs
  <2>1. inf_held = 0 /\ (Skip(1, "gzip_os") \/ Skip(1, "gzip_xlen"))
    BY <1>8 DEF GzipXflOs, In, IInv, HeaderInv
  <2>2. inf_held < 1 /\ 1 \in Nat
    BY <2>1
  <2> QED BY <2>1, <2>2, <1>5
<1>9. CASE GzipXlen /\ "extra" \in gzflags
  <2>1. inf_held < 2 /\ Skip(2, "gzip_extra")
    BY <1>9 DEF GzipXlen, In, IInv, HeaderInv
  <2> QED BY <2>1, <1>5
<1> QED BY <1>2, <1>6, <1>7, <1>8, <1>9

LEMMA BulkTaken ==
  ASSUME IInv, SumsInv, GzipExtra \/ GzipName
  PROVE  SumsInv'
<1> SUFFICES ASSUME strm'.fmt = "gzip", "hcrc" \in strm'.flags PROVE SumsInv'
  BY DEF SumsInv
<1>1. pc = "header" /\ UNCHANGED <<strm, wrap, hcrc16, gzflags>> /\ inf_state \in {"gzip_extra", "gzip_name"}
  BY DEF GzipExtra, GzipName, In
<1>2. "hcrc" \in gzflags
  BY <1>1 DEF IInv, HeaderInv
<1>3. ckidx = 0
  BY <1>1 DEF SumsInv
<1>4. \E n \in Nat : TakeBulk(n)
  <2>1. CASE GzipExtra
    <3>1. TakeBulk(IF "extra" \in gzflags THEN AtMost(length, avail_in) ELSE 0)
      BY <2>1 DEF GzipExtra
    <3>2. (IF "extra" \in gzflags THEN AtMost(length, avail_in) ELSE 0) \in Nat
      BY HeaderFacts, LeastNat
    <3> QED BY <3>1, <3>2
  <2>2. CASE GzipName
    <3> DEFINE there == Cardinality({p \in nin + 1..HeaderLen(strm) : Layout(strm)[p] = "name"})
               n == IF "name" \in gzflags THEN AtMost(there, avail_in) ELSE 0
    <3>1. TakeBulk(n)
      BY <2>2 DEF GzipName
    <3>2. there \in Nat
      BY <2>2, NameLeft DEF GzipName, In
    <3> HIDE DEF there
    <3>3. n \in Nat
      BY <3>2, HeaderFacts, LeastNat
    <3> QED BY <3>1, <3>3
  <2> QED BY <2>1, <2>2
<1>5. PICK n \in Nat : TakeBulk(n)
  BY <1>4
<1>6. /\ nin' = nin + n /\ nin' + avail_in' = nin + avail_in
      /\ cksum' + ckidx' = cksum + ckidx + n /\ ckidx' = 0
  BY <1>2, <1>3, <1>5, BulkSums DEF IInv, Types
<1>7. inf_state' \in {"gzip_extra", "gzip_name", "gzip_hcrc"} /\ (inf_state' = "gzip_hcrc" => inf_held' = 0)
  BY <1>1 DEF GzipExtra, GzipName, Goto, Returns, In
<1> QED BY <1>1, <1>6, <1>7, SumsStep

\* A step of the library takes input, it gives none back.
LEMMA TakenKeeps ==
  ASSUME IInv, TakesInput
  PROVE  nin' + avail_in' = nin + avail_in /\ nin <= nin'
<1>1. PICK n \in Nat : nin' = nin + n /\ avail_in' = avail_in - n
  BY DEF TakesInput
<1>2. (nin + n) + (avail_in - n) = nin + avail_in /\ nin <= nin + n
  BY HeaderFacts
<1> QED BY <1>1, <1>2

LEMMA SumsKept ==
  ASSUME SumsInv, UNCHANGED <<strm, nin, avail_in, wrap, inf_state, inf_held, ckidx, cksum, hcrc16>>,
         pc' = "header" => pc = "header"
  PROVE  SumsInv'
  BY DEF SumsInv

LEMMA HeaderSums ==
  ASSUME IInv, TestedInv, SumsInv, HeaderStep
  PROVE  SumsInv'
<1>1. CASE NeedInput \/ DataError \/ GoInflate
  <2>1. UNCHANGED <<strm, nin, avail_in, wrap, inf_state, inf_held, ckidx, cksum, hcrc16>> /\ pc' # "header"
    BY <1>1 DEF NeedInput, DataError, GoInflate, Returns, hvars
  <2> QED BY <2>1, SumsKept
<1>2. CASE Dispatch \/ ZlibDict \/ GzipNoHcrc
  <2>1. /\ UNCHANGED <<strm, nin, avail_in, wrap, ckidx, cksum, hcrc16>> /\ pc = "header"
        /\ inf_state \in {"header", "zlib_dict", "gzip_hcrc"}
        /\ inf_state' \in {"zlib_id1", "gzip_id1", "inflate", "zlib_dict"}
    BY <1>2 DEF Dispatch, ZlibDict, GzipNoHcrc, Goto, In
  <2> QED BY <2>1 DEF SumsInv
<1>3. CASE GzipHcrc
  <2>1. UNCHANGED <<strm, wrap>> /\ pc = "header" /\ inf_state' \in {"inflate", "data_error"}
    BY <1>3, HcrcIsRight DEF GzipHcrc, In
  <2>2. nin' + avail_in' = nin + avail_in
    <3>1. TakesInput
      BY <1>3, HeaderTakes DEF HeaderStep
    <3> QED BY <3>1, TakenKeeps
  <2> QED BY <2>1, <2>2 DEF SumsInv
<1> QED BY <1>1, <1>2, <1>3, OneByteSums, SkippedSums, BulkTaken DEF HeaderStep

LEMMA HeaderName ==
  ASSUME IInv, NameInv, HeaderStep
  PROVE  NameInv'
<1> SUFFICES ASSUME inf_state' = "gzip_name", "name" \in strm'.flags
             PROVE  nin' < 10 + ExtraLen(strm') + NameLen(strm')
  BY DEF NameInv
<1> DEFINE e == ExtraLen(strm)
           n == NameLen(strm)
<1>1. strm' = strm
  BY DEF HeaderStep, NeedInput, Detect, Dispatch, TestByte, GzipFlg, GzipMtime, GzipXflOs, GzipXlen,
         GzipExtra, GzipName, GzipHcrc, GzipNoHcrc, ZlibFlg, ZlibDictId, ZlibDict, DataError, GoInflate
<1>2. e \in Nat /\ n \in Nat /\ n > 0
  <2>1. strm \in Members /\ "name" \in strm.flags
    BY <1>1, HeaderFacts
  <2>2. strm.name > 0
    BY <2>1, HeaderAssumption
  <2> QED BY <2>1, <2>2, HeaderFacts DEF NameLen
<1>3. CASE GzipExtra
  <2> DEFINE copy == IF "extra" \in gzflags THEN AtMost(length, avail_in) ELSE 0
             rest == IF "extra" \in gzflags THEN length - copy ELSE 0
  <2>1. /\ inf_state = "gzip_extra" /\ nin' = nin + copy /\ ~(rest > 0)
    BY <1>3 DEF GzipExtra, In, TakeBulk
  <2>2. nin = 10 + e - length /\ ("extra" \notin gzflags => length = 0)
    BY <2>1 DEF IInv, HeaderInv
  <2>3. copy \in Nat /\ copy <= length /\ rest = length - copy
    BY <2>2, HeaderFacts, LeastNat
  <2> HIDE DEF copy, rest
  <2>4. nin + copy = 10 + e
    BY <1>2, <2>1, <2>2, <2>3, HeaderFacts
  <2> QED BY <1>1, <1>2, <2>1, <2>4
<1>4. CASE GzipName
  <2> DEFINE there == Cardinality({p \in nin + 1..HeaderLen(strm) : Layout(strm)[p] = "name"})
             copy == IF "name" \in gzflags THEN AtMost(there, avail_in) ELSE 0
  <2>1. inf_state = "gzip_name" /\ TakeBulk(copy)
    BY <1>4 DEF GzipName, In
  <2>2. there \in Nat /\ nin + there = 10 + e + n
    BY <2>1, NameLeft
  <2>3. ("name" \in gzflags /\ copy < there) \/ inf_state' = "gzip_hcrc"
    BY <1>4 DEF GzipName, Goto
  <2> HIDE DEF there
  <2>4. copy \in Nat
    BY <2>2, HeaderFacts, LeastNat
  <2> HIDE DEF copy
  <2>5. nin' = nin + copy /\ copy < there
    BY <2>1, <2>3 DEF TakeBulk
  <2>6. nin + copy < 10 + e + n
    BY <1>2, <2>2, <2>4, <2>5, HeaderFacts
  <2> QED BY <1>1, <2>5, <2>6
<1>5. CASE NeedInput
  BY <1>1, <1>5 DEF NeedInput, hvars, NameInv
<1>6. GzipExtra \/ GzipName \/ NeedInput
  <2>1. ~(Detect \/ Dispatch \/ TestByte \/ GzipFlg)
    BY DEF Detect, Dispatch, TestByte, Tests, GzipFlg, Goto
  <2>2. ~(GzipMtime \/ GzipXflOs \/ GzipXlen \/ ZlibDictId)
    BY DEF GzipMtime, GzipXflOs, GzipXlen, ZlibDictId, Skip, Goto, In
  <2>3. ~(GzipHcrc \/ GzipNoHcrc \/ ZlibFlg \/ ZlibDict)
    BY DEF GzipHcrc, GzipNoHcrc, ZlibFlg, ZlibDict, Goto, In
  <2>4. ~(DataError \/ GoInflate)
    BY DEF DataError, GoInflate, In, hvars
  <2> QED BY <2>1, <2>2, <2>3, <2>4 DEF HeaderStep
<1> QED BY <1>3, <1>4, <1>5, <1>6

\* The bytes before the end of the header.
LEMMA WaitsInHeader ==
  ASSUME IInv, NameInv, TakesByte
  PROVE  nin < HeaderLen(strm)
<1> DEFINE e == ExtraLen(strm)
           n == NameLen(strm)
           h == HcrcLen(strm)
<1>1. strm \in Members /\ e \in Nat /\ n \in Nat /\ nin \in Nat /\ inf_held \in Nat /\ length \in Nat
  BY HeaderFacts
<1>2. h \in Nat /\ (strm.fmt = "gzip" => HeaderLen(strm) = 10 + e + n + h)
  BY <1>1, GzipLayout, MemberFacts
<1>3. strm.fmt = "zlib" => HeaderLen(strm) = IF strm.fdict THEN 6 ELSE 2
  BY <1>1, ZlibLayout
<1> USE DEF IInv, HeaderInv
<1>4. CASE inf_state = "header" \/ inf_state \in {"gzip_id1", "zlib_id1"}
  <2>1. nin = 0 /\ wrap # {}
    BY <1>4 DEF TakesByte
  <2>2. strm.fmt \in {"gzip", "zlib"}
    BY <1>1, <2>1, MemberFacts
  <2> QED BY <1>1, <1>2, <1>3, <2>1, <2>2
<1>5. CASE inf_state \in {"zlib_flg", "zlib_dictid"}
  BY <1>1, <1>3, <1>5
<1>6. CASE inf_state \in {"gzip_id2", "gzip_cm", "gzip_flg", "gzip_mtime", "gzip_xfl", "gzip_os"}
  <2>1. strm.fmt = "gzip" /\ nin < 10
    BY <1>1, <1>6
  <2> QED BY <1>1, <1>2, <2>1
<1>7. CASE inf_state = "gzip_xlen"
  <2>1. strm.fmt = "gzip" /\ nin = 10 + inf_held /\ inf_held < 2 /\ "extra" \in strm.flags
    BY <1>7 DEF TakesByte
  <2>2. e >= 2
    BY <1>1, <2>1, MemberFacts DEF ExtraLen
  <2> QED BY <1>1, <1>2, <2>1, <2>2
<1>8. CASE inf_state = "gzip_extra"
  <2>1. strm.fmt = "gzip" /\ nin = 10 + e - length /\ length > 0
    BY <1>8 DEF TakesByte
  <2> QED BY <1>1, <1>2, <2>1
<1>9. CASE inf_state = "gzip_name"
  <2>1. strm.fmt = "gzip" /\ nin < 10 + e + n
    BY <1>9 DEF TakesByte, NameInv
  <2> QED BY <1>1, <1>2, <2>1
<1>10. CASE inf_state = "gzip_hcrc"
  <2>1. strm.fmt = "gzip" /\ nin = 10 + e + n + inf_held /\ inf_held < 2 /\ "hcrc" \in strm.flags
    BY <1>10 DEF TakesByte
  <2>2. h = 2
    BY <2>1 DEF HcrcLen
  <2> QED BY <1>1, <1>2, <2>1, <2>2
<1> QED BY <1>4, <1>5, <1>6, <1>7, <1>8, <1>9, <1>10 DEF TakesByte

\* How a step of the header ends: it goes on, waits for more of the header, finds
\* an error or asks for a dictionary.
LEMMA HeaderEnds ==
  ASSUME IInv, TestedInv, NameInv, HeaderStep
  PROVE  /\ strm' = strm /\ pc = "header"
         /\ \/ pc' \in {"header", "dead"} /\ inf_state # "inflate" /\ rc' = rc
            \/ GoInflate /\ pc' = "inflate_" /\ rc' = rc /\ inf_state = "inflate" /\ inf_state' = inf_state
            \/ /\ pc' = "return" /\ rc' = "OK" /\ avail_in' = 0 /\ nin' < HeaderLen(strm)
               /\ inf_state # "inflate"
            \/ /\ pc' = "return" /\ rc' = "DATA_ERROR"
               /\ strm.bad # "none" \/ Mismatch
               /\ UNCHANGED <<wrap, inf_state>> /\ inf_state # "inflate"
            \/ pc' = "app" /\ rc' = "NEED_DICT" /\ inf_state # "inflate"
<1>1. CASE NeedInput
  BY <1>1, WaitsInHeader DEF NeedInput, Returns, TakesByte
<1>2. CASE DataError
  BY <1>2 DEF DataError, Returns, In, TestedInv, hvars
<1>3. CASE GoInflate
  BY <1>3 DEF GoInflate, In, hvars
<1>4. CASE ZlibDict
  BY <1>4 DEF ZlibDict, In, Stays
<1>5. CASE Detect \/ Dispatch \/ TestByte \/ GzipFlg \/ GzipMtime \/ GzipXflOs \/ GzipXlen
  BY <1>5 DEF Detect, Dispatch, TestByte, Tests, GzipFlg, GzipMtime, GzipXflOs, GzipXlen, In, Stays
<1>6. CASE GzipHcrc \/ GzipNoHcrc \/ ZlibFlg \/ ZlibDictId
  BY <1>6 DEF GzipHcrc, GzipNoHcrc, ZlibFlg, ZlibDictId, In, Stays
<1>7. CASE GzipExtra
  <2> DEFINE copy == IF "extra" \in gzflags THEN AtMost(length, avail_in) ELSE 0
             rest == IF "extra" \in gzflags THEN length - copy ELSE 0
  <2>1. /\ pc = "header" /\ inf_state = "gzip_extra" /\ strm' = strm
        /\ nin' = nin + copy /\ avail_in' = avail_in - copy
        /\ \/ rest > 0 /\ pc' = "return" /\ rc' = "OK"
           \/ pc' = "header" /\ rc' = rc
    BY <1>7 DEF GzipExtra, In, TakeBulk, Returns, Stays
  <2>2. CASE rest > 0 /\ pc' = "return" /\ rc' = "OK"
    <3>1. nin = 10 + ExtraLen(strm) - length /\ strm.fmt = "gzip"
      BY <2>1 DEF IInv, HeaderInv
    <3>2. copy = avail_in /\ copy < length
      BY <2>2, HeaderFacts DEF AtMost
    <3>3. HeaderLen(strm) >= 10 + ExtraLen(strm)
      BY <3>1, GzipLayout, HeaderFacts, MemberFacts
    <3> HIDE DEF copy, rest
    <3>4. nin + copy < HeaderLen(strm) /\ avail_in - copy = 0
      BY <3>1, <3>2, <3>3, HeaderFacts
    <3> QED BY <2>1, <2>2, <3>4
  <2> HIDE DEF copy, rest
  <2> QED BY <2>1, <2>2
<1>8. CASE GzipName
  <2> DEFINE there == Cardinality({p \in nin + 1..HeaderLen(strm) : Layout(strm)[p] = "name"})
             copy == IF "name" \in gzflags THEN AtMost(there, avail_in) ELSE 0
  <2>1. /\ pc = "header" /\ inf_state = "gzip_name" /\ strm' = strm
        /\ nin' = nin + copy /\ avail_in' = avail_in - copy
    BY <1>8 DEF GzipName, In, TakeBulk
  <2>2. \/ "name" \in gzflags /\ copy < there /\ pc' = "return" /\ rc' = "OK"
        \/ pc' = "header" /\ rc' = rc
    BY <2>1, <1>8 DEF GzipName, Returns, Stays
  <2>3. there \in Nat /\ nin + there = 10 + ExtraLen(strm) + NameLen(strm) /\ strm.fmt = "gzip"
    BY <2>1, NameLeft DEF IInv, HeaderInv
  <2> HIDE DEF there
  <2>4. CASE "name" \in gzflags /\ copy < there /\ pc' = "return" /\ rc' = "OK"
    <3>1. copy = avail_in
      BY <2>3, <2>4, HeaderFacts DEF AtMost
    <3>2. HeaderLen(strm) >= 10 + ExtraLen(strm) + NameLen(strm)
      BY <2>3, GzipLayout, HeaderFacts, MemberFacts
    <3> HIDE DEF copy
    <3>3. nin + copy < HeaderLen(strm) /\ avail_in - copy = 0
      BY <2>3, <2>4, <3>1, <3>2, HeaderFacts
    <3> QED BY <2>1, <2>4, <3>3
  <2> HIDE DEF copy
  <2> QED BY <2>1, <2>2, <2>4
<1> QED BY <1>1, <1>2, <1>3, <1>4, <1>5, <1>6, <1>7, <1>8 DEF HeaderStep

-----------------------------------------------------------------------------
\* What a call may return, and why.
\* An error is excused.
Excused ==
  \/ strm.bad # "none" \/ failed \/ Mismatch
  \/ fault = "garbled" /\ strm.refs > 0
  \/ fault = "loops"

\* The checksum is that of the output, and is not begun anew by a dictionary.
CrcInv ==
  wrap # {} => /\ crc = OutAt(strm, item)
               /\ inf_state = "inflate" /\ dict_len => ~resuming

\* What was taken of the trailer is the trailer.
TrailerInv == trailer = [k \in 1..Len(trailer) |-> BodyEnd(strm) + k]

\* The last item is decoded by the last job, if it is good.
BodyInv ==
  /\ ~is_final => item < Len(strm.bit)
  /\ item = Len(strm.bit) => strm.bad # "body"

\* What the call began with; nothing is given before the loop.
StartInv ==
  /\ pc # "app" => in0 <= nin /\ out0 <= total_out
  /\ pc \in {"header", "inflate_"} => total_out = out0

\* What is put into fifo_in finds room there.
CacheRoom == pc = "cache" => avail_in > 0 /\ used_in < Threshold

\* Z_BUF_ERROR is for a call without room, and Z_OK for one that got on, or that
\* has no room left, or no input.
ReturnInv ==
  pc = "return" =>
    /\ rc \in {"DATA_ERROR", "STREAM_ERROR"} => Excused
    /\ rc = "BUF_ERROR" => avail_out = 0 /\ total_out = out0 /\ ~AllDelivered
    /\ rc = "OK" => \/ avail_out = 0 /\ ~AllDelivered
                    \/ nin > in0
                    \/ avail_in = 0 /\ nin < StreamLen(strm)

\* Z_OK leaves something of the trailer to be read once the output was given.
OpenInv ==
  pc \in {"app", "header", "inflate_", "return"} /\ rc = "OK" /\ is_final /\ used_out = 0 =>
    Len(trailer) < Trailers[strm.fmt]

AnswersInv ==
  /\ TestedInv /\ SumsInv /\ NameInv /\ CrcInv /\ TrailerInv /\ BodyInv /\ StartInv /\ CacheRoom
  /\ ReturnInv /\ OpenInv

\* Behind the header the header's part stays.
LEMMA HeaderDone ==
  ASSUME TestedInv, SumsInv, NameInv, inf_state = "inflate",
         UNCHANGED <<strm, wrap, inf_state>>, pc' # "header"
  PROVE  TestedInv' /\ SumsInv' /\ NameInv'
<1>1. TestedInv'
  BY TestedKept
<1>2. SumsInv'
  BY DEF SumsInv
<1> QED BY <1>1, <1>2 DEF NameInv

LEMMA PartsKept ==
  ASSUME CrcInv, TrailerInv, BodyInv,
         UNCHANGED <<strm, wrap, inf_state, dict_len, resuming, is_final, item, crc, trailer>>
  PROVE  CrcInv' /\ TrailerInv' /\ BodyInv'
<1>1. CrcInv'
  BY DEF CrcInv
<1>2. TrailerInv'
  BY DEF TrailerInv
<1> QED BY <1>1, <1>2 DEF BodyInv

LEMMA BodyLen ==
  ASSUME NEW m \in Members
  PROVE  /\ HeaderLen(m) \in Nat /\ BodyEnd(m) \in Nat /\ StreamLen(m) \in Nat
         /\ HeaderLen(m) <= BodyEnd(m) /\ BodyEnd(m) <= StreamLen(m)
         /\ StreamLen(m) = BodyEnd(m) + Trailers[m.fmt] /\ Trailers[m.fmt] \in Nat
<1> DEFINE u == UpDiv(BitAt(m, Len(m.bit)), Bits)
           t == Trailers[m.fmt]
<1>1. u \in Nat
  <2>1. Len(m.bit) \in 0..Len(m.bit)
    BY MemberFacts
  <2>2. BitAt(m, Len(m.bit)) \in Nat
    BY <2>1, ItemFacts
  <2> QED BY <2>2, Consts, UpDivIs
<1>2. HeaderLen(m) \in Nat /\ t \in Nat
  BY HeaderNat, TrailerFacts
<1>3. BodyEnd(m) = HeaderLen(m) + u
  BY FileNat
<1>4. StreamLen(m) = BodyEnd(m) + t
  BY DEF StreamLen
<1>5. t = Trailers[m.fmt]
  OBVIOUS
<1> HIDE DEF u, t
<1>6. BodyEnd(m) \in Nat /\ HeaderLen(m) <= BodyEnd(m)
  BY <1>1, <1>2, <1>3
<1>7. StreamLen(m) \in Nat /\ BodyEnd(m) <= StreamLen(m)
  BY <1>2, <1>4, <1>6
<1> QED BY <1>2, <1>4, <1>5, <1>6, <1>7, Zenon

LEMMA HeaderAnswers == ASSUME IInv, AnswersInv, Header PROVE AnswersInv'
<1>1. HeaderStep /\ UNCHANGED bodyVars
  BY DEF Header
<1>2. /\ UNCHANGED <<in0, out0, avail_out, total_out, resuming, is_final, crc, trailer, item, used_out, failed>>
  BY <1>1, BodyParts, DataParts
<1> USE DEF AnswersInv
<1>3. TestedInv' /\ SumsInv' /\ NameInv'
  BY <1>1, HeaderTested, HeaderSums, HeaderName
<1>4. /\ strm' = strm /\ pc = "header"
      /\ \/ pc' \in {"header", "dead"} /\ inf_state # "inflate" /\ rc' = rc
         \/ GoInflate /\ pc' = "inflate_" /\ rc' = rc /\ inf_state = "inflate" /\ inf_state' = inf_state
         \/ /\ pc' = "return" /\ rc' = "OK" /\ avail_in' = 0 /\ nin' < HeaderLen(strm)
            /\ inf_state # "inflate"
         \/ /\ pc' = "return" /\ rc' = "DATA_ERROR"
            /\ strm.bad # "none" \/ Mismatch
            /\ UNCHANGED <<wrap, inf_state>> /\ inf_state # "inflate"
         \/ pc' = "app" /\ rc' = "NEED_DICT" /\ inf_state # "inflate"
  BY <1>1, HeaderEnds
<1>5. nin <= nin' /\ nin \in Nat /\ nin' \in Nat /\ in0 \in Nat
  <2>1. IInv'
    BY HeaderInvs
  <2> QED BY <1>1, <2>1, HeaderTakes, TakenKeeps, HeaderFacts DEF IInv, Types, CallTypes, HeaderTypes
<1>6. inf_state # "inflate" => ~resuming /\ ~is_final
  BY DEF IInv, FreshInv
<1>7. CrcInv'
  <2>1. wrap' # {} => wrap # {}
    <3>1. IInv'
      BY HeaderInvs
    <3> QED BY <3>1, <1>4 DEF IInv, HeaderInv
  <2>2. inf_state # "inflate" \/ UNCHANGED <<dict_len, inf_state>>
    BY <1>4 DEF GoInflate, hvars
  <2> QED BY <1>2, <1>4, <1>6, <2>1, <2>2 DEF CrcInv
<1>8. TrailerInv' /\ BodyInv'
  BY <1>2, <1>4 DEF TrailerInv, BodyInv
<1>9. StartInv'
  BY <1>2, <1>4, <1>5 DEF StartInv
<1>10. CacheRoom'
  BY <1>4 DEF CacheRoom
<1>11. ReturnInv'
  <2>1. CASE pc' = "return" /\ rc' = "OK"
    <3>1. nin' < StreamLen(strm) /\ avail_in' = 0
      BY <1>4, <1>5, <2>1, BodyLen, HeaderFacts
    <3> QED BY <1>4, <2>1, <3>1 DEF ReturnInv
  <2>2. CASE pc' = "return" /\ rc' = "DATA_ERROR"
    BY <1>4, <2>2 DEF ReturnInv, Excused, Mismatch
  <2> QED BY <1>4, <2>1, <2>2 DEF ReturnInv
<1>12. OpenInv'
  BY <1>2, <1>4, <1>6 DEF OpenInv
<1> QED BY <1>3, <1>7, <1>8, <1>9, <1>10, <1>11, <1>12

-----------------------------------------------------------------------------
\* The bytes that hold x bits.
LEMMA UpDivCovers ==
  ASSUME NEW b \in Nat \ {0}, NEW x \in Nat
  PROVE  UpDiv(x, b) \in Nat /\ x <= b * UpDiv(x, b)
<1> DEFINE d == x \div b
           r == x % b
<1>1. d \in Nat /\ r \in Nat /\ r < b /\ x = b * d + r
  BY Division
<1>2. UpDiv(x, b) = (IF r = 0 THEN d ELSE d + 1) /\ UpDiv(x, b) \in Nat
  BY UpDivIs
<1> HIDE DEF d, r
<1>3. b * (d + 1) = b * d + b /\ b * d \in Int
  BY <1>1, Times
<1> QED BY <1>1, <1>2, <1>3

\* And no more than y bytes, if y bytes hold them.
LEMMA UpDivLeast ==
  ASSUME NEW b \in Nat \ {0}, NEW x \in Nat, NEW y \in Nat, x <= b * y
  PROVE  UpDiv(x, b) <= y
<1> DEFINE d == x \div b
           r == x % b
<1>1. d \in Nat /\ r \in Nat /\ r < b /\ x = b * d + r
  BY Division
<1>2. UpDiv(x, b) = IF r = 0 THEN d ELSE d + 1
  BY UpDivIs
<1> HIDE DEF d, r
<1>3. d <= y
  <2> SUFFICES ASSUME y < d PROVE FALSE
    BY <1>1
  <2>1. b * y + b <= b * d /\ b * y \in Int /\ b * d \in Int
    BY <1>1, Times
  <2> QED BY <1>1, <2>1
<1>4. CASE r = 0
  BY <1>2, <1>3, <1>4
<1>5. CASE r # 0
  <2>1. d # y
    BY <1>1, <1>5, Times
  <2> QED BY <1>1, <1>2, <1>3, <1>5, <2>1
<1> QED BY <1>4, <1>5

\* Items end one after another.
LEMMA Later ==
  ASSUME NEW m \in Members, NEW i \in 0..Len(m.bit), i < Len(m.bit)
  PROVE  /\ BitAt(m, i) \in Nat /\ BitAt(m, i + 1) \in Nat /\ BitAt(m, Len(m.bit)) \in Nat
         /\ BitAt(m, i) < BitAt(m, Len(m.bit)) /\ BitAt(m, i + 1) <= BitAt(m, Len(m.bit))
<1> DEFINE n == Len(m.bit)
<1>1. n \in Nat \ {0}
  BY MemberFacts
<1> HIDE DEF n
<1>2. i + 1 \in 0..n /\ n \in 0..n /\ i \in 0..n /\ i + 1 <= n
  BY <1>1 DEF n
<1>3. BitAt(m, i) \in Nat /\ BitAt(m, i + 1) \in Nat /\ BitAt(m, n) \in Nat /\ BitAt(m, i + 1) <= BitAt(m, n)
  BY <1>2, ItemFacts DEF n
<1>4. BitAt(m, i) < BitAt(m, i + 1)
  <2>1. (\A j, k \in 1..n : j < k => m.bit[j] < m.bit[k]) /\ m.bit[1] > 0
    BY InflateAssumption, Zenon DEF ItemsOf, n
  <2>2. CASE i = 0
    BY <2>1, <2>2 DEF BitAt
  <2>3. CASE i # 0
    <3>1. i \in 1..n /\ i + 1 \in 1..n /\ i < i + 1 /\ i + 1 # 0
      BY <1>1, <1>2, <2>3
    <3> QED BY <2>1, <2>3, <3>1 DEF BitAt
  <2> QED BY <2>2, <2>3
<1> QED BY <1>3, <1>4 DEF n

\* Before the last block was decoded, there is more of it.
LEMMA BeforeEnd ==
  ASSUME IInv, BodyInv, inf_state = "inflate", ~is_final
  PROVE  Place < BodyEnd(strm)
<1> DEFINE q == Place - HeaderLen(strm)
           n == Len(strm.bit)
           x == BitAt(strm, n)
           y == BitAt(strm, item)
           u == UpDiv(x, Bits)
<1>1. strm \in Members /\ n \in Nat /\ item \in 0..n /\ item < n
  BY Streams DEF IInv, BodyInv
<1>2. y < x /\ x \in Nat /\ y \in Nat
  BY <1>1, Later
<1>3. y = Bits * q + HalfByte /\ q \in Int
  <2>1. y = Bits * q + HalfByte
    BY DEF IInv, FeedInv
  <2>2. nin \in Nat /\ used_in \in Nat /\ HeaderLen(strm) \in Nat
    BY Numbers, Streams DEF IInv
  <2> QED BY <2>1, <2>2 DEF Place
<1>4. HalfByte \in Nat /\ Bits \in Nat \ {0}
  BY Consts, Numbers DEF HalfByte
<1>5. BodyEnd(strm) = HeaderLen(strm) + u /\ u \in Nat /\ x <= Bits * u
  BY <1>1, <1>2, Consts, FileNat, UpDivCovers
<1>6. HeaderLen(strm) \in Nat /\ Place \in Int
  BY Streams, Numbers DEF IInv, Place
<1>7. Place = HeaderLen(strm) + q
  BY <1>6
<1> HIDE DEF q, n, x, y, u
<1>8. q < u
  <2> SUFFICES ASSUME ~(q < u) PROVE FALSE
    OBVIOUS
  <2>1. Bits * u <= Bits * q
    BY <1>3, <1>4, <1>5, Times
  <2>2. Bits * u \in Int /\ Bits * q \in Int
    BY <1>3, <1>4, <1>5, Times
  <2> QED BY <1>2, <1>3, <1>4, <1>5, <2>1, <2>2
<1> QED BY <1>3, <1>5, <1>6, <1>7, <1>8

\* A step of nx_inflate_ that takes no data.
LEMMA BodyStep ==
  ASSUME IInv, AnswersInv, pc \in Body, pc' \in (Body \ {"inflate_"}) \cup {"return"},
         UNCHANGED <<strm, wrap, inf_state, dict_len, resuming, is_final, item, crc, trailer, in0, out0>>,
         nin' \in Nat, nin <= nin', total_out' \in Nat, total_out <= total_out',
         CacheRoom', ReturnInv', OpenInv'
  PROVE  AnswersInv'
<1>1. inf_state = "inflate"
  BY InBody
<1>2. pc' # "header" /\ pc' # "inflate_" /\ pc # "app"
  BY DEF Body
<1>3. TestedInv' /\ SumsInv' /\ NameInv'
  BY <1>1, <1>2, HeaderDone DEF AnswersInv
<1>4. CrcInv' /\ TrailerInv' /\ BodyInv'
  BY PartsKept DEF AnswersInv
<1>5. StartInv'
  <2>1. in0 <= nin /\ out0 <= total_out
    BY <1>2 DEF AnswersInv, StartInv
  <2>2. in0 \in Nat /\ out0 \in Nat /\ nin \in Nat /\ total_out \in Nat
    BY Numbers DEF IInv, Types, CallTypes
  <2> QED BY <1>2, <2>1, <2>2 DEF StartInv
<1> QED BY <1>3, <1>4, <1>5 DEF AnswersInv

LEMMA ControlAnswers ==
  ASSUME IInv, AnswersInv, pc \in Body, pc' \in (Body \ {"inflate_"}) \cup {"return"},
         UNCHANGED <<strm, nin, wrap, inf_state, dict_len, total_out, resuming, is_final, item, crc, trailer,
                     in0, out0>>,
         CacheRoom', ReturnInv', OpenInv'
  PROVE  AnswersInv'
  BY Numbers, BodyStep

\* What the steps without data leave alone.
LEMMA BodyLeaves ==
  ASSUME UNCHANGED hvars, UNCHANGED bodyVars
  PROVE  /\ UNCHANGED <<wrap, inf_state, dict_len, total_out, resuming, is_final, item, crc, trailer>>
         /\ UNCHANGED <<in0, out0, avail_out, used_in, used_out, failed>>
<1>1. UNCHANGED <<wrap, inf_state, dict_len>>
  BY DEF hvars
<1> QED BY <1>1, BodyParts, DataParts

LEMMA BeginAnswers == ASSUME IInv, AnswersInv, Begin PROVE AnswersInv'
<1>1. pc = "inflate_" /\ UNCHANGED <<strm, nin, avail_in, fault>> /\ UNCHANGED hvars /\ UNCHANGED bodyVars
  BY DEF Begin
<1>2. \/ pc' = "return" /\ rc' = "STREAM_END"
      \/ pc' = "verify"
      \/ pc' = "return" /\ rc' = "BUF_ERROR" /\ avail_out = 0 /\ ~AllDelivered
      \/ pc' = "loop"
  BY DEF Begin, Returns
<1>3. /\ UNCHANGED <<wrap, inf_state, dict_len, total_out, resuming, is_final, item, crc, trailer>>
      /\ UNCHANGED <<in0, out0, avail_out, used_in, used_out, failed>>
  BY <1>1, BodyLeaves
<1>4. total_out = out0
  BY <1>1 DEF AnswersInv, StartInv
<1>5. CacheRoom' /\ OpenInv'
  BY <1>2 DEF CacheRoom, OpenInv
<1>6. ReturnInv'
  BY <1>2, <1>3, <1>4 DEF ReturnInv, AllDelivered
<1> QED BY <1>1, <1>2, <1>3, <1>5, <1>6, ControlAnswers DEF Body

LEMMA LoopsAnswers == ASSUME IInv, AnswersInv, TooManyLoops PROVE AnswersInv'
<1>1. /\ pc = "loop" /\ pc' = "return" /\ rc' = "STREAM_ERROR" /\ fault' = "loops"
      /\ UNCHANGED <<strm, nin, avail_in>> /\ UNCHANGED hvars /\ UNCHANGED bodyVars
  BY DEF TooManyLoops, Returns
<1>2. CacheRoom' /\ OpenInv' /\ ReturnInv'
  BY <1>1 DEF CacheRoom, OpenInv, ReturnInv, Excused
<1> QED BY <1>1, <1>2, BodyLeaves, ControlAnswers DEF Body

LEMMA DrainAnswers == ASSUME IInv, AnswersInv, Drain PROVE AnswersInv'
<1> DEFINE w == AtMost(used_out, avail_out)
<1>1. /\ pc = "loop" /\ used_out > 0 /\ used_out' = used_out - w
      /\ total_out' = total_out + w /\ avail_out' = avail_out - w
      /\ \/ used_out - w > 0 /\ pc' = "return" /\ rc' = "OK"
         \/ pc' \in {"verify", "feed"}
      /\ UNCHANGED <<strm, nin, avail_in, fault, in0, out0>>
  BY DEF Drain, Give, Returns
<1>2. UNCHANGED <<wrap, inf_state, dict_len, resuming, is_final, item, crc, trailer>>
  BY DEF Drain, hvars, engineVars
<1>3. w \in Nat /\ w <= used_out /\ w <= avail_out /\ (w = used_out \/ w = avail_out)
  BY Numbers, LeastNat
<1> HIDE DEF w
<1>4. total_out + w \in Nat /\ total_out <= total_out + w
  BY <1>3, Numbers
<1>5. used_out - w > 0 => avail_out - w = 0
  BY <1>3, Numbers
<1>6. CacheRoom' /\ OpenInv'
  BY <1>1, <1>5 DEF CacheRoom, OpenInv
<1>7. ReturnInv'
  <2> SUFFICES ASSUME pc' = "return" PROVE rc' = "OK" /\ avail_out' = 0 /\ ~AllDelivered'
    BY DEF ReturnInv
  <2> QED BY <1>1, <1>5 DEF AllDelivered
<1>8. nin' \in Nat /\ nin <= nin' /\ total_out' \in Nat /\ total_out <= total_out'
  BY <1>1, <1>4, Numbers
<1> QED BY <1>1, <1>2, <1>6, <1>7, <1>8, BodyStep DEF Body

LEMMA NothingAnswers == ASSUME IInv, AnswersInv, NothingToDrain PROVE AnswersInv'
<1>1. /\ pc = "loop" /\ pc' = "feed"
      /\ UNCHANGED <<strm, nin, avail_in, total_out>>
      /\ UNCHANGED <<wrap, inf_state, dict_len, resuming, is_final, item, crc, trailer, in0, out0>>
  BY DEF NothingToDrain, hvars, engineVars, callVars
<1>2. CacheRoom' /\ OpenInv' /\ ReturnInv'
  BY <1>1 DEF CacheRoom, OpenInv, ReturnInv
<1> QED BY <1>1, <1>2, ControlAnswers DEF Body

LEMMA IdleAnswers == ASSUME IInv, AnswersInv, ReturnIdle PROVE AnswersInv'
<1>1. /\ pc = "feed" /\ NothingToDo /\ pc' = "return" /\ rc' = "OK"
      /\ UNCHANGED <<strm, nin, avail_in>> /\ UNCHANGED hvars /\ UNCHANGED bodyVars
  BY DEF ReturnIdle, Returns
<1>2. /\ UNCHANGED <<wrap, inf_state, dict_len, total_out, resuming, is_final, item, crc, trailer>>
      /\ UNCHANGED <<in0, out0, avail_out, used_in, used_out, failed>>
  BY <1>1, BodyLeaves
<1>3. ~is_final /\ inf_state = "inflate"
  BY <1>1, InBody DEF IInv, JobInv, Body
<1>4. used_in = 0 => nin < StreamLen(strm)
  <2>1. Place < BodyEnd(strm)
    BY <1>3, BeforeEnd DEF AnswersInv
  <2>2. nin \in Nat /\ BodyEnd(strm) \in Nat /\ StreamLen(strm) \in Nat /\ BodyEnd(strm) <= StreamLen(strm)
    BY Numbers, HeaderFacts, BodyLen
  <2> QED BY <2>1, <2>2 DEF Place
<1>5. CacheRoom' /\ OpenInv'
  BY <1>1, <1>2, <1>3 DEF CacheRoom, OpenInv
<1>6. ReturnInv'
  BY <1>1, <1>2, <1>3, <1>4 DEF ReturnInv, AllDelivered, NothingToDo
<1> QED BY <1>1, <1>2, <1>5, <1>6, ControlAnswers DEF Body

LEMMA GoCacheAnswers == ASSUME IInv, AnswersInv, GoCache PROVE AnswersInv'
<1>1. /\ pc = "feed" /\ TooLittle /\ pc' = "cache"
      /\ UNCHANGED <<strm, nin, avail_in>> /\ UNCHANGED hvars /\ UNCHANGED bodyVars
  BY DEF GoCache
<1>2. /\ UNCHANGED <<wrap, inf_state, dict_len, total_out, resuming, is_final, item, crc, trailer>>
      /\ UNCHANGED <<in0, out0, avail_out, used_in, used_out, failed>>
  BY <1>1, BodyLeaves
<1>3. avail_in > 0 /\ used_in < Threshold
  <2>1. avail_in > 0 /\ avail_in + used_in < Threshold
    BY <1>1 DEF TooLittle
  <2> QED BY <2>1, Numbers, Consts
<1>4. CacheRoom' /\ OpenInv' /\ ReturnInv'
  BY <1>1, <1>2, <1>3 DEF CacheRoom, OpenInv, ReturnInv
<1> QED BY <1>1, <1>2, <1>4, ControlAnswers DEF Body

LEMMA CacheAnswers == ASSUME IInv, AnswersInv, Cache PROVE AnswersInv'
<1> DEFINE n == ReadSize(InCur(OldCur))
<1>1. /\ pc = "cache" /\ pc' = "return" /\ rc' = "OK"
      /\ nin' = nin + n /\ UNCHANGED <<strm, total_out>>
      /\ UNCHANGED <<wrap, inf_state, dict_len, resuming, is_final, item, crc, trailer, in0, out0>>
  BY DEF Cache, Returns, hvars, engineVars, callVars
<1>2. avail_in > 0 /\ used_in < Threshold
  BY <1>1 DEF AnswersInv, CacheRoom
<1>3. n \in Nat \ {0}
  <2> DEFINE c == InCur(OldCur)
  <2>1. c \in Nat /\ c <= Threshold
    <3>1. OldCur \in Nat
      BY Numbers DEF OldCur
    <3> QED BY <3>1, Consts DEF InCur
  <2> HIDE DEF c
  <2>2. 2 * Threshold - c - used_in \in Nat \ {0}
    BY <1>2, <2>1, Numbers, Consts
  <2>3. ReadSize(c) = AtMost(2 * Threshold - c - used_in, avail_in)
    BY DEF ReadSize, LenIn
  <2>4. ReadSize(c) \in Nat \ {0}
    BY <1>2, <2>2, <2>3, Numbers DEF AtMost
  <2> QED BY <2>4 DEF c
<1> HIDE DEF n
<1>4. in0 \in Nat /\ in0 <= nin /\ nin \in Nat
  BY <1>1, Numbers DEF AnswersInv, StartInv, IInv, Types, CallTypes
<1>5. nin + n > in0 /\ nin + n \in Nat /\ nin <= nin + n
  BY <1>3, <1>4
<1>6. ~is_final
  BY <1>1 DEF IInv, JobInv
<1>7. CacheRoom' /\ OpenInv' /\ ReturnInv'
  BY <1>1, <1>5, <1>6 DEF CacheRoom, OpenInv, ReturnInv
<1>8. nin' \in Nat /\ nin <= nin' /\ total_out' \in Nat /\ total_out <= total_out'
  BY <1>1, <1>5, Numbers
<1> QED BY <1>1, <1>7, <1>8, BodyStep DEF Body

LEMMA NoMemoryAnswers == ASSUME IInv, AnswersInv, CacheNoMemory PROVE AnswersInv'
<1>1. /\ pc = "cache" /\ pc' = "return" /\ rc' = "MEM_ERROR"
      /\ UNCHANGED <<strm, nin, avail_in>> /\ UNCHANGED hvars /\ UNCHANGED bodyVars
  BY DEF CacheNoMemory, Returns
<1>2. CacheRoom' /\ OpenInv' /\ ReturnInv'
  BY <1>1 DEF CacheRoom, OpenInv, ReturnInv
<1> QED BY <1>1, <1>2, BodyLeaves, ControlAnswers DEF Body

LEMMA FeedAnswers == ASSUME IInv, AnswersInv, Feed PROVE AnswersInv'
<1>1. /\ pc = "feed" /\ pc' = "submit"
      /\ UNCHANGED <<strm, nin, avail_in, total_out>>
      /\ UNCHANGED <<wrap, inf_state, dict_len, resuming, is_final, item, crc, trailer, in0, out0>>
  BY DEF Feed, InitDde, hvars, callVars
<1>2. CacheRoom' /\ OpenInv' /\ ReturnInv'
  BY <1>1 DEF CacheRoom, OpenInv, ReturnInv
<1> QED BY <1>1, <1>2, ControlAnswers DEF Body

LEMMA AgainAnswers == ASSUME IInv, AnswersInv, JobFault \/ JobSpace PROVE AnswersInv'
<1>1. /\ pc = "submit" /\ pc' = "submit"
      /\ UNCHANGED <<strm, nin, avail_in, total_out>>
      /\ UNCHANGED <<wrap, inf_state, dict_len, resuming, is_final, item, crc, trailer, in0, out0>>
  BY DEF JobFault, JobSpace, InitDde, hvars, callVars
<1>2. CacheRoom' /\ OpenInv' /\ ReturnInv'
  BY <1>1 DEF CacheRoom, OpenInv, ReturnInv
<1> QED BY <1>1, <1>2, ControlAnswers DEF Body

\* A job that fails is excused: only after a wrong dictionary is it garbled.
LEMMA ErrorAnswers ==
  ASSUME IInv, AnswersInv, NEW why \in {"garbled", "corrupt", "lost"}, JobError(why)
  PROVE  AnswersInv'
<1>1. /\ pc = "submit" /\ pc' = "return" /\ rc' = "DATA_ERROR"
      /\ UNCHANGED <<strm, nin, avail_in, total_out>>
      /\ UNCHANGED <<wrap, inf_state, dict_len, resuming, is_final, item, crc, trailer, in0, out0>>
      /\ failed' = (failed \/ why = "lost")
      /\ fault' = IF why = "garbled" THEN "garbled" ELSE fault
      /\ \/ why = "garbled" /\ ~Right
         \/ why = "corrupt" /\ Right /\ Corrupt
         \/ why = "lost" /\ faults < MaxFaults
  BY DEF JobError, Returns, hvars, callVars
<1>2. Excused'
  <2>1. CASE why = "garbled"
    <3>1. strm.refs # 0 /\ strm.refs \in Nat
      BY <1>1, <2>1, IInvJobsResume, MemberFacts, HeaderFacts DEF JobsResume
    <3> QED BY <1>1, <2>1, <3>1 DEF Excused
  <2>2. CASE why = "corrupt"
    BY <1>1, <2>2 DEF Excused, Corrupt
  <2>3. CASE why = "lost"
    BY <1>1, <2>3 DEF Excused
  <2> QED BY <2>1, <2>2, <2>3
<1>3. CacheRoom' /\ OpenInv' /\ ReturnInv'
  BY <1>1, <1>2 DEF CacheRoom, OpenInv, ReturnInv
<1> QED BY <1>1, <1>3, ControlAnswers DEF Body

LEMMA TooLongAnswers == ASSUME IInv, AnswersInv, JobFaultsTooLong PROVE AnswersInv'
<1>1. /\ pc = "submit" /\ pc' = "return" /\ rc' = "DATA_ERROR" /\ failed' = TRUE
      /\ UNCHANGED <<strm, nin, avail_in, total_out>>
      /\ UNCHANGED <<wrap, inf_state, dict_len, resuming, is_final, item, crc, trailer, in0, out0>>
  BY DEF JobFaultsTooLong, Returns, hvars, callVars
<1>2. CacheRoom' /\ OpenInv' /\ ReturnInv'
  BY <1>1 DEF CacheRoom, OpenInv, ReturnInv, Excused
<1> QED BY <1>1, <1>2, ControlAnswers DEF Body

\* Two runs of numbers, one after the other.
LEMMA Counted ==
  ASSUME NEW e \in Nat, NEW h \in Nat, NEW n \in Nat
  PROVE  [k \in 1..h |-> e + k] \o [k \in 1..n |-> e + h + k] = [k \in 1..h + n |-> e + k]
<1> DEFINE s == [k \in 1..h |-> e + k]
           t == [k \in 1..n |-> e + h + k]
           r == [k \in 1..h + n |-> e + k]
<1>1. s \in Seq(Nat) /\ t \in Seq(Nat) /\ r \in Seq(Nat) /\ Len(s) = h /\ Len(t) = n /\ Len(r) = h + n
  OBVIOUS
<1>2. \A k \in 1..h + n : r[k] = IF k <= h THEN s[k] ELSE t[k - h]
  <2> TAKE k \in 1..h + n
  <2>1. k <= h => s[k] = e + k
    OBVIOUS
  <2>2. ~(k <= h) => k - h \in 1..n /\ t[k - h] = e + h + (k - h) /\ e + h + (k - h) = e + k
    OBVIOUS
  <2>3. r[k] = e + k
    OBVIOUS
  <2> QED BY <2>1, <2>2, <2>3
<1> HIDE DEF s, t, r
<1>3. /\ s \o t \in Seq(Nat) /\ Len(s \o t) = h + n
      /\ \A k \in 1..h + n : (s \o t)[k] = IF k <= h THEN s[k] ELSE t[k - h]
  BY <1>1, ConcatProperties, Zenon
<1>4. s \o t = r
  <2> DEFINE c == s \o t
  <2>1. c \in Seq(Nat) /\ Len(c) = Len(r) /\ \A k \in 1..Len(c) : c[k] = r[k]
    BY <1>1, <1>2, <1>3, Zenon
  <2> HIDE DEF c
  <2>2. c = r
    BY <1>1, <2>1, SeqEqual, Zenon
  <2> QED BY <2>2 DEF c
<1> QED BY <1>4 DEF s, t, r

\* Only the beginning of the trailer is read out of fifo_in.
LEMMA FifoFirst ==
  ASSUME IInv, is_final, Got1 > 0
  PROVE  Len(trailer) = 0
<1> DEFINE T == Trailers[strm.fmt]
           L == Len(trailer)
<1>1. T \in Nat /\ L \in Nat /\ L <= T /\ (used_in > 0 => L \in {0, T})
  <2>1. trailer \in Seq(Nat) /\ L <= T /\ (used_in > 0 => L \in {0, T})
    BY DEF IInv, Types, EngineTypes, EndInv
  <2> QED BY <2>1, Streams DEF IInv
<1>2. wrap = {} => T = 0
  BY TrailerFacts DEF IInv, HeaderInv
<1>3. TrailerNeed = LET len == IF wrap = {} THEN 0 ELSE T IN IF len > L THEN len - L ELSE 0
  BY DEF TrailerNeed
<1> HIDE DEF T, L
<1>4. Got1 = AtMost(used_in, TrailerNeed)
  BY DEF Got1
<1>5. used_in > 0 /\ TrailerNeed > 0
  BY <1>1, <1>2, <1>3, <1>4, Numbers DEF AtMost
<1>6. L # T
  BY <1>1, <1>2, <1>3, <1>5
<1> QED BY <1>1, <1>5, <1>6 DEF L

\* The pieces of the trailer are the next ones.
LEMMA TrailerIs ==
  ASSUME IInv, TrailerInv, is_final
  PROVE  Trailer = [k \in 1..Len(Trailer) |-> BodyEnd(strm) + k]
<1> DEFINE L == Len(trailer)
           e == BodyEnd(strm)
           head == IF Got1 > 0 THEN [k \in 1..Got1 |-> fifo_in[cur_in + k - 1]] ELSE trailer
           tail == [k \in 1..Got2 |-> nin + k]
           h == IF Got1 > 0 THEN Got1 ELSE L
<1>1. /\ Got1 \in Nat /\ Got1 <= used_in /\ Got2 \in Nat /\ Got2 <= avail_in
      /\ Trailer \in Seq(Nat) /\ Len(Trailer) = L + Got1 + Got2
      /\ used_in - Got1 > 0 => Got2 = 0
      /\ Got1 > 0 => fifo_in \in [0..LenIn - 1 -> Nat]
  BY Pieces
<1>2. L \in Nat /\ e \in Nat /\ nin \in Nat /\ used_in \in Nat /\ cur_in \in Nat /\ Place = e + L
  <2>1. trailer \in Seq(Nat) /\ Place = e + L
    BY DEF IInv, Types, EngineTypes, EndInv
  <2> QED BY <2>1, Numbers, BodyLen, HeaderFacts
<1>3. nin = e + L + used_in
  <2> HIDE DEF e, L
  <2> QED BY <1>2 DEF Place
<1>4. Got1 > 0 => L = 0
  BY <1>1, <1>2, FifoFirst
<1>5. head = [k \in 1..h |-> e + k] /\ h = L + Got1
  <2>1. CASE Got1 > 0
    <3>1. \A k \in 1..Got1 : fifo_in[cur_in + k - 1] = e + k
      <4> TAKE k \in 1..Got1
      <4>1. k - 1 \in 0..used_in - 1 /\ cur_in + k - 1 = cur_in + (k - 1)
        BY <1>1, <1>2
      <4>2. fifo_in[cur_in + (k - 1)] = Place + (k - 1) + 1
        BY <4>1 DEF IInv, CachedInv, Cached
      <4>3. Place = e
        BY <1>2, <1>4, <2>1
      <4>4. Place + (k - 1) + 1 = e + k
        BY <1>1, <1>2, <4>3
      <4> QED BY <4>1, <4>2, <4>4
    <3> QED BY <1>1, <1>4, <2>1, <3>1
  <2>2. CASE ~(Got1 > 0)
    <3>1. Got1 = 0 /\ h = L
      BY <1>1, <2>2
    <3>2. L + 0 = L
      BY <1>2
    <3>3. trailer = [k \in 1..L |-> e + k]
      BY DEF TrailerInv
    <3> QED BY <2>2, <3>1, <3>2, <3>3, Zenon
  <2> QED BY <2>1, <2>2
<1>6. Got2 > 0 => nin = e + h
  <2> HIDE DEF e, L, h
  <2> QED BY <1>1, <1>2, <1>3, <1>5
<1>7. Trailer = head \o tail
  BY DEF Trailer
<1>8. h \in Nat
  BY <1>1, <1>2
<1>9. tail = [k \in 1..Got2 |-> e + h + k]
  <2>1. \A k \in 1..Got2 : nin + k = e + h + k
    BY <1>1, <1>6
  <2> QED BY <2>1
<1> HIDE DEF e, L, h, head, tail
<1>10. head \o tail = [k \in 1..h + Got2 |-> e + k]
  <2>1. [k \in 1..h |-> e + k] \o [k \in 1..Got2 |-> e + h + k] = [k \in 1..h + Got2 |-> e + k]
    <3> DEFINE n == Got2
    <3>1. e \in Nat /\ h \in Nat /\ n \in Nat
      BY <1>1, <1>2, <1>8
    <3> HIDE DEF n
    <3>2. [k \in 1..h |-> e + k] \o [k \in 1..n |-> e + h + k] = [k \in 1..h + n |-> e + k]
      BY <3>1, Counted
    <3> QED BY <3>2 DEF n
  <2> QED BY <1>5, <1>9, <2>1, Zenon
<1>11. Len(Trailer) = h + Got2
  BY <1>1, <1>5
<1> QED BY <1>7, <1>10, <1>11 DEF e

LEMMA TrailerPiecesAnswers ==
  ASSUME IInv, AnswersInv, is_final, pc \in Body, CopyTrailer,
         pc' \in (Body \ {"inflate_"}) \cup {"return"},
         UNCHANGED <<strm, wrap, inf_state, dict_len, total_out, resuming, is_final, item, crc, in0, out0>>,
         CacheRoom', ReturnInv', OpenInv'
  PROVE  AnswersInv'
<1>1. inf_state = "inflate"
  BY InBody
<1>2. pc' # "header" /\ pc' # "inflate_" /\ pc # "app"
  BY DEF Body
<1>3. TestedInv' /\ SumsInv' /\ NameInv'
  BY <1>1, <1>2, HeaderDone DEF AnswersInv
<1>4. CrcInv' /\ BodyInv'
  BY DEF AnswersInv, CrcInv, BodyInv
<1>5. TrailerInv'
  <2>1. trailer' = Trailer
    BY DEF CopyTrailer
  <2>2. Trailer = [k \in 1..Len(Trailer) |-> BodyEnd(strm) + k]
    BY TrailerIs DEF AnswersInv
  <2> QED BY <2>1, <2>2 DEF TrailerInv
<1>6. StartInv'
  <2>1. in0 <= nin /\ out0 <= total_out
    BY <1>2 DEF AnswersInv, StartInv
  <2>2. in0 \in Nat /\ nin \in Nat /\ Got2 \in Nat
    BY Numbers, Pieces DEF IInv, Types, CallTypes
  <2>3. nin' = nin + Got2
    BY DEF CopyTrailer
  <2>4. in0 <= nin + Got2
    BY <2>1, <2>2
  <2> QED BY <1>2, <2>1, <2>3, <2>4 DEF StartInv
<1> QED BY <1>3, <1>4, <1>5, <1>6 DEF AnswersInv

LEMMA CopyTrailerAnswers == ASSUME IInv, AnswersInv, CopyTrailerOnly PROVE AnswersInv'
<1>1. /\ pc = "copy trailer" /\ CopyTrailer /\ pc' = "loop"
      /\ UNCHANGED <<strm, wrap, inf_state, dict_len, total_out, resuming, is_final, item, crc, in0, out0>>
  BY DEF CopyTrailerOnly, hvars, callVars
<1>2. is_final
  BY <1>1 DEF IInv, JobInv
<1>3. CacheRoom' /\ OpenInv' /\ ReturnInv'
  BY <1>1 DEF CacheRoom, OpenInv, ReturnInv
<1> QED BY <1>1, <1>2, <1>3, TrailerPiecesAnswers DEF Body

\* A good trailer is compared with the right checksum and length.
LEMMA Compared ==
  ASSUME IInv, CrcInv, is_final, used_out = 0, wrap # {}, NEW t,
         t = [k \in 1..Trailers[strm.fmt] |-> BodyEnd(strm) + k], ~TrailerMatches(t)
  PROVE  strm.bad = "trailer"
<1>1. item = Len(strm.bit) /\ total_out + used_out = OutAt(strm, item) /\ total_out \in Nat
  BY Numbers DEF IInv, EndInv, Types, EngineTypes
<1>2. Len(strm.out) = Len(strm.bit) /\ Len(strm.bit) # 0
  BY MemberFacts, HeaderFacts
<1>3. OutAt(strm, item) = Plain(strm)
  BY <1>1, <1>2 DEF OutAt, Plain
<1>4. crc = Plain(strm) /\ total_out = Plain(strm)
  BY <1>1, <1>3 DEF CrcInv
<1> QED BY <1>4 DEF TrailerMatches

LEMMA VerifyAnswers == ASSUME IInv, AnswersInv, Verify PROVE AnswersInv'
<1>1. /\ pc = "verify" /\ CopyTrailer /\ pc' = "return" /\ rc' = Verdict(trailer')
      /\ UNCHANGED <<strm, fault, wrap, inf_state, dict_len, total_out, used_out, avail_out, resuming, is_final>>
      /\ UNCHANGED <<item, crc, in0, out0, failed>>
  BY DEF Verify, Returns, hvars, callVars
<1>2. is_final /\ used_out = 0
  BY <1>1 DEF IInv, JobInv
<1>3. /\ trailer' = Trailer /\ nin' = nin + Got2 /\ avail_in' = avail_in - Got2
  BY <1>1 DEF CopyTrailer
<1>4. /\ Got1 \in Nat /\ Got1 <= used_in /\ Got2 \in Nat /\ Got2 <= avail_in
      /\ Trailer \in Seq(Nat) /\ Len(Trailer) = Len(trailer) + Got1 + Got2
      /\ Len(Trailer) <= Trailers[strm.fmt]
      /\ used_in - Got1 > 0 => Got2 = 0 /\ Len(Trailer) = Trailers[strm.fmt]
  BY <1>2, Pieces
<1>5. Trailer = [k \in 1..Len(Trailer) |-> BodyEnd(strm) + k]
  BY <1>2, TrailerIs DEF AnswersInv
<1>6. /\ Trailers[strm.fmt] \in Nat /\ BodyEnd(strm) \in Nat /\ Len(trailer) \in Nat /\ Len(Trailer) \in Nat
      /\ StreamLen(strm) = BodyEnd(strm) + Trailers[strm.fmt]
      /\ Place = BodyEnd(strm) + Len(trailer)
      /\ nin \in Nat /\ used_in \in Nat /\ avail_in \in Nat
  <2>1. trailer \in Seq(Nat) /\ Place = BodyEnd(strm) + Len(trailer)
    BY <1>2 DEF IInv, Types, EngineTypes, EndInv
  <2>2. Len(trailer) \in Nat /\ Len(Trailer) \in Nat
    BY <1>4, <2>1
  <2> QED BY <2>1, <2>2, Numbers, BodyLen, HeaderFacts
<1>7. CASE wrap # {} /\ Len(Trailer) < Trailers[strm.fmt]
  <2>1. rc' = "OK"
    BY <1>1, <1>3, <1>7 DEF Verdict
  <2> DEFINE T == Trailers[strm.fmt]
             L == Len(trailer)
             e == BodyEnd(strm)
  <2>2. L + Got1 + Got2 < T /\ L \in Nat /\ T \in Nat /\ e \in Nat
    BY <1>4, <1>6, <1>7
  <2>3. Got2 = AtMost(avail_in, TrailerNeed - Got1) /\ TrailerNeed = IF T > L THEN T - L ELSE 0
    BY <1>7 DEF Got2, TrailerNeed
  <2>4. used_in - Got1 = 0
    BY <1>4, <1>6, <1>7
  <2>5. nin - used_in = e + L /\ StreamLen(strm) = e + T
    BY <1>6 DEF Place
  <2> HIDE DEF T, L, e
  <2>6. Got2 = avail_in
    BY <1>4, <1>6, <2>2, <2>3 DEF AtMost
  <2>7. nin + Got2 < StreamLen(strm) /\ avail_in - Got2 = 0
    BY <1>4, <1>6, <2>2, <2>4, <2>5, <2>6
  <2>8. ReturnInv'
    BY <1>1, <1>3, <2>1, <2>7 DEF ReturnInv
  <2>9. CacheRoom' /\ OpenInv'
    BY <1>1, <1>3, <1>7 DEF CacheRoom, OpenInv
  <2> QED BY <1>1, <1>2, <2>8, <2>9, TrailerPiecesAnswers DEF Body
<1>8. CASE ~(wrap # {} /\ Len(Trailer) < Trailers[strm.fmt])
  <2>1. \/ rc' = "STREAM_END"
        \/ rc' = "STREAM_ERROR" /\ wrap # {} /\ ~TrailerMatches(Trailer)
    BY <1>1, <1>3, <1>8 DEF Verdict
  <2>2. rc' = "STREAM_ERROR" => strm.bad = "trailer"
    <3> SUFFICES ASSUME rc' = "STREAM_ERROR" PROVE strm.bad = "trailer"
      OBVIOUS
    <3>1. Len(Trailer) = Trailers[strm.fmt]
      BY <1>4, <1>6, <1>8, <2>1
    <3> QED BY <1>2, <1>5, <2>1, <3>1, Compared DEF AnswersInv
  <2>3. ReturnInv' /\ CacheRoom' /\ OpenInv'
    BY <1>1, <2>1, <2>2 DEF ReturnInv, Excused, CacheRoom, OpenInv
  <2> QED BY <1>1, <1>2, <2>3, TrailerPiecesAnswers DEF Body
<1> QED BY <1>7, <1>8

LEMMA ReturnAnswers == ASSUME IInv, AnswersInv, InfReturn PROVE AnswersInv'
<1>1. /\ pc = "return" /\ pc' = "app" /\ rc' = Result(rc)
      /\ UNCHANGED <<strm, nin, avail_in>> /\ UNCHANGED hvars /\ UNCHANGED engineVars /\ used_out' = used_out
  BY DEF InfReturn, fifoVars
<1>2. UNCHANGED <<wrap, inf_state, inf_held, ckidx, cksum, hcrc16, dict_len>>
  BY <1>1 DEF hvars
<1>3. UNCHANGED <<resuming, is_final, item, crc, trailer>>
  BY <1>1 DEF engineVars
<1>4. TestedInv' /\ SumsInv' /\ NameInv'
  BY <1>1, <1>2, TestedKept, SumsKept DEF AnswersInv, NameInv
<1>5. CrcInv' /\ TrailerInv' /\ BodyInv'
  BY <1>1, <1>2, <1>3, PartsKept DEF AnswersInv
<1>6. rc' = "OK" => rc = "OK"
  BY <1>1 DEF Result
<1>7. StartInv' /\ CacheRoom' /\ ReturnInv'
  BY <1>1 DEF StartInv, CacheRoom, ReturnInv
<1>8. OpenInv'
  BY <1>1, <1>3, <1>6 DEF AnswersInv, OpenInv
<1> QED BY <1>4, <1>5, <1>7, <1>8 DEF AnswersInv

-----------------------------------------------------------------------------
\* The job is fed less than the items that are left.
LEMMA FedBefore ==
  ASSUME IInv, pc = "submit", ~Final
  PROVE  /\ Reached < Len(strm.bit)
         /\ BitAt(strm, Reached + 1) > FedBits
         /\ HeaderLen(strm) + End < BodyEnd(strm)
<1> DEFINE n == Len(strm.bit)
           x == BitAt(strm, n)
           u == UpDiv(x, Bits)
<1>1. strm \in Members /\ item \in 0..n /\ n \in Nat
  BY Streams DEF IInv
<1>2. FedBits = Bits * End /\ FedBits \in Nat /\ End \in Nat /\ BitAt(strm, item) <= FedBits
  BY FedIs
<1>3. \E j \in item..n : BitAt(strm, j) <= FedBits /\ (j < n => BitAt(strm, j + 1) > FedBits)
  <2>1. FedBits \in Int
    BY <1>2
  <2> QED BY <1>1, <1>2, <2>1, LastItem
<1>4. Reached \in item..Items /\ (Reached < Items => BitEnd(Reached + 1) > FedBits)
  <2>1. \E i \in item..Items : BitEnd(i) <= FedBits /\ (i < Items => BitEnd(i + 1) > FedBits)
    BY <1>3, ItemEnds DEF Items
  <2> QED BY <2>1 DEF Reached
<1>5. Reached < n /\ Reached \in 0..n
  BY <1>1, <1>4 DEF Final, Items
<1>6. BitAt(strm, Reached + 1) > FedBits
  BY <1>4, <1>5, ItemEnds DEF Items
<1>7. BitAt(strm, Reached + 1) <= x /\ x \in Nat /\ BitAt(strm, Reached + 1) \in Nat
  BY <1>1, <1>5, Later
<1>8. BodyEnd(strm) = HeaderLen(strm) + u /\ u \in Nat /\ x <= Bits * u
  BY <1>1, <1>7, Consts, FileNat, UpDivCovers
<1>9. HeaderLen(strm) \in Nat /\ Bits \in Nat
  BY Consts, Streams DEF IInv
<1> HIDE DEF n, x, u
<1>10. Bits * u \in Int /\ Bits * End \in Int /\ Bits * End < Bits * u
  BY <1>2, <1>6, <1>7, <1>8, <1>9, Times
<1>11. End < u
  <2> SUFFICES ASSUME u <= End PROVE FALSE
    BY <1>2, <1>8
  <2> QED BY <1>2, <1>8, <1>9, <1>10, Times
<1> QED BY <1>2, <1>5, <1>6, <1>8, <1>9, <1>11 DEF n

\* What is given again, whole, has room where it is cached.
LEMMA UnusedFits ==
  ASSUME HeadersFit, IInv, pc = "submit", ~Final
  PROVE  UpDiv(Unused, Bits) \in Nat /\ UpDiv(Unused, Bits) <= Threshold
<1> DEFINE r == Reached
           x == BitAt(strm, r)
           y == BitAt(strm, r + 1)
           n == Len(strm.bit)
<1>1. r < n /\ y > FedBits /\ strm \in Members /\ n \in Nat /\ r \in 0..n
  BY FedBefore, ReachedIs, Streams DEF IInv
<1>2. x \in Nat /\ y \in Nat
  BY <1>1, Later
<1>3. Unused \in Nat /\ Unused = FedBits - x /\ FedBits \in Nat
  BY UnusedIs, FedIs
<1>4. y - x <= Bits * Threshold
  <2>1. r + 1 \in 1..n /\ (r + 1) - 1 = r /\ r + 1 # 0
    BY <1>1
  <2>2. y = strm.bit[r + 1]
    BY <2>1 DEF BitAt
  <2>3. strm.bit[r + 1] - BitAt(strm, (r + 1) - 1) <= Bits * Threshold
    BY <1>1, <2>1 DEF HeadersFit
  <2> QED BY <2>1, <2>2, <2>3
<1> HIDE DEF x, y, r, n
<1>5. Bits * Threshold \in Nat /\ Bits \in Nat \ {0} /\ Threshold \in Nat
  BY Consts
<1>6. Unused <= Bits * Threshold
  BY <1>1, <1>2, <1>3, <1>4, <1>5
<1> QED BY <1>3, <1>5, <1>6, Consts, UpDivIs, UpDivLeast

\* The checksum is carried on.
LEMMA SumIs ==
  ASSUME IInv, CrcInv, pc = "submit", wrap # {}, Produced <= tgt
  PROVE  InCrc + Produced = OutAt(strm, Reached)
<1>1. inf_state = "inflate" /\ ~is_final
  BY Submitted
<1>2. crc = OutAt(strm, item) /\ (dict_len => ~resuming)
  BY <1>1 DEF CrcInv
<1>3. ~resuming => item = 0
  BY <1>1 DEF IInv, FeedInv
<1>4. OutAt(strm, 0) = 0
  BY DEF OutAt
<1>5. InCrc = OutAt(strm, item)
  <2>1. CASE ~Resumes \/ (dict_len /\ wrap = {"zlib"})
    <3>1. ~resuming
      BY <1>2, <2>1 DEF Resumes
    <3> QED BY <1>3, <1>4, <2>1, <3>1 DEF InCrc
  <2>2. CASE ~(~Resumes \/ (dict_len /\ wrap = {"zlib"}))
    BY <1>2, <2>2 DEF InCrc
  <2> QED BY <2>1, <2>2
<1>6. OutAt(strm, Reached) = total_out + Produced /\ OutAt(strm, item) = total_out
  BY ProducedIs
<1> QED BY <1>5, <1>6

LEMMA DoneAnswers == ASSUME HeadersFit, IInv, AnswersInv, JobDone PROVE AnswersInv'
<1> DEFINE up == UpDiv(Unused, Bits)
<1>1. /\ pc = "submit" /\ Produced <= tgt /\ TakeSource /\ ~Corrupt
      /\ total_out' = total_out + ToUser /\ avail_out' = avail_out - ToUser
      /\ crc' = InCrc + Produced /\ is_final' = Final /\ dict_len' = FALSE /\ item' = Reached
      /\ UNCHANGED <<strm, wrap, inf_state, in0, out0, trailer>>
  BY DEF JobDone, Give
<1>2. \/ pc' \in {"verify", "copy trailer", "loop"}
      \/ /\ ~Final /\ ~(avail_out' > 0 /\ used_in' + avail_in' > up)
         /\ \/ avail_out' > 0 /\ avail_in' > 0 /\ pc' = "cache"
            \/ ~(avail_out' > 0 /\ avail_in' > 0) /\ pc' = "return" /\ rc' = "OK"
  BY DEF JobDone, Returns
<1>3. nin' = TakenNin /\ avail_in' = TakenAvail /\ used_in' = TakenUsed
  BY <1>1, TakeSourceIs
<1>4. /\ TakenNin \in Nat /\ TakenAvail \in Nat /\ TakenUsed \in Nat
      /\ TakenNin - TakenUsed = Place + Consumed /\ TakenNin >= nin
  BY <1>1, TakenIs
<1>5. ToUser \in Nat /\ ToUser <= avail_out /\ avail_out \in Nat /\ total_out \in Nat
  BY <1>1, ProducedIs, Numbers
<1>6. Reached \in 0..Len(strm.bit) /\ Len(strm.bit) \in Nat /\ strm \in Members
  BY <1>1, ReachedIs, Streams DEF IInv
<1>7. inf_state = "inflate" /\ pc # "app"
  BY <1>1, InBody DEF Body
<1>8. pc' # "header" /\ pc' # "inflate_" /\ pc' # "app"
  BY <1>2
<1>9. TestedInv' /\ SumsInv' /\ NameInv'
  BY <1>1, <1>7, <1>8, HeaderDone DEF AnswersInv
<1>10. CrcInv'
  <2>1. wrap # {} => InCrc + Produced = OutAt(strm, Reached)
    BY <1>1, SumIs DEF AnswersInv
  <2> QED BY <1>1, <2>1 DEF CrcInv
<1>11. TrailerInv' /\ BodyInv'
  <2>1. TrailerInv'
    BY <1>1 DEF AnswersInv, TrailerInv
  <2>2. ~Final => Reached < Len(strm.bit)
    BY <1>1, FedBefore
  <2>3. Reached = Len(strm.bit) => strm.bad # "body"
    BY <1>1 DEF Corrupt, Items
  <2> QED BY <1>1, <2>1, <2>2, <2>3 DEF BodyInv
<1>12. StartInv'
  <2>1. in0 <= nin /\ out0 <= total_out /\ in0 \in Nat /\ out0 \in Nat /\ nin \in Nat
    BY <1>7, Numbers DEF AnswersInv, StartInv, IInv, Types, CallTypes
  <2>2. in0 <= TakenNin /\ out0 <= total_out + ToUser
    BY <1>4, <1>5, <2>1
  <2> QED BY <1>1, <1>3, <1>8, <2>2 DEF StartInv
<1>13. OpenInv'
  BY <1>1, <1>2 DEF OpenInv
<1>14. ~Final => up \in Nat /\ up <= Threshold /\ HeaderLen(strm) + End < BodyEnd(strm) /\ Consumed = src - up
  BY <1>1, UnusedFits, FedBefore DEF Consumed
<1>15. /\ Threshold \in Nat /\ src \in Nat /\ nin \in Nat /\ used_in \in Nat /\ HeaderLen(strm) \in Nat
       /\ BodyEnd(strm) \in Nat /\ StreamLen(strm) \in Nat /\ BodyEnd(strm) <= StreamLen(strm)
  BY <1>6, Consts, Numbers, BodyLen
<1> HIDE DEF up
<1>16. ~Final /\ avail_out - ToUser > 0 /\ ~(avail_out - ToUser > 0 /\ TakenUsed + TakenAvail > up) =>
         TakenUsed + TakenAvail <= Threshold /\ TakenUsed <= up
  BY <1>4, <1>14, <1>15
<1>17. CacheRoom'
  <2> SUFFICES ASSUME pc' = "cache" PROVE CacheRoom'
    BY DEF CacheRoom
  <2>1. ~Final /\ avail_out - ToUser > 0 /\ TakenAvail > 0 /\ TakenUsed + TakenAvail <= Threshold
    BY <1>1, <1>2, <1>3, <1>16
  <2>2. TakenUsed < Threshold
    BY <1>4, <1>15, <2>1
  <2> QED BY <1>3, <2>1, <2>2 DEF CacheRoom
<1>18. ReturnInv'
  <2> SUFFICES ASSUME pc' = "return"
               PROVE  /\ rc' = "OK"
                      /\ \/ avail_out' = 0 /\ ~is_final'
                         \/ avail_in' = 0 /\ nin' < StreamLen(strm')
    BY DEF ReturnInv, AllDelivered
  <2>1. rc' = "OK" /\ ~Final /\ ~(avail_out - ToUser > 0 /\ TakenAvail > 0)
        /\ ~(avail_out - ToUser > 0 /\ TakenUsed + TakenAvail > up)
    BY <1>1, <1>2, <1>3
  <2>2. CASE avail_out - ToUser = 0
    BY <1>1, <2>1, <2>2
  <2>3. CASE avail_out - ToUser # 0
    <3>1. avail_out - ToUser > 0 /\ TakenAvail = 0 /\ TakenUsed <= up
      BY <1>4, <1>5, <1>16, <2>1, <2>3
    <3>2. TakenNin <= Place + src
      BY <1>4, <1>14, <1>15, <2>1, <3>1 DEF Place
    <3>3. HeaderLen(strm) + End = Place + src
      BY <1>15 DEF End, Place
    <3>4. TakenNin < StreamLen(strm)
      BY <1>4, <1>14, <1>15, <2>1, <3>2, <3>3 DEF Place
    <3> QED BY <1>1, <1>3, <2>1, <3>1, <3>4
  <2> QED BY <2>2, <2>3
<1> QED BY <1>9, <1>10, <1>11, <1>12, <1>13, <1>17, <1>18 DEF AnswersInv

-----------------------------------------------------------------------------
LEMMA InitAnswers == ASSUME CarefulHcrc, Init PROVE AnswersInv
<1>1. /\ strm \in Members /\ pc = "app" /\ inf_state = "header" /\ nin = 0 /\ cksum = 0 /\ ckidx = 0
      /\ hcrc16 = 0 /\ crc = 0 /\ item = 0 /\ trailer = <<>> /\ is_final = FALSE /\ rc = "OK"
      /\ (CarefulHcrc /\ "hcrc" \in strm.flags => wrap # {"zlib", "gzip"})
  BY DEF Init
<1>2. Len(strm.bit) \in Nat \ {0} /\ OutAt(strm, 0) = 0 /\ Len(<<>>) = 0
  BY <1>1, MemberFacts, ItemFacts, EmptySeq
<1>3. TestedInv /\ SumsInv /\ NameInv
  BY <1>1 DEF TestedInv, SumsInv, NameInv
<1>4. CrcInv /\ TrailerInv /\ BodyInv
  BY <1>1, <1>2 DEF CrcInv, TrailerInv, BodyInv
<1>5. StartInv /\ CacheRoom /\ ReturnInv /\ OpenInv
  BY <1>1 DEF StartInv, CacheRoom, ReturnInv, OpenInv
<1> QED BY <1>3, <1>4, <1>5 DEF AnswersInv

\* A step of the application that keeps what was decoded.
LEMMA OutsideStep ==
  ASSUME IInv, AnswersInv, TestedInv', SumsInv', NameInv', CrcInv',
         UNCHANGED <<strm, is_final, item, trailer>>, pc' = "app", OpenInv'
  PROVE  AnswersInv'
<1>1. TrailerInv' /\ BodyInv'
  BY DEF AnswersInv, TrailerInv, BodyInv
<1>2. StartInv' /\ CacheRoom' /\ ReturnInv'
  BY DEF StartInv, CacheRoom, ReturnInv
<1> QED BY <1>1, <1>2 DEF AnswersInv

LEMMA CallAnswers ==
  ASSUME CarefulHcrc, IInv, AnswersInv, NEW n \in Nat, NEW r, NEW fl, Call(n, r, fl)
  PROVE  AnswersInv'
<1>1. /\ pc = "app" /\ pc' = "header" /\ avail_in' = avail_in + n /\ in0' = nin /\ out0' = total_out
      /\ (CarefulHcrc /\ "hcrc" \in strm.flags /\ wrap = {"gzip"} =>
            nin + avail_in + n # HeaderLen(strm) - 1)
      /\ UNCHANGED <<strm, rc, nin, total_out, used_out>> /\ UNCHANGED hvars /\ UNCHANGED engineVars
  BY DEF Call
<1>2. UNCHANGED <<wrap, inf_state, inf_held, ckidx, cksum, hcrc16, dict_len>>
  BY <1>1 DEF hvars
<1>3. UNCHANGED <<resuming, is_final, item, crc, trailer>>
  BY <1>1 DEF engineVars
<1>4. TestedInv' /\ NameInv'
  BY <1>1, <1>2, TestedKept DEF AnswersInv, NameInv
<1>5. SumsInv'
  <2>1. nin' + avail_in' = nin + avail_in + n
    BY <1>1, HeaderFacts
  <2>2. SumsInv
    BY DEF AnswersInv
  <2> QED BY <1>1, <1>2, <2>1, <2>2 DEF SumsInv
<1>6. CrcInv' /\ TrailerInv' /\ BodyInv'
  BY <1>1, <1>2, <1>3, PartsKept DEF AnswersInv
<1>7. StartInv' /\ CacheRoom' /\ ReturnInv'
  BY <1>1, Numbers DEF StartInv, CacheRoom, ReturnInv
<1>8. OpenInv'
  BY <1>1, <1>3 DEF AnswersInv, OpenInv
<1> QED BY <1>4, <1>5, <1>6, <1>7, <1>8 DEF AnswersInv

LEMMA CallNoMemoryAnswers == ASSUME IInv, AnswersInv, CallNoMemory PROVE AnswersInv'
<1>1. /\ pc = "app" /\ pc' = pc /\ rc' = "MEM_ERROR"
      /\ UNCHANGED <<strm, nin, avail_in>> /\ UNCHANGED hvars /\ UNCHANGED bodyVars
  BY DEF CallNoMemory
<1>2. UNCHANGED <<wrap, inf_state, inf_held, ckidx, cksum, hcrc16, dict_len>>
  BY <1>1 DEF hvars
<1>3. UNCHANGED <<resuming, is_final, item, crc, trailer>>
  BY <1>1, BodyLeaves
<1>4. TestedInv' /\ SumsInv' /\ NameInv'
  BY <1>1, <1>2, TestedKept, SumsKept DEF AnswersInv, NameInv
<1>5. CrcInv'
  BY <1>1, <1>2, <1>3, PartsKept DEF AnswersInv
<1> QED BY <1>1, <1>3, <1>4, <1>5, OutsideStep DEF OpenInv

LEMMA ResetAnswers ==
  ASSUME CarefulHcrc, IInv, AnswersInv, NEW m \in Members, NEW w, Reset(m, w)
  PROVE  AnswersInv'
<1>1. /\ wrap' = w /\ strm' = m /\ pc' = "app" /\ rc' = "OK" /\ nin' = 0 /\ avail_in' = 0
      /\ inf_state' = "header" /\ ckidx' = 0 /\ cksum' = 0 /\ hcrc16' = hcrc16
      /\ (CarefulHcrc /\ "hcrc" \in m.flags => hcrc16 = 0 /\ w # {"zlib", "gzip"})
      /\ resuming' = FALSE /\ is_final' = FALSE /\ crc' = 0 /\ trailer' = <<>> /\ item' = 0
  BY DEF Reset
<1>2. Len(m.bit) \in Nat \ {0} /\ OutAt(m, 0) = 0 /\ Len(<<>>) = 0
  BY MemberFacts, ItemFacts, EmptySeq
<1>3. TestedInv' /\ SumsInv' /\ NameInv'
  BY <1>1 DEF TestedInv, SumsInv, NameInv
<1>4. CrcInv' /\ TrailerInv' /\ BodyInv'
  BY <1>1, <1>2 DEF CrcInv, TrailerInv, BodyInv
<1>5. StartInv' /\ CacheRoom' /\ ReturnInv' /\ OpenInv'
  BY <1>1 DEF StartInv, CacheRoom, ReturnInv, OpenInv
<1> QED BY <1>3, <1>4, <1>5 DEF AnswersInv

LEMMA SetDictionaryAnswers ==
  ASSUME IInv, AnswersInv, NEW right, SetDictionary(right), UNCHANGED bodyVars
  PROVE  AnswersInv'
<1>1. /\ pc = "app" /\ pc' = pc
      /\ rc = "NEED_DICT" \/ (rc = "OK" /\ nin = 0)
      /\ dict_len' = (dict_len \/ TakesDictionary(right))
      /\ rc' \in {rc, "OK"}
      /\ UNCHANGED <<strm, nin, avail_in, wrap, inf_state, inf_held, ckidx, cksum, hcrc16>>
  BY DEF SetDictionary
<1>2. UNCHANGED <<resuming, is_final, item, crc, trailer, used_out>>
  BY BodyParts, DataParts
<1>3. TestedInv' /\ SumsInv' /\ NameInv'
  BY <1>1, TestedKept, SumsKept DEF AnswersInv, NameInv
<1>4. CrcInv'
  BY <1>1, <1>2 DEF AnswersInv, CrcInv, TakesDictionary
<1>5. OpenInv'
  <2>1. rc = "NEED_DICT" => ~is_final
    BY <1>1 DEF IInv, FreshInv
  <2> QED BY <1>1, <1>2, <2>1 DEF AnswersInv, OpenInv
<1> QED BY <1>1, <1>2, <1>3, <1>4, <1>5, OutsideStep

LEMMA GetHeaderAnswers == ASSUME IInv, AnswersInv, GetHeader, UNCHANGED bodyVars PROVE AnswersInv'
<1>1. /\ pc = "app" /\ pc' = pc
      /\ UNCHANGED <<strm, rc, nin, avail_in, wrap, inf_state, inf_held, ckidx, cksum, hcrc16, dict_len>>
  BY DEF GetHeader
<1>2. UNCHANGED <<resuming, is_final, item, crc, trailer, used_out>>
  BY BodyParts, DataParts
<1>3. TestedInv' /\ SumsInv' /\ NameInv'
  BY <1>1, TestedKept, SumsKept DEF AnswersInv, NameInv
<1>4. CrcInv'
  BY <1>1, <1>2, PartsKept DEF AnswersInv
<1>5. OpenInv'
  BY <1>1, <1>2 DEF AnswersInv, OpenInv
<1> QED BY <1>1, <1>2, <1>3, <1>4, <1>5, OutsideStep

LEMMA StutterAnswers == ASSUME AnswersInv, UNCHANGED vars PROVE AnswersInv'
<1>1. /\ UNCHANGED <<strm, pc, rc, nin, avail_in, fault>> /\ UNCHANGED hvars /\ UNCHANGED bodyVars
  BY DEF vars
<1>2. UNCHANGED <<wrap, inf_state, inf_held, ckidx, cksum, hcrc16, dict_len>>
  BY <1>1 DEF hvars
<1>3. /\ UNCHANGED <<total_out, resuming, is_final, item, crc, trailer>>
      /\ UNCHANGED <<in0, out0, avail_out, used_in, used_out, failed>>
  BY <1>1, BodyLeaves
<1>4. TestedInv' /\ SumsInv' /\ NameInv'
  BY <1>1, <1>2, TestedKept, SumsKept DEF AnswersInv, NameInv
<1>5. CrcInv' /\ TrailerInv' /\ BodyInv'
  BY <1>1, <1>2, <1>3, PartsKept DEF AnswersInv
<1>6. StartInv' /\ CacheRoom' /\ OpenInv'
  BY <1>1, <1>3 DEF AnswersInv, StartInv, CacheRoom, OpenInv
<1>7. ReturnInv'
  BY <1>1, <1>2, <1>3 DEF AnswersInv, ReturnInv, Excused, Mismatch, AllDelivered
<1> QED BY <1>4, <1>5, <1>6, <1>7 DEF AnswersInv

LEMMA ApplicationAnswers == ASSUME CarefulHcrc, IInv, AnswersInv, Application PROVE AnswersInv'
<1>1. CASE AppCall
  <2>1. PICK n \in {c \in Chunks : c <= Left} \cup {Left}, r \in Rooms, fl \in Flushes : Call(n, r, fl)
    BY <1>1 DEF AppCall
  <2>2. Left \in Nat
    <3> DEFINE l == FileLen(strm)
    <3>1. l \in Nat /\ nin \in Nat /\ avail_in \in Nat
      BY Numbers, HeaderFacts, FileNat
    <3>2. nin + avail_in <= l
      BY DEF IInv, Types, HeaderTypes
    <3> HIDE DEF l
    <3>3. l - nin - avail_in \in Nat
      BY <3>1, <3>2
    <3> QED BY <3>3 DEF Left, l
  <2>3. n \in Nat
    BY <2>1, <2>2, Consts
  <2> QED BY <2>1, <2>3, CallAnswers
<1>2. CASE AppReset
  <2>1. PICK m \in Again, w \in Wraps \cup {wrap} : Reset(m, w)
    BY <1>2 DEF AppReset
  <2>2. m \in Members
    BY <2>1, InflateAssumption, Zenon
  <2> QED BY <2>1, <2>2, ResetAnswers
<1>3. CASE AppSetDictionary
  BY <1>3, SetDictionaryAnswers DEF AppSetDictionary
<1>4. CASE AppGetHeader
  BY <1>4, GetHeaderAnswers DEF AppGetHeader
<1> QED BY <1>1, <1>2, <1>3, <1>4, CallNoMemoryAnswers DEF Application

LEMMA InsideAnswers ==
  ASSUME HeadersFit, IInv, AnswersInv, Library \/ Accelerator
  PROVE  AnswersInv'
  BY HeaderAnswers, ReturnAnswers, BeginAnswers, LoopsAnswers, DrainAnswers, NothingAnswers,
     IdleAnswers, GoCacheAnswers, CacheAnswers, NoMemoryAnswers, FeedAnswers, CopyTrailerAnswers,
     VerifyAnswers, ErrorAnswers, AgainAnswers, TooLongAnswers, DoneAnswers DEF Library, Accelerator

LEMMA NextAnswers ==
  ASSUME CarefulHcrc, HeadersFit, IInv, AnswersInv, [Next]_vars
  PROVE  AnswersInv'
  BY StutterAnswers, ApplicationAnswers, InsideAnswers DEF Next

LEMMA AnswersRight == ASSUME IInv, AnswersInv PROVE NoFalseError
<1> USE DEF Answers
<1>1. ASSUME pc = "return", Result(rc) \in {"DATA_ERROR", "STREAM_ERROR"}
      PROVE  \/ strm.bad # "none" \/ failed
             \/ Cardinality(wrap) = 1 /\ wrap # {strm.fmt}
             \/ fault = "garbled" /\ strm.refs > 0
             \/ fault = "loops"
  <2>1. rc \in {"DATA_ERROR", "STREAM_ERROR"}
    BY <1>1 DEF Result
  <2>2. Excused
    BY <1>1, <2>1 DEF AnswersInv, ReturnInv
  <2>3. ASSUME Mismatch PROVE Cardinality(wrap) = 1 /\ wrap # {strm.fmt}
    <3>1. wrap = {"zlib"} \/ wrap = {"gzip"}
      BY <2>3, HeaderFacts DEF Mismatch
    <3>2. Cardinality({"zlib"}) = 1 /\ Cardinality({"gzip"}) = 1
      BY FS_Singleton
    <3> QED BY <2>3, <3>1, <3>2 DEF Mismatch
  <2> QED BY <2>2, <2>3 DEF Excused
<1>2. ASSUME pc = "return", Result(rc) = "BUF_ERROR", flush # "finish"
      PROVE  avail_in = 0 \/ avail_out = 0
  <2>1. rc = "BUF_ERROR" \/ (rc = "OK" /\ nin = in0)
    BY <1>2 DEF Result
  <2>2. nin \in Nat /\ in0 \in Nat
    BY Numbers DEF IInv, Types, CallTypes
  <2> QED BY <1>2, <2>1, <2>2 DEF AnswersInv, ReturnInv
<1> QED BY <1>1, <1>2 DEF NoFalseError

\* What a user does to the stream: it calls, or lets it be.
LEMMA UserCalls ==
  ASSUME UsersInv, UserStep
  PROVE  \/ UNCHANGED vars
         \/ \E n, r \in Nat : \E fl \in {"no", "sync", "finish"} : Call(n, r, fl)
         \/ CallNoMemory
<1>2. nin \in Nat /\ avail_in \in Nat
  BY Numbers DEF UsersInv
<1>3. CASE UncompressCall
  <2> DEFINE more == IF room = 0 THEN AtMost(left, MaxPiece) ELSE 0
             input == IF avail_in = 0 THEN AtMost(Remaining, MaxPiece) ELSE 0
  <2>1. Call(input, room + more, "no") \/ CallNoMemory
    BY <1>3 DEF UncompressCall, Inflates
  <2>2. room + more \in Nat
    BY UsersConsts DEF AtMost, UsersInv, UserInv
  <2>3. input \in Nat
    <3>1. size - nin - avail_in \in Nat
      BY <1>2, <1>3 DEF UncompressCall, UsersInv, UserInv
    <3> QED BY <3>1, UsersConsts DEF AtMost, Remaining
  <2> HIDE DEF more, input
  <2> QED BY <2>1, <2>2, <2>3
<1>4. ASSUME NEW n \in 0..FewBytes, GzreadCall(n)
      PROVE  (\E k, r \in Nat : \E fl \in {"no", "sync", "finish"} : Call(k, r, fl)) \/ CallNoMemory
  <2>1. Call(n, room, "no") \/ CallNoMemory
    BY <1>4 DEF GzreadCall, Inflates
  <2>2. n \in Nat /\ room \in Nat
    BY UsersConsts DEF UsersInv, UserInv
  <2> QED BY <2>1, <2>2
<1>5. CASE GzreadLast
  <2>1. Call(0, room, "finish") \/ CallNoMemory
    BY <1>5 DEF GzreadLast, Inflates
  <2>2. 0 \in Nat /\ room \in Nat
    BY DEF UsersInv, UserInv
  <2> QED BY <2>1, <2>2
<1>6. ASSUME NEW n, Uncompress(n) \/ Gzread(n) PROVE UNCHANGED vars
  BY <1>6 DEF Uncompress, Gzread
<1>7. CASE UncompressReturned \/ GzreadReturned \/ GzreadAgain
  BY <1>7 DEF UncompressReturned, GzreadReturned, GzreadAgain
<1> QED BY <1>3, <1>4, <1>5, <1>6, <1>7 DEF UserStep

LEMMA UsersAnswers ==
  ASSUME CarefulHcrc, HeadersFit, UsersInv, AnswersInv, [UsersNext]_usersVars
  PROVE  AnswersInv'
<1>1. IInv
  BY DEF UsersInv
<1>2. CASE UNCHANGED usersVars
  BY <1>2, StutterAnswers DEF usersVars
<1>3. CASE Inside
  BY <1>1, <1>3, InsideAnswers DEF Inside
<1>4. CASE AppStep
  BY <1>1, <1>4, ApplicationAnswers DEF AppStep, ByApp
<1>5. CASE UserStep
  <2>1. CASE UNCHANGED vars
    BY <2>1, StutterAnswers
  <2>2. CASE CallNoMemory
    BY <1>1, <2>2, CallNoMemoryAnswers
  <2>3. ASSUME NEW n \in Nat, NEW r \in Nat, NEW fl \in {"no", "sync", "finish"}, Call(n, r, fl)
        PROVE  AnswersInv'
    BY <1>1, <2>3, CallAnswers
  <2> QED BY <1>5, <2>1, <2>2, <2>3, UserCalls
<1> QED BY <1>2, <1>3, <1>4, <1>5 DEF UsersNext

-----------------------------------------------------------------------------
\* The format that was detected is that of the stream, as long as no application
\* resets the stream or sets a dictionary.
Detected ==
  /\ wrap = {"zlib", "gzip"} \/ wrap = {strm.fmt}
  /\ ~dict_len
  /\ item > 0 => strm.refs = 0
  /\ strm.fdict => inf_state # "inflate"

LEMMA DetectedKept ==
  ASSUME Detected, UNCHANGED <<strm, wrap, item, inf_state, dict_len>>
  PROVE  Detected'
  BY DEF Detected

LEMMA HeaderDetected == ASSUME IInv, Detected, Header PROVE Detected'
<1>1. HeaderStep /\ UNCHANGED bodyVars
  BY DEF Header
<1>2. item' = item
  BY <1>1, BodyParts, DataParts
<1>3. strm \in Members
  BY HeaderFacts
<1>4. CASE NeedInput \/ DataError \/ GoInflate
  BY <1>2, <1>4, DetectedKept DEF NeedInput, DataError, GoInflate, hvars
<1>5. CASE Detect
  <2>1. nin = 0
    BY <1>5 DEF Detect, In, IInv, HeaderInv
  <2>2. /\ Is("id1") => strm.fmt = "gzip"
        /\ Is("cmf") => strm.fmt = "zlib"
    BY <2>1, FirstByte DEF IInv
  <2>3. /\ wrap' = {"zlib", "gzip"} \/ wrap' = {strm.fmt}
        /\ strm' = strm /\ dict_len' = dict_len /\ inf_state' # "inflate"
    <3>1. /\ wrap = {"zlib", "gzip"} /\ strm' = strm /\ dict_len' = dict_len
          /\ \/ Is("id1") /\ inf_state' = "gzip_id2" /\ wrap' = {"gzip"}
             \/ Is("cmf") /\ inf_state' = "zlib_flg" /\ wrap' = {"zlib"}
             \/ inf_state' = "data_error" /\ wrap' = wrap
      BY <1>5 DEF Detect, In, Goto
    <3> QED BY <2>2, <3>1
  <2> QED BY <1>2, <2>3 DEF Detected
<1>6. CASE Dispatch
  <2>1. /\ strm' = strm /\ wrap' = wrap /\ dict_len' = dict_len /\ wrap # {"zlib", "gzip"}
        /\ wrap = {"zlib"} => inf_state' = "zlib_id1"
        /\ wrap = {"gzip"} => inf_state' = "gzip_id1"
    BY <1>6 DEF Dispatch, Goto
  <2>2. wrap = {strm.fmt} /\ wrap \subseteq {"zlib", "gzip"}
    BY <2>1, HeaderFacts DEF Detected
  <2>3. inf_state' # "inflate"
    BY <2>1, <2>2
  <2> QED BY <1>2, <2>1, <2>3 DEF Detected
<1>7. CASE TestByte \/ GzipFlg \/ GzipMtime \/ GzipXflOs \/ GzipXlen \/ GzipExtra \/ GzipName
  <2>1. UNCHANGED <<strm, wrap, dict_len>>
    BY <1>7 DEF TestByte, GzipFlg, GzipMtime, GzipXflOs, GzipXlen, GzipExtra, GzipName
  <2>2. inf_state' # "inflate"
    <3>1. ASSUME TestByte PROVE inf_state' # "inflate"
      BY <3>1 DEF TestByte, Tests, Goto
    <3>2. ASSUME GzipFlg PROVE inf_state' # "inflate"
      BY <3>2 DEF GzipFlg, Goto
    <3>3. ASSUME GzipMtime \/ GzipXflOs PROVE inf_state' # "inflate"
      BY <3>3 DEF GzipMtime, GzipXflOs, In, Skip, Goto
    <3>4. ASSUME GzipXlen PROVE inf_state' # "inflate"
      BY <3>4 DEF GzipXlen, In, Skip, Goto
    <3>5. ASSUME GzipExtra \/ GzipName PROVE inf_state' # "inflate"
      BY <3>5 DEF GzipExtra, GzipName, In, Goto
    <3> QED BY <1>7, <3>1, <3>2, <3>3, <3>4, <3>5
  <2> QED BY <1>2, <2>1, <2>2 DEF Detected
<1>8. CASE GzipHcrc \/ GzipNoHcrc
  <2>1. inf_state = "gzip_hcrc" /\ UNCHANGED <<strm, wrap, dict_len>>
    BY <1>8 DEF GzipHcrc, GzipNoHcrc, In
  <2>2. ~strm.fdict
    <3>1. strm.fmt = "gzip"
      BY <2>1 DEF IInv, HeaderInv
    <3>2. strm.fdict => strm.fmt = "zlib"
      BY <1>3, HeaderAssumption
    <3> QED BY <3>1, <3>2
  <2> QED BY <1>2, <2>1, <2>2 DEF Detected
<1>9. CASE ZlibFlg
  BY <1>2, <1>9 DEF ZlibFlg, Goto, Detected
<1>10. CASE ZlibDictId
  BY <1>2, <1>10 DEF ZlibDictId, In, Skip, Goto, Detected
<1>11. CASE ZlibDict
  BY <1>2, <1>11 DEF ZlibDict, In, Goto, Detected
<1> QED BY <1>1, <1>4, <1>5, <1>6, <1>7, <1>8, <1>9, <1>10, <1>11 DEF HeaderStep

\* A stream that refers to a dictionary it does not have is decoded no further.
LEMMA InsideDetected ==
  ASSUME IInv, Detected, Library \/ Accelerator
  PROVE  Detected'
<1>1. CASE Header
  BY <1>1, HeaderDetected
<1>2. CASE \/ InfReturn \/ Begin \/ TooManyLoops \/ NothingToDrain \/ ReturnIdle \/ GoCache
           \/ CacheNoMemory \/ Feed \/ JobFault \/ JobFaultsTooLong \/ JobSpace
           \/ \E why \in {"garbled", "corrupt", "lost"} : JobError(why)
  <2>1. UNCHANGED <<strm, hvars, item>>
    BY <1>2, DataParts, BodyParts
       DEF InfReturn, Begin, TooManyLoops, NothingToDrain, ReturnIdle, GoCache, CacheNoMemory,
           Feed, JobFault, JobFaultsTooLong, JobSpace, JobError, engineVars, bodyVars
  <2> QED BY <2>1, DetectedKept DEF hvars
<1>3. CASE Drain \/ Cache \/ CopyTrailerOnly \/ Verify
  <2>1. UNCHANGED <<strm, hvars, item>>
    BY <1>3 DEF Drain, Cache, CopyTrailerOnly, Verify, engineVars
  <2> QED BY <2>1, DetectedKept DEF hvars
<1>4. CASE JobDone
  <2>1. /\ UNCHANGED <<strm, wrap, inf_state>> /\ dict_len' = FALSE
        /\ OutEnd(item) < strm.refs => dict_len
    BY <1>4 DEF JobDone, Right, HistoryIsRight
  <2>2. ASSUME item = 0 PROVE strm.refs = 0
    <3>1. OutEnd(item) = 0
      BY <2>2 DEF OutEnd
    <3>2. strm.refs \in Nat
      BY HeaderFacts, HeaderAssumption DEF Member
    <3> QED BY <2>1, <3>1, <3>2 DEF Detected
  <2>3. item \in Nat
    BY Numbers DEF IInv, Types, EngineTypes
  <2>4. strm.refs = 0
    BY <2>2, <2>3 DEF Detected
  <2> QED BY <2>1, <2>4 DEF Detected
<1> QED BY <1>1, <1>2, <1>3, <1>4 DEF Library, Accelerator

-----------------------------------------------------------------------------
\* What a call keeps until it returns: the room it was given is used up or left,
\* and the code is set where it returns, or where it asks for a dictionary.
CallKeeps ==
  /\ UNCHANGED <<strm, in0, out0, flush>>
  /\ total_out' + avail_out' = total_out + avail_out
  /\ \/ pc' \notin {"return", "app"} /\ rc' = rc
     \/ pc' = "return"
     \/ pc' = "app" /\ rc' = "NEED_DICT"

LEMMA OutputKept ==
  ASSUME UNCHANGED <<strm, in0, out0, flush, total_out, avail_out>>,
         (pc' \notin {"return", "app"} /\ rc' = rc) \/ pc' = "return"
         \/ (pc' = "app" /\ rc' = "NEED_DICT")
  PROVE  CallKeeps
  BY DEF CallKeeps

LEMMA InsideKeeps ==
  ASSUME IInv, AnswersInv, Library \/ Accelerator, pc # "return"
  PROVE  CallKeeps
<1>1. CASE Header
  <2>1. UNCHANGED <<in0, out0, flush, total_out, avail_out>>
    BY <1>1, BodyParts, DataParts DEF Header
  <2>2. /\ strm' = strm
        /\ \/ pc' \in {"header", "dead"} /\ rc' = rc
           \/ pc' = "inflate_" /\ rc' = rc
           \/ pc' = "return"
           \/ pc' = "app" /\ rc' = "NEED_DICT"
    BY <1>1, HeaderEnds DEF Header, AnswersInv
  <2> QED BY <2>1, <2>2, OutputKept
<1>2. CASE Begin \/ TooManyLoops \/ ReturnIdle \/ GoCache \/ CacheNoMemory
  <2>1. UNCHANGED bodyVars /\ strm' = strm
    BY <1>2 DEF Begin, TooManyLoops, ReturnIdle, GoCache, CacheNoMemory
  <2>2. UNCHANGED <<in0, out0, flush, total_out, avail_out>>
    BY <2>1, BodyParts, DataParts
  <2>3. (pc' \notin {"return", "app"} /\ rc' = rc) \/ pc' = "return"
    BY <1>2 DEF Begin, TooManyLoops, ReturnIdle, GoCache, CacheNoMemory, Returns
  <2> QED BY <2>1, <2>2, <2>3, OutputKept
<1>3. CASE NothingToDrain \/ Feed \/ Cache \/ JobFault \/ JobFaultsTooLong \/ JobSpace
           \/ CopyTrailerOnly \/ Verify \/ \E why \in {"garbled", "corrupt", "lost"} : JobError(why)
  <2>1. UNCHANGED <<strm, in0, out0, flush, total_out, avail_out>>
    BY <1>3 DEF NothingToDrain, Feed, Cache, JobFault, JobFaultsTooLong, JobSpace, CopyTrailerOnly,
                Verify, JobError, callVars
  <2>2. (pc' \notin {"return", "app"} /\ rc' = rc) \/ pc' = "return"
    BY <1>3 DEF NothingToDrain, Feed, Cache, JobFault, JobFaultsTooLong, JobSpace, CopyTrailerOnly,
                Verify, JobError, Returns, InitDde
  <2> QED BY <2>1, <2>2, OutputKept
<1>4. CASE Drain
  <2> DEFINE w == AtMost(used_out, avail_out)
  <2>1. /\ UNCHANGED <<strm, in0, out0, flush>>
        /\ total_out' = total_out + w /\ avail_out' = avail_out - w
        /\ (pc' \notin {"return", "app"} /\ rc' = rc) \/ pc' = "return"
    BY <1>4 DEF Drain, Give, Returns
  <2>2. w \in Nat /\ avail_out \in Nat /\ total_out \in Nat
    BY Numbers DEF AtMost
  <2> HIDE DEF w
  <2>3. (total_out + w) + (avail_out - w) = total_out + avail_out
    BY <2>2
  <2> QED BY <2>1, <2>3 DEF CallKeeps
<1>5. CASE JobDone
  <2>1. /\ UNCHANGED <<strm, in0, out0, flush>>
        /\ total_out' = total_out + ToUser /\ avail_out' = avail_out - ToUser
        /\ (pc' \notin {"return", "app"} /\ rc' = rc) \/ pc' = "return"
    BY <1>5 DEF JobDone, Give, Returns
  <2> DEFINE w == ToUser
  <2>2. w \in Nat /\ avail_out \in Nat /\ total_out \in Nat
    BY <1>5, Numbers, ProducedIs DEF JobDone
  <2> HIDE DEF w
  <2>3. (total_out + w) + (avail_out - w) = total_out + avail_out
    BY <2>2
  <2> QED BY <2>1, <2>3 DEF CallKeeps, w
<1>6. CASE InfReturn
  BY <1>6 DEF InfReturn
<1> QED BY <1>1, <1>2, <1>3, <1>4, <1>5, <1>6 DEF Library, Accelerator

\* The end that Z_STREAM_END stands for, and what else it may mean.
AtEnd ==
  /\ is_final /\ used_out = 0
  /\ Len(trailer) = Trailers[strm.fmt]
  /\ strm.bad # "trailer" \/ wrap = {}
NothingLeft == avail_in = 0 /\ used_in = 0 /\ avail_out = 0 /\ used_out = 0

LEMMA EndsHow ==
  ASSUME IInv, AnswersInv, Library \/ Accelerator, pc # "return", pc' = "return", rc' = "STREAM_END"
  PROVE  \/ AtEnd'
         \/ /\ pc = "inflate_" /\ NothingLeft'
            /\ UNCHANGED <<nin, total_out>>
            /\ rc = "OK" => nin < StreamLen(strm)
<1>1. CASE Header
  BY <1>1, HeaderEnds DEF Header, AnswersInv, GoInflate
<1>2. CASE Begin
  <2>1. /\ pc = "inflate_" /\ NothingLeft /\ UNCHANGED <<strm, nin, avail_in>> /\ UNCHANGED bodyVars
    BY <1>2 DEF Begin, Returns, NothingLeft
  <2>2. NothingLeft' /\ UNCHANGED <<nin, total_out>>
    BY <2>1, BodyParts, DataParts DEF NothingLeft
  <2>3. ASSUME rc = "OK" PROVE nin < StreamLen(strm)
    <3>1. /\ BodyEnd(strm) \in Nat /\ StreamLen(strm) \in Nat /\ BodyEnd(strm) <= StreamLen(strm)
          /\ StreamLen(strm) = BodyEnd(strm) + Trailers[strm.fmt] /\ Trailers[strm.fmt] \in Nat
      BY BodyLen, HeaderFacts
    <3>2. Place = nin /\ nin \in Nat
      BY <2>1, Numbers DEF Place, NothingLeft
    <3>3. CASE ~is_final
      <4>1. inf_state = "inflate"
        BY <2>1, InBody DEF Body
      <4>2. Place < BodyEnd(strm)
        BY <3>3, <4>1, BeforeEnd DEF AnswersInv
      <4> QED BY <3>1, <3>2, <4>2
    <3>4. CASE is_final
      <4>1. Len(trailer) < Trailers[strm.fmt]
        BY <2>1, <2>3, <3>4 DEF AnswersInv, OpenInv, NothingLeft
      <4>2. Place = BodyEnd(strm) + Len(trailer) /\ trailer \in Seq(Nat)
        BY <3>4 DEF IInv, EndInv, Types, EngineTypes
      <4>3. Len(trailer) \in Nat
        BY <4>2
      <4> QED BY <3>1, <3>2, <4>1, <4>2, <4>3
    <3> QED BY <3>3, <3>4
  <2> QED BY <2>1, <2>2, <2>3
<1>3. CASE \/ TooManyLoops \/ Drain \/ NothingToDrain \/ ReturnIdle \/ GoCache \/ Cache \/ CacheNoMemory
           \/ Feed \/ CopyTrailerOnly
  BY <1>3 DEF TooManyLoops, Drain, NothingToDrain, ReturnIdle, GoCache, Cache, CacheNoMemory, Feed,
              CopyTrailerOnly, Returns, InitDde
<1>4. CASE JobFault \/ JobFaultsTooLong \/ JobSpace \/ \E why \in {"garbled", "corrupt", "lost"} : JobError(why)
  BY <1>4 DEF JobFault, JobFaultsTooLong, JobSpace, JobError, Returns, InitDde
<1>5. CASE JobDone
  BY <1>5 DEF JobDone, Returns
<1>6. CASE Verify
  <2>1. /\ pc = "verify" /\ CopyTrailer /\ rc' = Verdict(trailer') /\ trailer' = Trailer
        /\ UNCHANGED <<strm, wrap, is_final, used_out, crc, total_out>>
    BY <1>6 DEF Verify, Returns, CopyTrailer, hvars
  <2>2. is_final /\ used_out = 0
    BY <2>1 DEF IInv, JobInv
  <2>3. /\ Trailer \in Seq(Nat) /\ Len(Trailer) <= Trailers[strm.fmt]
    BY <2>2, Pieces
  <2>4. Trailers[strm.fmt] \in Nat /\ (strm.fmt = "raw" => Trailers[strm.fmt] = 0)
    BY TrailerFacts, HeaderFacts, InflateAssumption
  <2>5. /\ Len(Trailer) = Trailers[strm.fmt]
        /\ strm.bad # "trailer" \/ wrap = {}
    <3>1. CASE wrap = {}
      <4>1. strm.fmt = "raw"
        BY <3>1 DEF IInv, HeaderInv
      <4>2. Len(Trailer) \in Nat
        BY <2>3
      <4> QED BY <2>3, <2>4, <3>1, <4>1, <4>2
    <3>2. CASE wrap # {}
      <4>1. Verdict(Trailer) = "STREAM_END"
        BY <2>1
      <4>2. ~(Len(Trailer) < Trailers[strm.fmt]) /\ strm.bad # "trailer"
        <5> DEFINE t == Trailer
        <5>1. Verdict(t) = "STREAM_END"
          BY <4>1
        <5> HIDE DEF t
        <5>2. ~(Len(t) < Trailers[strm.fmt]) /\ strm.bad # "trailer"
          BY <3>2, <5>1 DEF Verdict, TrailerMatches
        <5> QED BY <5>2 DEF t
      <4>3. Len(Trailer) \in Nat
        BY <2>3
      <4> QED BY <2>3, <2>4, <4>2, <4>3
    <3> QED BY <3>1, <3>2
  <2>6. AtEnd'
    BY <2>1, <2>2, <2>5 DEF AtEnd
  <2> QED BY <2>6
<1>7. CASE InfReturn
  BY <1>7 DEF InfReturn
<1> QED BY <1>1, <1>2, <1>3, <1>4, <1>5, <1>6, <1>7 DEF Library, Accelerator

\* At the end the whole stream was read and decoded, and it was good.
LEMMA EndIsWhole ==
  ASSUME IInv, AnswersInv, Detected, AtEnd
  PROVE  /\ StreamLen(strm) <= nin
         /\ strm.bad = "none" /\ strm.refs = 0 /\ ~strm.fdict
         /\ total_out = Plain(strm)
<1>1. strm \in Members /\ Len(strm.bit) \in Nat \ {0} /\ strm.bad \in Fields \cup {"none", "body", "trailer"}
  <2>1. strm \in Members
    BY HeaderFacts
  <2>2. strm \in Member
    BY <2>1, HeaderAssumption, Zenon
  <2> QED BY <2>1, <2>2, MemberFacts DEF Member
<1>2. item = Len(strm.bit) /\ Place = BodyEnd(strm) + Len(trailer) /\ inf_state = "inflate"
  BY DEF AtEnd, IInv, EndInv, FreshInv
<1>3. wrap # {}
  BY <1>1 DEF IInv, Types, HeaderTypes, HeaderInv, Detected
<1>4. ~strm.fdict /\ strm.refs = 0
  BY <1>1, <1>2 DEF Detected
<1>5. strm.bad = "none"
  <2>1. strm.bad # "body" /\ strm.bad # "trailer" /\ strm.bad \notin Fields \ {"dictid"}
    BY <1>2, <1>3 DEF AnswersInv, BodyInv, TestedInv, AtEnd
  <2>2. strm.bad # "dictid"
    <3> SUFFICES ASSUME strm.bad = "dictid" PROVE FALSE
      OBVIOUS
    <3>1. "dictid" \in FieldsOf(strm)
      BY <1>1, BadField DEF Fields
    <3> QED BY <1>4, <3>1 DEF FieldsOf
  <2> QED BY <1>1, <2>1, <2>2
<1>6. StreamLen(strm) <= nin
  <2>1. StreamLen(strm) = BodyEnd(strm) + Trailers[strm.fmt] /\ Place = StreamLen(strm)
        /\ StreamLen(strm) \in Nat
    BY <1>1, <1>2, BodyLen DEF AtEnd
  <2> QED BY <2>1, Numbers DEF Place
<1>7. total_out = Plain(strm)
  <2>1. total_out + used_out = OutAt(strm, Len(strm.bit)) /\ used_out = 0 /\ total_out \in Nat
    BY <1>2, Numbers DEF IInv, Types, EngineTypes, AtEnd
  <2>2. OutAt(strm, Len(strm.bit)) = Plain(strm)
    BY <1>1, MemberFacts DEF OutAt, Plain
  <2> QED BY <2>1, <2>2
<1> QED BY <1>4, <1>5, <1>6, <1>7

-----------------------------------------------------------------------------
\* nx_uncompress2.  It is to fill Goal bytes; a call is given room unless all of it
\* was given before, and input unless all of it was taken.
Goal == AtLeast(dest, 1)

\* While a call works, and when it is about to return.
Uncompressing ==
  /\ flush = "no"
  /\ total_out + left + avail_out = Goal
  /\ left > 0 => avail_out + total_out > out0
  /\ nin + avail_in > in0 \/ nin + avail_in = size
  /\ pc # "return" => rc = "OK"
  /\ pc \in {"header", "inflate_"} => nin = in0 \/ total_out = 0
  /\ pc = "return" /\ rc = "STREAM_END" =>
       \/ AtEnd
       \/ /\ NothingLeft /\ total_out = out0 /\ nin < StreamLen(strm)
          /\ nin = in0 \/ total_out = 0

\* What its code means when a call has returned.
Uncompressed ==
  /\ rc \notin {"NEED_DICT", "MEM_ERROR"} => total_out + left + room = Goal
  /\ rc = "STREAM_END" => (Whole /\ total_out = Plain(strm)) \/ BothRanOut
  /\ rc \in {"DATA_ERROR", "STREAM_ERROR", "NEED_DICT"} => ~(Whole /\ ~Spoiled)
  /\ rc = "BUF_ERROR" => \/ ~Whole
                         \/ left = 0 /\ room = 0 /\ total_out = Goal /\ ~AllDelivered

UncompressInv ==
  who = "uncompress" =>
    /\ dest \in Nat
    /\ at \in {"idle", "uncompress", "uncompressing", "done"}
    /\ at # "uncompressing" => pc = "app"
    /\ at = "idle" => rc = "OK" /\ total_out = 0 /\ room = 0
    /\ at = "uncompress" => rc = "OK" /\ total_out + left + room = Goal
    /\ at = "uncompressing" /\ pc \notin {"app", "dead"} => Uncompressing
    /\ at = "uncompressing" /\ pc = "app" => Uncompressed
    /\ at = "done" => UncompressRight

\* Only the states of the header come before nx_inflate_.
LEMMA HeaderOnly ==
  ASSUME Library \/ Accelerator, pc' \in {"header", "inflate_"}
  PROVE  Header
<1>1. ~(Begin \/ TooManyLoops \/ Drain \/ NothingToDrain \/ ReturnIdle \/ GoCache \/ Cache \/ CacheNoMemory)
  BY DEF Begin, TooManyLoops, Drain, NothingToDrain, ReturnIdle, GoCache, Cache, CacheNoMemory, Returns
<1>2. ~(Feed \/ CopyTrailerOnly \/ Verify \/ InfReturn)
  BY DEF Feed, CopyTrailerOnly, Verify, InfReturn, Returns, InitDde
<1>3. ~(JobFaultsTooLong \/ JobSpace \/ JobDone \/ \E why \in {"garbled", "corrupt", "lost"} : JobError(why))
  BY DEF JobFaultsTooLong, JobSpace, JobDone, JobError, Returns, InitDde
<1>4. ~JobFault
  BY DEF JobFault, InitDde
<1> QED BY <1>1, <1>2, <1>3, <1>4 DEF Library, Accelerator

\* Nothing was put out before the header ends.
LEMMA NothingBefore ==
  ASSUME IInv, inf_state # "inflate"
  PROVE  total_out = 0
<1>1. item = 0 /\ total_out + used_out = OutAt(strm, item)
  BY DEF IInv, FreshInv, Types, EngineTypes
<1>2. OutAt(strm, item) = 0
  BY <1>1 DEF OutAt
<1> QED BY <1>1, <1>2, Numbers

LEMMA UncompressingStays ==
  ASSUME UsersInv, AnswersInv, Uncompressing, Inside, pc # "return", pc' \notin {"app", "dead"},
         UsersInv'
  PROVE  Uncompressing'
<1>1. IInv /\ IInv' /\ (Library \/ Accelerator)
  BY DEF UsersInv, Inside
<1>2. CallKeeps /\ UNCHANGED <<size, left, dest, who>>
  BY <1>1, InsideKeeps DEF UsersInv, Inside
<1>3. nin' + avail_in' = nin + avail_in
  BY StepTakes, TakenKeeps DEF UsersInv, Inside
<1>4. /\ flush' = "no" /\ in0' = in0 /\ out0' = out0 /\ strm' = strm
      /\ total_out' + avail_out' = total_out + avail_out
  BY <1>2 DEF CallKeeps, Uncompressing
<1>5. /\ total_out \in Nat /\ avail_out \in Nat /\ total_out' \in Nat /\ avail_out' \in Nat /\ left \in Nat
  <2>1. total_out \in Nat /\ avail_out \in Nat
    BY Numbers DEF UsersInv
  <2>2. total_out' \in Nat /\ avail_out' \in Nat
    BY DEF UsersInv, IInv, Types, CallTypes, FifoTypes
  <2> QED BY <2>1, <2>2 DEF UsersInv, UserInv
<1> DEFINE t == total_out'
           a == avail_out'
<1>6. /\ t + left + a = total_out + left + avail_out
      /\ a + t = avail_out + total_out
  <2>1. t + a = total_out + avail_out /\ t \in Nat /\ a \in Nat
    BY <1>4, <1>5
  <2> HIDE DEF t, a
  <2> QED BY <1>5, <2>1
<1>7. /\ total_out' + left' + avail_out' = Goal'
      /\ left' > 0 => avail_out' + total_out' > out0'
  BY <1>2, <1>4, <1>6 DEF Uncompressing, Goal
<1> HIDE DEF t, a
<1>8. nin' + avail_in' > in0' \/ nin' + avail_in' = size'
  BY <1>2, <1>3, <1>4 DEF Uncompressing
<1>9. rc = "OK"
  BY DEF Uncompressing
<1>10. pc' # "return" => rc' = "OK"
  BY <1>2, <1>9 DEF CallKeeps
<1>11. pc' \in {"header", "inflate_"} => nin' = in0' \/ total_out' = 0
  <2> SUFFICES ASSUME pc' \in {"header", "inflate_"} PROVE nin' = in0' \/ total_out' = 0
    OBVIOUS
  <2>1. Header
    BY HeaderOnly DEF Inside
  <2>2. total_out' = total_out /\ pc = "header"
    BY <2>1, <1>1, BodyParts, DataParts, HeaderEnds DEF Header, AnswersInv, UsersInv
  <2>3. CASE inf_state # "inflate"
    BY <2>2, <2>3, NothingBefore DEF UsersInv
  <2>4. CASE inf_state = "inflate"
    <3>1. nin' = nin
      BY <2>1, <2>4, HeaderEnds DEF Header, AnswersInv, UsersInv, GoInflate
    <3> QED BY <1>4, <2>2, <3>1 DEF Uncompressing
  <2> QED BY <2>3, <2>4
<1>12. pc' = "return" /\ rc' = "STREAM_END" =>
         \/ AtEnd'
         \/ /\ NothingLeft' /\ total_out' = out0' /\ nin' < StreamLen(strm')
            /\ nin' = in0' \/ total_out' = 0
  <2> SUFFICES ASSUME pc' = "return", rc' = "STREAM_END", ~AtEnd'
               PROVE  /\ NothingLeft' /\ total_out' = out0' /\ nin' < StreamLen(strm')
                      /\ nin' = in0' \/ total_out' = 0
    OBVIOUS
  <2>1. pc = "inflate_" /\ NothingLeft' /\ UNCHANGED <<nin, total_out>> /\ nin < StreamLen(strm)
    BY <1>9, EndsHow DEF UsersInv, Inside
  <2>2. total_out = out0
    BY <2>1 DEF AnswersInv, StartInv
  <2>3. nin = in0 \/ total_out = 0
    BY <2>1 DEF Uncompressing
  <2> QED BY <1>4, <2>1, <2>2, <2>3
<1> QED BY <1>4, <1>7, <1>8, <1>10, <1>11, <1>12 DEF Uncompressing

\* A dictionary that nothing gives.
LEMMA AsksDictionary ==
  ASSUME IInv, pc = "app", rc = "NEED_DICT"
  PROVE  strm.fdict
  BY DEF IInv, FreshInv, HeaderInv

\* What is left when nx_inflate returns.
LEMMA ReturnLeaves ==
  ASSUME IInv, Inside, pc = "return"
  PROVE  /\ InfReturn /\ pc' = "app" /\ rc' = Result(rc) /\ room' = avail_out
         /\ UNCHANGED <<strm, nin, avail_in, fault, total_out, failed, is_final, used_out, trailer>>
         /\ UNCHANGED <<who, at, size, dest, left, last_total_out, result>>
         /\ Whole' = Whole /\ AllDelivered' = AllDelivered /\ AtEnd' = AtEnd
         /\ rc' # "MEM_ERROR" => (Spoiled' <=> failed \/ fault = "loops")
<1>1. InfReturn
  <2>1. pc \notin {"header"} \cup Body
    BY DEF Body
  <2>2. ~Header
    BY <2>1, HeaderEnds DEF Header, HeaderStep, NeedInput, Detect, Dispatch, TestByte, GzipFlg, GzipMtime,
          GzipXflOs, GzipXlen, GzipExtra, GzipName, GzipHcrc, GzipNoHcrc, ZlibFlg, ZlibDictId, ZlibDict,
          DataError, GoInflate, In
  <2>3. ~(\/ Begin \/ TooManyLoops \/ Drain \/ NothingToDrain \/ ReturnIdle \/ GoCache \/ Cache
          \/ CacheNoMemory \/ Feed \/ CopyTrailerOnly \/ Verify)
    BY DEF Begin, TooManyLoops, Drain, NothingToDrain, ReturnIdle, GoCache, Cache, CacheNoMemory, Feed,
           CopyTrailerOnly, Verify
  <2>4. ~Accelerator
    BY DEF Accelerator, JobError, JobFault, JobFaultsTooLong, JobSpace, JobDone
  <2> QED BY <2>2, <2>3, <2>4 DEF Inside, Library
<1>2. /\ pc' = "app" /\ rc' = Result(rc) /\ room' = avail_out
      /\ UNCHANGED <<strm, nin, avail_in, fault, total_out, failed, is_final, used_out, trailer, wrap>>
      /\ UNCHANGED <<who, at, size, dest, left, last_total_out, result>>
  BY <1>1 DEF InfReturn, Inside, fifoVars, engineVars, hvars
<1>3. Whole' = Whole
  BY <1>2 DEF Whole
<1>4. AllDelivered' = AllDelivered /\ AtEnd' = AtEnd
  BY <1>2 DEF AllDelivered, AtEnd
<1>5. rc' # "MEM_ERROR" => (Spoiled' <=> failed \/ fault = "loops")
  BY <1>2 DEF Spoiled
<1> QED BY <1>1, <1>2, <1>3, <1>4, <1>5

\* The errors of the data are right: a whole and good stream is not blamed.
LEMMA BlamedRightly ==
  ASSUME IInv, AnswersInv, Detected, pc = "return", rc \in {"DATA_ERROR", "STREAM_ERROR"}
  PROVE  ~(Whole /\ ~(failed \/ fault = "loops"))
<1>1. Excused
  BY DEF AnswersInv, ReturnInv
<1>2. ~Mismatch
  BY DEF Mismatch, Detected
<1>3. strm.refs > 0 => strm.refs # 0
  <2>1. strm.refs \in Nat
    BY HeaderFacts, MemberFacts
  <2> QED BY <2>1
<1> QED BY <1>1, <1>2, <1>3 DEF Excused, Whole

LEMMA UncompressComesBack ==
  ASSUME UsersInv, AnswersInv, Detected, who = "uncompress", dest \in Nat, Uncompressing,
         Inside, pc = "return"
  PROVE  Uncompressed'
<1>1. IInv
  BY DEF UsersInv
<1>2. /\ InfReturn /\ pc' = "app" /\ rc' = Result(rc) /\ room' = avail_out
      /\ UNCHANGED <<strm, nin, avail_in, fault, total_out, failed, is_final, used_out, trailer>>
      /\ UNCHANGED <<who, at, size, dest, left, last_total_out, result>>
      /\ Whole' = Whole /\ AllDelivered' = AllDelivered /\ AtEnd' = AtEnd
      /\ rc' # "MEM_ERROR" => (Spoiled' <=> failed \/ fault = "loops")
  BY <1>1, ReturnLeaves
<1>3. /\ nin \in Nat /\ avail_in \in Nat /\ total_out \in Nat /\ avail_out \in Nat /\ left \in Nat
      /\ size \in Nat /\ nin + avail_in <= size /\ out0 \in Nat /\ in0 \in Nat
      /\ in0 <= nin /\ out0 <= total_out /\ StreamLen(strm) \in Nat
  <2>1. out0 \in Nat /\ in0 \in Nat
    BY <1>1 DEF IInv, Types, CallTypes
  <2>2. in0 <= nin /\ out0 <= total_out
    BY DEF AnswersInv, StartInv
  <2>3. StreamLen(strm) \in Nat
    BY <1>1, HeaderFacts, BodyLen
  <2> QED BY <1>1, <2>1, <2>2, <2>3, Numbers DEF UsersInv, UserInv
<1>4. Goal \in Nat /\ Goal > 0 /\ Goal' = Goal /\ AtLeast(dest, 1) = Goal
  BY <1>2 DEF Goal, AtLeast
<1>5. /\ flush = "no" /\ total_out + left + avail_out = Goal
      /\ left > 0 => avail_out + total_out > out0
      /\ nin + avail_in > in0 \/ nin + avail_in = size
  BY DEF Uncompressing
<1>6. total_out' + left' + room' = Goal'
  BY <1>2, <1>4, <1>5
<1>7. rc' = IF rc = "OK" /\ nin = in0 /\ total_out = out0 THEN "BUF_ERROR" ELSE rc
  BY <1>2, <1>5 DEF Result
<1>8. rc # "NEED_DICT"
  BY <1>1 DEF IInv, FreshInv
<1>9. ASSUME avail_out = 0, total_out = out0
      PROVE  left = 0 /\ total_out = Goal
  BY <1>3, <1>4, <1>5, <1>9
<1>10. rc' = "STREAM_END" => (Whole' /\ total_out' = Plain(strm')) \/ BothRanOut'
  <2> SUFFICES ASSUME rc' = "STREAM_END" PROVE (Whole' /\ total_out' = Plain(strm')) \/ BothRanOut'
    OBVIOUS
  <2>1. rc = "STREAM_END"
    BY <1>7
  <2>2. CASE AtEnd
    <3>1. /\ StreamLen(strm) <= nin
          /\ strm.bad = "none" /\ strm.refs = 0 /\ ~strm.fdict
          /\ total_out = Plain(strm)
      BY <1>1, <2>2, EndIsWhole
    <3>2. size >= StreamLen(strm)
      BY <1>3, <3>1
    <3>3. Whole
      BY <3>1, <3>2 DEF Whole
    <3> QED BY <1>2, <3>1, <3>3
  <2>3. CASE ~AtEnd
    <3>1. /\ NothingLeft /\ total_out = out0 /\ nin < StreamLen(strm)
          /\ nin = in0 \/ total_out = 0
      BY <2>1, <2>3 DEF Uncompressing
    <3>2. avail_in = 0 /\ avail_out = 0
      BY <3>1 DEF NothingLeft
    <3>3. total_out = Goal /\ nin = in0
      BY <1>4, <1>9, <3>1, <3>2
    <3>4. size < StreamLen(strm)
      BY <1>3, <1>5, <3>1, <3>2, <3>3
    <3> QED BY <1>2, <1>4, <3>3, <3>4 DEF BothRanOut
  <2> QED BY <2>2, <2>3
<1>11. rc' \in {"DATA_ERROR", "STREAM_ERROR", "NEED_DICT"} => ~(Whole' /\ ~Spoiled')
  <2> SUFFICES ASSUME rc' \in {"DATA_ERROR", "STREAM_ERROR", "NEED_DICT"} PROVE ~(Whole' /\ ~Spoiled')
    OBVIOUS
  <2>1. rc \in {"DATA_ERROR", "STREAM_ERROR"}
    BY <1>7, <1>8
  <2>2. ~(Whole /\ ~(failed \/ fault = "loops"))
    BY <1>1, <2>1, BlamedRightly
  <2> QED BY <1>2, <2>2
<1>12. rc' = "BUF_ERROR" => \/ ~Whole'
                            \/ left' = 0 /\ room' = 0 /\ total_out' = Goal' /\ ~AllDelivered'
  <2> SUFFICES ASSUME rc' = "BUF_ERROR"
               PROVE  ~Whole \/ (left = 0 /\ avail_out = 0 /\ total_out = Goal /\ ~AllDelivered)
    BY <1>2, <1>4
  <2>1. CASE rc = "BUF_ERROR"
    <3>1. avail_out = 0 /\ total_out = out0 /\ ~AllDelivered
      BY <2>1 DEF AnswersInv, ReturnInv
    <3> QED BY <1>9, <3>1
  <2>2. CASE rc = "OK" /\ nin = in0 /\ total_out = out0
    <3>1. \/ avail_out = 0 /\ ~AllDelivered
          \/ nin > in0
          \/ avail_in = 0 /\ nin < StreamLen(strm)
      BY <2>2 DEF AnswersInv, ReturnInv
    <3>2. CASE avail_out = 0 /\ ~AllDelivered
      BY <1>9, <2>2, <3>2
    <3>3. CASE avail_in = 0 /\ nin < StreamLen(strm)
      <4>1. size < StreamLen(strm)
        BY <1>3, <1>5, <2>2, <3>3
      <4> QED BY <1>3, <4>1 DEF Whole
    <3> QED BY <1>3, <2>2, <3>1, <3>2, <3>3
  <2> QED BY <1>7, <2>1, <2>2
<1> QED BY <1>6, <1>10, <1>11, <1>12 DEF Uncompressed

LEMMA UncompressAsked ==
  ASSUME UsersInv', pc' = "app", rc' = "NEED_DICT"
  PROVE  Uncompressed'
<1>1. strm'.fdict
  BY DEF UsersInv, IInv, FreshInv, HeaderInv
<1>2. ~Whole'
  BY <1>1 DEF Whole
<1> QED BY <1>2 DEF Uncompressed

\* No more is put out than there is, and less while some of it waits.
LEMMA OutputFits ==
  ASSUME IInv
  PROVE  /\ Plain(strm) \in Nat /\ total_out <= Plain(strm)
         /\ used_out > 0 => total_out < Plain(strm)
<1> DEFINE n == Len(strm.bit)
           p == Plain(strm)
           o == OutAt(strm, item)
<1>1. strm \in Members /\ n \in Nat \ {0} /\ Len(strm.out) = n
  BY HeaderFacts, MemberFacts
<1>2. item \in 0..n /\ total_out + used_out = o
  BY DEF IInv, Types, EngineTypes
<1>3. p = OutAt(strm, n)
  BY <1>1 DEF OutAt, Plain
<1>4. o <= p /\ p \in Nat /\ o \in Nat
  <2>1. item \in 0..n /\ n \in 0..n /\ item <= n
    BY <1>1, <1>2
  <2> QED BY <1>1, <1>3, <2>1, ItemFacts
<1>5. total_out \in Nat /\ used_out \in Nat
  BY Numbers
<1> HIDE DEF n, p, o
<1>6. total_out <= p /\ (used_out > 0 => total_out < p)
  BY <1>2, <1>4, <1>5
<1> QED BY <1>4, <1>6 DEF p

LEMMA UncompressDone ==
  ASSUME UsersInv, who = "uncompress", dest \in Nat, Uncompressed, rc # "OK",
         UncompressReturned
  PROVE  UncompressRight'
<1>1. /\ result' = UncompressResult
      /\ UNCHANGED <<vars, who, size, dest, left, room>>
  BY DEF UncompressReturned
<1>2. /\ UNCHANGED <<strm, rc, fault, total_out, failed, is_final>>
  BY <1>1 DEF vars, bodyVars, engineVars
<1>3. Whole' = Whole /\ Spoiled' = Spoiled /\ BothRanOut' = BothRanOut
  BY <1>1, <1>2 DEF Whole, Spoiled, BothRanOut
<1>4. IInv
  BY DEF UsersInv
<1>5. /\ Plain(strm) \in Nat /\ total_out \in Nat /\ total_out <= Plain(strm)
      /\ used_out > 0 => total_out < Plain(strm)
      /\ left \in Nat /\ room \in Nat /\ size \in Nat /\ StreamLen(strm) \in Nat /\ used_out \in Nat
  BY <1>4, OutputFits, Numbers, HeaderFacts, BodyLen DEF UsersInv, UserInv
<1>6. Goal = IF dest > 1 THEN dest ELSE 1
  BY DEF Goal, AtLeast
<1>7. Plain(strm)' = Plain(strm)
  BY <1>2
<1> DEFINE p == Plain(strm)
<1>8. SUFFICES
        /\ result' = "OK" => (Whole /\ total_out = p) \/ BothRanOut
        /\ Whole /\ ~Spoiled /\ dest >= p =>
             \/ result' = "OK"
             \/ result' = "BUF_ERROR" /\ dest > 0 /\ dest = p /\ total_out = dest /\ ~is_final
        /\ Whole /\ ~Spoiled /\ dest < p /\ dest > 0 => result' = "BUF_ERROR"
  BY <1>1, <1>2, <1>3, <1>7 DEF UncompressRight, FullBeforeEnd
<1>9. CASE rc = "STREAM_END"
  <2>1. result' = "OK"
    BY <1>1, <1>9 DEF UncompressResult
  <2>2. (Whole /\ total_out = p) \/ BothRanOut
    BY <1>9 DEF Uncompressed
  <2>3. ~(Whole /\ dest < p /\ dest > 0)
    <3> SUFFICES ASSUME Whole, dest < p, dest > 0 PROVE FALSE
      OBVIOUS
    <3>1. size >= StreamLen(strm)
      BY DEF Whole
    <3>2. total_out = p
      BY <1>5, <2>2, <3>1 DEF BothRanOut
    <3>3. total_out + left + room = Goal
      BY <1>9 DEF Uncompressed
    <3> HIDE DEF p
    <3> QED BY <1>5, <1>6, <3>2, <3>3
  <2> QED BY <2>1, <2>2, <2>3
<1>10. CASE rc \in {"DATA_ERROR", "STREAM_ERROR", "NEED_DICT", "MEM_ERROR"}
  <2>1. ~(Whole /\ ~Spoiled)
    BY <1>10 DEF Uncompressed, Spoiled
  <2>2. result' # "OK"
    BY <1>1, <1>10 DEF UncompressResult
  <2> QED BY <2>1, <2>2
<1>11. CASE rc = "BUF_ERROR"
  <2>1. result' # "OK"
    BY <1>1, <1>11 DEF UncompressResult
  <2>2. SUFFICES ASSUME Whole
                 PROVE  /\ dest >= p => /\ result' = "BUF_ERROR" /\ dest > 0 /\ dest = p
                                        /\ total_out = dest /\ ~is_final
                        /\ dest < p /\ dest > 0 => result' = "BUF_ERROR"
    BY <2>1
  <2>3. left = 0 /\ room = 0 /\ total_out = Goal /\ ~AllDelivered
    BY <1>11, <2>2 DEF Uncompressed
  <2>4. dest > 0 => result' = "BUF_ERROR"
    BY <1>1, <1>11, <2>3 DEF UncompressResult, LeftAtEnd
  <2>5. dest >= p => dest > 0 /\ dest = p /\ total_out = dest
    <3>1. total_out = Goal /\ total_out <= p /\ p \in Nat
      BY <1>5, <2>3
    <3> HIDE DEF p
    <3> QED BY <1>5, <1>6, <3>1
  <2>6. dest >= p => ~is_final
    <3>1. total_out = p => used_out = 0
      BY <1>5
    <3> QED BY <2>3, <2>5, <3>1 DEF AllDelivered
  <2> QED BY <2>4, <2>5, <2>6
<1> QED BY <1>4, <1>9, <1>10, <1>11 DEF IInv, Types, CallTypes

LEMMA UncompressCalls ==
  ASSUME UsersInv, who = "uncompress", dest \in Nat, pc = "app", rc = "OK",
         total_out + left + room = Goal, UncompressCall
  PROVE  /\ pc' \notin {"app", "dead"} => Uncompressing'
         /\ pc' = "app" => Uncompressed'
<1> DEFINE more == IF room = 0 THEN AtMost(left, MaxPiece) ELSE 0
           input == IF avail_in = 0 THEN AtMost(Remaining, MaxPiece) ELSE 0
<1>1. /\ Call(input, room + more, "no") \/ CallNoMemory
      /\ left' = left - more
      /\ UNCHANGED <<who, size, dest, room>>
  BY DEF UncompressCall, Inflates
<1>2. /\ size \in Nat /\ left \in Nat /\ room \in Nat /\ nin + avail_in <= size
      /\ nin \in Nat /\ avail_in \in Nat /\ total_out \in Nat /\ MaxPiece \in Nat \ {0}
  BY Numbers, UsersAssumption DEF UsersInv, UserInv
<1>3. Goal' = Goal
  BY <1>1 DEF Goal
<1>4. CASE CallNoMemory
  <2>1. pc' = "app" /\ rc' = "MEM_ERROR"
    BY <1>4 DEF CallNoMemory
  <2> QED BY <2>1 DEF Uncompressed
<1>5. CASE Call(input, room + more, "no")
  <2>1. /\ pc' = "header" /\ rc' = rc /\ flush' = "no"
        /\ avail_in' = avail_in + input /\ avail_out' = room + more
        /\ in0' = nin /\ out0' = total_out /\ nin' = nin /\ total_out' = total_out
    BY <1>5 DEF Call
  <2>2. /\ more \in Nat /\ more <= left
        /\ room = 0 /\ left > 0 => more > 0
    BY <1>2 DEF AtMost
  <2>3. /\ input \in Nat
        /\ avail_in = 0 => input > 0 \/ nin + avail_in + input = size
    BY <1>2 DEF AtMost, Remaining
  <2> HIDE DEF more, input
  <2>4. total_out + (left - more) + (room + more) = Goal
    <3>1. total_out + (left - more) + (room + more) = total_out + left + room
      BY <1>2, <2>2
    <3> QED BY <3>1
  <2>5. left - more > 0 => (room + more) + total_out > total_out
    BY <1>2, <2>2
  <2>6. nin + (avail_in + input) > nin \/ nin + (avail_in + input) = size
    BY <1>2, <2>3
  <2>7. Uncompressing'
    BY <1>1, <1>3, <2>1, <2>4, <2>5, <2>6 DEF Uncompressing
  <2> QED BY <2>1, <2>7
<1> QED BY <1>1, <1>4, <1>5

\* The library and the accelerator only work in a call.
LEMMA InsideCalls == ASSUME Library \/ Accelerator PROVE pc \notin {"app", "dead"}
<1>1. ASSUME Header PROVE pc = "header"
  BY <1>1 DEF Header, HeaderStep, NeedInput, Detect, Dispatch, TestByte, GzipFlg, GzipMtime,
        GzipXflOs, GzipXlen, GzipExtra, GzipName, GzipHcrc, GzipNoHcrc, ZlibFlg, ZlibDictId, ZlibDict,
        DataError, GoInflate, In
<1>2. ASSUME \/ InfReturn \/ Begin \/ TooManyLoops \/ Drain \/ NothingToDrain \/ ReturnIdle \/ GoCache
             \/ Cache \/ CacheNoMemory \/ Feed \/ CopyTrailerOnly \/ Verify
      PROVE  pc \notin {"app", "dead"}
  BY <1>2 DEF InfReturn, Begin, TooManyLoops, Drain, NothingToDrain, ReturnIdle, GoCache, Cache,
              CacheNoMemory, Feed, CopyTrailerOnly, Verify
<1>3. ASSUME Accelerator PROVE pc = "submit"
  BY <1>3 DEF Accelerator, JobError, JobFault, JobFaultsTooLong, JobSpace, JobDone
<1> QED BY <1>1, <1>2, <1>3 DEF Library

LEMMA UncompressInside ==
  ASSUME UsersInv, AnswersInv, Detected, who = "uncompress", UncompressInv, Inside, UsersInv'
  PROVE  UncompressInv'
<1>1. pc \notin {"app", "dead"} /\ UNCHANGED <<who, at, dest>>
  BY InsideCalls DEF Inside
<1>2. dest \in Nat /\ at = "uncompressing" /\ Uncompressing
  BY <1>1 DEF UncompressInv
<1>3. CASE pc = "return"
  <2>1. pc' = "app"
    BY <1>3, ReturnLeaves DEF UsersInv
  <2>2. Uncompressed'
    BY <1>2, <1>3, UncompressComesBack
  <2> QED BY <1>1, <1>2, <2>1, <2>2 DEF UncompressInv
<1>4. CASE pc # "return"
  <2>1. CASE pc' \notin {"app", "dead"}
    <3>1. Uncompressing'
      BY <1>2, <1>4, <2>1, UncompressingStays
    <3> QED BY <1>1, <1>2, <2>1, <3>1 DEF UncompressInv
  <2>2. CASE pc' = "app"
    <3>1. rc' = "NEED_DICT"
      BY <1>4, <2>2, InsideKeeps DEF UsersInv, Inside, CallKeeps
    <3>2. Uncompressed'
      BY <2>2, <3>1, UncompressAsked
    <3> QED BY <1>1, <1>2, <2>2, <3>2 DEF UncompressInv
  <2>3. CASE pc' = "dead"
    BY <1>1, <1>2, <2>3 DEF UncompressInv
  <2> QED BY <2>1, <2>2, <2>3
<1> QED BY <1>3, <1>4

LEMMA UncompressUserStep ==
  ASSUME UsersInv, who = "uncompress", UncompressInv, UserStep
  PROVE  UncompressInv'
<1> USE DEF UncompressInv
<1>1. ASSUME NEW n \in Dests, Uncompress(n) PROVE UncompressInv'
  <2>1. /\ at = "idle" /\ at' = "uncompress" /\ dest' = n /\ left' = (IF n = 0 THEN 1 ELSE n)
        /\ n \in Nat /\ UNCHANGED <<who, room>> /\ UNCHANGED vars
    BY <1>1, UsersConsts DEF Uncompress
  <2>2. pc' = pc /\ rc' = rc /\ total_out' = total_out
    BY <2>1 DEF vars, bodyVars
  <2>3. total_out = 0 /\ room = 0 /\ rc = "OK" /\ pc = "app"
    BY <2>1
  <2>4. Goal' = IF n > 1 THEN n ELSE 1
    BY <2>1 DEF Goal, AtLeast
  <2>5. total_out' + left' + room' = Goal'
    BY <2>1, <2>2, <2>3, <2>4
  <2> QED BY <2>1, <2>2, <2>3, <2>5
<1>2. CASE UncompressCall
  <2>1. at = "uncompress" /\ at' = "uncompressing" /\ UNCHANGED <<who, dest>>
    BY <1>2 DEF UncompressCall, Inflates
  <2>2. pc = "app" /\ rc = "OK" /\ total_out + left + room = Goal /\ dest \in Nat
    BY <2>1
  <2>3. /\ pc' \notin {"app", "dead"} => Uncompressing'
        /\ pc' = "app" => Uncompressed'
    BY <1>2, <2>2, UncompressCalls
  <2> QED BY <2>1, <2>2, <2>3
<1>3. CASE UncompressReturned
  <2>1. /\ at = "uncompressing" /\ pc = "app"
        /\ UNCHANGED <<vars, who, dest, left, room>>
        /\ rc = "OK" => at' = "uncompress"
        /\ rc # "OK" => at' = "done"
    BY <1>3 DEF UncompressReturned, Returned
  <2>2. pc' = pc /\ rc' = rc /\ total_out' = total_out
    BY <2>1 DEF vars, bodyVars
  <2>3. Uncompressed /\ dest \in Nat
    BY <2>1
  <2>4. CASE rc = "OK"
    <3>1. total_out + left + room = Goal
      BY <2>3, <2>4 DEF Uncompressed
    <3>2. Goal' = Goal
      BY <2>1 DEF Goal
    <3> QED BY <2>1, <2>2, <2>3, <2>4, <3>1, <3>2
  <2>5. CASE rc # "OK"
    <3>1. UncompressRight'
      BY <1>3, <2>3, <2>5, UncompressDone
    <3> QED BY <2>1, <2>2, <2>3, <2>5, <3>1
  <2> QED BY <2>4, <2>5
<1>4. ASSUME NEW n \in 0..FewBytes PROVE ~GzreadCall(n)
  BY DEF GzreadCall
<1>5. ~(GzreadLast \/ GzreadReturned \/ GzreadAgain)
  BY DEF GzreadLast, GzreadReturned, GzreadAgain, Returned
<1>6. ASSUME NEW n \in Lens PROVE ~Gzread(n)
  BY DEF Gzread
<1> QED BY <1>1, <1>2, <1>3, <1>4, <1>5, <1>6 DEF UserStep

-----------------------------------------------------------------------------
\* __gzread.  While a call works it fills what is left of len; a call in the loop
\* has input and room, the one at the end of the file has no input.
GzreadCalls == {"gzreading", "gzread at end"}

Gzreading ==
  /\ total_out + avail_out = last_total_out + dest
  /\ at = "gzreading" => /\ flush = "no"
                         /\ nin + avail_in > in0 /\ avail_out + total_out > out0
  /\ at = "gzread at end" => nin + avail_in = size /\ in0 = size

GzreadOver ==
  /\ at = "gzreading" =>
       IF rc \in {"OK", "STREAM_END"} THEN total_out + room = last_total_out + dest
                                      ELSE ~(Whole /\ ~Spoiled)
  /\ at = "gzread at end" =>
       total_out = last_total_out + dest \/ total_out = Plain(strm) \/ ~(Whole /\ ~Spoiled)

GzreadInv ==
  who = "gzread" =>
    /\ dest \in Nat /\ last_total_out \in Nat
    /\ at \in {"idle", "gzread", "given", "done"} \cup GzreadCalls
    /\ at \notin GzreadCalls => pc = "app"
    /\ at = "gzread" => room > 0 /\ total_out + room = last_total_out + dest
    /\ at \in GzreadCalls /\ pc \notin {"app", "dead"} => Gzreading
    /\ at \in GzreadCalls /\ pc = "app" => GzreadOver
    /\ GzreadRight

LEMMA GzreadingStays ==
  ASSUME UsersInv, AnswersInv, Gzreading, Inside, pc # "return", UsersInv'
  PROVE  Gzreading'
<1>1. CallKeeps /\ UNCHANGED <<at, size, dest, last_total_out>>
  BY InsideKeeps DEF UsersInv, Inside
<1>2. nin' + avail_in' = nin + avail_in
  BY StepTakes, TakenKeeps DEF UsersInv, Inside
<1>3. /\ flush' = flush /\ in0' = in0 /\ out0' = out0
      /\ total_out' + avail_out' = total_out + avail_out
  BY <1>1 DEF CallKeeps
<1> DEFINE t == total_out'
           a == avail_out'
<1>4. /\ total_out \in Nat /\ avail_out \in Nat /\ t \in Nat /\ a \in Nat
      /\ t + a = total_out + avail_out
  <2>1. total_out \in Nat /\ avail_out \in Nat
    BY Numbers DEF UsersInv
  <2>2. total_out' \in Nat /\ avail_out' \in Nat
    BY DEF UsersInv, IInv, Types, CallTypes, FifoTypes
  <2> QED BY <1>3, <2>1, <2>2
<1>5. a + t = avail_out + total_out
  <2> HIDE DEF t, a
  <2> QED BY <1>4
<1>6. total_out' + avail_out' = last_total_out' + dest'
  BY <1>1, <1>3 DEF Gzreading
<1>7. at' = "gzreading" => /\ flush' = "no"
                           /\ nin' + avail_in' > in0' /\ avail_out' + total_out' > out0'
  BY <1>1, <1>2, <1>3, <1>5 DEF Gzreading
<1>8. at' = "gzread at end" => nin' + avail_in' = size' /\ in0' = size'
  BY <1>1, <1>2, <1>3 DEF Gzreading
<1> QED BY <1>6, <1>7, <1>8 DEF Gzreading

LEMMA GzreadComesBack ==
  ASSUME UsersInv, AnswersInv, Detected, who = "gzread", dest \in Nat, last_total_out \in Nat,
         at \in GzreadCalls, Gzreading, Inside, pc = "return"
  PROVE  GzreadOver'
<1>1. IInv
  BY DEF UsersInv
<1>2. /\ InfReturn /\ pc' = "app" /\ rc' = Result(rc) /\ room' = avail_out
      /\ UNCHANGED <<strm, nin, avail_in, fault, total_out, failed, is_final, used_out, trailer>>
      /\ UNCHANGED <<who, at, size, dest, left, last_total_out, result>>
      /\ Whole' = Whole /\ AllDelivered' = AllDelivered /\ AtEnd' = AtEnd
      /\ rc' # "MEM_ERROR" => (Spoiled' <=> failed \/ fault = "loops")
  BY <1>1, ReturnLeaves
<1>3. /\ nin \in Nat /\ avail_in \in Nat /\ total_out \in Nat /\ avail_out \in Nat
      /\ out0 \in Nat /\ in0 \in Nat /\ in0 <= nin /\ out0 <= total_out
      /\ StreamLen(strm) \in Nat /\ size \in Nat
  <2>1. out0 \in Nat /\ in0 \in Nat
    BY <1>1 DEF IInv, Types, CallTypes
  <2>2. in0 <= nin /\ out0 <= total_out
    BY DEF AnswersInv, StartInv
  <2>3. StreamLen(strm) \in Nat
    BY <1>1, HeaderFacts, BodyLen
  <2> QED BY <1>1, <2>1, <2>2, <2>3, Numbers DEF UsersInv, UserInv
<1>4. rc # "NEED_DICT" /\ rc \in {"OK", "BUF_ERROR", "STREAM_END", "DATA_ERROR", "STREAM_ERROR", "MEM_ERROR"}
  BY <1>1 DEF IInv, FreshInv, Types, CallTypes
<1>5. rc' = "MEM_ERROR" => Spoiled'
  BY DEF Spoiled
<1>6. rc \in {"DATA_ERROR", "STREAM_ERROR"} => ~(Whole' /\ ~Spoiled')
  <2> SUFFICES ASSUME rc \in {"DATA_ERROR", "STREAM_ERROR"} PROVE ~(Whole' /\ ~Spoiled')
    OBVIOUS
  <2>1. ~(Whole /\ ~(failed \/ fault = "loops"))
    BY <1>1, BlamedRightly
  <2>2. rc' # "MEM_ERROR"
    BY <1>2 DEF Result
  <2> QED BY <1>2, <2>1, <2>2
<1>7. rc = "MEM_ERROR" => Spoiled'
  BY <1>2, <1>5 DEF Result
<1>8. /\ rc = "BUF_ERROR" => avail_out = 0 /\ total_out = out0
      /\ rc = "OK" => \/ avail_out = 0
                      \/ nin > in0
                      \/ avail_in = 0 /\ nin < StreamLen(strm)
  BY DEF AnswersInv, ReturnInv
<1>9. CASE at = "gzreading"
  <2>1. /\ flush = "no" /\ nin + avail_in > in0 /\ avail_out + total_out > out0
        /\ total_out + avail_out = last_total_out + dest
    BY <1>9 DEF Gzreading
  <2>2. rc # "BUF_ERROR"
    BY <1>3, <1>8, <2>1
  <2>3. ~(rc = "OK" /\ nin = in0 /\ total_out = out0)
    BY <1>3, <1>8, <2>1
  <2>4. rc' = rc
    BY <1>2, <2>1, <2>3 DEF Result
  <2>5. IF rc' \in {"OK", "STREAM_END"} THEN total_out' + room' = last_total_out' + dest'
                                        ELSE ~(Whole' /\ ~Spoiled')
    <3>1. total_out' + room' = last_total_out' + dest'
      BY <1>2, <2>1
    <3>2. rc' \notin {"OK", "STREAM_END"} => ~(Whole' /\ ~Spoiled')
      BY <1>4, <1>6, <1>7, <2>2, <2>4
    <3> QED BY <3>1, <3>2
  <2> QED BY <1>2, <1>9, <2>5 DEF GzreadOver
<1>10. CASE at = "gzread at end"
  <2>1. nin + avail_in = size /\ in0 = size /\ total_out + avail_out = last_total_out + dest
    BY <1>10 DEF Gzreading
  <2>2. nin = in0 /\ avail_in = 0 /\ size = nin
    BY <1>3, <2>1
  <2>3. avail_out = 0 => total_out = last_total_out + dest
    BY <1>3, <2>1
  <2>4. nin < StreamLen(strm) => ~Whole
    BY <1>3, <2>2 DEF Whole
  <2>5. CASE rc = "STREAM_END"
    <3>1. AtEnd \/ avail_out = 0
      BY <1>1, <2>5 DEF IInv, EndInv, AtEnd
    <3>2. AtEnd => total_out = Plain(strm)
      BY <1>1, EndIsWhole
    <3> QED BY <1>2, <1>10, <2>3, <3>1, <3>2 DEF GzreadOver
  <2>6. CASE rc \in {"OK", "BUF_ERROR"}
    <3>1. total_out = last_total_out + dest \/ ~Whole
      BY <1>3, <1>8, <2>2, <2>3, <2>4, <2>6
    <3> QED BY <1>2, <1>10, <3>1 DEF GzreadOver
  <2>7. CASE rc \in {"DATA_ERROR", "STREAM_ERROR", "MEM_ERROR"}
    BY <1>2, <1>6, <1>7, <1>10, <2>7 DEF GzreadOver
  <2> QED BY <1>4, <2>5, <2>6, <2>7
<1> QED BY <1>9, <1>10 DEF GzreadCalls

LEMMA GzreadAsked ==
  ASSUME UsersInv', pc' = "app", rc' = "NEED_DICT"
  PROVE  GzreadOver'
<1>1. strm'.fdict
  BY DEF UsersInv, IInv, FreshInv, HeaderInv
<1>2. ~Whole'
  BY <1>1 DEF Whole
<1> QED BY <1>2 DEF GzreadOver

LEMMA GzreadInside ==
  ASSUME UsersInv, AnswersInv, Detected, who = "gzread", GzreadInv, Inside, UsersInv'
  PROVE  GzreadInv'
<1>1. pc \notin {"app", "dead"} /\ UNCHANGED <<who, at, dest, last_total_out>>
  BY InsideCalls DEF Inside
<1>2. dest \in Nat /\ last_total_out \in Nat /\ at \in GzreadCalls /\ Gzreading
  BY <1>1 DEF GzreadInv
<1>3. /\ who' = "gzread" /\ at' \in GzreadCalls /\ at' \notin {"idle", "gzread", "given", "done"}
      /\ dest' \in Nat /\ last_total_out' \in Nat
  BY <1>1, <1>2 DEF GzreadCalls
<1>4. GzreadRight'
  BY <1>3 DEF GzreadRight
<1>5. CASE pc = "return"
  <2>1. pc' = "app"
    BY <1>5, ReturnLeaves DEF UsersInv
  <2>2. GzreadOver'
    BY <1>2, <1>5, GzreadComesBack
  <2> QED BY <1>3, <1>4, <2>1, <2>2 DEF GzreadInv, GzreadCalls
<1>6. CASE pc # "return"
  <2>1. CASE pc' \notin {"app", "dead"}
    <3>1. Gzreading'
      BY <1>2, <1>6, GzreadingStays
    <3> QED BY <1>3, <1>4, <2>1, <3>1 DEF GzreadInv, GzreadCalls
  <2>2. CASE pc' = "app"
    <3>1. rc' = "NEED_DICT"
      BY <1>6, <2>2, InsideKeeps DEF UsersInv, Inside, CallKeeps
    <3>2. GzreadOver'
      BY <2>2, <3>1, GzreadAsked
    <3> QED BY <1>3, <1>4, <2>2, <3>2 DEF GzreadInv, GzreadCalls
  <2>3. CASE pc' = "dead"
    BY <1>3, <1>4, <2>3 DEF GzreadInv, GzreadCalls
  <2> QED BY <2>1, <2>2, <2>3
<1> QED BY <1>5, <1>6

\* A call of __gzread starts with what is left of len.
LEMMA GzreadCalled ==
  ASSUME total_out + room = last_total_out + dest,
         NEW n \in Nat, NEW fl, NEW next, Inflates(n, room, fl, next),
         size' = size, dest' = dest, room' = room, last_total_out' = last_total_out,
         \/ /\ next = "gzreading" /\ fl = "no"
            /\ nin + (avail_in + n) > nin /\ room + total_out > total_out
         \/ next = "gzread at end" /\ nin + (avail_in + n) = size /\ nin = size
  PROVE  /\ pc' \notin {"app", "dead"} => Gzreading'
         /\ pc' = "app" => GzreadOver'
<1>1. at' = next
  BY DEF Inflates
<1>2. CASE CallNoMemory
  <2>1. pc' = "app" /\ rc' = "MEM_ERROR"
    BY <1>2 DEF CallNoMemory
  <2>2. Spoiled'
    BY <2>1 DEF Spoiled
  <2> QED BY <2>1, <2>2 DEF GzreadOver
<1>3. CASE Call(n, room, fl)
  <2>1. /\ pc' = "header" /\ flush' = fl /\ avail_in' = avail_in + n /\ avail_out' = room
        /\ in0' = nin /\ out0' = total_out /\ nin' = nin /\ total_out' = total_out
    BY <1>3 DEF Call
  <2>2. total_out' + avail_out' = last_total_out' + dest'
    BY <2>1
  <2>3. at' = "gzreading" => /\ flush' = "no"
                             /\ nin' + avail_in' > in0' /\ avail_out' + total_out' > out0'
    BY <1>1, <2>1
  <2>4. at' = "gzread at end" => nin' + avail_in' = size' /\ in0' = size'
    BY <1>1, <2>1
  <2>5. Gzreading'
    BY <2>2, <2>3, <2>4 DEF Gzreading
  <2> QED BY <2>1, <2>5
<1> QED BY <1>2, <1>3 DEF Inflates

\* Fewer bytes than len are given only at the end of the file.
LEMMA GzreadDone ==
  ASSUME UsersInv, dest \in Nat, last_total_out \in Nat, GzreadOver, GzreadReturned,
         at' \in {"given", "done"}
  PROVE  GzreadRight'
<1>1. UNCHANGED <<vars, who, size, dest, left, room, last_total_out>>
  BY DEF GzreadReturned
<1>2. UNCHANGED <<strm, rc, fault, total_out, failed>>
  BY <1>1 DEF vars, bodyVars, engineVars
<1>3. Whole' = Whole /\ Spoiled' = Spoiled /\ Plain(strm)' = Plain(strm)
  BY <1>1, <1>2 DEF Whole, Spoiled
<1>4. SUFFICES ASSUME result' < dest, Whole, ~Spoiled PROVE total_out = Plain(strm)
  BY <1>1, <1>2, <1>3 DEF GzreadRight
<1>5. total_out \in Nat /\ room \in Nat
  BY Numbers DEF UsersInv, UserInv
<1>6. total_out - last_total_out = dest => result' # total_out - last_total_out
  BY <1>4, <1>5
<1>7. CASE Returned("gzreading")
  <2>1. ~GzreadFails /\ total_out + room = last_total_out + dest
    BY <1>4, <1>7 DEF GzreadOver, GzreadFails, Returned
  <2>2. ~GzreadMore /\ result' = total_out - last_total_out
    BY <1>7, <2>1 DEF GzreadReturned, GzreadGives, Returned
  <2>3. total_out - last_total_out = dest
    BY <1>5, <2>1, <2>2 DEF GzreadMore
  <2> QED BY <1>6, <2>2, <2>3
<1>8. CASE Returned("gzread at end")
  <2>1. result' = total_out - last_total_out
    BY <1>8 DEF GzreadReturned, GzreadGives, Returned
  <2>2. total_out = last_total_out + dest => total_out - last_total_out = dest
    BY <1>5
  <2>3. total_out = last_total_out + dest \/ total_out = Plain(strm)
    BY <1>4, <1>8 DEF GzreadOver, Returned
  <2> QED BY <1>6, <2>1, <2>2, <2>3
<1> QED BY <1>7, <1>8 DEF GzreadReturned

LEMMA GzreadUserStep ==
  ASSUME UsersInv, who = "gzread", GzreadInv, UserStep
  PROVE  GzreadInv'
<1>1. nin \in Nat /\ avail_in \in Nat /\ total_out \in Nat /\ room \in Nat /\ size \in Nat
  BY Numbers DEF UsersInv, UserInv
<1>2. dest \in Nat /\ last_total_out \in Nat
  BY DEF GzreadInv
<1>3. ASSUME NEW n \in Lens, Gzread(n) PROVE GzreadInv'
  <2>1. /\ at = "idle" /\ at' = "gzread" /\ dest' = n /\ room' = n /\ last_total_out' = total_out
        /\ n \in Nat /\ n > 0 /\ UNCHANGED <<vars, who>>
    BY <1>3, UsersAssumption DEF Gzread
  <2>2. pc' = pc /\ total_out' = total_out /\ pc = "app"
    BY <2>1 DEF vars, bodyVars, GzreadInv, GzreadCalls
  <2> QED BY <1>1, <2>1, <2>2 DEF GzreadInv, GzreadCalls, GzreadRight
<1>4. ASSUME at = "gzread", at' \in GzreadCalls,
             UNCHANGED <<who, size, dest, left, room, last_total_out, result>>,
             pc' \notin {"app", "dead"} => Gzreading',
             pc' = "app" => GzreadOver'
      PROVE  GzreadInv'
  <2>1. GzreadRight'
    BY <1>4 DEF GzreadRight, GzreadCalls
  <2>2. at' \notin {"idle", "gzread", "given", "done"}
    BY <1>4 DEF GzreadCalls
  <2> QED BY <1>2, <1>4, <2>1, <2>2 DEF GzreadInv
<1>5. ASSUME NEW n \in 0..FewBytes, GzreadCall(n) PROVE GzreadInv'
  <2>1. /\ at = "gzread" /\ Inflates(n, room, "no", "gzreading")
        /\ UNCHANGED <<who, size, dest, left, room, last_total_out, result>>
    BY <1>5 DEF GzreadCall
  <2>2. n \in Nat /\ nin + (avail_in + n) > nin
    <3>1. n \in Nat
      BY UsersConsts
    <3>2. avail_in > 0 \/ n >= 1
      <4>1. GzreadMax \in Nat /\ Remaining \in Int
        BY <1>1, UsersConsts DEF GzreadMax, Remaining
      <4>2. AtMost(GzreadMax, Remaining) \in Int
        BY <4>1 DEF AtMost
      <4>3. IF avail_in > 0 THEN n = 0 ELSE n \in 1..AtMost(GzreadMax, Remaining)
        BY <1>5 DEF GzreadCall
      <4> QED BY <4>2, <4>3
    <3> QED BY <1>1, <3>1, <3>2
  <2>3. total_out + room = last_total_out + dest /\ room + total_out > total_out
    <3>1. room > 0 /\ total_out + room = last_total_out + dest
      BY <1>5 DEF GzreadCall, GzreadInv
    <3> QED BY <1>1, <3>1
  <2>4. /\ pc' \notin {"app", "dead"} => Gzreading'
        /\ pc' = "app" => GzreadOver'
    BY <2>1, <2>2, <2>3, GzreadCalled
  <2>5. at' \in GzreadCalls
    BY <2>1 DEF Inflates, GzreadCalls
  <2> QED BY <1>4, <2>1, <2>4, <2>5
<1>6. CASE GzreadLast
  <2>1. /\ at = "gzread" /\ Inflates(0, room, "finish", "gzread at end")
        /\ UNCHANGED <<who, size, dest, left, room, last_total_out, result>>
    BY <1>6 DEF GzreadLast
  <2>2. nin = size /\ nin + (avail_in + 0) = size
    <3>1. size - nin - avail_in = 0 /\ avail_in = 0
      BY <1>6 DEF GzreadLast, Remaining
    <3> QED BY <1>1, <3>1
  <2>3. total_out + room = last_total_out + dest
    BY <2>1 DEF GzreadInv
  <2>4. /\ pc' \notin {"app", "dead"} => Gzreading'
        /\ pc' = "app" => GzreadOver'
    BY <2>1, <2>2, <2>3, GzreadCalled
  <2>5. at' \in GzreadCalls
    BY <2>1 DEF Inflates, GzreadCalls
  <2> QED BY <1>4, <2>1, <2>4, <2>5
<1>7. CASE GzreadReturned
  <2>1. /\ at \in GzreadCalls /\ pc = "app"
        /\ UNCHANGED <<vars, who, size, dest, left, room, last_total_out>>
        /\ at' \in {"gzread", "given", "done"}
    BY <1>7 DEF GzreadReturned, GzreadGives, Returned, GzreadCalls
  <2>2. pc' = pc /\ total_out' = total_out /\ GzreadOver
    BY <2>1 DEF vars, bodyVars, GzreadInv
  <2>3. CASE at' = "gzread"
    <3>1. at = "gzreading" /\ ~GzreadFails /\ GzreadMore
      BY <1>7, <2>3 DEF GzreadReturned, GzreadGives, Returned
    <3>2. room > 0 /\ total_out + room = last_total_out + dest
      BY <2>2, <3>1 DEF GzreadOver, GzreadFails, GzreadMore
    <3>3. GzreadRight'
      BY <2>3 DEF GzreadRight
    <3> QED BY <1>2, <2>1, <2>2, <2>3, <3>2, <3>3 DEF GzreadInv, GzreadCalls
  <2>4. CASE at' \in {"given", "done"}
    <3>1. GzreadRight'
      BY <1>2, <1>7, <2>2, <2>4, GzreadDone
    <3> QED BY <1>2, <2>1, <2>2, <2>4, <3>1 DEF GzreadInv, GzreadCalls
  <2> QED BY <2>1, <2>3, <2>4
<1>8. CASE GzreadAgain
  <2>1. /\ at = "given" /\ at' = "idle" /\ dest' = 0 /\ last_total_out' = 0
        /\ UNCHANGED <<vars, who>>
    BY <1>8 DEF GzreadAgain
  <2>2. pc' = pc /\ pc = "app"
    BY <2>1 DEF vars, GzreadInv, GzreadCalls
  <2> QED BY <2>1, <2>2 DEF GzreadInv, GzreadCalls, GzreadRight
<1>9. ~(UncompressCall \/ UncompressReturned)
  BY DEF UncompressCall, UncompressReturned, Returned, GzreadInv, GzreadCalls
<1>10. ASSUME NEW n \in Dests PROVE ~Uncompress(n)
  BY DEF Uncompress
<1> QED BY <1>3, <1>5, <1>6, <1>7, <1>8, <1>9, <1>10 DEF UserStep

\* What the library's own users rely on, with the invariants of the stream.
UsersRight == (who # "app" => Detected) /\ UncompressInv /\ GzreadInv

LEMMA UsersRightInit == ASSUME UsersInit PROVE UsersRight
<1>1. /\ pc = "app" /\ rc = "OK" /\ total_out = 0 /\ item = 0 /\ ~dict_len /\ inf_state = "header"
      /\ who # "app" => wrap = {"zlib", "gzip"}
      /\ at = "idle" /\ dest = 0 /\ room = 0 /\ last_total_out = 0
  BY DEF UsersInit, Init
<1>2. who # "app" => Detected
  BY <1>1 DEF Detected
<1>3. UncompressInv
  BY <1>1 DEF UncompressInv
<1>4. GzreadInv
  BY <1>1 DEF GzreadInv, GzreadCalls, GzreadRight
<1> QED BY <1>2, <1>3, <1>4 DEF UsersRight

LEMMA UserStepDetected == ASSUME Detected, UsersInv, UserStep PROVE Detected'
<1>1. UNCHANGED <<strm, wrap, item, inf_state, dict_len>>
  <2>1. ASSUME UNCHANGED vars PROVE UNCHANGED <<strm, wrap, item, inf_state, dict_len>>
    BY <2>1 DEF vars, hvars, bodyVars, engineVars
  <2>2. ASSUME CallNoMemory PROVE UNCHANGED <<strm, wrap, item, inf_state, dict_len>>
    BY <2>2 DEF CallNoMemory, hvars, bodyVars, engineVars
  <2>3. ASSUME NEW n \in Nat, NEW r \in Nat, NEW fl \in {"no", "sync", "finish"}, Call(n, r, fl)
        PROVE  UNCHANGED <<strm, wrap, item, inf_state, dict_len>>
    BY <2>3 DEF Call, hvars, engineVars
  <2> QED BY <2>1, <2>2, <2>3, UserCalls
<1> QED BY <1>1, DetectedKept

LEMMA UsersRightNext ==
  ASSUME UsersInv, AnswersInv, UsersRight, [UsersNext]_usersVars, UsersInv'
  PROVE  UsersRight'
<1> USE DEF UsersRight
<1>1. CASE UNCHANGED usersVars
  <2>1. UNCHANGED <<vars, userVars>>
    BY <1>1 DEF usersVars
  <2>2. UNCHANGED <<strm, pc, rc, nin, avail_in, wrap, inf_state, dict_len, fault, total_out, avail_out,
                    flush, in0, out0, item, failed, is_final, used_in, used_out, trailer>>
    <3>1. UNCHANGED <<strm, pc, rc, nin, avail_in, fault, hvars, bodyVars>>
      BY <2>1 DEF vars
    <3>2. UNCHANGED <<wrap, inf_state, dict_len>>
      BY <3>1 DEF hvars
    <3>3. UNCHANGED <<total_out, avail_out, flush, in0, out0, used_in, used_out, engineVars>>
      BY <3>1 DEF bodyVars, callVars, fifoVars
    <3>4. UNCHANGED <<item, failed, is_final, trailer>>
      BY <3>3 DEF engineVars
    <3> QED BY <3>1, <3>2, <3>3, <3>4
  <2>3. UNCHANGED <<who, at, size, dest, left, room, last_total_out, result>>
    BY <2>1 DEF userVars
  <2>4. (who # "app" => Detected)'
    BY <2>2, <2>3, DetectedKept
  <2>5. UNCHANGED <<Whole, Spoiled, AtEnd, NothingLeft, AllDelivered, BothRanOut, FullBeforeEnd>>
    BY <2>2, <2>3 DEF Whole, Spoiled, AtEnd, NothingLeft, AllDelivered, BothRanOut, FullBeforeEnd
  <2>6. /\ Uncompressing' <=> Uncompressing
        /\ Uncompressed' <=> Uncompressed
        /\ UncompressRight' <=> UncompressRight
        /\ Goal' = Goal
    BY <2>2, <2>3, <2>5 DEF Uncompressing, Uncompressed, UncompressRight, Goal
  <2>7. /\ Gzreading' <=> Gzreading
        /\ GzreadOver' <=> GzreadOver
        /\ GzreadRight' <=> GzreadRight
    BY <2>2, <2>3, <2>5 DEF Gzreading, GzreadOver, GzreadRight
  <2>8. UncompressInv'
    BY <2>2, <2>3, <2>6 DEF UncompressInv
  <2>9. GzreadInv'
    BY <2>2, <2>3, <2>7 DEF GzreadInv, GzreadCalls
  <2> QED BY <2>4, <2>8, <2>9
<1>2. CASE AppStep
  <2>1. who = "app" /\ who' = "app"
    BY <1>2 DEF AppStep, ByApp, userVars
  <2> QED BY <2>1 DEF UncompressInv, GzreadInv
<1>3. CASE Inside
  <2>1. who' = who /\ (Library \/ Accelerator) /\ IInv
    BY <1>3 DEF Inside, UsersInv
  <2>2. who # "app" => Detected'
    BY <2>1, InsideDetected
  <2>3. UncompressInv'
    <3>1. CASE who = "uncompress"
      <4>1. Detected
        BY <3>1
      <4> QED BY <1>3, <3>1, <4>1, UncompressInside
    <3>2. CASE who # "uncompress"
      BY <2>1, <3>2 DEF UncompressInv
    <3> QED BY <3>1, <3>2
  <2>4. GzreadInv'
    <3>1. CASE who = "gzread"
      <4>1. Detected
        BY <3>1
      <4> QED BY <1>3, <3>1, <4>1, GzreadInside
    <3>2. CASE who # "gzread"
      BY <2>1, <3>2 DEF GzreadInv
    <3> QED BY <3>1, <3>2
  <2> QED BY <2>1, <2>2, <2>3, <2>4
<1>4. CASE UserStep
  <2>1. who' = who
    BY <1>4 DEF UserStep, Uncompress, UncompressCall, UncompressReturned, Gzread, GzreadCall,
                GzreadLast, GzreadReturned, GzreadAgain
  <2>2. who # "app" => Detected'
    BY <1>4, UserStepDetected
  <2>3. UncompressInv'
    <3>1. CASE who = "uncompress"
      BY <1>4, <3>1, UncompressUserStep
    <3>2. CASE who # "uncompress"
      BY <2>1, <3>2 DEF UncompressInv
    <3> QED BY <3>1, <3>2
  <2>4. GzreadInv'
    <3>1. CASE who = "gzread"
      BY <1>4, <3>1, GzreadUserStep
    <3>2. CASE who # "gzread"
      BY <2>1, <3>2 DEF GzreadInv
    <3> QED BY <3>1, <3>2
  <2> QED BY <2>1, <2>2, <2>3, <2>4
<1> QED BY <1>1, <1>2, <1>3, <1>4 DEF UsersNext

LEMMA UsersRightShows ==
  ASSUME UsersRight
  PROVE  UncompressRight /\ GzreadRight
<1>1. UncompressRight
  BY DEF UsersRight, UncompressInv, UncompressRight
<1>2. GzreadRight
  BY DEF UsersRight, GzreadInv, GzreadRight
<1> QED BY <1>1, <1>2

\* Every assumption above holds in every state of a user, as long as no header
\* checksum is interrupted and the headers of blocks fit.
LEMMA UsersAlwaysRight ==
  ASSUME CarefulHcrc, HeadersFit
  PROVE  UsersSpec => [](UncompressRight /\ GzreadRight)
<1>1. UsersInit => UsersInv /\ AnswersInv /\ UsersRight
  BY UsersInitInv, InitAnswers, UsersRightInit DEF UsersInit
<1>2. UsersInv /\ AnswersInv /\ UsersRight /\ [UsersNext]_usersVars =>
        UsersInv' /\ AnswersInv' /\ UsersRight'
  BY UsersNextInv, UsersAnswers, UsersRightNext
<1>3. UsersRight => UncompressRight /\ GzreadRight
  BY UsersRightShows
<1> QED BY <1>1, <1>2, <1>3, PTL DEF UsersSpec

-----------------------------------------------------------------------------
\* The invariant is inductive: it holds however the stream is cut into calls,
\* and also under the library's own users of nx_inflate.
THEOREM InductiveInvariant == Spec => []IInv
<1> QED BY InitInv, NextInv, PTL DEF Spec

THEOREM UsersInvariant == UsersSpec => []UsersInv
<1> QED BY UsersInitInv, UsersNextInv, PTL DEF UsersSpec

\* The variables of a stream keep their types and their bounds: nothing is taken
\* past the end of the file, nothing stored past the end of a fifo.
THEOREM TypeCorrect == (Spec => []TypeOK) /\ (UsersSpec => []TypeOK)
<1>1. UsersInv => IInv
  BY DEF UsersInv
<1> QED BY <1>1, InductiveInvariant, UsersInvariant, IInvTypeOK, PTL

\* nx_inflate_: every job that is submitted goes on at the very bit where the
\* items already decoded end, with the history that the next item may refer to.
THEOREM JobsResumed == (Spec => []JobsResume) /\ (UsersSpec => []JobsResume)
<1>1. UsersInv => IInv
  BY DEF UsersInv
<1> QED BY <1>1, InductiveInvariant, UsersInvariant, IInvJobsResume, PTL

\* inf_return and copy_fifo_out_to_next_out: the application has got the plain
\* data up to total_out, each byte once and in order.
THEOREM OutputIsRight == (Spec => []OutputRight) /\ (UsersSpec => []OutputRight)
<1>1. IInv => OutputRight
  BY DEF IInv
<1>2. UsersInv => IInv
  BY DEF UsersInv
<1> QED BY <1>1, <1>2, InductiveInvariant, UsersInvariant, PTL

\* nx_verify_trailer: Z_STREAM_END is answered at the end of the stream, all its
\* output delivered and not a byte taken of what follows.
THEOREM EndsAtEnd == (Spec => []EndIsEnd) /\ (UsersSpec => []EndIsEnd)
<1>1. UsersInv => IInv
  BY DEF UsersInv
<1> QED BY <1>1, InductiveInvariant, UsersInvariant, IInvEndIsEnd, PTL

\* nx_inflate blames the stream, or says that it lacks input or room, only when
\* that is so, if nothing calls it between the bytes of a header checksum and the
\* input that waits for the rest of a block's header can hold it.
THEOREM ErrorsAreTrue ==
  ASSUME CarefulHcrc, HeadersFit
  PROVE  (Spec => []NoFalseError) /\ (UsersSpec => []NoFalseError)
<1>1. Init => IInv /\ AnswersInv
  BY InitInv, InitAnswers
<1>2. IInv /\ AnswersInv /\ [Next]_vars => IInv' /\ AnswersInv'
  BY NextInv, NextAnswers
<1>3. UsersInit => UsersInv /\ AnswersInv
  BY UsersInitInv, InitAnswers DEF UsersInit
<1>4. UsersInv /\ AnswersInv /\ [UsersNext]_usersVars => UsersInv' /\ AnswersInv'
  BY UsersNextInv, UsersAnswers
<1>5. IInv /\ AnswersInv => NoFalseError
  BY AnswersRight
<1>6. UsersInv => IInv
  BY DEF UsersInv
<1>7. Spec => [](IInv /\ AnswersInv)
  BY <1>1, <1>2, PTL DEF Spec
<1>8. UsersSpec => [](UsersInv /\ AnswersInv)
  BY <1>3, <1>4, PTL DEF UsersSpec
<1> QED BY <1>5, <1>6, <1>7, <1>8, PTL

\* nx_uncompress2 answers Z_OK only for a whole and good stream that was delivered
\* to the last byte, and always for one with room to spare; no room is Z_BUF_ERROR.
\* The exceptions are the two that the property names, where both sides of a call
\* ran out at once, under the assumptions of ErrorsAreTrue.
THEOREM UncompressIsRight ==
  ASSUME CarefulHcrc, HeadersFit
  PROVE  UsersSpec => []UncompressRight
<1> QED BY UsersAlwaysRight, PTL

\* __gzread gives fewer bytes than it was asked for only at the end of a good
\* file, however few bytes of it are read at a time.
THEOREM GzreadIsRight ==
  ASSUME CarefulHcrc, HeadersFit
  PROVE  UsersSpec => []GzreadRight
<1> QED BY UsersAlwaysRight, PTL

=============================================================================
