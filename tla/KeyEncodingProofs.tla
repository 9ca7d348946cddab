------------------------- MODULE KeyEncodingProofs -------------------------
(***************************************************************************)
(* Proofs about the operators of KeyEncoding that all key spaces rest on,  *)
(* for keys of any length.                                                 *)
(*                                                                         *)
(*  - KeysAreOrdered: KeyLess is a strict total order.                     *)
(*  - NoneBetween: appending a zero byte gives the next key.               *)
(*  - SpanIsPrefix: the span of a prefix (PrefixEnd) holds the keys that   *)
(*    start with it and no other.                                          *)
(*  - NumbersDecode, NamesDecode: an encoded number or byte string is      *)
(*    decoded to itself, whatever follows it.                              *)
(*  - PathsDecode: so are the segments of a path, up to its end mark.      *)
(*                                                                         *)
(* The argument separates the two ways a key can be less than another: it  *)
(* is a proper prefix of it, or the two differ in a byte and the first     *)
(* such byte is less (Below). The second is kept when either key goes on,  *)
(* which the first is not. A decoder is a recursive function of the        *)
(* position; there is such a function because it only looks ahead.         *)
(***************************************************************************)
EXTENDS KeyEncoding, SequenceTheorems, WellFoundedInduction, TLAPS

-----------------------------------------------------------------------------
(* Numbers, bytes and sequences *)

\* A set of natural numbers has a least element.
LEMMA LeastNat ==
    ASSUME NEW T \in SUBSET Nat, T # {}
    PROVE  \E x \in T : \A y \in T : x <= y
<1> DEFINE Less == {p \in Nat \X Nat : p[1] < p[2]}
<1>1. IsWellFoundedOn(Less, Nat)
  BY NatLessThanWellFounded, Zenon DEF OpToRel
<1>2. PICK x \in T : \A y \in T : <<y, x>> \notin Less
  <2> HIDE DEF Less
  <2> QED
    BY <1>1, WFMin, Zenon
<1>3. ASSUME NEW y \in T PROVE x <= y
  <2>1. y < x => <<y, x>> \in Less
    OBVIOUS
  <2>2. ~(y < x)
    BY <1>2, <2>1
  <2> QED
    BY <2>2
<1> QED
  BY <1>3

\* Two sequences agree on their first n elements.
Agree(a, b, n) == \A i \in 1..n : a[i] = b[i]

\* The elements of a sequence.
LEMMA Elements ==
    ASSUME NEW S, NEW a \in Seq(S)
    PROVE  Len(a) \in Nat /\ \A i \in 1..Len(a) : a[i] \in S
  OBVIOUS

\* The bytes of a key.
LEMMA Bytes ==
    ASSUME NEW a \in Seq(Byte)
    PROVE  Len(a) \in Nat /\ \A i \in 1..Len(a) : a[i] \in 0..255
  BY Elements DEF Byte

\* The order of bytes, in the forms used below.
LEMMA ByteTotal == \A x, y \in 0..255 : x # y => x < y \/ y < x
  OBVIOUS

\* Irreflexive and asymmetric.
LEMMA ByteOrder ==
    \A x, y \in 0..255 : (x < y => x # y /\ ~(y < x)) /\ ~(x < x)
  OBVIOUS

\* There is no byte below 0, and none below another is 255.
LEMMA ByteBounds == \A x, y \in 0..255 : ~(x < 0) /\ (x < y => x < 255)
  OBVIOUS

\* A byte below 255 has a successor.
LEMMA ByteSuccessor ==
    \A x \in 0..255 : x < 255 => x + 1 \in 0..255 /\ x < x + 1
  OBVIOUS

\* It is not above a byte that is greater.
LEMMA ByteNext == \A x, y \in 0..255 : x < y => x + 1 < y \/ x + 1 = y
  OBVIOUS

\* Equal beginnings, element by element.
LEMMA SameBeginning ==
    ASSUME NEW S, NEW a \in Seq(S), NEW b \in Seq(S),
           NEW n \in Nat, n <= Len(a), n <= Len(b)
    PROVE  SubSeq(a, 1, n) = SubSeq(b, 1, n) <=> Agree(a, b, n)
<1>1. /\ Len(SubSeq(a, 1, n)) = n /\ Len(SubSeq(b, 1, n)) = n
      /\ \A i \in 1..n : SubSeq(a, 1, n)[i] = a[i] /\ SubSeq(b, 1, n)[i] = b[i]
      /\ SubSeq(a, 1, n) \in Seq(S) /\ SubSeq(b, 1, n) \in Seq(S)
  OBVIOUS
<1>2. ASSUME Agree(a, b, n) PROVE SubSeq(a, 1, n) = SubSeq(b, 1, n)
  BY <1>1, <1>2 DEF Agree
<1>3. ASSUME SubSeq(a, 1, n) = SubSeq(b, 1, n) PROVE Agree(a, b, n)
  BY <1>1, <1>3, Zenon DEF Agree
<1> QED
  BY <1>2, <1>3

\* A prefix, element by element.
LEMMA PrefixIff ==
    ASSUME NEW S, NEW a \in Seq(S), NEW b \in Seq(S)
    PROVE  IsPrefix(a, b) <=> Len(a) <= Len(b) /\ Agree(a, b, Len(a))
  BY SameBeginning DEF IsPrefix

\* a and b differ in a byte, and the first such byte is less in a: whatever follows,
\* a comes first.
Below(a, b) ==
    \E n \in Nat : /\ n < Len(a) /\ n < Len(b)
                   /\ Agree(a, b, n)
                   /\ a[n + 1] < b[n + 1]

\* bytes.Compare stops at the first difference or at the end of one key.
LEMMA LessIff ==
    ASSUME NEW a \in Seq(Byte), NEW b \in Seq(Byte)
    PROVE  KeyLess(a, b) <=> Below(a, b) \/ (IsPrefix(a, b) /\ Len(a) < Len(b))
<1>1. ASSUME KeyLess(a, b) PROVE Below(a, b) \/ (IsPrefix(a, b) /\ Len(a) < Len(b))
  <2>1. PICK n \in 0..Len(a) :
            /\ n < Len(b)
            /\ SubSeq(a, 1, n) = SubSeq(b, 1, n)
            /\ n < Len(a) => a[n + 1] < b[n + 1]
    BY <1>1 DEF KeyLess
  <2>2. Agree(a, b, n)
    BY <2>1, SameBeginning
  <2>3. CASE n < Len(a)
    BY <2>1, <2>2, <2>3 DEF Below
  <2>4. CASE n = Len(a)
    BY <2>1, <2>2, <2>4, PrefixIff
  <2> QED
    BY <2>3, <2>4
<1>2. ASSUME Below(a, b) PROVE KeyLess(a, b)
  <2>1. PICK n \in Nat : n < Len(a) /\ n < Len(b) /\ Agree(a, b, n) /\ a[n + 1] < b[n + 1]
    BY <1>2 DEF Below
  <2>2. SubSeq(a, 1, n) = SubSeq(b, 1, n)
    <3>1. n <= Len(a) /\ n <= Len(b)
      BY <2>1, Bytes
    <3> QED
      BY <2>1, <3>1, SameBeginning
  <2> QED
    BY <2>1, <2>2 DEF KeyLess
<1>3. ASSUME IsPrefix(a, b), Len(a) < Len(b) PROVE KeyLess(a, b)
  <2>1. SubSeq(a, 1, Len(a)) = SubSeq(b, 1, Len(a))
    BY <1>3 DEF IsPrefix
  <2> QED
    BY <1>3, <2>1 DEF KeyLess
<1> QED
  BY <1>1, <1>2, <1>3

\* Two sequences agree until one ends or they differ.
LEMMA FirstDifference ==
    ASSUME NEW S, NEW a \in Seq(S), NEW b \in Seq(S)
    PROVE  \E n \in Nat : /\ n <= Len(a) /\ n <= Len(b) /\ Agree(a, b, n)
                          /\ n = Len(a) \/ n = Len(b) \/ a[n + 1] # b[n + 1]
<1> DEFINE T == {n \in Nat : n = Len(a) \/ n = Len(b) \/ a[n + 1] # b[n + 1]}
<1>1. PICK n \in T : \A m \in T : n <= m
  <2>1. T \in SUBSET Nat /\ T # {}
    OBVIOUS
  <2> HIDE DEF T
  <2> QED
    BY <2>1, LeastNat, Zenon
<1>2. n <= Len(a) /\ n <= Len(b)
  <2>1. Len(a) \in T /\ Len(b) \in T
    OBVIOUS
  <2> QED
    BY <1>1, <2>1
<1>3. ASSUME NEW i \in 1..n PROVE a[i] = b[i]
  <2>1. i - 1 \in Nat /\ ~(n <= i - 1)
    OBVIOUS
  <2>2. i - 1 \notin T
    BY <1>1, <2>1
  <2> QED
    BY <2>1, <2>2
<1> QED
  BY <1>1, <1>2, <1>3 DEF Agree

\* Of two keys one comes first, or one is a prefix of the other.
LEMMA Comparable ==
    ASSUME NEW a \in Seq(Byte), NEW b \in Seq(Byte)
    PROVE  Below(a, b) \/ Below(b, a) \/ IsPrefix(a, b) \/ IsPrefix(b, a)
<1>1. PICK n \in Nat : /\ n <= Len(a) /\ n <= Len(b) /\ Agree(a, b, n)
                       /\ n = Len(a) \/ n = Len(b) \/ a[n + 1] # b[n + 1]
  BY FirstDifference
<1>2. Agree(b, a, n)
  BY <1>1 DEF Agree
<1>3. CASE n = Len(a)
  BY <1>1, <1>3, PrefixIff
<1>4. CASE n = Len(b)
  BY <1>1, <1>2, <1>4, PrefixIff
<1>5. CASE n < Len(a) /\ n < Len(b) /\ a[n + 1] # b[n + 1]
  <2>1. a[n + 1] \in 0..255 /\ b[n + 1] \in 0..255
    BY <1>5, Bytes
  <2>2. a[n + 1] < b[n + 1] \/ b[n + 1] < a[n + 1]
    BY <1>5, <2>1, ByteTotal, Zenon
  <2> QED
    BY <1>1, <1>2, <1>5, <2>2 DEF Below
<1> QED
  BY <1>1, <1>3, <1>4, <1>5

\* What comes first stays first when both keys go on.
LEMMA BelowExtends ==
    ASSUME NEW a \in Seq(Byte), NEW b \in Seq(Byte), NEW c \in Seq(Byte), NEW d \in Seq(Byte),
           Below(a, b), IsPrefix(a, c), IsPrefix(b, d)
    PROVE  Below(c, d)
<1>1. PICK n \in Nat : n < Len(a) /\ n < Len(b) /\ Agree(a, b, n) /\ a[n + 1] < b[n + 1]
  BY DEF Below
<1>2. Len(a) <= Len(c) /\ Agree(a, c, Len(a)) /\ Len(b) <= Len(d) /\ Agree(b, d, Len(b))
  BY PrefixIff
<1>3. c[n + 1] = a[n + 1] /\ d[n + 1] = b[n + 1] /\ Agree(c, d, n)
  BY <1>1, <1>2, Bytes DEF Agree
<1> QED
  BY <1>1, <1>2, <1>3 DEF Below

\* Then neither is a prefix of the other, and the other does not come first.
LEMMA BelowStrict ==
    ASSUME NEW a \in Seq(Byte), NEW b \in Seq(Byte), Below(a, b)
    PROVE  ~Below(b, a) /\ ~IsPrefix(a, b) /\ ~IsPrefix(b, a)
<1>1. PICK n \in Nat : n < Len(a) /\ n < Len(b) /\ Agree(a, b, n) /\ a[n + 1] < b[n + 1]
  BY DEF Below
<1>2. a[n + 1] \in 0..255 /\ b[n + 1] \in 0..255
  BY <1>1, Bytes, SMTT(30)
<1>3. a[n + 1] # b[n + 1] /\ ~(b[n + 1] < a[n + 1])
  BY <1>1, <1>2, ByteOrder, Zenon
<1>4. ~Agree(a, b, Len(a)) /\ ~Agree(b, a, Len(b))
  <2>1. n + 1 \in 1..Len(a) /\ n + 1 \in 1..Len(b)
    BY <1>1, Bytes
  <2> QED
    BY <1>3, <2>1, Zenon DEF Agree
<1>5. ASSUME NEW m \in Nat, m < Len(b), m < Len(a), Agree(b, a, m), b[m + 1] < a[m + 1]
      PROVE  FALSE
  <2>1. m + 1 \in 1..Len(a) /\ m + 1 \in 1..Len(b)
    BY <1>5, Bytes
  <2>2. b[m + 1] # a[m + 1]
    BY <1>5, <2>1, Bytes, ByteOrder, ZenonT(30)
  <2>3. CASE m < n
    <3>1. m + 1 \in 1..n
      BY <2>3
    <3> QED
      BY <1>1, <2>2, <3>1, Zenon DEF Agree
  <2>4. CASE n < m
    <3>1. n + 1 \in 1..m
      BY <2>4
    <3> QED
      BY <1>3, <1>5, <3>1, Zenon DEF Agree
  <2>5. CASE n = m
    BY <1>3, <1>5, <2>5, Zenon
  <2> QED
    BY <2>3, <2>4, <2>5
<1> QED
  BY <1>4, <1>5, PrefixIff, Zenon DEF Below

\* Prefixes are ordered.
LEMMA PrefixOrder ==
    ASSUME NEW S, NEW a \in Seq(S), NEW b \in Seq(S), NEW c \in Seq(S)
    PROVE  /\ IsPrefix(a, a)
           /\ IsPrefix(a, b) /\ Len(a) = Len(b) => a = b
           /\ IsPrefix(a, b) => Len(a) <= Len(b)
           /\ IsPrefix(a, b) /\ IsPrefix(b, c) => IsPrefix(a, c)
           /\ IsPrefix(a, c) /\ IsPrefix(b, c) => IsPrefix(a, b) \/ IsPrefix(b, a)
<1>1. IsPrefix(a, a)
  BY PrefixIff, Elements DEF Agree
<1>2. ASSUME IsPrefix(a, b), Len(a) = Len(b) PROVE a = b
  BY <1>2, PrefixIff, Elements DEF Agree
<1>3. ASSUME IsPrefix(a, b), IsPrefix(b, c) PROVE IsPrefix(a, c)
  <2>1. Len(a) <= Len(b) /\ Agree(a, b, Len(a)) /\ Len(b) <= Len(c) /\ Agree(b, c, Len(b))
    BY <1>3, PrefixIff
  <2>2. Len(a) <= Len(c) /\ Agree(a, c, Len(a))
    BY <2>1, Elements DEF Agree
  <2> QED
    BY <2>2, PrefixIff
<1>4. ASSUME IsPrefix(a, c), IsPrefix(b, c) PROVE IsPrefix(a, b) \/ IsPrefix(b, a)
  <2>1. Agree(a, c, Len(a)) /\ Agree(b, c, Len(b))
    BY <1>4, PrefixIff
  <2>2. Len(a) <= Len(b) => Agree(a, b, Len(a))
    BY <2>1, Elements DEF Agree
  <2>3. Len(b) <= Len(a) => Agree(b, a, Len(b))
    BY <2>1, Elements DEF Agree
  <2>4. Len(a) <= Len(b) \/ Len(b) <= Len(a)
    BY Elements
  <2> QED
    BY <2>2, <2>3, <2>4, PrefixIff
<1>5. IsPrefix(a, b) => Len(a) <= Len(b)
  BY PrefixIff
<1> QED
  BY <1>1, <1>2, <1>3, <1>4, <1>5

\* A concatenation starts with its first part.
LEMMA PrefixOfConcat ==
    ASSUME NEW S, NEW a \in Seq(S), NEW b \in Seq(S)
    PROVE  /\ a \o b \in Seq(S) /\ Len(a \o b) = Len(a) + Len(b)
           /\ IsPrefix(a, a \o b)
           /\ \A i \in 1..Len(b) : (a \o b)[Len(a) + i] = b[i]
<1>1. /\ a \o b \in Seq(S) /\ Len(a \o b) = Len(a) + Len(b)
      /\ \A i \in 1..Len(a) : (a \o b)[i] = a[i]
      /\ \A i \in 1..Len(b) : (a \o b)[Len(a) + i] = b[i]
      /\ Len(a) \in Nat /\ Len(b) \in Nat
  OBVIOUS
<1>2. Len(a) <= Len(a \o b) /\ Agree(a, a \o b, Len(a))
  BY <1>1 DEF Agree
<1> QED
  BY <1>1, <1>2, PrefixIff

-----------------------------------------------------------------------------
(* The order of keys *)

\* KeyLess is irreflexive.
LEMMA LessIrreflexive ==
    ASSUME NEW a \in Seq(Byte)
    PROVE  ~KeyLess(a, a)
<1>1. ~Below(a, a)
  BY BelowStrict
<1>2. ~(Len(a) < Len(a))
  BY Bytes
<1> QED
  BY <1>1, <1>2, LessIff, Zenon

\* A prefix of a key does not come after it.
LEMMA PrefixNotAfter ==
    ASSUME NEW p \in Seq(Byte), NEW k \in Seq(Byte), IsPrefix(p, k)
    PROVE  ~KeyLess(k, p)
<1>1. ~Below(k, p)
  BY BelowStrict
<1>2. ~(Len(k) < Len(p))
  BY PrefixIff, Bytes
<1> QED
  BY <1>1, <1>2, LessIff, Zenon

\* KeyLess is total.
LEMMA LessTotal ==
    ASSUME NEW a \in Seq(Byte), NEW b \in Seq(Byte), a # b
    PROVE  KeyLess(a, b) \/ KeyLess(b, a)
<1>1. CASE Below(a, b) \/ Below(b, a)
  BY <1>1, LessIff, Zenon
<1>2. CASE IsPrefix(a, b)
  <2>1. Len(a) < Len(b)
    BY <1>2, PrefixOrder, Bytes
  <2> QED
    BY <1>2, <2>1, LessIff
<1>3. CASE IsPrefix(b, a)
  <2>1. Len(b) < Len(a)
    BY <1>3, PrefixOrder, Bytes
  <2> QED
    BY <1>3, <2>1, LessIff
<1> QED
  BY <1>1, <1>2, <1>3, Comparable

\* The order of bytes is transitive.
LEMMA ByteTransitive == \A x, y, z \in 0..255 : x < y /\ y < z => x < z
  OBVIOUS

\* What comes first before what comes first comes first.
LEMMA BelowTransitive ==
    ASSUME NEW a \in Seq(Byte), NEW b \in Seq(Byte), NEW c \in Seq(Byte),
           Below(a, b), Below(b, c)
    PROVE  Below(a, c)
<1>1. PICK n \in Nat : n < Len(a) /\ n < Len(b) /\ Agree(a, b, n) /\ a[n + 1] < b[n + 1]
  BY DEF Below
<1>2. PICK m \in Nat : m < Len(b) /\ m < Len(c) /\ Agree(b, c, m) /\ b[m + 1] < c[m + 1]
  BY DEF Below
<1>3. CASE n < m
  <2>1. b[n + 1] = c[n + 1] /\ Agree(a, c, n) /\ n < Len(c)
    BY <1>1, <1>2, <1>3, Bytes DEF Agree
  <2> QED
    BY <1>1, <2>1, Zenon DEF Below
<1>4. CASE m < n
  <2>1. b[m + 1] = a[m + 1] /\ Agree(a, c, m) /\ m < Len(a)
    BY <1>1, <1>2, <1>4, Bytes DEF Agree
  <2> QED
    BY <1>2, <2>1, Zenon DEF Below
<1>5. CASE m = n
  <2>1. Agree(a, c, n)
    BY <1>1, <1>2, <1>5 DEF Agree
  <2>2. n + 1 \in 1..Len(a) /\ n + 1 \in 1..Len(b) /\ n + 1 \in 1..Len(c)
    BY <1>1, <1>2, <1>5, Bytes
  <2>3. a[n + 1] \in 0..255 /\ b[n + 1] \in 0..255 /\ c[n + 1] \in 0..255
    BY <2>2, Bytes, Zenon
  <2>4. a[n + 1] < c[n + 1]
    BY <1>1, <1>2, <1>5, <2>3, ByteTransitive, ZenonT(30)
  <2> QED
    BY <1>1, <1>2, <1>5, <2>1, <2>4, Zenon DEF Below
<1> QED
  BY <1>3, <1>4, <1>5

\* A prefix of what comes first comes first.
LEMMA PrefixBelow ==
    ASSUME NEW a \in Seq(Byte), NEW b \in Seq(Byte), NEW c \in Seq(Byte),
           IsPrefix(a, b), Below(b, c)
    PROVE  Below(a, c) \/ (IsPrefix(a, c) /\ Len(a) < Len(c))
<1>1. PICK n \in Nat : n < Len(b) /\ n < Len(c) /\ Agree(b, c, n) /\ b[n + 1] < c[n + 1]
  BY DEF Below
<1>2. Len(a) <= Len(b) /\ Agree(a, b, Len(a))
  BY PrefixIff
<1>3. CASE n < Len(a)
  <2>1. a[n + 1] = b[n + 1] /\ Agree(a, c, n)
    BY <1>1, <1>2, <1>3, Bytes DEF Agree
  <2> QED
    BY <1>1, <1>3, <2>1, Zenon DEF Below
<1>4. CASE Len(a) <= n
  <2>1. Agree(a, c, Len(a)) /\ Len(a) < Len(c)
    BY <1>1, <1>2, <1>4, Bytes DEF Agree
  <2>2. Len(a) <= Len(c)
    BY <2>1, Bytes
  <2> QED
    BY <2>1, <2>2, PrefixIff
<1> QED
  BY <1>3, <1>4, Bytes

\* KeyLess is transitive.
LEMMA LessTransitive ==
    ASSUME NEW a \in Seq(Byte), NEW b \in Seq(Byte), NEW c \in Seq(Byte),
           KeyLess(a, b), KeyLess(b, c)
    PROVE  KeyLess(a, c)
<1>1. CASE Below(a, b) /\ Below(b, c)
  BY <1>1, BelowTransitive, LessIff
<1>2. CASE Below(a, b) /\ IsPrefix(b, c)
  <2>1. Below(a, c)
    BY <1>2, BelowExtends, PrefixOrder
  <2> QED
    BY <2>1, LessIff
<1>3. CASE IsPrefix(a, b) /\ Below(b, c)
  BY <1>3, PrefixBelow, LessIff
<1>4. CASE IsPrefix(a, b) /\ IsPrefix(b, c) /\ Len(a) < Len(b) /\ Len(b) < Len(c)
  <2>1. IsPrefix(a, c)
    BY <1>4, PrefixOrder
  <2>2. Len(a) < Len(c)
    BY <1>4, Bytes
  <2> QED
    BY <2>1, <2>2, LessIff
<1> QED
  BY <1>1, <1>2, <1>3, <1>4, LessIff

\* The keys of the store are totally ordered by bytes.Compare, which every scan
\* and every range boundary relies on.
THEOREM KeysAreOrdered ==
    \A a, b, c \in Seq(Byte) :
        /\ ~KeyLess(a, a)
        /\ a # b => KeyLess(a, b) \/ KeyLess(b, a)
        /\ KeyLess(a, b) /\ KeyLess(b, c) => KeyLess(a, c)
  BY LessIrreflexive, LessTotal, LessTransitive, Zenon

\* There is no key between k and k followed by a zero byte (Key.Next), so a scan
\* that resumes there misses none.
THEOREM NoneBetween ==
    ASSUME NEW k \in Seq(Byte), NEW l \in Seq(Byte), KeyLess(k, l)
    PROVE  ~KeyLess(l, k \o <<0>>)
<1>1. <<0>> \in Seq(Byte) /\ Len(<<0>>) = 1
  BY DEF Byte
<1>2. PICK z \in Seq(Byte) : z = <<0>> /\ Len(z) = 1 /\ z[1] = 0
  BY <1>1
<1>3. PICK m \in Seq(Byte) : m = k \o z
  BY PrefixOfConcat
<1>4. Len(m) = Len(k) + 1 /\ IsPrefix(k, m) /\ m[Len(k) + 1] = 0
  <2>1. /\ Len(m) = Len(k) + Len(z) /\ IsPrefix(k, m)
        /\ \A i \in 1..Len(z) : m[Len(k) + i] = z[i]
    BY <1>3, PrefixOfConcat, Zenon
  <2>2. 1 \in 1..Len(z)
    BY <1>2
  <2> QED
    BY <1>2, <2>1, <2>2, Zenon
<1>5. SUFFICES ASSUME KeyLess(l, m) PROVE FALSE
  BY <1>2, <1>3
<1>6. CASE Below(k, l)
  <2>1. KeyLess(m, l)
    BY <1>6, <1>4, BelowExtends, PrefixOrder, LessIff
  <2> QED
    BY <1>5, <2>1, LessTransitive, LessIrreflexive
<1>7. CASE IsPrefix(k, l) /\ Len(k) < Len(l)
  <2>1. Agree(k, l, Len(k)) /\ Agree(k, m, Len(k))
    BY <1>4, <1>7, PrefixIff
  <2>2. ~(Len(l) < Len(m))
    BY <1>4, <1>7, Bytes
  <2>3. PICK n \in Nat : n < Len(l) /\ n < Len(m) /\ Agree(l, m, n) /\ l[n + 1] < m[n + 1]
    BY <1>5, <2>2, LessIff DEF Below
  <2>4. n + 1 \in 1..Len(l)
    BY <2>3, Bytes
  <2>5. l[n + 1] \in 0..255
    BY <2>4, Bytes, Zenon
  <2>6. ~(l[n + 1] < l[n + 1]) /\ ~(l[n + 1] < 0)
    BY <2>5, ByteOrder, ByteBounds, Zenon
  <2>7. n + 1 \in 1..Len(k) \/ n = Len(k)
    BY <1>4, <2>3, Bytes
  <2> QED
    BY <1>4, <2>1, <2>3, <2>6, <2>7, Zenon DEF Agree
<1> QED
  BY <1>6, <1>7, LessIff

-----------------------------------------------------------------------------
(* The span of a prefix *)

\* A prefix has a last byte that PrefixEnd can increase.
Ends(p) == \E j \in 1..Len(p) : p[j] < 255

\* The last such byte.
LastLow(p, i) == p[i] < 255 /\ \A j \in 1..Len(p) : p[j] < 255 => j <= i

\* It exists.
LEMMA LastLowExists ==
    ASSUME NEW p \in Seq(Byte), Ends(p)
    PROVE  \E i \in 1..Len(p) : LastLow(p, i)
<1> DEFINE T == {n \in Nat : n < Len(p) /\ p[Len(p) - n] < 255}
<1>1. PICK n \in T : \A m \in T : n <= m
  <2>1. PICK j \in 1..Len(p) : p[j] < 255
    BY DEF Ends
  <2>2. Len(p) - j \in Nat /\ Len(p) - j < Len(p) /\ Len(p) - (Len(p) - j) = j
    BY <2>1, Bytes
  <2>3. T \in SUBSET Nat /\ T # {}
    BY <2>1, <2>2
  <2> HIDE DEF T
  <2> QED
    BY <2>3, LeastNat, Zenon
<1>2. Len(p) - n \in 1..Len(p) /\ p[Len(p) - n] < 255
  BY <1>1, Bytes
<1>3. ASSUME NEW j \in 1..Len(p), p[j] < 255 PROVE j <= Len(p) - n
  <2>1. Len(p) - j \in Nat /\ Len(p) - j < Len(p) /\ Len(p) - (Len(p) - j) = j
    BY Bytes
  <2>2. Len(p) - j \in T
    BY <1>3, <2>1
  <2>3. n <= Len(p) - j
    BY <1>1, <2>2
  <2> QED
    BY <1>1, <2>3, Bytes
<1> QED
  BY <1>2, <1>3, Zenon DEF LastLow

\* What PrefixEnd returns.
LEMMA PrefixEndIs ==
    ASSUME NEW p \in Seq(Byte), Ends(p)
    PROVE  \E i \in 1..Len(p) :
              /\ LastLow(p, i)
              /\ PrefixEnd(p) \in Seq(Byte) /\ Len(PrefixEnd(p)) = i
              /\ Agree(p, PrefixEnd(p), i - 1)
              /\ PrefixEnd(p)[i] = p[i] + 1
<1> DEFINE low == {j \in 1..Len(p) : p[j] < 255}
           i == CHOOSE i \in low : \A j \in low : j <= i
<1>1. \E i0 \in low : \A j \in low : j <= i0
  BY LastLowExists DEF LastLow
<1>2. i \in low /\ \A j \in low : j <= i
  <2> HIDE DEF low
  <2> QED
    BY <1>1, Zenon
<1>3. low # {} /\ p # <<>>
  BY <1>2
<1>4. PrefixEnd(p) = SubSeq(p, 1, i - 1) \o <<p[i] + 1>>
  BY <1>3, Zenon DEF PrefixEnd
<1>5. i \in 1..Len(p) /\ LastLow(p, i)
  BY <1>2 DEF LastLow
<1> HIDE DEF i, low
<1>6. PICK k \in Nat : k = i - 1 /\ k < Len(p)
  BY <1>5, Bytes
<1>7. PICK q \in Seq(Byte) : q = SubSeq(p, 1, k)
  <2>1. \A j \in 1..k : p[j] \in Byte
    BY <1>6, Elements
  <2>2. SubSeq(p, 1, k) \in Seq(Byte)
    BY <1>6, <2>1, SubSeqProperties
  <2> QED
    BY <2>2
<1>8. Len(q) = k /\ Agree(p, q, k)
  BY <1>6, <1>7 DEF Agree
<1>9. p[i] + 1 \in Byte
  BY <1>5, Bytes, ByteSuccessor, Zenon DEF LastLow, Byte
<1>10. PICK z \in Seq(Byte) : z = <<p[i] + 1>> /\ Len(z) = 1 /\ z[1] = p[i] + 1
  <2>1. PICK y \in Byte : y = p[i] + 1
    BY <1>9
  <2>2. <<y>> \in Seq(Byte) /\ Len(<<y>>) = 1 /\ <<y>>[1] = y
    OBVIOUS
  <2> QED
    BY <2>1, <2>2, Zenon
<1>11. q \o z \in Seq(Byte) /\ Len(q \o z) = k + 1 /\ IsPrefix(q, q \o z)
       /\ (q \o z)[k + 1] = p[i] + 1
  <2>1. /\ q \o z \in Seq(Byte) /\ Len(q \o z) = Len(q) + Len(z) /\ IsPrefix(q, q \o z)
        /\ \A j \in 1..Len(z) : (q \o z)[Len(q) + j] = z[j]
    BY PrefixOfConcat, Zenon
  <2>2. 1 \in 1..Len(z)
    BY <1>10
  <2> QED
    BY <1>8, <1>10, <2>1, <2>2, Zenon
<1>12. Agree(p, q \o z, k)
  BY <1>8, <1>11, PrefixIff DEF Agree
<1>13. PrefixEnd(p) = q \o z /\ k + 1 = i /\ k = i - 1
  BY <1>4, <1>5, <1>6, <1>7, <1>10
<1> QED
  BY <1>5, <1>11, <1>12, <1>13

\* The keys of the span of a prefix are those that start with it, whatever bytes
\* of 255 the prefix ends in (PrefixEnd).
THEOREM SpanIsPrefix ==
    ASSUME NEW p \in Seq(Byte), Ends(p), NEW k \in Seq(Byte)
    PROVE  InSpan(k, p) <=> IsPrefix(p, k)
<1>1. PICK i \in 1..Len(p) :
              /\ LastLow(p, i)
              /\ PrefixEnd(p) \in Seq(Byte) /\ Len(PrefixEnd(p)) = i
              /\ Agree(p, PrefixEnd(p), i - 1)
              /\ PrefixEnd(p)[i] = p[i] + 1
  BY PrefixEndIs
<1>2. PICK q \in Seq(Byte) : q = PrefixEnd(p)
  BY <1>1
<1>3. Len(q) = i /\ Agree(p, q, i - 1) /\ q[i] = p[i] + 1
  BY <1>1, <1>2
<1>4. p[i] \in 0..255 /\ p[i] < 255 /\ Len(p) \in Nat /\ i - 1 \in Nat /\ (i - 1) + 1 = i
  BY <1>1, Bytes DEF LastLow
<1>5. ASSUME IsPrefix(p, k) PROVE KeyLess(k, q)
  <2>1. Len(p) <= Len(k) /\ Agree(p, k, Len(p))
    BY <1>5, PrefixIff
  <2>2. k[i] = p[i] /\ i - 1 < Len(k) /\ i - 1 < Len(q) /\ Agree(k, q, i - 1)
    BY <1>3, <1>4, <2>1, Bytes DEF Agree
  <2>4. k[i] < q[i]
    BY <1>3, <1>4, <2>2, ByteSuccessor, Zenon
  <2>3. Below(k, q)
    BY <1>4, <2>2, <2>4, Zenon DEF Below
  <2> QED
    BY <2>3, LessIff
<1>6. ASSUME ~KeyLess(k, p), KeyLess(k, q), Below(p, k) PROVE FALSE
  <2>1. PICK n \in Nat : n < Len(p) /\ n < Len(k) /\ Agree(p, k, n) /\ p[n + 1] < k[n + 1]
    BY <1>6 DEF Below
  <2>2. n + 1 \in 1..Len(p) /\ n + 1 \in 1..Len(k) /\ p[n + 1] \in 0..255 /\ k[n + 1] \in 0..255
    BY <2>1, Bytes
  <2>3. p[n + 1] < 255
    BY <2>1, <2>2, ByteBounds, Zenon
  <2>4. n + 1 <= i
    BY <1>1, <2>2, <2>3 DEF LastLow
  <2>5. CASE n + 1 < i
    <3>1. q[n + 1] = p[n + 1] /\ Agree(q, k, n) /\ n < Len(q)
      BY <1>3, <2>1, <2>2, <2>5 DEF Agree
    <3>2. Below(q, k)
      BY <2>1, <3>1, Zenon DEF Below
    <3> QED
      BY <1>6, <3>2, LessIff, LessTransitive, LessIrreflexive
  <2>6. CASE n + 1 = i
    <3>1. Agree(q, k, n) /\ n < Len(q) /\ q[n + 1] = p[n + 1] + 1
      BY <1>3, <2>1, <2>2, <2>6 DEF Agree
    <3>2. q[n + 1] < k[n + 1] \/ q[n + 1] = k[n + 1]
      BY <2>1, <2>2, <3>1, ByteNext, Zenon
    <3>3. CASE q[n + 1] < k[n + 1]
      <4>1. Below(q, k)
        BY <2>1, <3>1, <3>3, Zenon DEF Below
      <4> QED
        BY <1>6, <4>1, LessIff, LessTransitive, LessIrreflexive
    <3>4. CASE q[n + 1] = k[n + 1]
      <4>1. Agree(q, k, Len(q)) /\ Len(q) <= Len(k)
        BY <1>3, <2>2, <2>6, <3>1, <3>4, Bytes DEF Agree
      <4> QED
        BY <1>6, <4>1, PrefixIff, PrefixNotAfter
    <3> QED
      BY <3>2, <3>3, <3>4
  <2> QED
    BY <2>2, <2>4, <2>5, <2>6
<1>7. ASSUME ~KeyLess(k, p), KeyLess(k, q) PROVE IsPrefix(p, k)
  <2>1. ~Below(k, p) /\ ~Below(p, k)
    BY <1>6, <1>7, LessIff
  <2>2. CASE IsPrefix(k, p)
    <3>1. Len(k) = Len(p)
      BY <1>7, <2>2, LessIff, PrefixOrder, Bytes
    <3> QED
      BY <2>2, <3>1, PrefixOrder
  <2> QED
    BY <2>1, <2>2, Comparable
<1> QED
  BY <1>2, <1>5, <1>7, PrefixNotAfter DEF InSpan

-----------------------------------------------------------------------------
(* Concatenations *)

\* A set that holds the first number of an interval and with every number the
\* next holds the interval.
LEMMA UpTo ==
    ASSUME NEW n \in Nat, NEW S, 0 \in S, \A i \in 0..(n - 1) : i \in S => i + 1 \in S
    PROVE  \A i \in 0..n : i \in S
<1> DEFINE T == (0..n) \ S
<1> SUFFICES ASSUME T # {} PROVE FALSE
  OBVIOUS
<1>1. PICK x0 \in T : \A y0 \in T : x0 <= y0
  <2>1. T \in SUBSET Nat
    OBVIOUS
  <2> HIDE DEF T
  <2> QED
    BY <2>1, LeastNat, Zenon
<1>2. x0 # 0 /\ x0 \in 0..n
  OBVIOUS
<1>3. x0 - 1 \in 0..(n - 1) /\ x0 - 1 \notin T
  BY <1>1, <1>2
<1> QED
  BY <1>2, <1>3

\* The elements of a concatenation.
LEMMA ConcatElements ==
    ASSUME NEW a \in Seq(Byte), NEW b \in Seq(Byte)
    PROVE  /\ a \o b \in Seq(Byte) /\ Len(a \o b) = Len(a) + Len(b)
           /\ \A i \in 1..Len(a) : (a \o b)[i] = a[i]
           /\ \A i \in 1..Len(b) : (a \o b)[Len(a) + i] = b[i]
<1>1. /\ a \o b \in Seq(Byte) /\ Len(a \o b) = Len(a) + Len(b) /\ IsPrefix(a, a \o b)
      /\ \A i \in 1..Len(b) : (a \o b)[Len(a) + i] = b[i]
  BY PrefixOfConcat
<1>2. Agree(a, a \o b, Len(a))
  BY <1>1, PrefixIff, Zenon
<1> QED
  BY <1>1, <1>2, Zenon DEF Agree

\* What is first stays first behind a common beginning.
LEMMA BelowConcat ==
    ASSUME NEW c \in Seq(Byte), NEW a \in Seq(Byte), NEW b \in Seq(Byte), Below(a, b)
    PROVE  Below(c \o a, c \o b)
<1>1. PICK n \in Nat : n < Len(a) /\ n < Len(b) /\ Agree(a, b, n) /\ a[n + 1] < b[n + 1]
  BY DEF Below
<1>2. Len(a) \in Nat /\ Len(b) \in Nat /\ Len(c) \in Nat
  BY Bytes
<1> DEFINE ca == c \o a
           cb == c \o b
           m == Len(c) + n
<1>3. /\ Len(ca) = Len(c) + Len(a) /\ Len(cb) = Len(c) + Len(b)
      /\ \A i \in 1..Len(c) : ca[i] = c[i] /\ cb[i] = c[i]
      /\ \A i \in 1..Len(a) : ca[Len(c) + i] = a[i]
      /\ \A i \in 1..Len(b) : cb[Len(c) + i] = b[i]
  BY ConcatElements, Zenon
<1> HIDE DEF ca, cb
<1>4. /\ m \in Nat /\ m < Len(ca) /\ m < Len(cb) /\ m + 1 = Len(c) + (n + 1)
      /\ n + 1 \in 1..Len(a) /\ n + 1 \in 1..Len(b)
  BY <1>1, <1>2, <1>3
<1>5. Agree(ca, cb, m)
  <2> SUFFICES ASSUME NEW i \in 1..m PROVE ca[i] = cb[i]
    BY Zenon DEF Agree
  <2>1. CASE i \in 1..Len(c)
    BY <1>3, <2>1, Zenon
  <2>2. CASE i \notin 1..Len(c)
    <3>1. PICK j \in 1..n : i = Len(c) + j
      <4>1. i - Len(c) \in 1..n /\ i = Len(c) + (i - Len(c))
        BY <1>2, <2>2
      <4> QED
        BY <4>1
    <3>2. j \in 1..Len(a) /\ j \in 1..Len(b)
      BY <1>1, <1>2
    <3>3. a[j] = b[j]
      BY <1>1, Zenon DEF Agree
    <3> QED
      BY <1>3, <3>1, <3>2, <3>3, Zenon
  <2> QED
    BY <2>1, <2>2
<1> HIDE DEF m
<1>6. \A k : k = Len(c) + (n + 1) => ca[k] = a[n + 1] /\ cb[k] = b[n + 1]
  BY <1>3, <1>4, Zenon
<1>7. ca[m + 1] = a[n + 1] /\ cb[m + 1] = b[n + 1]
  BY <1>4, <1>6, Zenon
<1>8. Below(ca, cb)
  BY <1>1, <1>4, <1>5, <1>7, Zenon DEF Below
<1> QED
  BY <1>8 DEF ca, cb

\* A prefix stays one behind a common beginning.
LEMMA PrefixConcat ==
    ASSUME NEW c \in Seq(Byte), NEW a \in Seq(Byte), NEW b \in Seq(Byte), IsPrefix(a, b)
    PROVE  IsPrefix(c \o a, c \o b)
<1>1. Len(a) \in Nat /\ Len(b) \in Nat /\ Len(c) \in Nat
  BY Bytes
<1>2. Len(a) <= Len(b) /\ Agree(a, b, Len(a))
  BY PrefixIff, Zenon
<1> DEFINE ca == c \o a
           cb == c \o b
<1>3. /\ ca \in Seq(Byte) /\ cb \in Seq(Byte)
      /\ Len(ca) = Len(c) + Len(a) /\ Len(cb) = Len(c) + Len(b)
      /\ \A i \in 1..Len(c) : ca[i] = c[i] /\ cb[i] = c[i]
      /\ \A i \in 1..Len(a) : ca[Len(c) + i] = a[i]
      /\ \A i \in 1..Len(b) : cb[Len(c) + i] = b[i]
  BY ConcatElements, Zenon
<1> HIDE DEF ca, cb
<1>4. Agree(ca, cb, Len(c) + Len(a))
  <2> SUFFICES ASSUME NEW i \in 1..(Len(c) + Len(a)) PROVE ca[i] = cb[i]
    BY Zenon DEF Agree
  <2>1. CASE i \in 1..Len(c)
    BY <1>3, <2>1, Zenon
  <2>2. CASE i \notin 1..Len(c)
    <3>1. PICK j \in 1..Len(a) : i = Len(c) + j
      <4>1. i - Len(c) \in 1..Len(a) /\ i = Len(c) + (i - Len(c))
        BY <1>1, <2>2
      <4> QED
        BY <4>1
    <3>2. j \in 1..Len(b)
      BY <1>1, <1>2
    <3>3. a[j] = b[j]
      BY <1>2, Zenon DEF Agree
    <3> QED
      BY <1>3, <3>1, <3>2, <3>3, Zenon
  <2> QED
    BY <2>1, <2>2
<1>5. Len(ca) <= Len(cb)
  BY <1>1, <1>2, <1>3
<1>6. IsPrefix(ca, cb)
  BY <1>3, <1>4, <1>5, PrefixIff, Zenon
<1> QED
  BY <1>6 DEF ca, cb

\* The rest of a key from a position on.
LEMMA RestIs ==
    ASSUME NEW a \in Seq(Byte), NEW m \in 1..(Len(a) + 1)
    PROVE  /\ SubSeq(a, m, Len(a)) \in Seq(Byte)
           /\ Len(SubSeq(a, m, Len(a))) = Len(a) - m + 1
           /\ \A i \in 1..(Len(a) - m + 1) : SubSeq(a, m, Len(a))[i] = a[m + i - 1]
<1>1. Len(a) \in Nat
  BY Bytes
<1> QED
  BY <1>1, SubSeqProperties

-----------------------------------------------------------------------------
(* FlattenSeq *)

\* Concatenation, of which the proofs below only use the lemmas.
Cat(a, b) == a \o b

\* A concatenation of keys is a key that starts with the first of them.
LEMMA CatIs ==
    ASSUME NEW a \in Seq(Byte), NEW b \in Seq(Byte)
    PROVE  Cat(a, b) \in Seq(Byte) /\ IsPrefix(a, Cat(a, b)) /\ Cat(<<>>, b) = b
  BY PrefixOfConcat, ConcatEmptySeq, Zenon DEF Cat

\* f holds what the first parts of s make up, for the first k of them.
Parts(s, k, f) ==
    /\ f \in [0..k -> Seq(Byte)] /\ f[0] = <<>>
    /\ \A i \in 1..k : f[i] = Cat(f[i - 1], s[i])

\* Its values, one after the other.
LEMMA PartsAre ==
    ASSUME NEW s \in Seq(Seq(Byte)), NEW f, Parts(s, Len(s), f)
    PROVE  /\ \A i \in 0..Len(s) : f[i] \in Seq(Byte)
           /\ \A i \in 0..(Len(s) - 1) :
                 /\ i \in 0..Len(s) /\ i + 1 \in 0..Len(s) /\ s[i + 1] \in Seq(Byte)
                 /\ f[i + 1] = Cat(f[i], s[i + 1]) /\ IsPrefix(f[i], f[i + 1])
<1>1. Len(s) \in Nat /\ \A i \in 1..Len(s) : s[i] \in Seq(Byte)
  BY Elements
<1>2. \A i \in 0..Len(s) : f[i] \in Seq(Byte)
  BY DEF Parts
<1>3. ASSUME NEW i \in 0..(Len(s) - 1)
      PROVE  /\ i \in 0..Len(s) /\ i + 1 \in 0..Len(s) /\ s[i + 1] \in Seq(Byte)
             /\ f[i + 1] = Cat(f[i], s[i + 1]) /\ IsPrefix(f[i], f[i + 1])
  <2>1. PICK k \in 1..Len(s) : k = i + 1 /\ k - 1 = i /\ i \in 0..Len(s) /\ k \in 0..Len(s)
    BY <1>1
  <2>2. s[k] \in Seq(Byte) /\ f[k] = Cat(f[i], s[k]) /\ f[i] \in Seq(Byte)
    BY <1>1, <1>2, <2>1 DEF Parts
  <2>3. IsPrefix(f[i], f[k])
    BY <2>2, CatIs, Zenon
  <2> QED
    BY <2>1, <2>2, <2>3, Zenon
<1> QED
  BY <1>2, <1>3

\* Being a prefix is reflexive and transitive.
LEMMA BytePrefixes ==
    \A a, b, c \in Seq(Byte) :
        IsPrefix(a, a) /\ (IsPrefix(a, b) /\ IsPrefix(b, c) => IsPrefix(a, c))
  BY PrefixOrder

\* There is such a function.
LEMMA PartsExist ==
    ASSUME NEW s \in Seq(Seq(Byte))
    PROVE  \E f : Parts(s, Len(s), f)
<1>1. Len(s) \in Nat /\ \A i \in 1..Len(s) : s[i] \in Seq(Byte)
  BY Elements
<1> DEFINE S == {k \in 0..Len(s) : \E f : Parts(s, k, f)}
<1>2. 0 \in S
  <2>1. Parts(s, 0, [i \in 0..0 |-> <<>>])
    BY DEF Parts
  <2> QED
    BY <1>1, <2>1
<1>3. ASSUME NEW k \in 0..(Len(s) - 1), k \in S PROVE k + 1 \in S
  <2>1. PICK a : Parts(s, k, a)
    BY <1>3
  <2>2. s[k + 1] \in Seq(Byte) /\ a[k] \in Seq(Byte) /\ k + 1 \in 0..Len(s)
    BY <1>1, <2>1 DEF Parts
  <2> DEFINE b == [i \in 0..(k + 1) |-> IF i <= k THEN a[i] ELSE Cat(a[k], s[k + 1])]
  <2>3. Cat(a[k], s[k + 1]) \in Seq(Byte)
    BY <2>2, CatIs, Zenon
  <2>4. b \in [0..(k + 1) -> Seq(Byte)] /\ b[0] = <<>>
    BY <2>1, <2>3 DEF Parts
  <2>5. ASSUME NEW i \in 1..(k + 1) PROVE b[i] = Cat(b[i - 1], s[i])
    <3>1. CASE i \in 1..k
      BY <2>1, <3>1 DEF Parts
    <3>2. CASE i = k + 1
      BY <3>2
    <3> QED
      BY <3>1, <3>2
  <2> HIDE DEF b
  <2>6. Parts(s, k + 1, b)
    BY <2>4, <2>5, Zenon DEF Parts
  <2> QED
    BY <2>2, <2>6
<1>4. \A i \in 0..Len(s) : i \in S
  <2> HIDE DEF S
  <2> QED
    BY <1>1, <1>2, <1>3, UpTo
<1> QED
  BY <1>1, <1>4

\* FlattenSeq is the last of them.
LEMMA FlattenIs ==
    ASSUME NEW s \in Seq(Seq(Byte))
    PROVE  \E f : Parts(s, Len(s), f) /\ FlattenSeq(s) = f[Len(s)]
<1>1. Len(s) \in Nat /\ \A i \in 1..Len(s) : s[i] \in Seq(Byte)
  BY Elements
<1>2. PICK f : Parts(s, Len(s), f)
  BY PartsExist
<1> DEFINE Eq(h) == h = [n \in 0..Len(s) |-> IF n = 0 THEN <<>> ELSE Cat(h[n - 1], s[n])]
<1>3. Eq(f)
  BY <1>1, <1>2 DEF Parts
<1>4. PICK h : Eq(h) /\ FlattenSeq(s) = h[Len(s)]
  BY <1>3 DEF FlattenSeq, Cat
<1> DEFINE S == {i \in 0..Len(s) : h[i] = f[i]}
<1>5. 0 \in S
  BY <1>1, <1>3, <1>4
<1>6. ASSUME NEW i \in 0..(Len(s) - 1), i \in S PROVE i + 1 \in S
  <2>1. i + 1 \in 0..Len(s) /\ i + 1 # 0 /\ (i + 1) - 1 = i
    BY <1>1
  <2>2. h[i + 1] = Cat(h[i], s[i + 1]) /\ f[i + 1] = Cat(f[i], s[i + 1])
    BY <1>3, <1>4, <2>1
  <2> QED
    BY <1>6, <2>1, <2>2
<1>7. \A i \in 0..Len(s) : i \in S
  <2> HIDE DEF S
  <2> QED
    BY <1>1, <1>5, <1>6, UpTo
<1>8. h[Len(s)] = f[Len(s)]
  BY <1>1, <1>7
<1> QED
  BY <1>2, <1>4, <1>8

\* The first parts are a prefix of more parts.
LEMMA PartsPrefix ==
    ASSUME NEW s \in Seq(Seq(Byte)), NEW f, Parts(s, Len(s), f), NEW n \in 0..Len(s)
    PROVE  IsPrefix(f[n], f[Len(s)])
<1>1. Len(s) \in Nat /\ \A i \in 1..Len(s) : s[i] \in Seq(Byte)
  BY Elements
<1>2. \A i \in 0..Len(s) : f[i] \in Seq(Byte)
  BY DEF Parts
<1> DEFINE S == {i \in 0..Len(s) : n <= i => IsPrefix(f[n], f[i])}
<1>3. 0 \in S
  <2>1. n <= 0 => n = 0
    OBVIOUS
  <2>2. IsPrefix(f[0], f[0])
    BY <1>1, <1>2, PrefixOrder
  <2> QED
    BY <1>1, <2>1, <2>2
<1>4. ASSUME NEW i \in 0..(Len(s) - 1), i \in S PROVE i + 1 \in S
  <2>1. i \in 0..Len(s) /\ i + 1 \in 0..Len(s) /\ IsPrefix(f[i], f[i + 1])
    BY PartsAre, Zenon
  <2>2. f[n] \in Seq(Byte) /\ f[i] \in Seq(Byte) /\ f[i + 1] \in Seq(Byte)
    BY <1>2, <2>1, Zenon
  <2>3. IsPrefix(f[i], f[i + 1]) /\ IsPrefix(f[i + 1], f[i + 1])
    BY <2>1, <2>2, BytePrefixes, Zenon
  <2>4. CASE n = i + 1
    BY <2>1, <2>3, <2>4
  <2>5. CASE n # i + 1 /\ n <= i + 1
    <3>1. IsPrefix(f[n], f[i])
      BY <1>4, <2>5
    <3>2. IsPrefix(f[n], f[i + 1])
      BY <2>2, <2>3, <3>1, BytePrefixes, Zenon
    <3> QED
      BY <2>1, <3>2
  <2>6. CASE ~(n <= i + 1)
    BY <2>1, <2>6
  <2> QED
    BY <2>4, <2>5, <2>6
<1>5. \A i \in 0..Len(s) : i \in S
  <2> HIDE DEF S
  <2> QED
    BY <1>1, <1>3, <1>4, UpTo
<1> QED
  BY <1>1, <1>5

\* Equal parts make up the same.
LEMMA PartsSame ==
    ASSUME NEW s \in Seq(Seq(Byte)), NEW t \in Seq(Seq(Byte)), NEW f, NEW g,
           Parts(s, Len(s), f), Parts(t, Len(t), g),
           NEW n \in Nat, n <= Len(s), n <= Len(t), Agree(s, t, n)
    PROVE  f[n] = g[n]
<1>1. Len(s) \in Nat /\ Len(t) \in Nat
  BY Elements
<1> DEFINE S == {i \in 0..n : f[i] = g[i]}
<1>2. 0 \in S
  BY DEF Parts
<1>3. ASSUME NEW i \in 0..(n - 1), i \in S PROVE i + 1 \in S
  <2>1. i + 1 \in 1..n /\ i + 1 \in 1..Len(s) /\ i + 1 \in 1..Len(t) /\ (i + 1) - 1 = i
    BY <1>1
  <2>2. f[i + 1] = Cat(f[i], s[i + 1]) /\ g[i + 1] = Cat(g[i], t[i + 1])
    BY <2>1 DEF Parts
  <2>3. s[i + 1] = t[i + 1]
    BY <2>1, Zenon DEF Agree
  <2> QED
    BY <1>3, <2>1, <2>2, <2>3
<1>4. \A i \in 0..n : i \in S
  <2> HIDE DEF S
  <2> QED
    BY <1>2, <1>3, UpTo
<1> QED
  BY <1>4

\* Sequences that go on differently after equal parts go on so flattened.
LEMMA FlattenSplit ==
    ASSUME NEW s \in Seq(Seq(Byte)), NEW t \in Seq(Seq(Byte)),
           NEW n \in Nat, n < Len(s), n < Len(t), Agree(s, t, n)
    PROVE  \E c \in Seq(Byte) :
              IsPrefix(c \o s[n + 1], FlattenSeq(s)) /\ IsPrefix(c \o t[n + 1], FlattenSeq(t))
<1>1. Len(s) \in Nat /\ Len(t) \in Nat
  BY Elements
<1>2. PICK f : Parts(s, Len(s), f) /\ FlattenSeq(s) = f[Len(s)]
  BY FlattenIs
<1>3. PICK g : Parts(t, Len(t), g) /\ FlattenSeq(t) = g[Len(t)]
  BY FlattenIs
<1>4. n + 1 \in 0..Len(s) /\ n + 1 \in 0..Len(t) /\ n <= Len(s) /\ n <= Len(t)
  BY <1>1
<1>5. f[n] = g[n]
  BY <1>2, <1>3, <1>4, PartsSame
<1>6. f[n + 1] = Cat(f[n], s[n + 1]) /\ g[n + 1] = Cat(g[n], t[n + 1]) /\ f[n] \in Seq(Byte)
  <2>1. n \in 0..(Len(s) - 1) /\ n \in 0..(Len(t) - 1)
    BY <1>1
  <2> QED
    BY <1>2, <1>3, <2>1, PartsAre, Zenon
<1>7. IsPrefix(f[n + 1], FlattenSeq(s)) /\ IsPrefix(g[n + 1], FlattenSeq(t))
  BY <1>2, <1>3, <1>4, PartsPrefix, Zenon
<1> QED
  BY <1>5, <1>6, <1>7, Zenon DEF Cat

\* A flattened sequence is a sequence, and more parts make it longer.
LEMMA FlattenPrefix ==
    ASSUME NEW s \in Seq(Seq(Byte)), NEW t \in Seq(Seq(Byte)), IsPrefix(s, t)
    PROVE  /\ FlattenSeq(s) \in Seq(Byte) /\ IsPrefix(FlattenSeq(s), FlattenSeq(t))
           /\ Len(s) < Len(t) => IsPrefix(FlattenSeq(s) \o t[Len(s) + 1], FlattenSeq(t))
<1>1. Len(s) \in Nat /\ Len(t) \in Nat
  BY Elements
<1>2. PICK f : Parts(s, Len(s), f) /\ FlattenSeq(s) = f[Len(s)]
  BY FlattenIs
<1>3. PICK g : Parts(t, Len(t), g) /\ FlattenSeq(t) = g[Len(t)]
  BY FlattenIs
<1>4. Len(s) <= Len(t) /\ Agree(s, t, Len(s))
  BY PrefixIff
<1>5. Len(s) \in 0..Len(t) /\ Len(s) <= Len(s)
  BY <1>1, <1>4
<1>6. f[Len(s)] = g[Len(s)]
  BY <1>1, <1>2, <1>3, <1>4, <1>5, PartsSame
<1>7. IsPrefix(FlattenSeq(s), FlattenSeq(t))
  BY <1>2, <1>3, <1>5, <1>6, PartsPrefix, Zenon
<1>8. FlattenSeq(s) \in Seq(Byte)
  <2>1. Len(s) \in 0..Len(s)
    BY <1>1
  <2>2. f[Len(s)] \in Seq(Byte)
    BY <1>2, <2>1, PartsAre, Zenon
  <2> QED
    BY <1>2, <2>2
<1>9. ASSUME Len(s) < Len(t) PROVE IsPrefix(FlattenSeq(s) \o t[Len(s) + 1], FlattenSeq(t))
  <2>1. Len(s) + 1 \in 0..Len(t) /\ g[Len(s) + 1] = Cat(g[Len(s)], t[Len(s) + 1])
    BY <1>1, <1>3, <1>9 DEF Parts
  <2>2. IsPrefix(g[Len(s) + 1], FlattenSeq(t))
    BY <1>3, <2>1, PartsPrefix, Zenon
  <2> QED
    BY <1>2, <1>6, <2>1, <2>2, Zenon DEF Cat
<1> QED
  BY <1>7, <1>8, <1>9

-----------------------------------------------------------------------------
(* Integers *)

\* The kinds of segments are numbers.
LEMMA SmallNumbers == 0 \in Number /\ 1 \in Number /\ 2 \in Number
  BY SMT DEF Number

\* Numbers are natural numbers.
LEMMA NumberIsNat == \A v \in Number : v \in Nat
  BY SMT DEF Number

\* The digits of a number to the base 256, the last one first.
Digit(v, k) == (v \div Place[k]) % 256

\* The weights of the bytes of a number.
LEMMA Places == Place[1] = 1 /\ Place[2] = 256 /\ Place[3] = 65536 /\ Place[4] = 16777216
  BY SMT DEF Place

\* Every digit is a byte.
LEMMA DigitIsByte == \A v \in Nat : \A k \in 1..4 : Digit(v, k) \in 0..255
<1> SUFFICES ASSUME NEW v \in Nat, NEW k \in 1..4 PROVE Digit(v, k) \in 0..255
  OBVIOUS
<1>1. k = 1 \/ k = 2 \/ k = 3 \/ k = 4
  OBVIOUS
<1>2. /\ Digit(v, 1) \in 0..255 /\ Digit(v, 2) \in 0..255
      /\ Digit(v, 3) \in 0..255 /\ Digit(v, 4) \in 0..255
  BY Places, SMT DEF Digit
<1> QED
  BY <1>1, <1>2, Zenon

\* The first digit that differs decides.
LEMMA DigitsBelow ==
    ASSUME NEW i \in Number, NEW j \in Number, i < j
    PROVE  \E k \in 1..4 : /\ Digit(i, k) < Digit(j, k)
                           /\ \A m \in 1..4 : m > k => Digit(i, m) = Digit(j, m)
<1>1. i \in Nat /\ j \in Nat /\ i <= 2147483647 /\ j <= 2147483647
  BY SMT DEF Number
<1>2. \/ Digit(i, 4) < Digit(j, 4)
      \/ Digit(i, 4) = Digit(j, 4) /\ Digit(i, 3) < Digit(j, 3)
      \/ Digit(i, 4) = Digit(j, 4) /\ Digit(i, 3) = Digit(j, 3) /\ Digit(i, 2) < Digit(j, 2)
      \/ /\ Digit(i, 4) = Digit(j, 4) /\ Digit(i, 3) = Digit(j, 3) /\ Digit(i, 2) = Digit(j, 2)
         /\ Digit(i, 1) < Digit(j, 1)
  BY <1>1, Places, SMT DEF Digit
<1>3. \A m \in 1..4 : /\ ~(m > 4) /\ (m > 3 => m = 4) /\ (m > 2 => m = 3 \/ m = 4)
                      /\ (m > 1 => m = 2 \/ m = 3 \/ m = 4)
  OBVIOUS
<1>4. 1 \in 1..4 /\ 2 \in 1..4 /\ 3 \in 1..4 /\ 4 \in 1..4
  OBVIOUS
<1> QED
  BY <1>2, <1>3, <1>4, Zenon

\* How many digits there are, and that those in front are 0.
LEMMA Widths ==
    ASSUME NEW v \in Nat
    PROVE  /\ Width(v) \in 1..4
           /\ v \in Number => \A m \in 1..4 : m > Width(v) => Digit(v, m) = 0
<1>1. Width(v) \in 1..4
  BY SMT DEF Width
<1>2. ASSUME v \in Number PROVE \A m \in 1..4 : m > Width(v) => Digit(v, m) = 0
  <2>1. /\ Width(v) <= 1 => Digit(v, 2) = 0
        /\ Width(v) <= 2 => Digit(v, 3) = 0
        /\ Width(v) <= 3 => Digit(v, 4) = 0
    BY Places, SMT DEF Width, Digit
  <2>2. \A m \in 1..4 : m > Width(v) => \/ m = 2 /\ Width(v) <= 1
                                        \/ m = 3 /\ Width(v) <= 2
                                        \/ m = 4 /\ Width(v) <= 3
    BY <1>1
  <2> QED
    BY <2>1, <2>2, Zenon
<1> QED
  BY <1>1, <1>2

\* A greater number is not narrower.
LEMMA WidthGrows ==
    ASSUME NEW i \in Nat, NEW j \in Nat, i < j
    PROVE  Width(i) <= Width(j)
  BY Places, SMT DEF Width

\* The bytes of a number.
LEMMA BigEndianIs ==
    ASSUME NEW v \in Nat, NEW n \in 1..4
    PROVE  /\ BigEndian(v, n) \in Seq(Byte) /\ Len(BigEndian(v, n)) = n
           /\ \A k \in 1..n : n - k + 1 \in 1..4 /\ BigEndian(v, n)[k] = Digit(v, n - k + 1)
<1>1. \A k \in 1..n : n - k + 1 \in 1..4
  OBVIOUS
<1> DEFINE d == [k \in 1..n |-> Digit(v, n - k + 1)]
<1>2. BigEndian(v, n) = d
  BY Zenon DEF BigEndian, Digit
<1>3. \A k \in 1..n : d[k] = Digit(v, n - k + 1) /\ d[k] \in 0..255
  BY <1>1, DigitIsByte, Zenon
<1>4. d \in Seq(Byte) /\ Len(d) = n
  BY <1>3 DEF Byte
<1> QED
  BY <1>1, <1>2, <1>3, <1>4, Zenon

\* Among numbers of one width, the bytes of the lesser are below.
LEMMA BigEndianBelow ==
    ASSUME NEW i \in Number, NEW j \in Number, i < j, Width(i) = Width(j)
    PROVE  Below(BigEndian(i, Width(i)), BigEndian(j, Width(j)))
<1>1. i \in Nat /\ j \in Nat
  BY SMT DEF Number
<1>2. PICK w \in 1..4 : w = Width(i) /\ w = Width(j)
  BY <1>1, Widths, Zenon
<1>3. PICK k \in 1..4 : /\ Digit(i, k) < Digit(j, k)
                        /\ \A m \in 1..4 : m > k => Digit(i, m) = Digit(j, m)
  BY DigitsBelow, Zenon
<1>4. k <= w
  <2> SUFFICES ASSUME k > w PROVE FALSE
    OBVIOUS
  <2>1. Digit(i, k) = 0 /\ Digit(j, k) = 0
    BY <1>1, <1>2, Widths, Zenon
  <2> QED
    BY <1>3, <2>1
<1> DEFINE a == BigEndian(i, w)
           b == BigEndian(j, w)
<1>5. /\ Len(a) = w /\ Len(b) = w
      /\ \A m \in 1..w : w - m + 1 \in 1..4 /\ a[m] = Digit(i, w - m + 1) /\ b[m] = Digit(j, w - m + 1)
  BY <1>1, BigEndianIs, Zenon
<1> HIDE DEF a, b
<1>6. PICK n \in Nat : n < w /\ n = w - k /\ w - (n + 1) + 1 = k /\ n + 1 \in 1..w
  BY <1>4
<1>7. Agree(a, b, n)
  <2> SUFFICES ASSUME NEW m \in 1..n PROVE a[m] = b[m]
    BY Zenon DEF Agree
  <2>1. m \in 1..w /\ w - m + 1 > k
    BY <1>6
  <2> QED
    BY <1>3, <1>5, <2>1, Zenon
<1>8. a[n + 1] < b[n + 1]
  <2>1. a[n + 1] = Digit(i, w - (n + 1) + 1) /\ b[n + 1] = Digit(j, w - (n + 1) + 1)
    BY <1>5, <1>6, Zenon
  <2> QED
    BY <1>3, <1>6, <2>1, Zenon
<1>9. Below(a, b)
  BY <1>5, <1>6, <1>7, <1>8, Zenon DEF Below
<1> QED
  BY <1>2, <1>9 DEF a, b

\* The encoding of a number: its first byte tells its width.
LEMMA UvarintIs ==
    ASSUME NEW v \in Nat
    PROVE  /\ EncodeUvarintAscending(v) \in Seq(Byte)
           /\ Len(EncodeUvarintAscending(v)) \in 1..5
           /\ EncodeUvarintAscending(v)[1] = IF v <= 109 THEN 136 + v ELSE 245 + Width(v)
           /\ v <= 109 => Len(EncodeUvarintAscending(v)) = 1
<1> DEFINE e == EncodeUvarintAscending(v)
<1>1. CASE v <= 109
  <2>1. e = <<136 + v>>
    BY <1>1 DEF EncodeUvarintAscending, intSmall, intZero
  <2>2. 136 + v \in Byte
    BY <1>1 DEF Byte
  <2> QED
    BY <1>1, <2>1, <2>2
<1>2. CASE ~(v <= 109)
  <2>1. PICK w \in 1..4 : w = Width(v)
    BY Widths, Zenon
  <2>2. e = <<245 + w>> \o BigEndian(v, w)
    BY <1>2, <2>1 DEF EncodeUvarintAscending, intSmall, intZero
  <2>3. BigEndian(v, w) \in Seq(Byte) /\ Len(BigEndian(v, w)) = w
    BY BigEndianIs, Zenon
  <2> DEFINE h == <<245 + w>>
             b == BigEndian(v, w)
  <2>4. h \in Seq(Byte) /\ Len(h) = 1 /\ h[1] = 245 + w
    BY DEF Byte
  <2>5. h \in Seq(Byte) /\ b \in Seq(Byte) /\ Len(b) = w /\ e = h \o b
    BY <2>2, <2>3, <2>4
  <2> HIDE DEF e, h, b
  <2>6. /\ h \o b \in Seq(Byte) /\ Len(h \o b) = Len(h) + Len(b)
        /\ \A k \in 1..Len(h) : (h \o b)[k] = h[k]
    BY <2>5, ConcatElements, Zenon
  <2>7. e \in Seq(Byte) /\ Len(e) = Len(h) + Len(b) /\ \A k \in 1..Len(h) : e[k] = h[k]
    BY <2>5, <2>6, Zenon
  <2>8. Len(e) \in 1..5
    BY <2>4, <2>5, <2>7
  <2>9. e[1] = 245 + Width(v)
    BY <2>1, <2>4, <2>7
  <2> QED
    BY <1>2, <2>7, <2>8, <2>9 DEF e
<1> QED
  BY <1>1, <1>2

\* A smaller first byte is first.
LEMMA FirstByteBelow ==
    ASSUME NEW a \in Seq(Byte), NEW b \in Seq(Byte), Len(a) > 0, Len(b) > 0, a[1] < b[1]
    PROVE  Below(a, b)
<1>1. Agree(a, b, 0) /\ 0 \in Nat /\ 0 < Len(a) /\ 0 < Len(b) /\ a[0 + 1] < b[0 + 1]
  BY Bytes DEF Agree
<1> QED
  BY <1>1, Zenon DEF Below

\* Encoding keeps the order of numbers.
LEMMA UvarintBelow ==
    ASSUME NEW i \in Number, NEW j \in Number, i < j
    PROVE  Below(EncodeUvarintAscending(i), EncodeUvarintAscending(j))
<1>1. i \in Nat /\ j \in Nat
  BY SMT DEF Number
<1> DEFINE a == EncodeUvarintAscending(i)
           b == EncodeUvarintAscending(j)
<1>2. /\ a \in Seq(Byte) /\ Len(a) \in 1..5 /\ a[1] = IF i <= 109 THEN 136 + i ELSE 245 + Width(i)
      /\ b \in Seq(Byte) /\ Len(b) \in 1..5 /\ b[1] = IF j <= 109 THEN 136 + j ELSE 245 + Width(j)
  BY <1>1, UvarintIs, Zenon
<1>3. /\ Width(i) \in 1..4 /\ Width(j) \in 1..4 /\ Width(i) <= Width(j)
  BY <1>1, Widths, WidthGrows, Zenon
<1>4. CASE i > 109 /\ j > 109 /\ Width(i) = Width(j)
  <2> DEFINE h == <<245 + Width(i)>>
  <2>1. a = h \o BigEndian(i, Width(i)) /\ b = h \o BigEndian(j, Width(j))
    BY <1>1, <1>4 DEF EncodeUvarintAscending, intSmall, intZero
  <2>2. h \in Seq(Byte)
    BY <1>3 DEF Byte
  <2> HIDE DEF a, b, h
  <2>3. BigEndian(i, Width(i)) \in Seq(Byte) /\ BigEndian(j, Width(j)) \in Seq(Byte)
    BY <1>1, <1>3, BigEndianIs, Zenon
  <2>4. Below(BigEndian(i, Width(i)), BigEndian(j, Width(j)))
    BY <1>4, BigEndianBelow, Zenon
  <2>5. Below(a, b)
    BY <2>1, <2>2, <2>3, <2>4, BelowConcat, Zenon
  <2> QED
    BY <2>5 DEF a, b
<1>5. CASE ~(i > 109 /\ j > 109 /\ Width(i) = Width(j))
  <2> HIDE DEF a, b
  <2>1. a[1] < b[1] /\ Len(a) > 0 /\ Len(b) > 0
    BY <1>1, <1>2, <1>3, <1>5
  <2>2. Below(a, b)
    BY <1>2, <2>1, FirstByteBelow, Zenon
  <2> QED
    BY <2>2 DEF a, b
<1> QED
  BY <1>4, <1>5

-----------------------------------------------------------------------------
(* Byte strings *)

\* A byte as EncodeBytesAscending writes it, and the parts it writes.
Esc(c) == IF c = 0 THEN <<0, 255>> ELSE <<c>>
Escaped(data) == [i \in 1..Len(data) |-> Esc(data[i])]

\* What stands before and behind an encoded name.
Marker == <<bytesMarker>>
Terminator == <<0, 1>>

\* An escaped byte is a byte string that starts with the byte.
LEMMA EscIs ==
    \A c \in 0..255 : Esc(c) \in Seq(Byte) /\ Len(Esc(c)) > 0 /\ Esc(c)[1] = c
<1> SUFFICES ASSUME NEW c \in 0..255
             PROVE  Esc(c) \in Seq(Byte) /\ Len(Esc(c)) > 0 /\ Esc(c)[1] = c
  OBVIOUS
<1>1. CASE c = 0
  BY <1>1 DEF Esc, Byte
<1>2. CASE c # 0
  BY <1>2 DEF Esc, Byte
<1> QED
  BY <1>1, <1>2

\* Concatenation is associative.
LEMMA CatAssociative ==
    ASSUME NEW a \in Seq(Byte), NEW b \in Seq(Byte), NEW c \in Seq(Byte)
    PROVE  Cat(Cat(a, b), c) = Cat(a, Cat(b, c))
  BY ConcatAssociative, SMT DEF Cat

\* What surrounds a name are keys.
LEMMA MarksAre == Marker \in Seq(Byte) /\ Terminator \in Seq(Byte)
  BY DEF Marker, Terminator, bytesMarker, Byte

\* An escaped byte keeps its order, and the terminator is before every one.
LEMMA EscBelow ==
    \A c, d \in 0..255 : c < d => Below(Esc(c), Esc(d))
  BY EscIs, FirstByteBelow

\* The terminator is below every escaped byte, a zero byte's too.
LEMMA TerminatorBelow == \A c \in 0..255 : Below(Terminator, Esc(c))
<1> SUFFICES ASSUME NEW c \in 0..255 PROVE Below(Terminator, Esc(c))
  OBVIOUS
<1>1. Terminator \in Seq(Byte) /\ Len(Terminator) = 2 /\ Terminator[1] = 0 /\ Terminator[2] = 1
  BY DEF Terminator, Byte
<1>2. CASE c = 0
  <2>1. Len(Esc(c)) = 2 /\ Esc(c)[1] = 0 /\ Esc(c)[2] = 255
    BY <1>2 DEF Esc
  <2>2. 1 \in Nat /\ 1 < Len(Terminator) /\ 1 < Len(Esc(c)) /\ Terminator[1 + 1] < Esc(c)[1 + 1]
    BY <1>1, <2>1
  <2>3. Agree(Terminator, Esc(c), 1)
    BY <1>1, <2>1 DEF Agree
  <2> QED
    BY <2>2, <2>3, Zenon DEF Below
<1>3. CASE c # 0
  <2>1. Esc(c) \in Seq(Byte) /\ Len(Esc(c)) > 0 /\ Esc(c)[1] = c
    BY EscIs
  <2>2. Len(Terminator) > 0 /\ Terminator[1] < Esc(c)[1]
    BY <1>1, <1>3, <2>1
  <2> QED
    BY <1>1, <2>1, <2>2, FirstByteBelow
<1> QED
  BY <1>2, <1>3

\* The parts of a name, byte by byte.
LEMMA EscapedIs ==
    ASSUME NEW data \in Seq(Byte)
    PROVE  /\ Escaped(data) \in Seq(Seq(Byte)) /\ Len(Escaped(data)) = Len(data)
           /\ \A i \in 1..Len(data) : Escaped(data)[i] = Esc(data[i])
<1>1. Len(data) \in Nat /\ \A i \in 1..Len(data) : data[i] \in 0..255
  BY Bytes
<1>2. \A i \in 1..Len(data) : Esc(data[i]) \in Seq(Byte)
  BY <1>1, EscIs
<1> QED
  BY <1>1, <1>2 DEF Escaped

\* An encoded name is its marker, its escaped bytes and its terminator.
LEMMA BytesAre ==
    ASSUME NEW data \in Seq(Byte)
    PROVE  /\ FlattenSeq(Escaped(data)) \in Seq(Byte)
           /\ Marker \o FlattenSeq(Escaped(data)) \in Seq(Byte)
           /\ EncodeBytesAscending(data) = (Marker \o FlattenSeq(Escaped(data))) \o Terminator
           /\ EncodeBytesAscending(data) \in Seq(Byte)
           /\ IsPrefix(Marker \o FlattenSeq(Escaped(data)), EncodeBytesAscending(data))
<1>1. Escaped(data) \in Seq(Seq(Byte))
  BY EscapedIs
<1>2. IsPrefix(Escaped(data), Escaped(data))
  BY <1>1, PrefixOrder
<1>3. FlattenSeq(Escaped(data)) \in Seq(Byte)
  BY <1>1, <1>2, FlattenPrefix, Zenon
<1>4. EncodeBytesAscending(data) = (Marker \o FlattenSeq(Escaped(data))) \o Terminator
  BY Zenon DEF EncodeBytesAscending, Escaped, Esc, Marker, Terminator
<1>5. Marker \o FlattenSeq(Escaped(data)) \in Seq(Byte)
  BY <1>3, MarksAre, ConcatElements, Zenon
<1> DEFINE c == Marker \o FlattenSeq(Escaped(data))
<1>6. c \in Seq(Byte)
  BY <1>5
<1> HIDE DEF c
<1>7. c \o Terminator \in Seq(Byte) /\ IsPrefix(c, c \o Terminator)
  BY <1>6, MarksAre, PrefixOfConcat
<1> QED
  BY <1>3, <1>4, <1>5, <1>7, Zenon DEF c

\* Encoding keeps the order of byte strings, and none is a prefix of another.
LEMMA BytesBelow ==
    ASSUME NEW a \in Seq(Byte), NEW b \in Seq(Byte), KeyLess(a, b)
    PROVE  Below(EncodeBytesAscending(a), EncodeBytesAscending(b))
<1> DEFINE s == Escaped(a)
           t == Escaped(b)
           f == FlattenSeq(s)
           g == FlattenSeq(t)
           d == EncodeBytesAscending(a)
           e == EncodeBytesAscending(b)
<1>1. /\ s \in Seq(Seq(Byte)) /\ Len(s) = Len(a) /\ \A i \in 1..Len(a) : s[i] = Esc(a[i])
      /\ t \in Seq(Seq(Byte)) /\ Len(t) = Len(b) /\ \A i \in 1..Len(b) : t[i] = Esc(b[i])
  BY EscapedIs, Zenon
<1>2. /\ f \in Seq(Byte) /\ Marker \o f \in Seq(Byte) /\ d = (Marker \o f) \o Terminator
      /\ d \in Seq(Byte) /\ IsPrefix(Marker \o f, d)
      /\ g \in Seq(Byte) /\ Marker \o g \in Seq(Byte)
      /\ e \in Seq(Byte) /\ IsPrefix(Marker \o g, e)
  BY BytesAre, Zenon
<1>3. /\ Len(a) \in Nat /\ \A i \in 1..Len(a) : a[i] \in 0..255
      /\ Len(b) \in Nat /\ \A i \in 1..Len(b) : b[i] \in 0..255
  BY Bytes
<1> HIDE DEF s, t, d, e
<1>4. CASE Below(a, b)
  <2>1. PICK n \in Nat : n < Len(a) /\ n < Len(b) /\ Agree(a, b, n) /\ a[n + 1] < b[n + 1]
    BY <1>4 DEF Below
  <2>2. PICK m \in Nat : m = n + 1 /\ m \in 1..Len(a) /\ m \in 1..Len(b)
    BY <1>3, <2>1
  <2>3. /\ s[m] = Esc(a[m]) /\ t[m] = Esc(b[m]) /\ a[m] \in 0..255 /\ b[m] \in 0..255
        /\ a[m] < b[m]
    BY <1>1, <1>3, <2>1, <2>2, Zenon
  <2>4. Below(s[m], t[m]) /\ s[m] \in Seq(Byte) /\ t[m] \in Seq(Byte)
    BY <2>3, EscBelow, EscIs, Zenon
  <2>5. Agree(s, t, n)
    <3> SUFFICES ASSUME NEW i \in 1..n PROVE s[i] = t[i]
      BY Zenon DEF Agree
    <3>1. i \in 1..Len(a) /\ i \in 1..Len(b)
      BY <1>3, <2>1
    <3>2. a[i] = b[i]
      BY <2>1, Zenon DEF Agree
    <3> QED
      BY <1>1, <3>1, <3>2, Zenon
  <2>6. n < Len(s) /\ n < Len(t)
    BY <1>1, <2>1
  <2>7. PICK c \in Seq(Byte) : IsPrefix(c \o s[n + 1], f) /\ IsPrefix(c \o t[n + 1], g)
    BY <1>1, <2>5, <2>6, FlattenSplit, Zenon
  <2> HIDE DEF f, g
  <2>8. IsPrefix(c \o s[m], f) /\ IsPrefix(c \o t[m], g)
    BY <2>2, <2>7, Zenon
  <2>9. Below(c \o s[m], c \o t[m]) /\ c \o s[m] \in Seq(Byte) /\ c \o t[m] \in Seq(Byte)
    BY <2>4, BelowConcat, ConcatElements, Zenon
  <2>10. Below(f, g)
    BY <1>2, <2>8, <2>9, BelowExtends, Zenon
  <2>11. Below(Marker \o f, Marker \o g)
    BY <1>2, <2>10, MarksAre, BelowConcat, Zenon
  <2>12. Below(d, e)
    BY <1>2, <2>11, BelowExtends, Zenon
  <2> QED
    BY <2>12 DEF d, e
<1>5. CASE IsPrefix(a, b) /\ Len(a) < Len(b)
  <2>1. PICK m \in 1..Len(b) : m = Len(s) + 1
    BY <1>1, <1>3, <1>5
  <2>2. t[m] = Esc(b[m]) /\ b[m] \in 0..255
    BY <1>1, <1>3, Zenon
  <2>3. t[m] \in Seq(Byte) /\ Below(Terminator, t[m])
    BY <2>2, EscIs, TerminatorBelow, Zenon
  <2>4. IsPrefix(s, t)
    <3>1. Len(a) <= Len(b) /\ Agree(a, b, Len(a))
      BY <1>5, PrefixIff
    <3>2. Agree(s, t, Len(s))
      <4> SUFFICES ASSUME NEW i \in 1..Len(a) PROVE s[i] = t[i]
        BY <1>1 DEF Agree
      <4>1. i \in 1..Len(b)
        BY <1>3, <3>1
      <4>2. a[i] = b[i]
        BY <3>1, Zenon DEF Agree
      <4> QED
        BY <1>1, <4>1, <4>2, Zenon
    <3>3. Len(s) <= Len(t)
      BY <1>1, <3>1
    <3> QED
      BY <1>1, <3>2, <3>3, PrefixIff
  <2>5. Len(s) < Len(t)
    BY <1>1, <1>5
  <2>6. IsPrefix(f \o t[Len(s) + 1], g)
    BY <1>1, <2>4, <2>5, FlattenPrefix, Zenon
  <2> HIDE DEF f, g
  <2>7. IsPrefix(f \o t[m], g) /\ f \o t[m] \in Seq(Byte)
    BY <1>2, <2>1, <2>3, <2>6, ConcatElements, Zenon
  <2>8. IsPrefix(Marker \o (f \o t[m]), Marker \o g)
    BY <1>2, <2>7, MarksAre, PrefixConcat, Zenon
  <2>9. (Marker \o f) \o t[m] = Marker \o (f \o t[m])
    <3>1. Marker \in Seq(Byte) /\ f \in Seq(Byte) /\ t[m] \in Seq(Byte)
      BY <1>2, <2>3, MarksAre
    <3>2. Cat(Cat(Marker, f), t[m]) = Cat(Marker, Cat(f, t[m]))
      BY <3>1, CatAssociative
    <3> QED
      BY <3>2, Zenon DEF Cat
  <2> DEFINE u == (Marker \o f) \o t[m]
  <2>10. Below(d, u)
    BY <1>2, <2>3, MarksAre, BelowConcat, Zenon
  <2>11. u \in Seq(Byte) /\ IsPrefix(u, Marker \o g)
    BY <1>2, <2>3, <2>8, <2>9, ConcatElements, Zenon
  <2> HIDE DEF u
  <2>12. IsPrefix(u, e) /\ IsPrefix(d, d)
    BY <1>2, <2>11, BytePrefixes, Zenon
  <2>13. d \in Seq(Byte) /\ e \in Seq(Byte)
    BY <1>2
  <2>14. Below(d, e)
    BY <2>10, <2>11, <2>12, <2>13, BelowExtends, Zenon
  <2> QED
    BY <2>14 DEF d, e
<1> QED
  BY <1>4, <1>5, LessIff, Zenon

-----------------------------------------------------------------------------
(* Decoding numbers *)

\* The elements of a concatenation.
LEMMA CatElements ==
    ASSUME NEW a \in Seq(Byte), NEW b \in Seq(Byte)
    PROVE  /\ Cat(a, b) \in Seq(Byte) /\ Len(Cat(a, b)) = Len(a) + Len(b)
           /\ \A i \in 1..Len(a) : Cat(a, b)[i] = a[i]
           /\ \A i \in 1..Len(b) : Cat(a, b)[Len(a) + i] = b[i]
  BY ConcatElements, Zenon DEF Cat

\* What is behind a beginning.
LEMMA RestOf ==
    ASSUME NEW a \in Seq(Byte), NEW b \in Seq(Byte)
    PROVE  SubSeq(Cat(a, b), Len(a) + 1, Len(Cat(a, b))) = b
<1> DEFINE c == Cat(a, b)
<1>1. /\ c \in Seq(Byte) /\ Len(c) = Len(a) + Len(b) /\ \A i \in 1..Len(b) : c[Len(a) + i] = b[i]
  BY ConcatElements, Zenon DEF Cat
<1>2. Len(a) \in Nat /\ Len(b) \in Nat
  BY Bytes
<1> HIDE DEF c
<1>3. PICK m \in 1..(Len(c) + 1) : m = Len(a) + 1 /\ Len(c) - m + 1 = Len(b)
  BY <1>1, <1>2
<1> DEFINE d == SubSeq(c, m, Len(c))
<1>4. d \in Seq(Byte) /\ Len(d) = Len(c) - m + 1 /\ \A i \in 1..(Len(c) - m + 1) : d[i] = c[m + i - 1]
  BY <1>1, RestIs, Zenon
<1> HIDE DEF d
<1>5. ASSUME NEW i \in 1..Len(b) PROVE d[i] = b[i]
  <2>1. m + i - 1 = Len(a) + i /\ i \in 1..(Len(c) - m + 1)
    BY <1>2, <1>3
  <2> QED
    BY <1>1, <1>4, <2>1, Zenon
<1>6. Len(d) = Len(b)
  BY <1>3, <1>4
<1>7. d = b
  BY <1>4, <1>5, <1>6, SeqEqual
<1> QED
  BY <1>3, <1>7 DEF c, d

\* What is behind the first byte.
LEMMA TailOf ==
    ASSUME NEW a \in Seq(Byte), NEW b \in Seq(Byte), Len(a) = 1
    PROVE  /\ Cat(a, b) \in Seq(Byte) /\ Cat(a, b) # <<>> /\ Cat(a, b)[1] = a[1]
           /\ Tail(Cat(a, b)) = b
<1> DEFINE c == Cat(a, b)
<1>1. c \in Seq(Byte) /\ Len(c) = Len(a) + Len(b) /\ \A i \in 1..Len(a) : c[i] = a[i]
  BY ConcatElements, Zenon DEF Cat
<1>2. Len(a) \in Nat /\ Len(b) \in Nat
  BY Bytes
<1>3. SubSeq(c, Len(a) + 1, Len(c)) = b
  BY RestOf, Zenon
<1> HIDE DEF c
<1>4. c # <<>> /\ c[1] = a[1] /\ Len(a) + 1 = 2
  BY <1>1, <1>2
<1>5. Tail(c) = SubSeq(c, 2, Len(c))
  BY <1>1, <1>4, TailIsSubSeq
<1> QED
  BY <1>1, <1>3, <1>4, <1>5 DEF c

\* A number is the sum of its digits.
LEMMA DigitSum ==
    ASSUME NEW v \in Number
    PROVE  /\ Width(v) = 1 => v = Digit(v, 1)
           /\ Width(v) = 2 => v = Digit(v, 2) * 256 + Digit(v, 1)
           /\ Width(v) = 3 => v = (Digit(v, 3) * 256 + Digit(v, 2)) * 256 + Digit(v, 1)
           /\ Width(v) = 4 => v = ((Digit(v, 4) * 256 + Digit(v, 3)) * 256 + Digit(v, 2)) * 256
                                  + Digit(v, 1)
<1>1. v \in Nat /\ v <= 2147483647
  BY SMT DEF Number
<1> QED
  BY <1>1, Places, SMT DEF Digit, Width

\* The loop that adds up the bytes of a number.
SumLoop(val, n, t) == val = [i \in 0..n |-> IF i = 0 THEN 0 ELSE val[i - 1] * 256 + t[i]]

\* It comes to an end.
LEMMA SumExists ==
    ASSUME NEW t, NEW n \in 1..4, \A i \in 1..n : t[i] \in Nat
    PROVE  \E val : SumLoop(val, n, t)
<1> DEFINE g == [i \in 0..n |->
                    IF i = 0 THEN 0 ELSE IF i = 1 THEN t[1] ELSE IF i = 2 THEN t[1] * 256 + t[2]
                    ELSE IF i = 3 THEN (t[1] * 256 + t[2]) * 256 + t[3]
                    ELSE ((t[1] * 256 + t[2]) * 256 + t[3]) * 256 + t[4]]
<1>1. ASSUME NEW i \in 0..n PROVE g[i] = IF i = 0 THEN 0 ELSE g[i - 1] * 256 + t[i]
  <2>1. i = 0 \/ i = 1 \/ i = 2 \/ i = 3 \/ i = 4
    OBVIOUS
  <2> QED
    BY <2>1
<1>2. SumLoop(g, n, t)
  <2> DEFINE k == [i \in 0..n |-> IF i = 0 THEN 0 ELSE g[i - 1] * 256 + t[i]]
  <2>1. g = [i \in 0..n |-> g[i]]
    OBVIOUS
  <2> HIDE DEF g
  <2>2. g = k
    BY <1>1, <2>1, Zenon
  <2> QED
    BY <2>2, Zenon DEF SumLoop
<1> QED
  BY <1>2

\* What it adds up to.
LEMMA SumIs ==
    ASSUME NEW t, NEW n \in 1..4, \A i \in 1..n : t[i] \in Nat, NEW val, SumLoop(val, n, t)
    PROVE  /\ n = 1 => val[n] = t[1]
           /\ n = 2 => val[n] = t[1] * 256 + t[2]
           /\ n = 3 => val[n] = (t[1] * 256 + t[2]) * 256 + t[3]
           /\ n = 4 => val[n] = ((t[1] * 256 + t[2]) * 256 + t[3]) * 256 + t[4]
<1>1. \A i \in 0..n : val[i] = IF i = 0 THEN 0 ELSE val[i - 1] * 256 + t[i]
  BY Zenon DEF SumLoop
<1>2. val[0] = 0 /\ val[1] = t[1]
  BY <1>1
<1>3. n >= 2 => val[2] = t[1] * 256 + t[2]
  BY <1>1, <1>2
<1>4. n >= 3 => val[3] = (t[1] * 256 + t[2]) * 256 + t[3]
  BY <1>1, <1>3
<1>5. n >= 4 => val[4] = ((t[1] * 256 + t[2]) * 256 + t[3]) * 256 + t[4]
  BY <1>1, <1>4
<1> QED
  BY <1>2, <1>3, <1>4, <1>5

\* The number of bytes a long number's first byte announces.
Announced(b) == b[1] - intZero - intSmall

\* DecodeUvarintAscending with the loop named.
LEMMA DecodeIs ==
    ASSUME NEW b, NEW w, SumLoop(w, Announced(b), Tail(b))
    PROVE  \E val : /\ SumLoop(val, Announced(b), Tail(b))
                    /\ DecodeUvarintAscending(b) =
                          IF b = <<>> THEN Failed
                          ELSE IF b[1] - intZero <= intSmall THEN Decoded(Tail(b), b[1] - intZero)
                          ELSE IF Announced(b) > 8 \/ Len(Tail(b)) < Announced(b) THEN Failed
                          ELSE Decoded(SubSeq(Tail(b), Announced(b) + 1, Len(Tail(b))),
                                       val[Announced(b)])
<1> DEFINE n == b[1] - intZero - intSmall
           t == Tail(b)
           c == CHOOSE val : val = [i \in 0..n |-> IF i = 0 THEN 0 ELSE val[i - 1] * 256 + t[i]]
<1>1. c = [i \in 0..n |-> IF i = 0 THEN 0 ELSE c[i - 1] * 256 + t[i]]
  BY ZenonT(30) DEF SumLoop, Announced
<1>2. DecodeUvarintAscending(b) =
          IF b = <<>> THEN Failed
          ELSE IF b[1] - intZero <= intSmall THEN Decoded(t, b[1] - intZero)
          ELSE IF n > 8 \/ Len(t) < n THEN Failed
          ELSE Decoded(SubSeq(t, n + 1, Len(t)), c[n])
  BY Zenon DEF DecodeUvarintAscending
<1> HIDE DEF c
<1> QED
  BY <1>1, <1>2, Zenon DEF SumLoop, Announced

\* DecodeUvarintAscending gives back a number EncodeUvarintAscending has written,
\* and leaves what follows it.
THEOREM NumbersDecode ==
    ASSUME NEW v \in Number, NEW r \in Seq(Byte)
    PROVE  DecodeUvarintAscending(Cat(EncodeUvarintAscending(v), r)) = Decoded(r, v)
<1> DEFINE b == Cat(EncodeUvarintAscending(v), r)
<1>1. v \in Nat /\ Len(r) \in Nat
  BY NumberIsNat, Bytes, Zenon
<1>2. CASE v <= 109
  <2> DEFINE e == <<136 + v>>
  <2>1. EncodeUvarintAscending(v) = e
    BY <1>2 DEF EncodeUvarintAscending, intSmall, intZero
  <2>2. e \in Seq(Byte) /\ Len(e) = 1 /\ e[1] = 136 + v
    BY <1>1, <1>2 DEF Byte
  <2>3. b = Cat(e, r)
    BY <2>1, Zenon
  <2> HIDE DEF e, b
  <2>4. b # <<>> /\ b[1] = e[1] /\ Tail(b) = r
    BY <2>2, <2>3, TailOf, Zenon
  <2>5. b[1] - intZero = v /\ v <= intSmall
    BY <1>1, <1>2, <2>2, <2>4 DEF intZero, intSmall
  <2>6. DecodeUvarintAscending(b) = Decoded(Tail(b), b[1] - intZero)
    BY <2>4, <2>5, Zenon DEF DecodeUvarintAscending
  <2> QED
    BY <2>4, <2>5, <2>6, Zenon DEF b
<1>3. CASE ~(v <= 109)
  <2>1. PICK w \in 1..4 : w = Width(v)
    BY <1>1, Widths, Zenon
  <2> DEFINE h == <<245 + w>>
             d == BigEndian(v, w)
             t == Cat(d, r)
  <2>2. EncodeUvarintAscending(v) = Cat(h, d)
    BY <1>3, <2>1 DEF EncodeUvarintAscending, intSmall, intZero, Cat
  <2>3. h \in Seq(Byte) /\ Len(h) = 1 /\ h[1] = 245 + w
    BY DEF Byte
  <2>4. /\ d \in Seq(Byte) /\ Len(d) = w
        /\ \A k \in 1..w : w - k + 1 \in 1..4 /\ d[k] = Digit(v, w - k + 1)
    BY <1>1, BigEndianIs, Zenon
  <2> HIDE DEF h, d
  <2>5. /\ t \in Seq(Byte) /\ Len(t) = Len(d) + Len(r)
        /\ \A k \in 1..Len(d) : t[k] = d[k]
    BY <2>4, ConcatElements, Zenon DEF Cat
  <2>6. SubSeq(t, Len(d) + 1, Len(t)) = r
    BY <2>4, RestOf, Zenon
  <2>7. b = Cat(h, t)
    <3>1. h \in Seq(Byte) /\ d \in Seq(Byte)
      BY <2>3, <2>4
    <3>2. b = Cat(Cat(h, d), r)
      BY <2>2, Zenon
    <3> HIDE DEF b
    <3> QED
      BY <3>1, <3>2, CatAssociative, Zenon
  <2> HIDE DEF t, b
  <2>8. b # <<>> /\ b[1] = h[1] /\ Tail(b) = t
    BY <2>3, <2>5, <2>7, TailOf, Zenon
  <2>9. /\ Announced(b) = w /\ ~(b[1] - intZero <= intSmall)
        /\ ~(w > 8 \/ Len(t) < w)
    BY <1>1, <2>3, <2>4, <2>5, <2>8 DEF intZero, intSmall, Announced
  <2>10. \A k \in 1..w : t[k] = Digit(v, w - k + 1) /\ w - k + 1 \in 1..4
    BY <2>4, <2>5
  <2>11. \A k \in 1..w : t[k] \in Nat
    <3>1. \A k \in 1..4 : Digit(v, k) \in Nat
      <4>1. \A k \in 1..4 : Digit(v, k) \in 0..255
        BY <1>1, DigitIsByte, Zenon
      <4>2. \A c \in 0..255 : c \in Nat
        OBVIOUS
      <4> QED
        BY <4>1, <4>2, Zenon
    <3> QED
      BY <2>10, <3>1, Zenon
  <2>12. \E f : SumLoop(f, w, t)
    BY <2>11, SumExists, Zenon
  <2>13. PICK val : /\ SumLoop(val, w, t)
                    /\ DecodeUvarintAscending(b) = Decoded(SubSeq(t, w + 1, Len(t)), val[w])
    BY <2>8, <2>9, <2>12, DecodeIs, Zenon
  <2>14. val[w] = v
    <3>1. w = 1 \/ w = 2 \/ w = 3 \/ w = 4
      OBVIOUS
    <3>2. /\ w = 1 => val[w] = t[1]
          /\ w = 2 => val[w] = t[1] * 256 + t[2]
          /\ w = 3 => val[w] = (t[1] * 256 + t[2]) * 256 + t[3]
          /\ w = 4 => val[w] = ((t[1] * 256 + t[2]) * 256 + t[3]) * 256 + t[4]
      BY <2>11, <2>13, SumIs
    <3>3. /\ w = 1 => t[1] = Digit(v, 1)
          /\ w = 2 => t[1] = Digit(v, 2) /\ t[2] = Digit(v, 1)
          /\ w = 3 => t[1] = Digit(v, 3) /\ t[2] = Digit(v, 2) /\ t[3] = Digit(v, 1)
          /\ w = 4 => t[1] = Digit(v, 4) /\ t[2] = Digit(v, 3) /\ t[3] = Digit(v, 2) /\ t[4] = Digit(v, 1)
      BY <2>10
    <3> QED
      BY <2>1, <3>1, <3>2, <3>3, DigitSum
  <2> QED
    BY <2>4, <2>6, <2>13, <2>14, Zenon DEF b
<1> QED
  BY <1>2, <1>3

-----------------------------------------------------------------------------
(* Decoding names *)

\* The loop of a decoder over positions lo to n: at a position it stops with a
\* result, or it puts an element in front of what it decodes from a later one.
Loop(h, lo, n, stop, base, el, next) ==
    h = [i \in lo..n |-> IF stop[i] THEN base[i] ELSE Prepended(el[i], h[next[i]])]

\* A loop that only goes forward comes to an end.
LEMMA LoopExists ==
    ASSUME NEW lo \in Nat, NEW n \in Nat, lo <= n,
           NEW stop, NEW base, NEW el, NEW next,
           \A i \in lo..n : ~stop[i] => next[i] \in (i + 1)..n
    PROVE  \E h : Loop(h, lo, n, stop, base, el, next)
<1> DEFINE Val(f, i) == IF stop[i] THEN base[i] ELSE Prepended(el[i], f[next[i]])
           S == {k \in 0..(n - lo) : \E f : f = [i \in (n - k)..n |-> Val(f, i)]}
           m == n - lo
<1>1. m \in Nat
  OBVIOUS
<1>2. 0 \in S
  <2> DEFINE f == [i \in (n - 0)..n |-> base[i]]
  <2>1. \A i \in (n - 0)..n : i = n /\ stop[i]
    OBVIOUS
  <2>2. f = [i \in (n - 0)..n |-> Val(f, i)]
    BY <2>1
  <2> QED
    BY <1>1, <2>2
<1>3. ASSUME NEW k \in 0..(m - 1), k \in S PROVE k + 1 \in S
  <2>1. PICK f : f = [i \in (n - k)..n |-> Val(f, i)]
    BY <1>3
  <2>2. PICK j \in lo..n : j = n - (k + 1) /\ j + 1 = n - k
    BY <1>1
  <2> DEFINE g == [i \in j..n |-> IF i = j THEN Val(f, j) ELSE f[i]]
  <2>3. ASSUME NEW i \in j..n PROVE g[i] = Val(g, i)
    <3>1. i \in lo..n /\ (~stop[i] => next[i] \in (j + 1)..n)
      OBVIOUS
    <3>2. ~stop[i] => g[next[i]] = f[next[i]]
      BY <3>1
    <3>3. Val(g, i) = Val(f, i)
      BY <3>2
    <3>4. i # j => f[i] = Val(f, i)
      BY <2>1, <2>2
    <3> QED
      BY <3>3, <3>4
  <2>4. g = [i \in j..n |-> Val(g, i)]
    <3> DEFINE q == [i \in j..n |-> Val(g, i)]
    <3>1. \A i \in j..n : q[i] = g[i]
      BY <2>3
    <3> QED
      BY <3>1
  <2>5. k + 1 \in 0..(n - lo)
    BY <1>1
  <2> HIDE DEF g
  <2> QED
    BY <2>2, <2>4, <2>5
<1>4. \A k \in 0..m : k \in S
  <2> HIDE DEF S, m
  <2> QED
    BY <1>1, <1>2, <1>3, UpTo
<1>5. m \in S /\ n - m = lo
  <2>1. m \in 0..m /\ n - m = lo
    BY <1>1
  <2> HIDE DEF S, m
  <2> QED
    BY <1>4, <2>1, Zenon
<1>6. PICK f : f = [i \in lo..n |-> Val(f, i)]
  BY <1>5
<1> QED
  BY <1>6, Zenon DEF Loop

\* What a loop leaves is what one of its ends leaves.
LEMMA LoopLeaves ==
    ASSUME NEW lo \in Nat, NEW n \in Nat, lo <= n,
           NEW stop, NEW base, NEW el, NEW next,
           \A i \in lo..n : ~stop[i] => next[i] \in (i + 1)..n,
           NEW h, Loop(h, lo, n, stop, base, el, next),
           NEW R, \A i \in lo..n : stop[i] /\ base[i].ok => base[i].rest \in R
    PROVE  \A i \in lo..n : h[i].ok => h[i].rest \in R
<1> DEFINE m == n - lo
           S == {k \in 0..m : \A i \in (n - k)..n : h[i].ok => h[i].rest \in R}
<1>1. m \in Nat
  OBVIOUS
<1>2. \A i \in lo..n : h[i] = IF stop[i] THEN base[i] ELSE Prepended(el[i], h[next[i]])
  BY Zenon DEF Loop
<1>3. 0 \in S
  <2>1. \A i \in (n - 0)..n : i \in lo..n /\ stop[i]
    OBVIOUS
  <2> QED
    BY <1>1, <1>2, <2>1
<1>4. ASSUME NEW k \in 0..(m - 1), k \in S PROVE k + 1 \in S
  <2>1. k + 1 \in 0..m
    BY <1>1
  <2>2. ASSUME NEW i \in (n - (k + 1))..n, h[i].ok PROVE h[i].rest \in R
    <3>1. i \in lo..n /\ (i \in (n - k)..n \/ i + 1 = n - k)
      BY <1>1
    <3>2. CASE stop[i]
      BY <1>2, <2>2, <3>1, <3>2
    <3>3. CASE ~stop[i]
      <4>1. h[i] = Prepended(el[i], h[next[i]]) /\ next[i] \in (n - k)..n
        BY <1>2, <3>1, <3>3
      <4>2. h[next[i]].ok /\ h[i].rest = h[next[i]].rest
        BY <2>2, <4>1 DEF Prepended, Decoded, Failed
      <4> QED
        BY <1>4, <4>1, <4>2
    <3> QED
      BY <3>2, <3>3
  <2> QED
    BY <2>1, <2>2
<1>5. \A k \in 0..m : k \in S
  <2> HIDE DEF S, m
  <2> QED
    BY <1>1, <1>3, <1>4, UpTo
<1>6. m \in S /\ n - m = lo
  <2>1. m \in 0..m /\ n - m = lo
    BY <1>1
  <2> HIDE DEF S, m
  <2> QED
    BY <1>5, <2>1, Zenon
<1> QED
  BY <1>6

\* The ends of a key.
Shorter(b) == {s \in Seq(Byte) : Len(s) < Len(b)}

\* What is behind a position is such an end.
LEMMA RestShorter ==
    ASSUME NEW b \in Seq(Byte), NEW m \in 2..(Len(b) + 1)
    PROVE  SubSeq(b, m, Len(b)) \in Shorter(b)
<1>1. Len(b) \in Nat
  BY Bytes
<1>2. SubSeq(b, m, Len(b)) \in Seq(Byte) /\ Len(SubSeq(b, m, Len(b))) = Len(b) - m + 1
  <2>1. m \in 1..(Len(b) + 1)
    BY <1>1
  <2> QED
    BY <2>1, RestIs, Zenon
<1> QED
  BY <1>1, <1>2 DEF Shorter

\* One step of the loop of DecodeBytesAscending.
NameAt(b, h, i) ==
    IF i >= Len(b) THEN Failed
    ELSE IF b[i] # 0 THEN Prepended(b[i], h[i + 1])
    ELSE IF b[i + 1] = 1 THEN Decoded(SubSeq(b, i + 2, Len(b)), <<>>)
    ELSE IF b[i + 1] = 255 THEN Prepended(0, h[i + 2])
    ELSE Failed

\* DecodeBytesAscending with the loop named; it leaves an end of the key.
LEMMA NameLoop ==
    ASSUME NEW b \in Seq(Byte)
    PROVE  \E h : /\ \A i \in 2..(Len(b) + 2) : h[i] = NameAt(b, h, i)
                  /\ DecodeBytesAscending(b) =
                        IF b = <<>> \/ b[1] # bytesMarker THEN Failed ELSE h[2]
                  /\ h[2].ok => h[2].rest \in Shorter(b)
<1> DEFINE n == Len(b) + 2
           stop == [i \in 2..n |-> i >= Len(b) \/ (b[i] = 0 /\ b[i + 1] # 255)]
           base == [i \in 2..n |-> IF ~(i >= Len(b)) /\ b[i + 1] = 1
                                   THEN Decoded(SubSeq(b, i + 2, Len(b)), <<>>) ELSE Failed]
           el == [i \in 2..n |-> b[i]]
           next == [i \in 2..n |-> IF b[i] # 0 THEN i + 1 ELSE i + 2]
           L(h) == Loop(h, 2, n, stop, base, el, next)
           Eq(h) == h = [i \in 2..(Len(b) + 2) |-> NameAt(b, h, i)]
<1>1. Len(b) \in Nat /\ n \in Nat /\ 2 <= n /\ 2 \in Nat
  BY Bytes
<1>11. \A i \in 2..n : (stop[i] <=> (i >= Len(b) \/ (b[i] = 0 /\ b[i + 1] # 255)))
  BY Zenon
<1>12. \A i \in 2..n : next[i] = IF b[i] # 0 THEN i + 1 ELSE i + 2
  BY Zenon
<1>13. \A i \in 2..n : /\ el[i] = b[i]
                        /\ base[i] = IF ~(i >= Len(b)) /\ b[i + 1] = 1
                                     THEN Decoded(SubSeq(b, i + 2, Len(b)), <<>>) ELSE Failed
  BY Zenon
<1>2. ASSUME NEW i \in 2..n PROVE ~stop[i] => next[i] \in (i + 1)..n
  <2>1. ~stop[i] => ~(i >= Len(b))
    BY <1>11, Zenon
  <2>2. next[i] = i + 1 \/ next[i] = i + 2
    BY <1>12, Zenon
  <2> HIDE DEF stop, base, el, next
  <2>3. ~(i >= Len(b)) => i + 1 \in (i + 1)..n /\ i + 2 \in (i + 1)..n
    BY <1>1
  <2> QED
    BY <2>1, <2>2, <2>3, Zenon
<1>3. ASSUME NEW i \in 2..n, stop[i] /\ base[i].ok PROVE base[i].rest \in Shorter(b)
  <2>1. ~(i >= Len(b)) /\ base[i].rest = SubSeq(b, i + 2, Len(b))
    BY <1>3 DEF Decoded, Failed
  <2>2. i + 2 \in 2..(Len(b) + 1)
    BY <1>1, <2>1
  <2> QED
    BY <2>1, <2>2, RestShorter, Zenon
<1>4. ASSUME NEW h, NEW i \in 2..n
      PROVE  NameAt(b, h, i) = IF stop[i] THEN base[i] ELSE Prepended(el[i], h[next[i]])
  <2> HIDE DEF stop, base, el, next
  <2>1. stop[i] <=> (i >= Len(b) \/ (b[i] = 0 /\ b[i + 1] # 255))
    BY <1>11, Zenon
  <2>2. next[i] = IF b[i] # 0 THEN i + 1 ELSE i + 2
    BY <1>12, Zenon
  <2>3. /\ el[i] = b[i]
        /\ base[i] = IF ~(i >= Len(b)) /\ b[i + 1] = 1
                     THEN Decoded(SubSeq(b, i + 2, Len(b)), <<>>) ELSE Failed
    BY <1>13, Zenon
  <2>4. b[i + 1] = 1 => b[i + 1] # 255
    OBVIOUS
  <2>5. CASE i >= Len(b)
    BY <2>1, <2>3, <2>5, Zenon DEF NameAt
  <2>6. CASE ~(i >= Len(b)) /\ b[i] # 0
    BY <2>1, <2>2, <2>3, <2>6, Zenon DEF NameAt
  <2>7. CASE ~(i >= Len(b)) /\ b[i] = 0
    BY <2>1, <2>2, <2>3, <2>4, <2>7, Zenon DEF NameAt
  <2> QED
    BY <2>5, <2>6, <2>7
<1>5. \A h : L(h) <=> Eq(h)
  <2> SUFFICES ASSUME NEW h PROVE L(h) <=> Eq(h)
    OBVIOUS
  <2>1. [i \in 2..n |-> NameAt(b, h, i)]
        = [i \in 2..n |-> IF stop[i] THEN base[i] ELSE Prepended(el[i], h[next[i]])]
    <3> HIDE DEF stop, base, el, next
    <3> QED
      BY <1>4, Zenon
  <2> HIDE DEF stop, base, el, next
  <2> QED
    BY <2>1, Zenon DEF Loop
<1> HIDE DEF n, stop, base, el, next
<1>6. \E h : L(h)
  BY <1>1, <1>2, LoopExists, Zenon
<1>7. PICK h : /\ Eq(h)
               /\ DecodeBytesAscending(b) =
                      IF b = <<>> \/ b[1] # bytesMarker THEN Failed ELSE h[2]
  <2> DEFINE h == CHOOSE h : Eq(h)
  <2>1. Eq(h)
    BY <1>5, <1>6, Zenon
  <2>2. DecodeBytesAscending(b) = IF b = <<>> \/ b[1] # bytesMarker THEN Failed ELSE h[2]
    BY Zenon DEF DecodeBytesAscending, NameAt
  <2> HIDE DEF h
  <2> QED
    BY <2>1, <2>2, Zenon
<1>8. \A i \in 2..n : h[i].ok => h[i].rest \in Shorter(b)
  <2>1. L(h)
    BY <1>5, <1>7
  <2> QED
    BY <1>1, <1>2, <1>3, <2>1, LoopLeaves
<1>9. 2 \in 2..n
  BY <1>1
<1>10. \A i \in 2..(Len(b) + 2) : h[i] = NameAt(b, h, i)
  BY <1>7, Zenon
<1> QED
  BY <1>7, <1>8, <1>9, <1>10, Zenon

\* What DecodeBytesAscending leaves.
LEMMA NameLeaves ==
    ASSUME NEW b \in Seq(Byte), DecodeBytesAscending(b).ok
    PROVE  DecodeBytesAscending(b).rest \in Shorter(b)
<1>1. PICK h : /\ DecodeBytesAscending(b) = IF b = <<>> \/ b[1] # bytesMarker THEN Failed ELSE h[2]
               /\ h[2].ok => h[2].rest \in Shorter(b)
  BY NameLoop, Zenon
<1>2. ~Failed.ok
  BY DEF Failed
<1> QED
  BY <1>1, <1>2, Zenon

\* What DecodeUvarintAscending leaves.
LEMMA NumberLeaves ==
    ASSUME NEW b \in Seq(Byte), DecodeUvarintAscending(b).ok
    PROVE  DecodeUvarintAscending(b).rest \in Shorter(b)
<1> DEFINE t == Tail(b)
           n == b[1] - intZero - intSmall
<1>1. ~Failed.ok
  BY DEF Failed
<1>2. \A r, v : Decoded(r, v).rest = r
  BY DEF Decoded
<1>3. /\ b # <<>>
      /\ \/ DecodeUvarintAscending(b).rest = t
         \/ /\ ~(b[1] - intZero <= intSmall) /\ ~(Len(t) < n)
            /\ DecodeUvarintAscending(b).rest = SubSeq(t, n + 1, Len(t))
  BY <1>1, <1>2, Zenon DEF DecodeUvarintAscending
<1>4. Len(b) \in Nat /\ b[1] \in 0..255 /\ Len(b) # 0
  BY <1>3, Bytes, EmptySeq
<1>5. t = SubSeq(b, 2, Len(b)) /\ 2 \in 2..(Len(b) + 1)
  BY <1>3, <1>4, TailIsSubSeq
<1>6. t \in Shorter(b)
  BY <1>5, RestShorter, Zenon
<1> HIDE DEF t
<1>7. t \in Seq(Byte) /\ Len(t) < Len(b) /\ Len(t) \in Nat
  BY <1>6, Bytes DEF Shorter
<1>8. ASSUME ~(b[1] - intZero <= intSmall) /\ ~(Len(t) < n)
      PROVE  SubSeq(t, n + 1, Len(t)) \in Shorter(b)
  <2>1. PICK m \in 2..(Len(t) + 1) : m = n + 1
    <3>1. PICK c \in 0..255 : c = b[1]
      BY <1>4
    <3>2. ~(c - intZero <= intSmall) /\ ~(Len(t) < c - intZero - intSmall)
      BY <1>8, <3>1
    <3>3. c - intZero - intSmall + 1 \in 2..(Len(t) + 1)
      BY <1>7, <3>2 DEF intZero, intSmall
    <3> QED
      BY <3>1, <3>3
  <2>2. SubSeq(t, m, Len(t)) \in Shorter(t)
    BY <1>7, <2>1, RestShorter
  <2>3. Len(SubSeq(t, m, Len(t))) < Len(b) /\ SubSeq(t, m, Len(t)) \in Seq(Byte)
    <3> DEFINE u == SubSeq(t, m, Len(t))
    <3>1. u \in Seq(Byte) /\ Len(u) < Len(t)
      BY <2>2, Zenon DEF Shorter
    <3>2. Len(u) \in Nat
      BY <3>1, Bytes, Zenon
    <3> HIDE DEF u
    <3>3. Len(u) < Len(b)
      BY <1>4, <1>7, <3>1, <3>2
    <3> QED
      BY <3>1, <3>3 DEF u
  <2> QED
    BY <2>1, <2>3 DEF Shorter
<1> QED
  BY <1>3, <1>6, <1>8, Zenon

\* Where the bytes of a name are in a key b that ends with its terminator and r;
\* f is how the key is made up.
NameLayout(data, r, b, f) ==
    /\ b \in Seq(Byte) /\ b # <<>> /\ b[1] = bytesMarker /\ Len(f[0]) = 0
    /\ \A n \in 0..Len(data) : Len(f[n]) \in Nat /\ Len(f[n]) + 2 < Len(b)
    /\ \A n \in 0..(Len(data) - 1) :
          /\ data[n + 1] # 0 => /\ b[Len(f[n]) + 2] = data[n + 1]
                                /\ Len(f[n + 1]) = Len(f[n]) + 1
          /\ data[n + 1] = 0 => /\ b[Len(f[n]) + 2] = 0 /\ b[Len(f[n]) + 3] = 255
                                /\ Len(f[n + 1]) = Len(f[n]) + 2
    /\ b[Len(f[Len(data)]) + 2] = 0 /\ b[Len(f[Len(data)]) + 3] = 1
    /\ SubSeq(b, Len(f[Len(data)]) + 4, Len(b)) = r

\* The encoding of a name is laid out so.
LEMMA NameBytes ==
    ASSUME NEW data \in Seq(Byte), NEW r \in Seq(Byte), NEW b,
           b = Cat(EncodeBytesAscending(data), r),
           NEW f, Parts(Escaped(data), Len(data), f), FlattenSeq(Escaped(data)) = f[Len(data)]
    PROVE  NameLayout(data, r, b, f)
<1> DEFINE L == Len(data)
           F == f[L]
           mf == Cat(Marker, F)
           mt == Cat(mf, Terminator)
<1>1. L \in Nat /\ Len(r) \in Nat /\ \A i \in 1..L : data[i] \in 0..255
  BY Bytes
<1>2. Escaped(data) \in Seq(Seq(Byte)) /\ Len(Escaped(data)) = L
  BY EscapedIs, Zenon
<1>3. /\ \A i \in 0..L : f[i] \in Seq(Byte)
      /\ \A i \in 0..(L - 1) : /\ i + 1 \in 0..L /\ Escaped(data)[i + 1] \in Seq(Byte)
                               /\ i \in 0..L
                               /\ f[i + 1] = Cat(f[i], Escaped(data)[i + 1])
      /\ \A i \in 0..L : IsPrefix(f[i], F)
  BY <1>2, PartsAre, PartsPrefix, Zenon
<1>4. F \in Seq(Byte) /\ L \in 0..L /\ 0 \in 0..L
  BY <1>1, <1>3
<1>5. \A i \in 0..L : Len(f[i]) \in Nat
  BY <1>3, Bytes, Zenon
<1>6. b = Cat(mt, r)
  BY BytesAre, Zenon DEF Cat
<1>7. /\ Marker \in Seq(Byte) /\ Len(Marker) = 1 /\ Marker[1] = bytesMarker
      /\ Terminator \in Seq(Byte) /\ Len(Terminator) = 2 /\ Terminator[1] = 0 /\ Terminator[2] = 1
  BY MarksAre DEF Marker, Terminator
<1> HIDE DEF F
<1>8. /\ mf \in Seq(Byte) /\ Len(mf) = Len(Marker) + Len(F)
      /\ \A i \in 1..Len(Marker) : mf[i] = Marker[i]
      /\ \A i \in 1..Len(F) : mf[Len(Marker) + i] = F[i]
  BY <1>4, <1>7, CatElements, Zenon
<1> HIDE DEF mf
<1>9. /\ mt \in Seq(Byte) /\ Len(mt) = Len(mf) + Len(Terminator)
      /\ \A i \in 1..Len(mf) : mt[i] = mf[i]
      /\ \A i \in 1..Len(Terminator) : mt[Len(mf) + i] = Terminator[i]
  BY <1>7, <1>8, CatElements, Zenon
<1> HIDE DEF mt
<1>10. /\ b \in Seq(Byte) /\ Len(b) = Len(mt) + Len(r)
       /\ \A i \in 1..Len(mt) : b[i] = mt[i]
       /\ SubSeq(b, Len(mt) + 1, Len(b)) = r
  <2>1. SubSeq(b, Len(mt) + 1, Len(b)) = r
    BY <1>6, <1>9, RestOf, Zenon
  <2>2. /\ Cat(mt, r) \in Seq(Byte) /\ Len(Cat(mt, r)) = Len(mt) + Len(r)
        /\ \A i \in 1..Len(mt) : Cat(mt, r)[i] = mt[i]
    BY <1>9, CatElements, Zenon
  <2> QED
    BY <1>6, <2>1, <2>2, Zenon
<1>11. Len(F) \in Nat
  BY <1>4, Bytes, Zenon
<1>12. /\ Len(mt) = Len(F) + 3 /\ Len(b) = Len(F) + 3 + Len(r)
       /\ b # <<>> /\ b[1] = bytesMarker
       /\ b[Len(F) + 2] = 0 /\ b[Len(F) + 3] = 1
       /\ SubSeq(b, Len(F) + 4, Len(b)) = r
  <2>1. Len(mt) = Len(F) + 3 /\ Len(mf) = Len(F) + 1 /\ Len(b) = Len(F) + 3 + Len(r)
    BY <1>1, <1>7, <1>8, <1>9, <1>10, <1>11
  <2>2. b # <<>>
    BY <1>1, <1>11, <2>1
  <2>3. b[1] = mf[1] /\ mf[1] = bytesMarker
    <3>1. 1 \in 1..Len(Marker) /\ 1 \in 1..Len(mf) /\ 1 \in 1..Len(mt)
      BY <1>7, <1>11, <2>1
    <3> QED
      BY <1>7, <1>8, <1>9, <1>10, <3>1, Zenon
  <2>4. b[Len(mf) + 1] = 0 /\ b[Len(mf) + 2] = 1
    <3>1. 1 \in 1..Len(Terminator) /\ 2 \in 1..Len(Terminator) /\ Len(mf) + 1 \in 1..Len(mt) /\ Len(mf) + 2 \in 1..Len(mt)
      BY <1>7, <1>11, <2>1
    <3> QED
      BY <1>7, <1>9, <1>10, <3>1, Zenon
  <2>5. Len(mf) + 1 = Len(F) + 2 /\ Len(mf) + 2 = Len(F) + 3 /\ Len(mt) + 1 = Len(F) + 4
    BY <1>11, <2>1
  <2> QED
    BY <1>10, <2>1, <2>2, <2>3, <2>4, <2>5, Zenon
<1>13. \A n \in 0..L : Len(f[n]) <= Len(F) /\ Agree(f[n], F, Len(f[n]))
  BY <1>3, <1>4, PrefixIff, Zenon
<1>14. \A k \in 1..Len(F) : b[1 + k] = F[k]
  <2> SUFFICES ASSUME NEW k \in 1..Len(F) PROVE b[1 + k] = F[k]
    OBVIOUS
  <2>1. 1 + k \in 1..Len(mf) /\ 1 + k \in 1..Len(mt) /\ 1 + k = Len(Marker) + k
    BY <1>7, <1>8, <1>11, <1>12
  <2> QED
    BY <1>8, <1>9, <1>10, <2>1, Zenon
<1>15. ASSUME NEW n \in 0..L PROVE Len(f[n]) + 2 < Len(b)
  <2>1. Len(f[n]) <= Len(F) /\ Len(f[n]) \in Nat
    BY <1>5, <1>13, Zenon
  <2> QED
    BY <1>1, <1>11, <1>12, <2>1
<1>16. ASSUME NEW n \in 0..(L - 1)
       PROVE  /\ data[n + 1] # 0 => /\ b[Len(f[n]) + 2] = data[n + 1]
                                    /\ Len(f[n + 1]) = Len(f[n]) + 1
              /\ data[n + 1] = 0 => /\ b[Len(f[n]) + 2] = 0 /\ b[Len(f[n]) + 3] = 255
                                    /\ Len(f[n + 1]) = Len(f[n]) + 2
  <2> DEFINE c == data[n + 1]
             e == Esc(c)
             q == Len(f[n])
             fn == f[n + 1]
  <2>1. n + 1 \in 1..L
    BY <1>1
  <2>2. c \in 0..255 /\ Escaped(data)[n + 1] = e
    BY <1>1, <2>1, EscapedIs, Zenon
  <2>3. e \in Seq(Byte) /\ n \in 0..L /\ n + 1 \in 0..L /\ fn = Cat(f[n], e) /\ f[n] \in Seq(Byte)
    BY <1>3, <2>2, EscIs, Zenon
  <2>4. Len(fn) = q + Len(e) /\ \A i \in 1..Len(e) : fn[q + i] = e[i]
    <3> HIDE DEF e, fn
    <3>1. /\ Len(Cat(f[n], e)) = q + Len(e)
          /\ \A i \in 1..Len(e) : Cat(f[n], e)[q + i] = e[i]
      BY <2>3, CatElements, Zenon
    <3> QED
      BY <2>3, <3>1, Zenon
  <2>5. q \in Nat /\ Len(fn) \in Nat /\ Len(fn) <= Len(F) /\ \A i \in 1..Len(fn) : fn[i] = F[i]
    BY <1>5, <1>13, <2>3, Zenon DEF Agree
  <2>6. c # 0 => Len(e) = 1 /\ e[1] = c
    BY <2>2 DEF Esc
  <2>7. c = 0 => Len(e) = 2 /\ e[1] = 0 /\ e[2] = 255
    BY DEF Esc
  <2> HIDE DEF c, e, q, fn
  <2>8. ASSUME NEW i \in 1..Len(e) PROVE b[1 + (q + i)] = e[i]
    <3>1. Len(e) \in Nat
      BY <2>3, Bytes, Zenon
    <3>2. q + i \in 1..Len(fn) /\ q + i \in 1..Len(F)
      BY <1>11, <2>4, <2>5, <3>1
    <3> QED
      BY <1>14, <2>4, <2>5, <3>2, Zenon
  <2>9. 1 + (q + 1) = q + 2 /\ 1 + (q + 2) = q + 3
    BY <2>5
  <2>10. c # 0 => b[q + 2] = c /\ Len(fn) = q + 1
    <3>1. Len(e) = 1 => 1 \in 1..Len(e)
      OBVIOUS
    <3> QED
      BY <2>4, <2>6, <2>8, <2>9, <3>1, Zenon
  <2>11. c = 0 => b[q + 2] = 0 /\ b[q + 3] = 255 /\ Len(fn) = q + 2
    <3>1. Len(e) = 2 => 1 \in 1..Len(e) /\ 2 \in 1..Len(e)
      OBVIOUS
    <3>2. c = 0 => b[1 + (q + 1)] = 0 /\ b[1 + (q + 2)] = 255
      BY <2>7, <2>8, <3>1
    <3> QED
      BY <2>4, <2>7, <2>9, <3>2
  <2> QED
    BY <2>10, <2>11 DEF c, q, fn
<1>17. Len(f[0]) = 0
  BY DEF Parts
<1> QED
  BY <1>5, <1>10, <1>12, <1>15, <1>16, <1>17, Zenon DEF F, NameLayout

\* An element in front of what is decoded.
LEMMA PrependedIs == \A c, r, s : Prepended(c, Decoded(r, s)) = Decoded(r, <<c>> \o s)
  BY DEF Prepended, Decoded

\* DecodeBytesAscending gives back a name EncodeBytesAscending has written, zero
\* bytes included, and leaves what follows it.
THEOREM NamesDecode ==
    ASSUME NEW data \in Seq(Byte), NEW r \in Seq(Byte)
    PROVE  DecodeBytesAscending(Cat(EncodeBytesAscending(data), r)) = Decoded(r, data)
<1> DEFINE b == Cat(EncodeBytesAscending(data), r)
           L == Len(data)
<1>1. L \in Nat /\ Escaped(data) \in Seq(Seq(Byte)) /\ Len(Escaped(data)) = L
  BY Bytes, EscapedIs, Zenon
<1>2. PICK f : Parts(Escaped(data), L, f) /\ FlattenSeq(Escaped(data)) = f[L]
  BY <1>1, FlattenIs, Zenon
<1>3. /\ b \in Seq(Byte) /\ b # <<>> /\ b[1] = bytesMarker /\ Len(f[0]) = 0
      /\ \A n \in 0..L : Len(f[n]) \in Nat /\ Len(f[n]) + 2 < Len(b)
      /\ \A n \in 0..(L - 1) :
            /\ data[n + 1] # 0 => b[Len(f[n]) + 2] = data[n + 1] /\ Len(f[n + 1]) = Len(f[n]) + 1
            /\ data[n + 1] = 0 => /\ b[Len(f[n]) + 2] = 0 /\ b[Len(f[n]) + 3] = 255
                                  /\ Len(f[n + 1]) = Len(f[n]) + 2
      /\ b[Len(f[L]) + 2] = 0 /\ b[Len(f[L]) + 3] = 1
      /\ SubSeq(b, Len(f[L]) + 4, Len(b)) = r
  <2>1. NameLayout(data, r, b, f)
    BY <1>2, NameBytes, Zenon
  <2> HIDE DEF b
  <2> QED
    BY <2>1, Zenon DEF NameLayout
<1> HIDE DEF b
<1>4. PICK h : /\ \A i \in 2..(Len(b) + 2) : h[i] = NameAt(b, h, i)
               /\ DecodeBytesAscending(b) = IF b = <<>> \/ b[1] # bytesMarker THEN Failed ELSE h[2]
  <2>1. b \in Seq(Byte)
    BY <1>3
  <2> QED
    BY <2>1, NameLoop, Zenon
<1>5. Len(b) \in Nat
  BY <1>3, Bytes, Zenon
<1>6. \A n \in 0..L : h[Len(f[n]) + 2] = NameAt(b, h, Len(f[n]) + 2)
  BY <1>3, <1>4, <1>5
<1>7. ASSUME NEW n \in 0..(L - 1)
      PROVE  h[Len(f[n]) + 2] = Prepended(data[n + 1], h[Len(f[n + 1]) + 2])
  <2> DEFINE q == Len(f[n])
  <2>1. n \in 0..L
    BY <1>1
  <2>2. q \in Nat /\ q + 2 < Len(b) /\ h[q + 2] = NameAt(b, h, q + 2)
    BY <1>3, <1>6, <2>1, Zenon
  <2>3. /\ data[n + 1] # 0 => b[q + 2] = data[n + 1] /\ Len(f[n + 1]) = q + 1
        /\ data[n + 1] = 0 => b[q + 2] = 0 /\ b[q + 3] = 255 /\ Len(f[n + 1]) = q + 2
    BY <1>3, Zenon
  <2> HIDE DEF q
  <2>4. /\ ~(q + 2 >= Len(b)) /\ (q + 2) + 1 = q + 3 /\ (q + 2) + 1 = (q + 1) + 2
        /\ (q + 2) + 2 = q + 4
    BY <1>5, <2>2
  <2>5. ASSUME data[n + 1] # 0 PROVE h[q + 2] = Prepended(data[n + 1], h[Len(f[n + 1]) + 2])
    <3>1. (q + 2) + 1 = Len(f[n + 1]) + 2 /\ b[q + 2] = data[n + 1]
      BY <2>3, <2>4, <2>5
    <3> QED
      BY <2>2, <2>4, <2>5, <3>1, Zenon DEF NameAt
  <2>6. ASSUME data[n + 1] = 0 PROVE h[q + 2] = Prepended(data[n + 1], h[Len(f[n + 1]) + 2])
    <3>1. (q + 2) + 2 = Len(f[n + 1]) + 2 /\ b[(q + 2) + 1] = 255 /\ b[q + 2] = 0
      BY <2>3, <2>4, <2>6
    <3>2. b[(q + 2) + 1] # 1
      BY <3>1
    <3> QED
      BY <2>2, <2>4, <2>6, <3>1, <3>2, Zenon DEF NameAt
  <2> QED
    BY <2>5, <2>6 DEF q
<1>8. h[Len(f[L]) + 2] = Decoded(r, <<>>)
  <2> DEFINE q == Len(f[L])
  <2>1. L \in 0..L
    BY <1>1
  <2>2. q \in Nat /\ q + 2 < Len(b) /\ h[q + 2] = NameAt(b, h, q + 2)
    BY <1>3, <1>6, <2>1, Zenon
  <2>3. b[q + 2] = 0 /\ b[q + 3] = 1 /\ SubSeq(b, q + 4, Len(b)) = r
    BY <1>3, Zenon
  <2> HIDE DEF q
  <2>4. ~(q + 2 >= Len(b)) /\ (q + 2) + 1 = q + 3 /\ (q + 2) + 2 = q + 4
    BY <1>5, <2>2
  <2>5. b[(q + 2) + 1] = 1 /\ SubSeq(b, (q + 2) + 2, Len(b)) = r
    BY <2>3, <2>4
  <2>6. h[q + 2] = Decoded(r, <<>>)
    BY <2>2, <2>3, <2>4, <2>5 DEF NameAt
  <2> QED
    BY <2>6 DEF q
<1> DEFINE S == {k \in 0..L : h[Len(f[L - k]) + 2] = Decoded(r, SubSeq(data, L - k + 1, L))}
<1>14. L \in Nat
  BY <1>1
<1>9. 0 \in S
  <2>1. SubSeq(data, L - 0 + 1, L) = <<>> /\ L - 0 = L /\ 0 \in 0..L
    BY <1>14
  <2> QED
    BY <1>8, <2>1, Zenon
<1>10. ASSUME NEW k \in 0..(L - 1), k \in S PROVE k + 1 \in S
  <2> HIDE DEF L
  <2>1. PICK n \in 0..(L - 1) : n = L - (k + 1) /\ n + 1 = L - k
    BY <1>14
  <2>2. h[Len(f[n + 1]) + 2] = Decoded(r, SubSeq(data, (n + 1) + 1, L))
    BY <1>10, <2>1, Zenon
  <2>3. SubSeq(data, n + 1, L) = <<data[n + 1]>> \o SubSeq(data, (n + 1) + 1, L)
    <3>1. n + 1 \in 1..L /\ L \in (n + 1)..L
      BY <1>14
    <3> QED
      BY <3>1, SubSeqRecursiveFirst DEF L
  <2>4. h[Len(f[n]) + 2] = Decoded(r, SubSeq(data, n + 1, L))
    <3>1. h[Len(f[n]) + 2] = Prepended(data[n + 1], h[Len(f[n + 1]) + 2])
      BY <1>7
    <3>2. \A s : Prepended(data[n + 1], Decoded(r, s)) = Decoded(r, <<data[n + 1]>> \o s)
      BY PrependedIs, Zenon
    <3> QED
      BY <2>2, <2>3, <3>1, <3>2, Zenon
  <2>5. k + 1 \in 0..L
    BY <1>14
  <2> QED
    BY <2>1, <2>4, <2>5, Zenon
<1>11. \A k \in 0..L : k \in S
  <2> HIDE DEF S
  <2> QED
    BY <1>1, <1>9, <1>10, UpTo
<1>12. h[Len(f[0]) + 2] = Decoded(r, SubSeq(data, 1, L))
  <2>1. L \in S /\ L - L = 0 /\ L - L + 1 = 1
    BY <1>1, <1>11
  <2> QED
    BY <2>1
<1>13. SubSeq(data, 1, L) = data /\ Len(f[0]) + 2 = 2
  BY <1>3, SubSeqFull
<1> QED
  BY <1>3, <1>4, <1>12, <1>13, Zenon DEF b

-----------------------------------------------------------------------------
(* Prefixes and what is left of a key *)

\* b has the bytes of a and more behind them.
Extends(a, b) ==
    /\ a \in Seq(Byte) /\ b \in Seq(Byte) /\ Len(a) <= Len(b)
    /\ \A i \in 1..Len(a) : b[i] = a[i]

\* The last byte on its own.
LEMMA LastAlone ==
    ASSUME NEW a \in Seq(Byte), Len(a) > 0
    PROVE  SubSeq(a, Len(a), Len(a)) = <<a[Len(a)]>>
<1>1. Len(a) \in Nat
  BY Bytes
<1>2. PICK m \in 1..(Len(a) + 1) : m = Len(a) /\ Len(a) - m + 1 = 1 /\ m + 1 - 1 = m
  BY <1>1
<1> DEFINE c == SubSeq(a, m, Len(a))
<1>3. c \in Seq(Byte) /\ Len(c) = Len(a) - m + 1 /\ \A i \in 1..(Len(a) - m + 1) : c[i] = a[m + i - 1]
  BY RestIs, Zenon
<1> HIDE DEF c
<1>4. Len(c) = 1 /\ c[1] = a[m]
  BY <1>2, <1>3
<1>5. c = <<a[m]>>
  BY <1>3, <1>4
<1> QED
  BY <1>2, <1>5 DEF c

\* It extends the rest of what the key extends.
LEMMA RestExtends ==
    ASSUME NEW a, NEW b, Extends(a, b), NEW m \in 1..(Len(a) + 1)
    PROVE  /\ Extends(SubSeq(a, m, Len(a)), SubSeq(b, m, Len(b)))
           /\ Len(SubSeq(a, m, Len(a))) = Len(a) - m + 1
           /\ Len(SubSeq(b, m, Len(b))) = Len(b) - m + 1
           /\ m <= Len(b) => SubSeq(b, m, Len(b))[Len(b) - m + 1] = b[Len(b)]
<1>1. a \in Seq(Byte) /\ b \in Seq(Byte) /\ Len(a) <= Len(b) /\ \A i \in 1..Len(a) : b[i] = a[i]
  BY DEF Extends
<1>2. Len(a) \in Nat /\ Len(b) \in Nat
  BY <1>1, Bytes, Zenon
<1>3. m \in 1..(Len(b) + 1)
  BY <1>1, <1>2
<1> DEFINE c == SubSeq(a, m, Len(a))
           d == SubSeq(b, m, Len(b))
<1>4. /\ c \in Seq(Byte) /\ Len(c) = Len(a) - m + 1 /\ \A i \in 1..(Len(a) - m + 1) : c[i] = a[m + i - 1]
  BY <1>1, RestIs, Zenon
<1>5. /\ d \in Seq(Byte) /\ Len(d) = Len(b) - m + 1 /\ \A i \in 1..(Len(b) - m + 1) : d[i] = b[m + i - 1]
  BY <1>1, <1>3, RestIs, Zenon
<1> HIDE DEF c, d
<1>6. Len(c) <= Len(d)
  BY <1>1, <1>2, <1>4, <1>5
<1>7. ASSUME NEW i \in 1..Len(c) PROVE d[i] = c[i]
  <2>1. i \in 1..(Len(a) - m + 1) /\ i \in 1..(Len(b) - m + 1) /\ m + i - 1 \in 1..Len(a)
    BY <1>1, <1>2, <1>4
  <2> QED
    BY <1>1, <1>4, <1>5, <2>1, Zenon
<1>8. ASSUME m <= Len(b) PROVE d[Len(b) - m + 1] = b[Len(b)]
  <2>1. PICK i \in 1..(Len(b) - m + 1) : i = Len(b) - m + 1 /\ m + i - 1 = Len(b)
    BY <1>2, <1>8
  <2> QED
    BY <1>5, <2>1, Zenon
<1>9. Extends(c, d)
  BY <1>4, <1>5, <1>6, <1>7, Zenon DEF Extends
<1> QED
  BY <1>4, <1>5, <1>8, <1>9, Zenon DEF c, d

\* An encoded number is found at the beginning of a longer key as well.
LEMMA NumberExtends ==
    ASSUME NEW a, NEW b, Extends(a, b), PeekInt(a), GetUvarintLen(a).ok
    PROVE  /\ PeekInt(b) /\ GetUvarintLen(b).ok
           /\ GetUvarintLen(b).val = GetUvarintLen(a).val
           /\ GetUvarintLen(a).val \in 1..Len(a)
<1>1. /\ a \in Seq(Byte) /\ b \in Seq(Byte) /\ Len(a) \in Nat /\ Len(b) \in Nat
      /\ Len(a) > 0 /\ Len(a) <= Len(b)
  BY Bytes DEF Extends, PeekInt
<1>2. 1 \in 1..Len(a) /\ a # <<>> /\ b # <<>>
  BY <1>1
<1>3. b[1] = a[1] /\ a[1] \in 0..255 /\ a[1] \in IntMin..IntMax
  BY <1>1, <1>2, Bytes DEF Extends, PeekInt
<1>4. PeekInt(b)
  BY <1>1, <1>3 DEF PeekInt
<1> DEFINE n == a[1] - intZero - intSmall
<1>5. n \in Int
  BY <1>3 DEF intZero, intSmall
<1>6. /\ GetUvarintLen(a) = IF n <= 0 THEN Decoded(a, 1)
                            ELSE IF n > 8 \/ Len(a) < 1 + n THEN Failed ELSE Decoded(a, 1 + n)
      /\ GetUvarintLen(b) = IF n <= 0 THEN Decoded(b, 1)
                            ELSE IF n > 8 \/ Len(b) < 1 + n THEN Failed ELSE Decoded(b, 1 + n)
  BY <1>2, <1>3 DEF GetUvarintLen
<1> HIDE DEF n
<1>7. CASE n <= 0
  <2>1. GetUvarintLen(a) = Decoded(a, 1) /\ GetUvarintLen(b) = Decoded(b, 1)
    BY <1>6, <1>7
  <2> QED
    BY <1>2, <1>4, <2>1 DEF Decoded
<1>8. CASE ~(n <= 0)
  <2>1. ~(n > 8 \/ Len(a) < 1 + n)
    BY <1>6, <1>8 DEF Failed
  <2>2. ~(n > 8 \/ Len(b) < 1 + n)
    BY <1>1, <1>5, <2>1
  <2>3. GetUvarintLen(a) = Decoded(a, 1 + n) /\ GetUvarintLen(b) = Decoded(b, 1 + n)
    BY <1>6, <1>8, <2>1, <2>2
  <2>4. GetUvarintLen(a).val = 1 + n /\ GetUvarintLen(b).val = 1 + n /\ GetUvarintLen(b).ok
    BY <2>3 DEF Decoded
  <2>5. 1 + n \in 1..Len(a)
    BY <1>1, <1>5, <1>8, <2>1
  <2> QED
    BY <1>4, <2>4, <2>5
<1> QED
  BY <1>7, <1>8

\* The part behind an actor's prefix.
LEMMA ActorExtends ==
    ASSUME NEW a, NEW b, Extends(a, b), Len(a) > 0, DecodeActorPrefix(a).ok
    PROVE  /\ DecodeActorPrefix(b).ok
           /\ Extends(DecodeActorPrefix(a).rest, DecodeActorPrefix(b).rest)
           /\ Len(DecodeActorPrefix(b).rest) - Len(DecodeActorPrefix(a).rest) = Len(b) - Len(a)
           /\ Len(DecodeActorPrefix(b).rest) > 0 =>
                 DecodeActorPrefix(b).rest[Len(DecodeActorPrefix(b).rest)] = b[Len(b)]
<1>1. /\ a \in Seq(Byte) /\ b \in Seq(Byte) /\ Len(a) \in Nat /\ Len(b) \in Nat
      /\ Len(a) <= Len(b)
  BY Bytes DEF Extends
<1>2. 1 \in 1..Len(a) /\ a # <<>> /\ b # <<>>
  BY <1>1
<1>3. b[1] = a[1]
  BY <1>2, Zenon DEF Extends
<1>4. CASE a[1] # ActorPrefixByte
  <2>1. DecodeActorPrefix(a) = Decoded(a, 0) /\ DecodeActorPrefix(b) = Decoded(b, 0)
    BY <1>3, <1>4, Zenon DEF DecodeActorPrefix
  <2>2. DecodeActorPrefix(a).rest = a /\ DecodeActorPrefix(b).rest = b /\ DecodeActorPrefix(b).ok
    BY <2>1 DEF Decoded
  <2>3. Len(b) - Len(a) = Len(b) - Len(a)
    OBVIOUS
  <2> QED
    BY <2>2, <2>3, Zenon
<1>5. CASE a[1] = ActorPrefixByte
  <2>1. ~(Len(a) < 1 + ActorHashLen)
    BY <1>2, <1>5 DEF DecodeActorPrefix, Failed
  <2>2. ~(Len(b) < 1 + ActorHashLen)
    BY <1>1, <2>1, HashLenAssumption
  <2> DEFINE m == ActorHashLen + 2
             c == SubSeq(a, m, Len(a))
             d == SubSeq(b, m, Len(b))
  <2>3. DecodeActorPrefix(a) = Decoded(c, 0) /\ DecodeActorPrefix(b) = Decoded(d, 0)
    BY <1>2, <1>3, <1>5, <2>1, <2>2, Zenon DEF DecodeActorPrefix
  <2> HIDE DEF c, d
  <2>4. DecodeActorPrefix(a).rest = c /\ DecodeActorPrefix(b).rest = d /\ DecodeActorPrefix(b).ok
    BY <2>3 DEF Decoded
  <2>5. m \in 1..(Len(a) + 1)
    BY <1>1, <2>1, HashLenAssumption
  <2> HIDE DEF m
  <2>6. /\ Extends(c, d) /\ Len(c) = Len(a) - m + 1 /\ Len(d) = Len(b) - m + 1
        /\ m <= Len(b) => d[Len(b) - m + 1] = b[Len(b)]
    BY <2>5, RestExtends, Zenon DEF c, d
  <2>7. Len(d) - Len(c) = Len(b) - Len(a) /\ (Len(d) > 0 => m <= Len(b))
    BY <1>1, <2>5, <2>6
  <2>8. Len(d) > 0 => d[Len(d)] = b[Len(b)]
    BY <2>6, <2>7, Zenon
  <2> QED
    BY <2>4, <2>6, <2>7, <2>8, Zenon
<1> QED
  BY <1>4, <1>5

-----------------------------------------------------------------------------
(* Segments and paths *)

\* The parts of a segment.
LEMMA SegmentIs ==
    ASSUME NEW s \in Segment
    PROVE  /\ s.kind \in Number /\ s.kind \in {0, 1, 2} /\ s.idx \in Number /\ s.name \in Seq(Byte)
           /\ s.kind # 1 => s.idx = 0
           /\ s.kind # 2 => s.name = <<>>
           /\ s = [kind |-> s.kind, idx |-> s.idx, name |-> s.name]
<1>1. /\ s \in [kind : 0..2, idx : Number, name : Seq(Byte)]
      /\ s.kind # 1 => s.idx = 0
      /\ s.kind # 2 => s.name = <<>>
  BY DEF Segment, ArrayIndexKind, ObjectKeyKind
<1>2. /\ s.kind \in 0..2 /\ s.idx \in Number /\ s.name \in Seq(Byte)
      /\ s = [kind |-> s.kind, idx |-> s.idx, name |-> s.name]
  BY <1>1
<1>3. s.kind \in {0, 1, 2} /\ s.kind \in Number
  <2>1. s.kind = 0 \/ s.kind = 1 \/ s.kind = 2
    BY <1>2
  <2> QED
    BY <2>1, SmallNumbers, Zenon
<1> QED
  BY <1>1, <1>2, <1>3, Zenon

\* What is written for a segment.
LEMMA SegmentBytes ==
    ASSUME NEW s \in Segment
    PROVE  /\ EncodeSegment(s) \in Seq(Byte)
           /\ EncodeUvarintAscending(s.kind) \in Seq(Byte)
           /\ IsPrefix(EncodeUvarintAscending(s.kind), EncodeSegment(s))
           /\ s.kind = 1 => EncodeSegment(s) = Cat(EncodeUvarintAscending(s.kind),
                                                   EncodeUvarintAscending(s.idx))
           /\ s.kind = 2 => EncodeSegment(s) = Cat(EncodeUvarintAscending(s.kind),
                                                   EncodeBytesAscending(s.name))
<1>1. s.kind \in Nat /\ s.kind \in {0, 1, 2} /\ s.idx \in Nat /\ s.name \in Seq(Byte)
  BY SegmentIs, NumberIsNat, Zenon
<1> DEFINE k == EncodeUvarintAscending(s.kind)
           i == EncodeUvarintAscending(s.idx)
           n == EncodeBytesAscending(s.name)
           z == <<>>
<1>2. k \in Seq(Byte) /\ i \in Seq(Byte)
  BY <1>1, UvarintIs, Zenon
<1>3. n \in Seq(Byte)
  BY <1>1, BytesAre, Zenon
<1>4. z \in Seq(Byte)
  OBVIOUS
<1> DEFINE c == CASE s.kind = 0 -> z [] s.kind = 1 -> i [] s.kind = 2 -> n
<1>5. EncodeSegment(s) = Cat(k, c)
  BY Zenon DEF EncodeSegment, HeaderKind, ArrayIndexKind, ObjectKeyKind, Cat
<1> HIDE DEF k, i, n, z
<1>6. (s.kind = 0 /\ c = z) \/ (s.kind = 1 /\ c = i) \/ (s.kind = 2 /\ c = n)
  BY <1>1
<1> HIDE DEF c
<1>7. /\ Cat(k, z) \in Seq(Byte) /\ IsPrefix(k, Cat(k, z))
      /\ Cat(k, i) \in Seq(Byte) /\ IsPrefix(k, Cat(k, i))
      /\ Cat(k, n) \in Seq(Byte) /\ IsPrefix(k, Cat(k, n))
  BY <1>2, <1>3, <1>4, CatIs, Zenon
<1>8. EncodeSegment(s) \in Seq(Byte) /\ IsPrefix(k, EncodeSegment(s))
  BY <1>5, <1>6, <1>7, Zenon
<1>9. /\ s.kind = 1 => EncodeSegment(s) = Cat(k, i)
      /\ s.kind = 2 => EncodeSegment(s) = Cat(k, n)
  BY <1>5, <1>6
<1> QED
  BY <1>2, <1>8, <1>9, Zenon DEF k, i, n

\* What is written for the segments of a path.
Encoded(p) == [i \in 1..Len(p) |-> EncodeSegment(p[i])]
Flat(p) == FlattenSeq(Encoded(p))
EndMark == EncodeUvarintAscending(HeaderKind)

\* The byte that ends a path.
LEMMA EndMarkIs == EndMark \in Seq(Byte) /\ EndMark = EncodeUvarintAscending(0)
<1>1. EndMark = EncodeUvarintAscending(0)
  BY Zenon DEF EndMark, HeaderKind
<1> QED
  BY <1>1, UvarintIs

\* The parts of an encoded path.
LEMMA EncodedIs ==
    ASSUME NEW p \in Seq(Segment)
    PROVE  /\ Encoded(p) \in Seq(Seq(Byte)) /\ Len(Encoded(p)) = Len(p)
           /\ \A i \in 1..Len(p) : Encoded(p)[i] = EncodeSegment(p[i])
           /\ Flat(p) \in Seq(Byte)
<1>1. Len(p) \in Nat /\ \A i \in 1..Len(p) : p[i] \in Segment
  BY Elements
<1>2. \A i \in 1..Len(p) : EncodeSegment(p[i]) \in Seq(Byte)
  BY <1>1, SegmentBytes, Zenon
<1>3. /\ Encoded(p) \in Seq(Seq(Byte)) /\ Len(Encoded(p)) = Len(p)
      /\ \A i \in 1..Len(p) : Encoded(p)[i] = EncodeSegment(p[i])
  BY <1>1, <1>2 DEF Encoded
<1>4. IsPrefix(Encoded(p), Encoded(p))
  BY <1>3, PrefixOrder
<1>5. Flat(p) \in Seq(Byte)
  BY <1>3, <1>4, FlattenPrefix, Zenon DEF Flat
<1> QED
  BY <1>3, <1>5

-----------------------------------------------------------------------------
(* Decoding paths *)

\* An end of an end is an end.
LEMMA ShorterTransitive ==
    ASSUME NEW a \in Seq(Byte), NEW b \in Shorter(a), NEW c \in Shorter(b)
    PROVE  c \in Shorter(a)
<1>1. b \in Seq(Byte) /\ Len(b) < Len(a) /\ c \in Seq(Byte) /\ Len(c) < Len(b)
  BY Zenon DEF Shorter
<1>2. Len(a) \in Nat /\ Len(b) \in Nat /\ Len(c) \in Nat
  BY <1>1, Bytes, Zenon
<1>3. Len(c) < Len(a)
  BY <1>1, <1>2
<1> QED
  BY <1>1, <1>3, Zenon DEF Shorter

\* One step of the loop of DecodeSegments.
SegmentAt(s, h, i) ==
    LET kind == DecodeUvarintAscending(SubSeq(s, i, Len(s)))
        idx == DecodeUvarintAscending(kind.rest)
        name == DecodeBytesAscending(kind.rest)
        Then(seg, rest) == Prepended(seg, h[Len(s) + 1 - Len(rest)])
    IN  IF i > Len(s) THEN Decoded(<<>>, <<>>)
        ELSE IF ~kind.ok THEN Failed
        ELSE IF kind.val = HeaderKind THEN Then(Header, kind.rest)
        ELSE IF kind.val = ArrayIndexKind
             THEN IF idx.ok /\ idx.val >= 0 THEN Then(ArrayIndex(idx.val), idx.rest) ELSE Failed
        ELSE IF kind.val = ObjectKeyKind
             THEN IF name.ok THEN Then(ObjectKey(name.val), name.rest) ELSE Failed
        ELSE IF i = 1 THEN Failed ELSE Decoded(<<>>, <<>>)

\* What it reads at a position.
KindAt(s, i) == DecodeUvarintAscending(SubSeq(s, i, Len(s)))
IdxAt(s, i) == DecodeUvarintAscending(KindAt(s, i).rest)
KeyAt(s, i) == DecodeBytesAscending(KindAt(s, i).rest)

\* What it makes of that.
LEMMA SegmentAtIs ==
    ASSUME NEW s, NEW h, NEW i
    PROVE  SegmentAt(s, h, i) =
               IF i > Len(s) THEN Decoded(<<>>, <<>>)
               ELSE IF ~KindAt(s, i).ok THEN Failed
               ELSE IF KindAt(s, i).val = 0
                    THEN Prepended(Header, h[Len(s) + 1 - Len(KindAt(s, i).rest)])
               ELSE IF KindAt(s, i).val = 1
                    THEN IF IdxAt(s, i).ok /\ IdxAt(s, i).val >= 0
                         THEN Prepended(ArrayIndex(IdxAt(s, i).val),
                                        h[Len(s) + 1 - Len(IdxAt(s, i).rest)])
                         ELSE Failed
               ELSE IF KindAt(s, i).val = 2
                    THEN IF KeyAt(s, i).ok
                         THEN Prepended(ObjectKey(KeyAt(s, i).val),
                                        h[Len(s) + 1 - Len(KeyAt(s, i).rest)])
                         ELSE Failed
               ELSE IF i = 1 THEN Failed ELSE Decoded(<<>>, <<>>)
  BY Zenon DEF SegmentAt, KindAt, IdxAt, KeyAt, HeaderKind, ArrayIndexKind, ObjectKeyKind

\* DecodeSegments with the loop named.
LEMMA SegmentLoop ==
    ASSUME NEW s \in Seq(Byte)
    PROVE  \E h : /\ \A i \in 1..(Len(s) + 1) : h[i] = SegmentAt(s, h, i)
                  /\ DecodeSegments(s) = h[1]
<1> DEFINE n == Len(s) + 1
           K(i) == KindAt(s, i)
           I(i) == IdxAt(s, i)
           N(i) == KeyAt(s, i)
           Zero(i) == K(i).val = 0
           One(i) == K(i).val = 1 /\ I(i).ok /\ I(i).val >= 0
           Two(i) == K(i).val = 2 /\ N(i).ok
           Goes(i) == ~(i > Len(s)) /\ K(i).ok /\ (Zero(i) \/ One(i) \/ Two(i))
           Rest(i) == IF K(i).val = 0 THEN K(i).rest ELSE IF K(i).val = 1 THEN I(i).rest
                      ELSE N(i).rest
           El(i) == IF K(i).val = 0 THEN Header ELSE IF K(i).val = 1 THEN ArrayIndex(I(i).val)
                    ELSE ObjectKey(N(i).val)
           Base(i) == IF i > Len(s) THEN Decoded(<<>>, <<>>)
                      ELSE IF /\ K(i).ok /\ K(i).val # 0 /\ K(i).val # 1 /\ K(i).val # 2
                              /\ i # 1
                      THEN Decoded(<<>>, <<>>) ELSE Failed
           stop == [i \in 1..n |-> ~Goes(i)]
           base == [i \in 1..n |-> Base(i)]
           el == [i \in 1..n |-> El(i)]
           next == [i \in 1..n |-> Len(s) + 1 - Len(Rest(i))]
           L(h) == Loop(h, 1, n, stop, base, el, next)
           Eq(h) == h = [i \in 1..(Len(s) + 1) |-> SegmentAt(s, h, i)]
<1>1. Len(s) \in Nat /\ n \in Nat /\ 1 <= n /\ 1 \in Nat
  BY Bytes
<1>2. ASSUME NEW i \in 1..n, Goes(i) PROVE Rest(i) \in Seq(Byte) /\ Len(Rest(i)) < Len(s) - i + 1
  <2> DEFINE a == SubSeq(s, i, Len(s))
  <2>1. a \in Seq(Byte) /\ Len(a) = Len(s) - i + 1
    BY RestIs, Zenon
  <2>2. K(i).ok => K(i).rest \in Shorter(a)
    BY <2>1, NumberLeaves, Zenon DEF KindAt
  <2>3. K(i).ok => K(i).rest \in Seq(Byte)
    BY <2>2, Zenon DEF Shorter
  <2>4. K(i).ok /\ I(i).ok => I(i).rest \in Shorter(K(i).rest)
    BY <2>3, NumberLeaves, Zenon DEF IdxAt
  <2>5. K(i).ok /\ N(i).ok => N(i).rest \in Shorter(K(i).rest)
    BY <2>3, NameLeaves, Zenon DEF KeyAt
  <2> HIDE DEF a, K, I, N
  <2>6. K(i).val = 1 => K(i).val # 0
    OBVIOUS
  <2>7. K(i).val = 2 => K(i).val # 0 /\ K(i).val # 1
    OBVIOUS
  <2>8. CASE Zero(i)
    <3>1. Rest(i) \in Shorter(a)
      BY <1>2, <2>2, <2>8, Zenon
    <3> HIDE DEF Rest, Goes
    <3> QED
      BY <2>1, <3>1, Zenon DEF Shorter
  <2>9. CASE One(i)
    <3>1. Rest(i) \in Shorter(a)
      BY <1>2, <2>1, <2>2, <2>4, <2>6, <2>9, ShorterTransitive, Zenon
    <3> HIDE DEF Rest, Goes
    <3> QED
      BY <2>1, <3>1, Zenon DEF Shorter
  <2>10. CASE Two(i)
    <3>1. Rest(i) \in Shorter(a)
      BY <1>2, <2>1, <2>2, <2>5, <2>7, <2>10, ShorterTransitive, Zenon
    <3> HIDE DEF Rest, Goes
    <3> QED
      BY <2>1, <3>1, Zenon DEF Shorter
  <2> QED
    BY <1>2, <2>8, <2>9, <2>10
<1>3. ASSUME NEW h, NEW i \in 1..n
      PROVE  SegmentAt(s, h, i) = IF ~Goes(i) THEN Base(i) ELSE Prepended(El(i), h[Len(s) + 1 - Len(Rest(i))])
  <2>1. SegmentAt(s, h, i) =
            IF i > Len(s) THEN Decoded(<<>>, <<>>)
            ELSE IF ~K(i).ok THEN Failed
            ELSE IF K(i).val = 0 THEN Prepended(Header, h[Len(s) + 1 - Len(K(i).rest)])
            ELSE IF K(i).val = 1
                 THEN IF I(i).ok /\ I(i).val >= 0
                      THEN Prepended(ArrayIndex(I(i).val), h[Len(s) + 1 - Len(I(i).rest)]) ELSE Failed
            ELSE IF K(i).val = 2
                 THEN IF N(i).ok THEN Prepended(ObjectKey(N(i).val), h[Len(s) + 1 - Len(N(i).rest)])
                      ELSE Failed
            ELSE IF i = 1 THEN Failed ELSE Decoded(<<>>, <<>>)
    BY SegmentAtIs, Zenon
  <2> HIDE DEF K, I, N, n
  <2>2. (K(i).val = 1 => K(i).val # 0) /\ (K(i).val = 2 => K(i).val # 0 /\ K(i).val # 1)
    OBVIOUS
  <2>3. CASE i > Len(s) \/ ~K(i).ok
    BY <2>1, <2>3, Zenon
  <2>4. CASE ~(i > Len(s)) /\ K(i).ok /\ K(i).val = 0
    BY <2>1, <2>4, Zenon
  <2>5. CASE ~(i > Len(s)) /\ K(i).ok /\ K(i).val = 1
    BY <2>1, <2>2, <2>5, Zenon
  <2>6. CASE ~(i > Len(s)) /\ K(i).ok /\ K(i).val = 2
    BY <2>1, <2>2, <2>6, Zenon
  <2>7. CASE ~(i > Len(s)) /\ K(i).ok /\ K(i).val # 0 /\ K(i).val # 1 /\ K(i).val # 2
    BY <2>1, <2>7, Zenon
  <2> QED
    BY <2>3, <2>4, <2>5, <2>6, <2>7
<1> HIDE DEF Goes, Base, El, Rest, K, I, N
<1>4. \A i \in 1..n : ~stop[i] => next[i] \in (i + 1)..n
  <2> SUFFICES ASSUME NEW i \in 1..n, ~stop[i] PROVE next[i] \in (i + 1)..n
    OBVIOUS
  <2>1. Goes(i) /\ next[i] = Len(s) + 1 - Len(Rest(i))
    BY Zenon
  <2>2. Rest(i) \in Seq(Byte) /\ Len(Rest(i)) < Len(s) - i + 1
    BY <1>2, <2>1
  <2>3. Len(Rest(i)) \in Nat
    BY <2>2, Bytes, Zenon
  <2>4. Len(s) + 1 - Len(Rest(i)) \in (i + 1)..n
    BY <1>1, <2>2, <2>3
  <2> QED
    BY <2>1, <2>4, Zenon
<1>5. \A h : L(h) <=> Eq(h)
  <2> SUFFICES ASSUME NEW h PROVE L(h) <=> Eq(h)
    OBVIOUS
  <2>1. ASSUME NEW i \in 1..n
        PROVE  SegmentAt(s, h, i) = IF stop[i] THEN base[i] ELSE Prepended(el[i], h[next[i]])
    <3>1. (stop[i] <=> ~Goes(i)) /\ base[i] = Base(i) /\ el[i] = El(i) /\ next[i] = Len(s) + 1 - Len(Rest(i))
      BY Zenon
    <3>2. SegmentAt(s, h, i) = IF ~Goes(i) THEN Base(i) ELSE Prepended(El(i), h[Len(s) + 1 - Len(Rest(i))])
      BY <1>3
    <3> HIDE DEF stop, base, el, next, n
    <3> QED
      BY <3>1, <3>2, Zenon
  <2> HIDE DEF stop, base, el, next
  <2>2. [i \in 1..n |-> SegmentAt(s, h, i)]
        = [i \in 1..n |-> IF stop[i] THEN base[i] ELSE Prepended(el[i], h[next[i]])]
    BY <2>1, Zenon
  <2> QED
    BY <2>2, Zenon DEF Loop
<1> HIDE DEF stop, base, el, next, n
<1>6. \E h : L(h)
  BY <1>1, <1>4, LoopExists, Zenon
<1> DEFINE h == CHOOSE h : Eq(h)
<1>7. Eq(h)
  BY <1>5, <1>6, Zenon
<1>8. DecodeSegments(s) = h[1]
  BY Zenon DEF DecodeSegments, SegmentAt
<1> HIDE DEF h
<1>9. \A i \in 1..(Len(s) + 1) : h[i] = SegmentAt(s, h, i)
  BY <1>7, Zenon
<1> QED
  BY <1>8, <1>9, Zenon

\* The three kinds of segments.
LEMMA SegmentKinds ==
    ASSUME NEW g \in Segment
    PROVE  \/ g = Header /\ EncodeSegment(g) = EncodeUvarintAscending(0)
           \/ /\ g = ArrayIndex(g.idx) /\ g.idx \in Number
              /\ EncodeSegment(g) = Cat(EncodeUvarintAscending(1), EncodeUvarintAscending(g.idx))
           \/ /\ g = ObjectKey(g.name) /\ g.name \in Seq(Byte)
              /\ EncodeSegment(g) = Cat(EncodeUvarintAscending(2), EncodeBytesAscending(g.name))
<1>1. /\ g.kind \in {0, 1, 2} /\ g.idx \in Number /\ g.name \in Seq(Byte)
      /\ g.kind # 1 => g.idx = 0
      /\ g.kind # 2 => g.name = <<>>
      /\ g = [kind |-> g.kind, idx |-> g.idx, name |-> g.name]
  BY SegmentIs, Zenon
<1>2. CASE g.kind = 0
  <2>1. g.idx = 0 /\ g.name = <<>>
    BY <1>1, <1>2
  <2>2. g = Header
    BY <1>1, <1>2, <2>1, Zenon DEF Header, HeaderKind
  <2>3. EncodeSegment(g) = EncodeUvarintAscending(0) \o <<>>
    BY <1>2 DEF EncodeSegment, HeaderKind, ArrayIndexKind, ObjectKeyKind
  <2>4. EncodeUvarintAscending(0) \in Seq(Byte)
    BY UvarintIs
  <2> QED
    BY <2>2, <2>3, <2>4, ConcatEmptySeq
<1>3. CASE g.kind = 1
  <2>1. g.name = <<>>
    BY <1>1, <1>3
  <2>2. g = ArrayIndex(g.idx)
    BY <1>1, <1>3, <2>1, Zenon DEF ArrayIndex, ArrayIndexKind
  <2> QED
    BY <1>1, <1>3, <2>2, SegmentBytes, Zenon
<1>4. CASE g.kind = 2
  <2>1. g.idx = 0
    BY <1>1, <1>4
  <2>2. g = ObjectKey(g.name)
    BY <1>1, <1>4, <2>1, Zenon DEF ObjectKey, ObjectKeyKind
  <2> QED
    BY <1>1, <1>4, <2>2, SegmentBytes, Zenon
<1> QED
  BY <1>1, <1>2, <1>3, <1>4

\* What Decoded holds.
LEMMA DecodedIs == \A r, v : Decoded(r, v).ok /\ Decoded(r, v).rest = r /\ Decoded(r, v).val = v
  BY DEF Decoded

\* A segment is decoded to itself, and the loop goes on behind it.
LEMMA SegmentStep ==
    ASSUME NEW s \in Seq(Byte), NEW h, NEW i \in 1..Len(s), NEW g \in Segment, NEW t \in Seq(Byte),
           SubSeq(s, i, Len(s)) = Cat(EncodeSegment(g), t)
    PROVE  SegmentAt(s, h, i) = Prepended(g, h[Len(s) + 1 - Len(t)])
<1> DEFINE K == KindAt(s, i)
           I == IdxAt(s, i)
           N == KeyAt(s, i)
<1>1. SegmentAt(s, h, i) =
          IF i > Len(s) THEN Decoded(<<>>, <<>>)
          ELSE IF ~K.ok THEN Failed
          ELSE IF K.val = 0 THEN Prepended(Header, h[Len(s) + 1 - Len(K.rest)])
          ELSE IF K.val = 1
               THEN IF I.ok /\ I.val >= 0
                    THEN Prepended(ArrayIndex(I.val), h[Len(s) + 1 - Len(I.rest)]) ELSE Failed
          ELSE IF K.val = 2
               THEN IF N.ok THEN Prepended(ObjectKey(N.val), h[Len(s) + 1 - Len(N.rest)])
                    ELSE Failed
          ELSE IF i = 1 THEN Failed ELSE Decoded(<<>>, <<>>)
  BY SegmentAtIs, Zenon
<1>2. ~(i > Len(s))
  BY Bytes
<1>3. 0 \in Number /\ 1 \in Number /\ 2 \in Number /\ 1 # 0 /\ 2 # 0 /\ 2 # 1
  BY SmallNumbers
<1>4. /\ EncodeUvarintAscending(1) \in Seq(Byte) /\ EncodeUvarintAscending(2) \in Seq(Byte)
  BY UvarintIs
<1>5. CASE g = Header /\ EncodeSegment(g) = EncodeUvarintAscending(0)
  <2>1. K = Decoded(t, 0)
    BY <1>3, <1>5, NumbersDecode, Zenon DEF KindAt
  <2> HIDE DEF K, I, N
  <2>2. K.ok /\ K.val = 0 /\ K.rest = t
    BY <2>1, DecodedIs, Zenon
  <2> QED
    BY <1>1, <1>2, <1>5, <2>2, Zenon
<1>6. CASE /\ g = ArrayIndex(g.idx) /\ g.idx \in Number
           /\ EncodeSegment(g) = Cat(EncodeUvarintAscending(1), EncodeUvarintAscending(g.idx))
  <2> DEFINE e == EncodeUvarintAscending(g.idx)
  <2>1. e \in Seq(Byte) /\ g.idx \in Nat
    BY <1>6, NumberIsNat, UvarintIs, Zenon
  <2>2. SubSeq(s, i, Len(s)) = Cat(EncodeUvarintAscending(1), Cat(e, t)) /\ Cat(e, t) \in Seq(Byte)
    <3> DEFINE k == EncodeUvarintAscending(1)
    <3>1. SubSeq(s, i, Len(s)) = Cat(Cat(k, e), t) /\ k \in Seq(Byte)
      BY <1>4, <1>6, Zenon
    <3> HIDE DEF e, k
    <3>2. Cat(Cat(k, e), t) = Cat(k, Cat(e, t)) /\ Cat(e, t) \in Seq(Byte)
      BY <2>1, <3>1, CatAssociative, CatIs, Zenon
    <3> QED
      BY <3>1, <3>2, Zenon DEF k
  <2>3. K = Decoded(Cat(e, t), 1)
    BY <1>3, <2>2, NumbersDecode, Zenon DEF KindAt
  <2>4. K.ok /\ K.val = 1 /\ K.rest = Cat(e, t)
    <3> HIDE DEF K, e
    <3> QED
      BY <2>3, DecodedIs, Zenon
  <2> HIDE DEF K
  <2>5. I = Decoded(t, g.idx)
    BY <1>6, <2>4, NumbersDecode, Zenon DEF IdxAt, K
  <2> HIDE DEF I, N
  <2>6. I.ok /\ I.val = g.idx /\ I.rest = t
    BY <2>5, DecodedIs, Zenon
  <2>7. g.idx >= 0
    BY <2>1
  <2> QED
    BY <1>1, <1>2, <1>3, <1>6, <2>4, <2>6, <2>7, Zenon
<1>7. CASE /\ g = ObjectKey(g.name) /\ g.name \in Seq(Byte)
           /\ EncodeSegment(g) = Cat(EncodeUvarintAscending(2), EncodeBytesAscending(g.name))
  <2> DEFINE e == EncodeBytesAscending(g.name)
  <2>1. e \in Seq(Byte)
    BY <1>7, BytesAre, Zenon
  <2>2. SubSeq(s, i, Len(s)) = Cat(EncodeUvarintAscending(2), Cat(e, t)) /\ Cat(e, t) \in Seq(Byte)
    <3> DEFINE k == EncodeUvarintAscending(2)
    <3>1. SubSeq(s, i, Len(s)) = Cat(Cat(k, e), t) /\ k \in Seq(Byte)
      BY <1>4, <1>7, Zenon
    <3> HIDE DEF e, k
    <3>2. Cat(Cat(k, e), t) = Cat(k, Cat(e, t)) /\ Cat(e, t) \in Seq(Byte)
      BY <2>1, <3>1, CatAssociative, CatIs, Zenon
    <3> QED
      BY <3>1, <3>2, Zenon DEF k
  <2>3. K = Decoded(Cat(e, t), 2)
    BY <1>3, <2>2, NumbersDecode, Zenon DEF KindAt
  <2>4. K.ok /\ K.val = 2 /\ K.rest = Cat(e, t)
    <3> HIDE DEF K, e
    <3> QED
      BY <2>3, DecodedIs, Zenon
  <2> HIDE DEF K
  <2>5. N = Decoded(t, g.name)
    BY <1>7, <2>4, NamesDecode, Zenon DEF KeyAt, K
  <2> HIDE DEF I, N
  <2>6. N.ok /\ N.val = g.name /\ N.rest = t
    BY <2>5, DecodedIs, Zenon
  <2> QED
    BY <1>1, <1>2, <1>3, <1>7, <2>4, <2>6, Zenon
<1> QED
  BY <1>5, <1>6, <1>7, SegmentKinds, Zenon

\* A key is its beginning and the rest.
LEMMA PrefixRest ==
    ASSUME NEW a \in Seq(Byte), NEW s \in Seq(Byte), IsPrefix(a, s)
    PROVE  /\ s = Cat(a, SubSeq(s, Len(a) + 1, Len(s)))
           /\ SubSeq(s, Len(a) + 1, Len(s)) \in Seq(Byte)
           /\ Len(SubSeq(s, Len(a) + 1, Len(s))) = Len(s) - Len(a)
<1>1. Len(a) \in Nat /\ Len(s) \in Nat
  BY Bytes, Zenon
<1>2. Len(a) <= Len(s) /\ Agree(a, s, Len(a))
  BY PrefixIff, Zenon
<1>3. PICK m \in 1..(Len(s) + 1) : m = Len(a) + 1
  BY <1>1, <1>2
<1> DEFINE t == SubSeq(s, m, Len(s))
           c == Cat(a, t)
<1>4. t \in Seq(Byte) /\ Len(t) = Len(s) - m + 1 /\ \A i \in 1..(Len(s) - m + 1) : t[i] = s[m + i - 1]
  BY RestIs, Zenon
<1> HIDE DEF t
<1>5. /\ c \in Seq(Byte) /\ Len(c) = Len(a) + Len(t)
      /\ \A i \in 1..Len(a) : c[i] = a[i]
      /\ \A i \in 1..Len(t) : c[Len(a) + i] = t[i]
  BY <1>4, CatElements, Zenon
<1> HIDE DEF c
<1>6. Len(t) = Len(s) - Len(a) /\ Len(c) = Len(s)
  BY <1>1, <1>3, <1>4, <1>5
<1>7. ASSUME NEW i \in 1..Len(s) PROVE c[i] = s[i]
  <2>1. CASE i \in 1..Len(a)
    BY <1>2, <1>5, <2>1, Zenon DEF Agree
  <2>2. CASE i \notin 1..Len(a)
    <3>1. PICK j \in 1..Len(t) : i = Len(a) + j /\ m + j - 1 = i /\ j \in 1..(Len(s) - m + 1)
      <4>1. i - Len(a) \in 1..Len(t) /\ i = Len(a) + (i - Len(a)) /\ m + (i - Len(a)) - 1 = i
            /\ i - Len(a) \in 1..(Len(s) - m + 1)
        BY <1>1, <1>3, <1>6, <2>2
      <4> QED
        BY <4>1
    <3> QED
      BY <1>4, <1>5, <3>1, Zenon
  <2> QED
    BY <2>1, <2>2
<1>8. c = s
  BY <1>5, <1>6, <1>7, SeqEqual
<1> QED
  BY <1>3, <1>4, <1>6, <1>8, Zenon DEF c, t

\* The header is a segment, written as the end mark.
LEMMA HeaderIs == Header \in Segment /\ EncodeSegment(Header) = EndMark
<1>1. Header \in Segment /\ Header.kind = 0
  BY SmallNumbers DEF Header, Segment, HeaderKind, ArrayIndexKind, ObjectKeyKind
<1>2. EncodeSegment(Header) = EncodeUvarintAscending(0) \o <<>>
  BY <1>1 DEF EncodeSegment, HeaderKind, ArrayIndexKind, ObjectKeyKind
<1>3. EncodeUvarintAscending(0) \in Seq(Byte)
  BY UvarintIs
<1> QED
  BY <1>1, <1>2, <1>3, ConcatEmptySeq, EndMarkIs

\* The number at the end of a key ends the loop.
LEMMA EndStep ==
    ASSUME NEW s \in Seq(Byte), NEW h, NEW i \in 2..Len(s), NEW n \in Number, n > 2,
           SubSeq(s, i, Len(s)) = EncodeUvarintAscending(n)
    PROVE  SegmentAt(s, h, i) = Decoded(<<>>, <<>>)
<1> DEFINE z == <<>>
<1>1. z \in Seq(Byte) /\ EncodeUvarintAscending(n) \in Seq(Byte)
  BY NumberIsNat, UvarintIs
<1>2. Cat(EncodeUvarintAscending(n), z) = EncodeUvarintAscending(n)
  BY <1>1, ConcatEmptySeq DEF Cat
<1>3. KindAt(s, i) = Decoded(z, n)
  <2> HIDE DEF z
  <2>1. DecodeUvarintAscending(Cat(EncodeUvarintAscending(n), z)) = Decoded(z, n)
    BY <1>1, NumbersDecode, Zenon
  <2> QED
    BY <1>2, <2>1, Zenon DEF KindAt
<1>4. KindAt(s, i).ok /\ KindAt(s, i).val = n
  <2> HIDE DEF z
  <2>1. Decoded(z, n).ok /\ Decoded(z, n).val = n
    BY DecodedIs, Zenon
  <2> QED
    BY <1>3, <2>1, Zenon
<1>5. ~(i > Len(s)) /\ i # 1 /\ n # 0 /\ n # 1 /\ n # 2
  BY NumberIsNat, Bytes
<1> QED
  BY <1>4, <1>5, SegmentAtIs, Zenon

\* Concatenation of paths is associative.
LEMMA PathAssociative ==
    ASSUME NEW a \in Seq(Segment), NEW b \in Seq(Segment), NEW c \in Seq(Segment)
    PROVE  a \o (b \o c) = (a \o b) \o c
  BY ConcatAssociative, SMT

\* DecodeSegments gives back the segments of a path and the end mark, and stops
\* at the length behind them, a number that is no kind of segment.
THEOREM PathsDecode ==
    ASSUME NEW p \in Seq(Segment), NEW n \in Number, n > 2, NEW s,
           s = Cat(Flat(p), Cat(EndMark, EncodeUvarintAscending(n)))
    PROVE  DecodeSegments(s) = Decoded(<<>>, p \o <<Header>>)
<1> DEFINE L == Len(p)
           l == EncodeUvarintAscending(n)
<1>1. L \in Nat /\ \A i \in 1..L : p[i] \in Segment
  BY Elements
<1>2. /\ Encoded(p) \in Seq(Seq(Byte)) /\ Len(Encoded(p)) = L
      /\ \A i \in 1..L : Encoded(p)[i] = EncodeSegment(p[i])
  BY EncodedIs, Zenon
<1>3. PICK f : Parts(Encoded(p), L, f) /\ Flat(p) = f[L]
  BY <1>2, FlattenIs, Zenon DEF Flat
<1> DEFINE F == f[L]
<1>4. /\ \A i \in 0..L : f[i] \in Seq(Byte) /\ IsPrefix(f[i], F)
      /\ \A i \in 0..(L - 1) : f[i + 1] = Cat(f[i], Encoded(p)[i + 1])
  BY <1>2, <1>3, PartsAre, PartsPrefix, Zenon
<1>5. F \in Seq(Byte) /\ L \in 0..L /\ 0 \in 0..L
  BY <1>1, <1>4
<1>6. l \in Seq(Byte) /\ Len(l) \in 1..5 /\ EndMark \in Seq(Byte) /\ Len(EndMark) = 1
  <2>1. n \in Nat /\ 0 \in Nat
    BY NumberIsNat
  <2>2. l \in Seq(Byte) /\ Len(l) \in 1..5
    BY <2>1, UvarintIs, Zenon
  <2>3. Len(EncodeUvarintAscending(0)) = 1
    BY DEF EncodeUvarintAscending, intSmall
  <2> QED
    BY <2>2, <2>3, EndMarkIs, Zenon
<1> DEFINE el == Cat(EndMark, l)
           fe == Cat(F, EndMark)
<1> HIDE DEF F, l
<1>7. el \in Seq(Byte) /\ Len(el) = Len(EndMark) + Len(l)
  BY <1>6, CatElements, Zenon
<1>8. fe \in Seq(Byte) /\ Len(fe) = Len(F) + Len(EndMark)
  BY <1>5, <1>6, CatElements, Zenon
<1>9. s = Cat(F, el) /\ s = Cat(fe, l)
  <2>1. s = Cat(F, el)
    BY <1>3, Zenon DEF F, l
  <2> QED
    BY <1>5, <1>6, <2>1, CatAssociative, Zenon
<1> HIDE DEF el, fe
<1>10. /\ s \in Seq(Byte) /\ Len(s) = Len(F) + Len(el) /\ IsPrefix(F, s)
       /\ SubSeq(s, Len(F) + 1, Len(s)) = el
       /\ SubSeq(s, Len(fe) + 1, Len(s)) = l
  <2>1. Cat(F, el) \in Seq(Byte) /\ Len(Cat(F, el)) = Len(F) + Len(el) /\ IsPrefix(F, Cat(F, el))
    BY <1>5, <1>7, CatElements, CatIs, Zenon
  <2>2. SubSeq(Cat(F, el), Len(F) + 1, Len(Cat(F, el))) = el
    BY <1>5, <1>7, RestOf, Zenon
  <2>3. SubSeq(Cat(fe, l), Len(fe) + 1, Len(Cat(fe, l))) = l
    BY <1>6, <1>8, RestOf, Zenon
  <2> QED
    BY <1>9, <2>1, <2>2, <2>3, Zenon
<1>11. Len(F) \in Nat /\ Len(l) \in Nat /\ Len(fe) = Len(F) + 1 /\ Len(s) = Len(F) + 1 + Len(l)
  BY <1>5, <1>6, <1>7, <1>8, <1>10, Bytes
<1>12. PICK h : /\ \A i \in 1..(Len(s) + 1) : h[i] = SegmentAt(s, h, i)
                /\ DecodeSegments(s) = h[1]
  BY <1>10, SegmentLoop, Zenon
\* The end of the path, behind the last segment.
<1>13. h[Len(F) + 1] = Decoded(<<>>, <<Header>>)
  <2>1. PICK i \in 1..Len(s) : i = Len(F) + 1 /\ i \in 1..(Len(s) + 1)
    BY <1>6, <1>11
  <2>2. PICK j \in 2..Len(s) : j = Len(fe) + 1 /\ j = Len(s) + 1 - Len(l) /\ j \in 1..(Len(s) + 1)
    <3>1. PICK c \in Nat, d \in 1..5 : c = Len(F) /\ d = Len(l)
      BY <1>6, <1>11, Zenon
    <3>2. Len(fe) = c + 1 /\ Len(s) = c + 1 + d
      BY <1>11, <3>1
    <3>3. /\ c + 2 \in 2..(c + 1 + d) /\ c + 2 \in 1..(c + 1 + d + 1)
          /\ c + 2 = (c + 1) + 1 /\ c + 2 = (c + 1 + d) + 1 - d
      OBVIOUS
    <3> QED
      BY <3>1, <3>2, <3>3, Zenon
  <2>3. SegmentAt(s, h, j) = Decoded(<<>>, <<>>)
    BY <1>10, <2>2, EndStep, Zenon DEF l
  <2>4. h[j] = Decoded(<<>>, <<>>)
    BY <1>12, <2>2, <2>3, Zenon
  <2>5. SegmentAt(s, h, i) = Prepended(Header, h[Len(s) + 1 - Len(l)])
    <3>1. SubSeq(s, i, Len(s)) = Cat(EncodeSegment(Header), l)
      BY <1>10, <2>1, HeaderIs, Zenon DEF el
    <3> QED
      <4>1. Header \in Segment /\ s \in Seq(Byte) /\ l \in Seq(Byte)
        BY <1>6, <1>10, HeaderIs, Zenon
      <4> QED
        BY <3>1, <4>1, SegmentStep, Zenon
  <2>6. h[i] = Prepended(Header, Decoded(<<>>, <<>>))
    BY <1>12, <2>1, <2>2, <2>4, <2>5, Zenon
  <2>7. <<Header>> \o <<>> = <<Header>>
    OBVIOUS
  <2> QED
    BY <2>1, <2>6, <2>7, PrependedIs, ZenonT(30)
\* One segment of it.
<1>14. ASSUME NEW i \in 0..(L - 1) PROVE h[Len(f[i]) + 1] = Prepended(p[i + 1], h[Len(f[i + 1]) + 1])
  <2>1. i \in 0..L /\ i + 1 \in 0..L /\ i + 1 \in 1..L
    BY <1>1
  <2> DEFINE a == f[i]
             b == f[i + 1]
             e == EncodeSegment(p[i + 1])
             t == SubSeq(s, Len(b) + 1, Len(s))
  <2>2. /\ a \in Seq(Byte) /\ IsPrefix(a, F) /\ b \in Seq(Byte) /\ IsPrefix(b, F)
        /\ b = Cat(a, e) /\ p[i + 1] \in Segment
    BY <1>1, <1>2, <1>4, <2>1, Zenon
  <2>3. e \in Seq(Byte)
    BY <2>2, SegmentBytes, Zenon
  <2>4. IsPrefix(b, s) /\ Len(a) <= Len(F) /\ Len(a) \in Nat /\ Len(b) \in Nat
    <3> HIDE DEF a, b, e, t
    <3>1. IsPrefix(b, s)
      <4>1. b \in Seq(Byte) /\ F \in Seq(Byte) /\ s \in Seq(Byte) /\ IsPrefix(b, F) /\ IsPrefix(F, s)
        BY <1>5, <1>10, <2>2
      <4> QED
        BY <4>1, BytePrefixes
    <3>2. Len(a) <= Len(F)
      BY <1>5, <2>2, PrefixIff, Zenon
    <3>3. Len(a) \in Nat /\ Len(b) \in Nat
      BY <2>2, Bytes, Zenon
    <3> QED
      BY <3>1, <3>2, <3>3
  <2>5. s = Cat(b, t) /\ t \in Seq(Byte) /\ Len(t) = Len(s) - Len(b)
    BY <1>10, <2>2, <2>4, PrefixRest, Zenon
  <2> HIDE DEF a, b, e, t
  <2>6. Cat(e, t) \in Seq(Byte) /\ s = Cat(a, Cat(e, t))
    <3>1. Cat(Cat(a, e), t) = Cat(a, Cat(e, t)) /\ Cat(e, t) \in Seq(Byte)
      <4>1. a \in Seq(Byte) /\ e \in Seq(Byte) /\ t \in Seq(Byte)
        BY <2>2, <2>3, <2>5, Zenon
      <4>2. Cat(Cat(a, e), t) = Cat(a, Cat(e, t))
        BY ONLY <4>1, CatAssociative, Zenon
      <4>3. Cat(e, t) \in Seq(Byte)
        BY ONLY <4>1, CatIs, Zenon
      <4> QED
        BY <4>2, <4>3
    <3> QED
      BY <2>2, <2>5, <3>1, Zenon
  <2>7. SubSeq(s, Len(a) + 1, Len(s)) = Cat(e, t)
    <3>1. SubSeq(Cat(a, Cat(e, t)), Len(a) + 1, Len(Cat(a, Cat(e, t)))) = Cat(e, t)
      BY <2>2, <2>6, RestOf, Zenon
    <3> QED
      BY <2>6, <3>1, Zenon
  <2>8. PICK j \in 1..Len(s) : j = Len(a) + 1 /\ j \in 1..(Len(s) + 1)
    BY <1>6, <1>11, <2>4, SMTT(30)
  <2>9. SegmentAt(s, h, j) = Prepended(p[i + 1], h[Len(s) + 1 - Len(t)])
    <3>1. SubSeq(s, j, Len(s)) = Cat(EncodeSegment(p[i + 1]), t)
      BY <2>7, <2>8, Zenon DEF e
    <3> QED
      BY <1>10, <2>2, <2>5, <3>1, SegmentStep, Zenon
  <2>10. Len(s) + 1 - Len(t) = Len(b) + 1
    <3>1. Len(s) \in Nat
      BY <1>10, Bytes, Zenon
    <3> QED
      BY <2>4, <2>5, <3>1
  <2>11. h[Len(a) + 1] = Prepended(p[i + 1], h[Len(b) + 1])
    BY <1>12, <2>8, <2>9, <2>10, Zenon
  <2> QED
    BY <2>11 DEF a, b
\* All of it, from the end.
<1> DEFINE S == {k \in 0..L : h[Len(f[L - k]) + 1] = Decoded(<<>>, SubSeq(p, L - k + 1, L) \o <<Header>>)}
<1>15. 0 \in S
  <2>1. SubSeq(p, L - 0 + 1, L) \o <<Header>> = <<Header>> /\ L - 0 = L /\ 0 \in 0..L
    <3>1. SubSeq(p, L - 0 + 1, L) = <<>> /\ L - 0 = L /\ 0 \in 0..L
      BY <1>1
    <3>2. <<>> \o <<Header>> = <<Header>>
      OBVIOUS
    <3> QED
      BY <3>1, <3>2, Zenon
  <2> QED
    BY <1>13, <2>1, Zenon DEF F
<1>16. ASSUME NEW k \in 0..(L - 1), k \in S PROVE k + 1 \in S
  <2>1. L \in Nat
    BY <1>1
  <2> HIDE DEF L
  <2>2. PICK i \in 0..(L - 1) : i = L - (k + 1) /\ i + 1 = L - k
    BY <2>1
  <2> DEFINE q == SubSeq(p, (i + 1) + 1, L)
             e == <<Header>>
  <2>3. h[Len(f[i + 1]) + 1] = Decoded(<<>>, q \o e)
    BY <1>16, <2>2, Zenon
  <2>4. i + 1 \in 1..L /\ L \in (i + 1)..L /\ (i + 1) + 1 \in 1..(L + 1) /\ k + 1 \in 0..L
    BY <2>1
  <2>5. SubSeq(p, i + 1, L) = <<p[i + 1]>> \o q
    BY <2>4, SubSeqRecursiveFirst DEF L
  <2>6. p[i + 1] \in Segment
    BY <1>1, <2>4, Zenon DEF L
  <2>7. q \in Seq(Segment)
    BY <2>4, SubSeqProperties DEF L
  <2> DEFINE g == <<p[i + 1]>>
  <2>8. g \in Seq(Segment) /\ e \in Seq(Segment)
    BY <2>6, HeaderIs
  <2> HIDE DEF q, e
  <2>9. g \o (q \o e) = (g \o q) \o e
    <3> HIDE DEF g
    <3> QED
      BY <2>7, <2>8, PathAssociative, Zenon
  <2>10. h[Len(f[i]) + 1] = Prepended(p[i + 1], Decoded(<<>>, q \o e))
    BY <1>14, <2>3
  <2>11. h[Len(f[i]) + 1] = Decoded(<<>>, g \o (q \o e))
    <3>1. \A w : Prepended(p[i + 1], Decoded(<<>>, w)) = Decoded(<<>>, <<p[i + 1]>> \o w)
      BY PrependedIs, Zenon
    <3> QED
      BY <2>10, <3>1, Zenon
  <2>12. h[Len(f[i]) + 1] = Decoded(<<>>, SubSeq(p, i + 1, L) \o e)
    BY <2>5, <2>9, <2>11, Zenon
  <2> QED
    BY <2>2, <2>4, <2>12, Zenon DEF e
<1>17. \A k \in 0..L : k \in S
  <2> HIDE DEF S
  <2> QED
    BY <1>1, <1>15, <1>16, UpTo
<1>18. h[Len(f[0]) + 1] = Decoded(<<>>, SubSeq(p, 1, L) \o <<Header>>)
  <2>1. L \in 0..L /\ L - L = 0 /\ L - L + 1 = 1
    BY <1>1
  <2>2. L \in S
    <3> HIDE DEF S
    <3> QED
      BY <1>17, <2>1, Zenon
  <2> QED
    BY <2>1, <2>2
<1>19. SubSeq(p, 1, L) = p /\ Len(f[0]) + 1 = 1
  BY <1>3, SubSeqFull DEF Parts
<1> QED
  BY <1>12, <1>18, <1>19, Zenon
=============================================================================
