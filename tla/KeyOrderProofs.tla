--------------------------- MODULE KeyOrderProofs ---------------------------
(***************************************************************************)
(* Proofs of the properties of KeyOrder for any set of entries that        *)
(* satisfies EntriesAssumption: paths of any depth, names of any length,   *)
(* indexes and column IDs of every width below 2^31.                       *)
(*                                                                         *)
(*  - KeysSortLikeTreeHolds: the order of keys is the order of the tree.   *)
(*  - SubtreeIsSpanHolds: the span of a path is its subtree.               *)
(*  - RowDeleteTakesSubsHolds: the span deleted with a row holds its       *)
(*    subordinate values and no other key.                                 *)
(*  - RowPrefixIsRowHolds: GetRowPrefixLength finds the row, when the      *)
(*    length of the suffix takes one byte.                                 *)
(*  - KeysDecodeHolds: under the same condition a subordinate key gives    *)
(*    back its row, its column and its path, and no other key passes for   *)
(*    one.                                                                 *)
(*                                                                         *)
(* The argument goes up the layers of a key. Of two different numbers,     *)
(* names or segments one encoding is Below the other: the first byte in    *)
(* which they differ is less, and there is one, since none is a prefix of  *)
(* another. Below survives what is written in front of both and behind     *)
(* either, so it carries over to paths, to the suffixes of a row and to    *)
(* whole keys, together with the order of the tree that decides it.        *)
(* Decoding goes the same way: a number, a name or a segment is read back  *)
(* whatever follows it, and a path segment by segment from its end.        *)
(***************************************************************************)
EXTENDS KeyOrder, KeyEncodingProofs

-----------------------------------------------------------------------------
(* Segments *)

\* Of two numbers one is less.
LEMMA NumberTotal == \A v, w \in Number : v # w => v < w \/ w < v
  BY SMT DEF Number

\* What is below stays below behind the same beginning.
LEMMA CatBelow ==
    ASSUME NEW c \in Seq(Byte), NEW a \in Seq(Byte), NEW b \in Seq(Byte), Below(a, b)
    PROVE  Below(Cat(c, a), Cat(c, b))
  BY BelowConcat, Zenon DEF Cat

\* Encoding keeps the order of segments, and none is a prefix of another.
LEMMA SegmentBelow ==
    ASSUME NEW s \in Segment, NEW t \in Segment, SegmentBefore(s, t)
    PROVE  Below(EncodeSegment(s), EncodeSegment(t))
<1>1. /\ s.kind \in Number /\ s.idx \in Number /\ s.name \in Seq(Byte) /\ s.kind \in {0, 1, 2}
      /\ t.kind \in Number /\ t.idx \in Number /\ t.name \in Seq(Byte)
      /\ (s.kind # 1 => s.idx = 0) /\ (s.kind # 2 => s.name = <<>>)
      /\ (t.kind # 1 => t.idx = 0) /\ (t.kind # 2 => t.name = <<>>)
  BY SegmentIs, Zenon
<1> DEFINE k == EncodeUvarintAscending(s.kind)
           l == EncodeUvarintAscending(t.kind)
<1>2. /\ EncodeSegment(s) \in Seq(Byte) /\ k \in Seq(Byte) /\ IsPrefix(k, EncodeSegment(s))
      /\ EncodeSegment(t) \in Seq(Byte) /\ l \in Seq(Byte) /\ IsPrefix(l, EncodeSegment(t))
  BY SegmentBytes, Zenon
<1>3. CASE s.kind < t.kind
  <2>1. Below(k, l)
    BY <1>1, <1>3, UvarintBelow, Zenon
  <2> HIDE DEF k, l
  <2> QED
    BY <1>2, <2>1, BelowExtends, Zenon
<1>4. CASE s.kind = t.kind /\ s.idx < t.idx
  <2>1. s.kind = 1
    <3> SUFFICES ASSUME s.kind # 1 PROVE FALSE
      OBVIOUS
    <3>1. s.idx = 0 /\ t.idx = 0
      BY <1>1, <1>4
    <3> QED
      BY <1>4, <3>1
  <2> DEFINE i == EncodeUvarintAscending(s.idx)
             j == EncodeUvarintAscending(t.idx)
  <2>2. EncodeSegment(s) = Cat(k, i) /\ EncodeSegment(t) = Cat(k, j)
    BY <1>4, <2>1, SegmentBytes, Zenon
  <2>3. Below(i, j)
    BY <1>1, <1>4, UvarintBelow, Zenon
  <2>4. i \in Seq(Byte) /\ j \in Seq(Byte)
    BY <1>1, NumberIsNat, UvarintIs, ZenonT(30)
  <2> HIDE DEF i, j, k, l
  <2> QED
    BY <1>2, <2>2, <2>3, <2>4, CatBelow, Zenon
<1>5. CASE s.kind = t.kind /\ KeyLess(s.name, t.name)
  <2>1. s.kind = 2
    <3> SUFFICES ASSUME s.kind # 2 PROVE FALSE
      OBVIOUS
    <3>1. s.name = <<>> /\ t.name = <<>>
      BY <1>1, <1>5
    <3>2. ~KeyLess(s.name, s.name)
      BY <1>1, LessIrreflexive
    <3> QED
      BY <1>5, <3>1, <3>2, Zenon
  <2> DEFINE i == EncodeBytesAscending(s.name)
             j == EncodeBytesAscending(t.name)
  <2>2. EncodeSegment(s) = Cat(k, i) /\ EncodeSegment(t) = Cat(k, j)
    BY <1>5, <2>1, SegmentBytes, Zenon
  <2>3. Below(i, j)
    BY <1>1, <1>5, BytesBelow, Zenon
  <2>4. i \in Seq(Byte) /\ j \in Seq(Byte)
    BY <1>1, BytesAre, Zenon
  <2> HIDE DEF i, j, k, l
  <2> QED
    BY <1>2, <2>2, <2>3, <2>4, CatBelow, Zenon
<1> QED
  BY <1>3, <1>4, <1>5, Zenon DEF SegmentBefore

\* Of two segments one is before the other.
LEMMA SegmentTotal ==
    ASSUME NEW s \in Segment, NEW t \in Segment, s # t
    PROVE  SegmentBefore(s, t) \/ SegmentBefore(t, s)
<1>1. /\ s.kind \in Number /\ s.idx \in Number /\ s.name \in Seq(Byte)
      /\ t.kind \in Number /\ t.idx \in Number /\ t.name \in Seq(Byte)
      /\ s = [kind |-> s.kind, idx |-> s.idx, name |-> s.name]
      /\ t = [kind |-> t.kind, idx |-> t.idx, name |-> t.name]
  BY SegmentIs, Zenon
<1>2. s.kind # t.kind \/ s.idx # t.idx \/ s.name # t.name
  BY <1>1, Zenon
<1>3. CASE s.kind # t.kind
  BY <1>1, <1>3, NumberTotal, Zenon DEF SegmentBefore
<1>4. CASE s.kind = t.kind /\ s.idx # t.idx
  BY <1>1, <1>4, NumberTotal, Zenon DEF SegmentBefore
<1>5. CASE s.kind = t.kind /\ s.name # t.name
  BY <1>1, <1>5, LessTotal, Zenon DEF SegmentBefore
<1> QED
  BY <1>2, <1>3, <1>4, <1>5, Zenon

-----------------------------------------------------------------------------
(* Paths *)

\* Equal segments are written alike.
LEMMA EncodedAgree ==
    ASSUME NEW p \in Seq(Segment), NEW q \in Seq(Segment), NEW n \in Nat,
           n <= Len(p), n <= Len(q), Agree(p, q, n)
    PROVE  Agree(Encoded(p), Encoded(q), n)
<1> SUFFICES ASSUME NEW i \in 1..n PROVE Encoded(p)[i] = Encoded(q)[i]
  BY Zenon DEF Agree
<1>1. i \in 1..Len(p) /\ i \in 1..Len(q)
  BY Elements
<1>2. p[i] = q[i]
  BY Zenon DEF Agree
<1> QED
  BY <1>1, <1>2, EncodedIs, Zenon

\* A path that goes on differently is written so.
LEMMA SplitBelow ==
    ASSUME NEW p \in Seq(Segment), NEW q \in Seq(Segment), NEW n \in Nat,
           n < Len(p), n < Len(q), Agree(p, q, n), SegmentBefore(p[n + 1], q[n + 1])
    PROVE  Below(Flat(p), Flat(q))
<1>1. /\ Len(p) \in Nat /\ \A i \in 1..Len(p) : p[i] \in Segment
      /\ Len(q) \in Nat /\ \A i \in 1..Len(q) : q[i] \in Segment
  BY Elements
<1>2. PICK m \in Nat : m = n + 1 /\ m \in 1..Len(p) /\ m \in 1..Len(q)
  BY <1>1
<1> DEFINE s == Encoded(p)
           t == Encoded(q)
<1>3. /\ s \in Seq(Seq(Byte)) /\ Len(s) = Len(p) /\ s[m] = EncodeSegment(p[m])
      /\ t \in Seq(Seq(Byte)) /\ Len(t) = Len(q) /\ t[m] = EncodeSegment(q[m])
      /\ Flat(p) \in Seq(Byte) /\ Flat(q) \in Seq(Byte)
  BY <1>2, EncodedIs, Zenon
<1>4. n <= Len(p) /\ n <= Len(q) /\ n < Len(s) /\ n < Len(t)
  BY <1>1, <1>3
<1>5. Agree(s, t, n)
  BY <1>4, EncodedAgree, Zenon
<1>6. PICK c \in Seq(Byte) : IsPrefix(c \o s[n + 1], Flat(p)) /\ IsPrefix(c \o t[n + 1], Flat(q))
  BY <1>3, <1>4, <1>5, FlattenSplit, Zenon DEF Flat
<1>7. p[m] \in Segment /\ q[m] \in Segment /\ SegmentBefore(p[m], q[m])
  BY <1>1, <1>2, Zenon
<1>8. Below(EncodeSegment(p[m]), EncodeSegment(q[m]))
  BY <1>7, SegmentBelow, Zenon
<1>9. EncodeSegment(p[m]) \in Seq(Byte) /\ EncodeSegment(q[m]) \in Seq(Byte)
  BY <1>7, SegmentBytes, Zenon
<1> DEFINE u == c \o s[m]
           v == c \o t[m]
<1>10. IsPrefix(u, Flat(p)) /\ IsPrefix(v, Flat(q))
  BY <1>2, <1>6, Zenon
<1>11. u \in Seq(Byte) /\ v \in Seq(Byte) /\ Below(u, v)
  BY <1>3, <1>8, <1>9, ConcatElements, BelowConcat, Zenon
<1> HIDE DEF u, v
<1> QED
  BY <1>3, <1>10, <1>11, BelowExtends, Zenon

\* A path that goes on is written after the end of the one it continues.
LEMMA EndBelow ==
    ASSUME NEW p \in Seq(Segment), NEW q \in Seq(Segment), IsPath(p), IsPath(q),
           IsPrefix(p, q), Len(p) < Len(q)
    PROVE  Below(Cat(Flat(p), EndMark), Flat(q))
<1>1. /\ Len(p) \in Nat /\ \A i \in 1..Len(p) : p[i] \in Segment
      /\ Len(q) \in Nat /\ \A i \in 1..Len(q) : q[i] \in Segment
  BY Elements
<1>2. Len(p) # 0
  BY <1>1 DEF IsPath
<1>3. PICK m \in 2..Len(q) : m = Len(p) + 1
  BY <1>1, <1>2
<1>4. m \in 1..Len(q) /\ q[m].kind # 0
  BY <1>1 DEF IsPath, HeaderKind
<1> DEFINE s == Encoded(p)
           t == Encoded(q)
<1>5. /\ s \in Seq(Seq(Byte)) /\ Len(s) = Len(p)
      /\ t \in Seq(Seq(Byte)) /\ Len(t) = Len(q) /\ t[m] = EncodeSegment(q[m])
      /\ Flat(p) \in Seq(Byte) /\ Flat(q) \in Seq(Byte)
  BY <1>4, EncodedIs, Zenon
<1>6. Len(p) <= Len(q) /\ Len(p) <= Len(p) /\ Agree(p, q, Len(p))
  BY <1>1, PrefixIff
<1>7. Agree(s, t, Len(p))
  BY <1>1, <1>6, EncodedAgree
<1> HIDE DEF s, t
<1>8. IsPrefix(s, t) /\ Len(s) < Len(t)
  BY <1>5, <1>6, <1>7, PrefixIff
<1>9. IsPrefix(FlattenSeq(s) \o t[Len(s) + 1], FlattenSeq(t))
  BY <1>5, <1>8, FlattenPrefix, Zenon
<1>10. IsPrefix(Cat(FlattenSeq(s), t[m]), FlattenSeq(t))
  BY <1>3, <1>5, <1>9, Zenon DEF Cat
<1>11. IsPrefix(Cat(Flat(p), EncodeSegment(q[m])), Flat(q))
  BY <1>5, <1>10, Zenon DEF Flat, s, t
<1>12. q[m] \in Segment
  BY <1>1, <1>4, Zenon
<1> DEFINE k == EncodeUvarintAscending(q[m].kind)
           g == EncodeSegment(q[m])
<1>13. g \in Seq(Byte) /\ k \in Seq(Byte) /\ IsPrefix(k, g)
  BY <1>12, SegmentBytes, Zenon
<1>14. q[m].kind \in Number /\ 0 < q[m].kind
  <2>1. q[m].kind \in Number /\ q[m].kind \in {0, 1, 2}
    BY <1>12, SegmentIs, Zenon
  <2> QED
    BY <1>4, <2>1
<1>15. Below(EndMark, k)
  BY <1>14, EndMarkIs, SmallNumbers, UvarintBelow, Zenon
<1>16. IsPrefix(Cat(Flat(p), g), Flat(q))
  BY <1>11, Zenon
<1> HIDE DEF k, g
<1>17. EndMark \in Seq(Byte) /\ IsPrefix(EndMark, EndMark)
  BY EndMarkIs, BytePrefixes, Zenon
<1>18. Below(EndMark, g)
  BY <1>13, <1>15, <1>17, BelowExtends, Zenon
<1> DEFINE a == Cat(Flat(p), EndMark)
           b == Cat(Flat(p), g)
<1>19. a \in Seq(Byte) /\ b \in Seq(Byte) /\ Below(a, b)
  BY <1>5, <1>13, <1>17, <1>18, CatIs, CatBelow, Zenon
<1> HIDE DEF a, b
<1>20. IsPrefix(a, a) /\ IsPrefix(b, Flat(q))
  BY <1>16, <1>19, BytePrefixes, Zenon DEF b
<1>21. Below(a, Flat(q))
  BY <1>5, <1>19, <1>20, BelowExtends, Zenon
<1> QED
  BY <1>21 DEF a

\* Encoding keeps the order of paths.
LEMMA PathBelow ==
    ASSUME NEW p \in Seq(Segment), NEW q \in Seq(Segment), IsPath(p), IsPath(q), PathBefore(p, q)
    PROVE  /\ Below(Cat(Flat(p), EndMark), Flat(q))
           /\ ~IsPrefix(p, q) => Below(Flat(p), Flat(q))
<1>1. Len(p) \in Nat /\ Len(q) \in Nat
  BY Elements
<1>2. PICK n \in 0..Len(p) : /\ n < Len(q) /\ SubSeq(p, 1, n) = SubSeq(q, 1, n)
                             /\ n < Len(p) => SegmentBefore(p[n + 1], q[n + 1])
  BY DEF PathBefore
<1>3. n \in Nat /\ n <= Len(p) /\ n <= Len(q)
  BY <1>1, <1>2
<1>4. Agree(p, q, n)
  BY <1>2, <1>3, SameBeginning
<1>5. Flat(p) \in Seq(Byte) /\ Flat(q) \in Seq(Byte) /\ EndMark \in Seq(Byte)
  BY EncodedIs, EndMarkIs, Zenon
<1>6. CASE n < Len(p)
  <2>1. Below(Flat(p), Flat(q))
    BY <1>2, <1>3, <1>4, <1>6, SplitBelow
  <2> DEFINE a == Cat(Flat(p), EndMark)
  <2>2. a \in Seq(Byte) /\ IsPrefix(Flat(p), a) /\ IsPrefix(Flat(q), Flat(q))
    BY <1>5, CatIs, BytePrefixes, Zenon
  <2> HIDE DEF a
  <2>3. Below(a, Flat(q))
    BY <1>5, <2>1, <2>2, BelowExtends, Zenon
  <2> QED
    BY <2>1, <2>3 DEF a
<1>7. CASE n = Len(p)
  <2>1. IsPrefix(p, q) /\ Len(p) < Len(q)
    BY <1>2, <1>3, <1>4, <1>7, PrefixIff
  <2> QED
    BY <2>1, EndBelow, Zenon
<1> QED
  BY <1>1, <1>3, <1>6, <1>7

\* Of two paths one is before the other.
LEMMA PathBeforeIf ==
    ASSUME NEW p \in Seq(Segment), NEW q \in Seq(Segment), NEW n \in Nat,
           n <= Len(p), n < Len(q), Agree(p, q, n),
           n < Len(p) => SegmentBefore(p[n + 1], q[n + 1])
    PROVE  PathBefore(p, q)
<1>1. n \in 0..Len(p) /\ n <= Len(q)
  BY Elements
<1>2. SubSeq(p, 1, n) = SubSeq(q, 1, n)
  BY <1>1, SameBeginning
<1> QED
  BY <1>1, <1>2, Zenon DEF PathBefore

\* Of two paths one is before the other.
LEMMA PathTotal ==
    ASSUME NEW p \in Seq(Segment), NEW q \in Seq(Segment), p # q
    PROVE  PathBefore(p, q) \/ PathBefore(q, p)
<1>1. /\ Len(p) \in Nat /\ \A i \in 1..Len(p) : p[i] \in Segment
      /\ Len(q) \in Nat /\ \A i \in 1..Len(q) : q[i] \in Segment
  BY Elements
<1>2. PICK n \in Nat : /\ n <= Len(p) /\ n <= Len(q) /\ Agree(p, q, n)
                       /\ n = Len(p) \/ n = Len(q) \/ p[n + 1] # q[n + 1]
  BY FirstDifference, Zenon
<1>3. Agree(q, p, n)
  BY <1>2 DEF Agree
<1>4. CASE n = Len(p) /\ n = Len(q)
  <2>1. IsPrefix(p, q) /\ Len(p) = Len(q)
    BY <1>2, <1>4, PrefixIff
  <2> QED
    BY <2>1, PrefixOrder
<1>5. CASE n = Len(p) /\ n < Len(q)
  <2>1. ~(n < Len(p))
    BY <1>5
  <2> QED
    BY <1>2, <1>5, <2>1, PathBeforeIf
<1>6. CASE n = Len(q) /\ n < Len(p)
  <2>1. ~(n < Len(q))
    BY <1>6
  <2> QED
    BY <1>2, <1>3, <1>6, <2>1, PathBeforeIf
<1>7. CASE n < Len(p) /\ n < Len(q)
  <2>1. n + 1 \in 1..Len(p) /\ n + 1 \in 1..Len(q) /\ p[n + 1] # q[n + 1]
    BY <1>1, <1>2, <1>7
  <2>2. p[n + 1] \in Segment /\ q[n + 1] \in Segment
    BY <1>1, <2>1, Zenon
  <2>3. SegmentBefore(p[n + 1], q[n + 1]) \/ SegmentBefore(q[n + 1], p[n + 1])
    BY <2>1, <2>2, SegmentTotal, Zenon
  <2> QED
    BY <1>2, <1>3, <1>7, <2>3, PathBeforeIf, Zenon
<1> QED
  BY <1>1, <1>2, <1>4, <1>5, <1>6, <1>7

\* Neither of two different rows is a prefix of the other.
Apart(d, e) == d.pk # e.pk => ~IsPrefix(d.pk, e.pk) /\ ~IsPrefix(e.pk, d.pk)

-----------------------------------------------------------------------------
(* Entries *)

\* The key of a row's sentinel, and how the subordinate keys of a column begin.
Sentinel(pk) == Cat(pk, EncodeUvarintAscending(0))
Column(e) == Cat(Sentinel(e.pk), EncodeUvarintAscending(e.col))

\* The fields of an entry.
LEMMA EntryIs ==
    ASSUME NEW e, IsEntry(e)
    PROVE  /\ e.pk \in Seq(Byte) /\ e.sub \in BOOLEAN /\ e.fam \in Number /\ e.col \in Number
           /\ e.path \in Seq(Segment)
           /\ e = [pk |-> e.pk, sub |-> e.sub, fam |-> e.fam, col |-> e.col, path |-> e.path]
           /\ e.sub => e.fam = 0 /\ IsPath(e.path)
           /\ ~e.sub => e.col = 0 /\ e.path = <<>>
<1>1. e \in [pk : Seq(Byte), sub : BOOLEAN, fam : Number, col : Number, path : Seq(Segment)]
  BY Zenon DEF IsEntry
<1>2. /\ e.pk \in Seq(Byte) /\ e.sub \in BOOLEAN /\ e.fam \in Number /\ e.col \in Number
      /\ e.path \in Seq(Segment)
      /\ e = [pk |-> e.pk, sub |-> e.sub, fam |-> e.fam, col |-> e.col, path |-> e.path]
  BY <1>1
<1> QED
  BY <1>2, Zenon DEF IsEntry

\* The key of the sentinel starts with the row.
LEMMA SentinelIs ==
    ASSUME NEW pk \in Seq(Byte)
    PROVE  Sentinel(pk) \in Seq(Byte) /\ IsPrefix(pk, Sentinel(pk))
<1>1. EncodeUvarintAscending(0) \in Seq(Byte)
  BY UvarintIs
<1> QED
  BY <1>1, CatIs, Zenon DEF Sentinel

\* The keys of a column family.
LEMMA FamilyKey ==
    ASSUME NEW e, IsEntry(e), ~e.sub
    PROVE  /\ EntryKey(e) \in Seq(Byte)
           /\ e.fam = 0 => EntryKey(e) = Sentinel(e.pk)
           /\ e.fam # 0 => IsPrefix(Cat(e.pk, EncodeUvarintAscending(e.fam)), EntryKey(e))
           /\ Cat(e.pk, EncodeUvarintAscending(e.fam)) \in Seq(Byte)
<1>1. e.pk \in Seq(Byte) /\ e.fam \in Nat
  BY EntryIs, NumberIsNat, Zenon
<1>2. EntryKey(e) = MakeFamilyKey(e.pk, e.fam)
  BY DEF EntryKey
<1> DEFINE f == EncodeUvarintAscending(e.fam)
           l == EncodeUvarintAscending(Len(f))
<1>3. f \in Seq(Byte) /\ Len(f) \in Nat
  BY <1>1, UvarintIs, Bytes, Zenon
<1>4. l \in Seq(Byte)
  BY <1>3, UvarintIs, Zenon
<1>5. CASE e.fam = 0
  <2>1. EntryKey(e) = Sentinel(e.pk)
    BY <1>2, <1>5, Zenon DEF MakeFamilyKey, Sentinel, Cat
  <2> HIDE DEF f, l
  <2>2. EntryKey(e) \in Seq(Byte) /\ Cat(e.pk, f) \in Seq(Byte)
    BY <1>1, <1>3, <2>1, SentinelIs, CatIs, Zenon
  <2> QED
    BY <1>5, <2>1, <2>2, Zenon DEF f
<1>6. CASE e.fam # 0
  <2>1. EntryKey(e) = Cat(Cat(e.pk, f), l)
    BY <1>2, <1>6, Zenon DEF MakeFamilyKey, Cat
  <2> HIDE DEF f, l
  <2>2. Cat(e.pk, f) \in Seq(Byte)
    BY <1>1, <1>3, CatIs, Zenon
  <2>3. EntryKey(e) \in Seq(Byte) /\ IsPrefix(Cat(e.pk, f), EntryKey(e))
    BY <1>4, <2>1, <2>2, CatIs, Zenon
  <2> QED
    BY <1>6, <2>2, <2>3, Zenon DEF f
<1> QED
  BY <1>5, <1>6

\* The keys of subordinate values.
LEMMA SubKey ==
    ASSUME NEW e, IsEntry(e), e.sub
    PROVE  /\ EntryKey(e) \in Seq(Byte) /\ Column(e) \in Seq(Byte) /\ SubtreePrefix(e) \in Seq(Byte)
           /\ Flat(e.path) \in Seq(Byte)
           /\ IsPrefix(Sentinel(e.pk), Column(e)) /\ Len(Sentinel(e.pk)) < Len(Column(e))
           /\ SubtreePrefix(e) = Cat(Column(e), Flat(e.path))
           /\ IsPrefix(Column(e), SubtreePrefix(e)) /\ IsPrefix(SubtreePrefix(e), EntryKey(e))
           /\ IsPrefix(Cat(Column(e), Cat(Flat(e.path), EndMark)), EntryKey(e))
           /\ Cat(Column(e), Cat(Flat(e.path), EndMark)) \in Seq(Byte)
<1>1. e.pk \in Seq(Byte) /\ e.col \in Nat /\ e.path \in Seq(Segment)
  BY EntryIs, NumberIsNat, Zenon
<1> DEFINE r == Sentinel(e.pk)
           k == EncodeUvarintAscending(e.col)
           c == Column(e)
           f == Flat(e.path)
           p == SubtreePrefix(e)
           g == Cat(p, EndMark)
           l == EncodeUvarintAscending(Len(g) - (Len(r) - 1))
<1>2. r \in Seq(Byte) /\ k \in Seq(Byte) /\ f \in Seq(Byte) /\ EndMark \in Seq(Byte)
  BY <1>1, SentinelIs, UvarintIs, EncodedIs, EndMarkIs, Zenon
<1>3. MakeFamilyKey(e.pk, 0) = r
  BY Zenon DEF MakeFamilyKey, Sentinel, Cat
<1>4. p = Cat(c, f)
  BY <1>3, Zenon DEF SubtreePrefix, MakeSubordinatePathPrefix, Column, Flat, Encoded, Cat
<1>5. EntryKey(e) = Cat(g, l)
  BY <1>3, Zenon DEF EntryKey, MakeSubordinatePathKey, SubtreePrefix, EndMark, Cat
<1>6. c = Cat(r, k)
  BY Zenon DEF Column
<1>7. Len(k) \in 1..5
  BY <1>1, UvarintIs, Zenon
<1> HIDE DEF r, k, c, f, p
<1>8. c \in Seq(Byte) /\ IsPrefix(r, c)
  BY <1>2, <1>6, CatIs, Zenon
<1>9. Len(c) = Len(r) + Len(k)
  BY <1>2, <1>6, ConcatElements, Zenon DEF Cat
<1>10. Len(r) < Len(c)
  <2>1. Len(r) \in Nat
    BY <1>2, Bytes, Zenon
  <2> QED
    BY <1>7, <1>9, <2>1
<1>11. p \in Seq(Byte) /\ IsPrefix(c, p)
  BY <1>2, <1>4, <1>8, CatIs, Zenon
<1>12. g \in Seq(Byte) /\ IsPrefix(p, g)
  BY <1>2, <1>11, CatIs, Zenon
<1>13. Len(g) - (Len(r) - 1) \in Nat
  <2>1. Len(c) <= Len(p) /\ Len(p) <= Len(g)
    BY <1>8, <1>11, <1>12, PrefixOrder
  <2> HIDE DEF g
  <2> QED
    BY <1>2, <1>8, <1>10, <1>11, <1>12, <2>1, Bytes
<1>14. l \in Seq(Byte)
  BY <1>13, UvarintIs, Zenon
<1> HIDE DEF l
<1>15. g = Cat(c, Cat(f, EndMark))
  BY <1>2, <1>4, <1>8, CatAssociative
<1> HIDE DEF g
<1>16. EntryKey(e) \in Seq(Byte) /\ IsPrefix(g, EntryKey(e))
  BY <1>5, <1>12, <1>14, CatIs, Zenon
<1>17. IsPrefix(p, EntryKey(e))
  BY <1>11, <1>12, <1>16, BytePrefixes, Zenon
<1>18. IsPrefix(Cat(c, Cat(f, EndMark)), EntryKey(e)) /\ Cat(c, Cat(f, EndMark)) \in Seq(Byte)
  BY <1>12, <1>15, <1>16, Zenon
<1> QED
  BY <1>2, <1>4, <1>8, <1>10, <1>11, <1>16, <1>17, <1>18, Zenon DEF r, c, f, p

\* Every key of a row starts with the row's.
LEMMA KeyOfRow ==
    ASSUME NEW e, IsEntry(e)
    PROVE  EntryKey(e) \in Seq(Byte) /\ e.pk \in Seq(Byte) /\ IsPrefix(e.pk, EntryKey(e))
<1>1. e.pk \in Seq(Byte) /\ e.fam \in Nat /\ e.sub \in BOOLEAN
  BY EntryIs, NumberIsNat, Zenon
<1>2. Sentinel(e.pk) \in Seq(Byte) /\ IsPrefix(e.pk, Sentinel(e.pk))
  BY <1>1, SentinelIs, Zenon
<1>3. CASE e.sub
  <2>1. /\ EntryKey(e) \in Seq(Byte) /\ Column(e) \in Seq(Byte) /\ SubtreePrefix(e) \in Seq(Byte)
        /\ IsPrefix(Sentinel(e.pk), Column(e))
        /\ IsPrefix(Column(e), SubtreePrefix(e)) /\ IsPrefix(SubtreePrefix(e), EntryKey(e))
    BY <1>3, SubKey, Zenon
  <2>2. IsPrefix(e.pk, Column(e))
    BY <1>1, <1>2, <2>1, BytePrefixes, Zenon
  <2>3. IsPrefix(Column(e), EntryKey(e))
    BY <2>1, BytePrefixes, Zenon
  <2> QED
    BY <1>1, <2>1, <2>2, <2>3, BytePrefixes, Zenon
<1>4. CASE ~e.sub
  <2> DEFINE f == EncodeUvarintAscending(e.fam)
  <2>1. /\ EntryKey(e) \in Seq(Byte) /\ Cat(e.pk, f) \in Seq(Byte)
        /\ e.fam = 0 => EntryKey(e) = Sentinel(e.pk)
        /\ e.fam # 0 => IsPrefix(Cat(e.pk, f), EntryKey(e))
    BY <1>4, FamilyKey, Zenon
  <2>2. IsPrefix(e.pk, Cat(e.pk, f))
    BY <1>1, UvarintIs, CatIs, Zenon
  <2> HIDE DEF f
  <2>3. CASE e.fam = 0
    BY <1>1, <1>2, <2>1, <2>3, Zenon
  <2>4. CASE e.fam # 0
    BY <1>1, <2>1, <2>2, <2>4, BytePrefixes, Zenon
  <2> QED
    BY <2>3, <2>4
<1> QED
  BY <1>3, <1>4

\* Keys of different rows are ordered as the rows.
LEMMA RowsBelow ==
    ASSUME NEW d, NEW e, IsEntry(d), IsEntry(e), Below(d.pk, e.pk)
    PROVE  Below(EntryKey(d), EntryKey(e))
<1>1. /\ EntryKey(d) \in Seq(Byte) /\ d.pk \in Seq(Byte) /\ IsPrefix(d.pk, EntryKey(d))
      /\ EntryKey(e) \in Seq(Byte) /\ e.pk \in Seq(Byte) /\ IsPrefix(e.pk, EntryKey(e))
  BY KeyOfRow, Zenon
<1> QED
  BY <1>1, BelowExtends, Zenon

\* A column family is after the sentinel of its row and after its subordinate
\* values, and the families are ordered by their numbers.
LEMMA FamiliesBelow ==
    ASSUME NEW d, NEW e, IsEntry(d), IsEntry(e), d.pk = e.pk, ~e.sub, e.fam # 0,
           NEW k \in Seq(Byte), IsPrefix(Cat(d.pk, EncodeUvarintAscending(d.fam)), k), d.fam < e.fam
    PROVE  Below(k, EntryKey(e))
<1>1. d.pk \in Seq(Byte) /\ d.fam \in Number /\ e.fam \in Number
  BY EntryIs, Zenon
<1> DEFINE f == EncodeUvarintAscending(d.fam)
           g == EncodeUvarintAscending(e.fam)
<1>2. f \in Seq(Byte) /\ g \in Seq(Byte)
  BY <1>1, NumberIsNat, UvarintIs, Zenon
<1>3. Below(f, g)
  BY <1>1, UvarintBelow, Zenon
<1>4. EntryKey(e) \in Seq(Byte) /\ IsPrefix(Cat(d.pk, g), EntryKey(e))
  BY FamilyKey, Zenon
<1> HIDE DEF f, g
<1> DEFINE a == Cat(d.pk, f)
           b == Cat(d.pk, g)
<1>5. a \in Seq(Byte) /\ b \in Seq(Byte) /\ Below(a, b)
  BY <1>1, <1>2, <1>3, CatIs, CatBelow, Zenon
<1>6. IsPrefix(a, k) /\ IsPrefix(b, EntryKey(e))
  BY <1>4, Zenon DEF f
<1> HIDE DEF a, b
<1> QED
  BY <1>4, <1>5, <1>6, BelowExtends, Zenon

\* A smaller column is first, and in a column a path that is first.
LEMMA ColumnsBelow ==
    ASSUME NEW d, NEW e, IsEntry(d), IsEntry(e), d.sub, e.sub, d.pk = e.pk, d.col < e.col
    PROVE  Below(Column(d), Column(e))
<1>1. d.pk \in Seq(Byte) /\ d.col \in Number /\ e.col \in Number
  BY EntryIs, Zenon
<1>2. Below(EncodeUvarintAscending(d.col), EncodeUvarintAscending(e.col))
  BY <1>1, UvarintBelow, Zenon
<1>3. /\ EncodeUvarintAscending(d.col) \in Seq(Byte) /\ EncodeUvarintAscending(e.col) \in Seq(Byte)
      /\ Sentinel(d.pk) \in Seq(Byte)
  BY <1>1, NumberIsNat, UvarintIs, SentinelIs, Zenon
<1> QED
  BY <1>2, <1>3, CatBelow, Zenon DEF Column

\* The keys of a column are ordered by their paths, and the spans of two paths of
\* which neither is above the other are apart.
LEMMA PathsBelow ==
    ASSUME NEW d, NEW e, IsEntry(d), IsEntry(e), d.sub, e.sub, d.pk = e.pk, d.col = e.col,
           PathBefore(d.path, e.path)
    PROVE  /\ Below(EntryKey(d), SubtreePrefix(e))
           /\ ~IsPrefix(d.path, e.path) => Below(SubtreePrefix(d), SubtreePrefix(e))
<1>1. d.path \in Seq(Segment) /\ e.path \in Seq(Segment) /\ IsPath(d.path) /\ IsPath(e.path)
  BY EntryIs, Zenon
<1> DEFINE c == Column(d)
           f == Flat(d.path)
           g == Flat(e.path)
           h == Cat(f, EndMark)
<1>2. c = Column(e)
  BY Zenon DEF Column
<1>3. /\ Below(h, g)
      /\ ~IsPrefix(d.path, e.path) => Below(f, g)
  BY <1>1, PathBelow, Zenon
<1>4. /\ c \in Seq(Byte) /\ f \in Seq(Byte) /\ g \in Seq(Byte)
      /\ EntryKey(d) \in Seq(Byte) /\ SubtreePrefix(d) \in Seq(Byte) /\ SubtreePrefix(e) \in Seq(Byte)
      /\ SubtreePrefix(d) = Cat(c, f) /\ IsPrefix(Cat(c, h), EntryKey(d)) /\ Cat(c, h) \in Seq(Byte)
  BY SubKey, Zenon
<1>5. SubtreePrefix(e) = Cat(c, g)
  BY <1>2, SubKey, Zenon
<1>6. h \in Seq(Byte)
  BY <1>4, EndMarkIs, CatIs, Zenon
<1> HIDE DEF c, f, g, h
<1>7. Below(Cat(c, h), SubtreePrefix(e))
  BY <1>3, <1>4, <1>5, <1>6, CatBelow, Zenon
<1>8. IsPrefix(SubtreePrefix(e), SubtreePrefix(e))
  BY <1>4, BytePrefixes, Zenon
<1> DEFINE u == Cat(c, h)
<1>9. u \in Seq(Byte) /\ IsPrefix(u, EntryKey(d)) /\ Below(u, SubtreePrefix(e))
  BY <1>4, <1>7, Zenon
<1> HIDE DEF u
<1>10. Below(EntryKey(d), SubtreePrefix(e))
  BY <1>4, <1>8, <1>9, BelowExtends, Zenon
<1>11. ASSUME ~IsPrefix(d.path, e.path) PROVE Below(SubtreePrefix(d), SubtreePrefix(e))
  <2>1. Below(f, g)
    BY <1>3, <1>11, Zenon DEF f, g
  <2> QED
    BY <1>4, <1>5, <2>1, CatBelow, Zenon
<1> QED
  BY <1>10, <1>11

\* What is before in the tree has the smaller key.
LEMMA BeforeLess ==
    ASSUME NEW d, NEW e, IsEntry(d), IsEntry(e), Apart(d, e), Before(d, e)
    PROVE  KeyLess(EntryKey(d), EntryKey(e))
<1>1. /\ d.pk \in Seq(Byte) /\ d.sub \in BOOLEAN /\ d.fam \in Nat /\ d.col \in Nat
      /\ e.pk \in Seq(Byte) /\ e.sub \in BOOLEAN /\ e.fam \in Nat /\ e.col \in Nat
      /\ d.sub => d.fam = 0
      /\ e.sub => e.fam = 0
  BY EntryIs, NumberIsNat, Zenon
<1>2. EntryKey(d) \in Seq(Byte) /\ EntryKey(e) \in Seq(Byte)
  BY KeyOfRow, Zenon
<1>3. SUFFICES \/ Below(EntryKey(d), EntryKey(e))
               \/ IsPrefix(EntryKey(d), EntryKey(e)) /\ Len(EntryKey(d)) < Len(EntryKey(e))
  BY <1>2, <1>3, LessIff, Zenon
<1>4. CASE d.pk # e.pk
  <2>1. KeyLess(d.pk, e.pk) /\ ~IsPrefix(d.pk, e.pk)
    BY <1>4 DEF Before, Apart
  <2>2. Below(d.pk, e.pk)
    BY <1>1, <2>1, LessIff, Zenon
  <2> QED
    BY <2>2, RowsBelow, Zenon
<1>5. CASE d.pk = e.pk
  <2>1. \/ ~d.sub /\ d.fam = 0 /\ e.sub
        \/ ~e.sub /\ e.fam # 0 /\ d.fam < e.fam
        \/ d.sub /\ e.sub /\ d.col < e.col
        \/ d.sub /\ e.sub /\ d.col = e.col /\ PathBefore(d.path, e.path)
    <3>1. \/ Group(d) < Group(e)
          \/ Group(d) = Group(e) /\ ~d.sub /\ d.fam < e.fam
          \/ d.sub /\ e.sub /\ d.col < e.col
          \/ d.sub /\ e.sub /\ d.col = e.col /\ PathBefore(d.path, e.path)
      BY <1>5, Zenon DEF Before
    <3>2. CASE Group(d) < Group(e)
      BY <1>1, <3>2 DEF Group
    <3>3. CASE Group(d) = Group(e) /\ ~d.sub /\ d.fam < e.fam
      BY <1>1, <3>3 DEF Group
    <3> QED
      BY <3>1, <3>2, <3>3, Zenon
  <2>2. CASE ~d.sub /\ d.fam = 0 /\ e.sub
    <3>1. EntryKey(d) = Sentinel(e.pk)
      BY <1>5, <2>2, FamilyKey, Zenon
    <3> DEFINE r == Sentinel(e.pk)
               c == Column(e)
               p == SubtreePrefix(e)
               k == EntryKey(e)
    <3>2. /\ r \in Seq(Byte) /\ c \in Seq(Byte) /\ p \in Seq(Byte) /\ k \in Seq(Byte)
          /\ IsPrefix(r, c) /\ Len(r) < Len(c) /\ IsPrefix(c, p) /\ IsPrefix(p, k)
      BY <1>1, <2>2, SentinelIs, SubKey, Zenon
    <3> HIDE DEF r, c, p, k
    <3>3. IsPrefix(r, p) /\ IsPrefix(c, k)
      BY <3>2, BytePrefixes, Zenon
    <3>4. IsPrefix(r, k)
      BY <3>2, <3>3, BytePrefixes, Zenon
    <3>5. Len(c) <= Len(k)
      BY <3>2, <3>3, PrefixOrder
    <3>6. Len(r) < Len(k)
      <4>1. Len(r) \in Nat /\ Len(c) \in Nat /\ Len(k) \in Nat
        BY <3>2, Bytes, Zenon
      <4> QED
        BY <3>2, <3>5, <4>1
    <3> QED
      BY <3>1, <3>4, <3>6, Zenon DEF r, k
  <2>3. CASE ~e.sub /\ e.fam # 0 /\ d.fam < e.fam
    <3> DEFINE a == Cat(d.pk, EncodeUvarintAscending(d.fam))
    <3>1. IsPrefix(a, EntryKey(d))
      <4>1. CASE d.sub
        <5>1. a = Sentinel(d.pk)
          BY <1>1, <4>1, Zenon DEF Sentinel
        <5>2. /\ Sentinel(d.pk) \in Seq(Byte) /\ Column(d) \in Seq(Byte) /\ SubtreePrefix(d) \in Seq(Byte)
              /\ IsPrefix(Sentinel(d.pk), Column(d)) /\ IsPrefix(Column(d), SubtreePrefix(d))
              /\ IsPrefix(SubtreePrefix(d), EntryKey(d))
          BY <1>1, <4>1, SentinelIs, SubKey, Zenon
        <5>3. IsPrefix(Sentinel(d.pk), SubtreePrefix(d))
          BY <5>2, BytePrefixes, Zenon
        <5>4. IsPrefix(Sentinel(d.pk), EntryKey(d))
          BY <1>2, <5>2, <5>3, BytePrefixes, Zenon
        <5> QED
          BY <5>1, <5>4, Zenon
      <4>2. CASE ~d.sub /\ d.fam = 0
        <5>1. EntryKey(d) = Sentinel(d.pk)
          BY <4>2, FamilyKey, Zenon
        <5>2. a = EntryKey(d)
          BY <4>2, <5>1, Zenon DEF Sentinel
        <5> QED
          BY <1>2, <5>2, BytePrefixes, Zenon
      <4>3. CASE ~d.sub /\ d.fam # 0
        BY <4>3, FamilyKey, Zenon
      <4> QED
        BY <1>1, <4>1, <4>2, <4>3, Zenon
    <3> QED
      BY <1>2, <1>5, <2>3, <3>1, FamiliesBelow, Zenon
  <2>4. CASE d.sub /\ e.sub /\ d.col < e.col
    <3>1. /\ Column(d) \in Seq(Byte) /\ SubtreePrefix(d) \in Seq(Byte)
          /\ IsPrefix(Column(d), SubtreePrefix(d)) /\ IsPrefix(SubtreePrefix(d), EntryKey(d))
          /\ Column(e) \in Seq(Byte) /\ SubtreePrefix(e) \in Seq(Byte)
          /\ IsPrefix(Column(e), SubtreePrefix(e)) /\ IsPrefix(SubtreePrefix(e), EntryKey(e))
      BY <2>4, SubKey, Zenon
    <3>2. IsPrefix(Column(d), EntryKey(d)) /\ IsPrefix(Column(e), EntryKey(e))
      BY <1>2, <3>1, BytePrefixes, Zenon
    <3>3. Below(Column(d), Column(e))
      BY <1>5, <2>4, ColumnsBelow, Zenon
    <3> QED
      BY <1>2, <3>1, <3>2, <3>3, BelowExtends, Zenon
  <2>5. CASE d.sub /\ e.sub /\ d.col = e.col /\ PathBefore(d.path, e.path)
    <3>1. Below(EntryKey(d), SubtreePrefix(e))
      BY <1>5, <2>5, PathsBelow, Zenon
    <3>2. SubtreePrefix(e) \in Seq(Byte) /\ IsPrefix(SubtreePrefix(e), EntryKey(e))
      BY <2>5, SubKey, Zenon
    <3>3. IsPrefix(EntryKey(d), EntryKey(d))
      BY <1>2, BytePrefixes, Zenon
    <3> QED
      BY <1>2, <3>1, <3>2, <3>3, BelowExtends, Zenon
  <2> QED
    BY <2>1, <2>2, <2>3, <2>4, <2>5, Zenon
<1> QED
  BY <1>4, <1>5

\* Of two entries one is before the other.
LEMMA BeforeTotal ==
    ASSUME NEW d, NEW e, IsEntry(d), IsEntry(e), d # e
    PROVE  Before(d, e) \/ Before(e, d)
<1>1. /\ d.pk \in Seq(Byte) /\ d.sub \in BOOLEAN /\ d.fam \in Nat /\ d.col \in Nat
      /\ e.pk \in Seq(Byte) /\ e.sub \in BOOLEAN /\ e.fam \in Nat /\ e.col \in Nat
      /\ d.path \in Seq(Segment) /\ e.path \in Seq(Segment)
      /\ d.sub => d.fam = 0
      /\ e.sub => e.fam = 0
      /\ ~d.sub => d.col = 0 /\ d.path = <<>>
      /\ ~e.sub => e.col = 0 /\ e.path = <<>>
  BY EntryIs, NumberIsNat, Zenon
<1>2. d.pk # e.pk \/ d.sub # e.sub \/ d.fam # e.fam \/ d.col # e.col \/ d.path # e.path
  <2>1. /\ d = [pk |-> d.pk, sub |-> d.sub, fam |-> d.fam, col |-> d.col, path |-> d.path]
        /\ e = [pk |-> e.pk, sub |-> e.sub, fam |-> e.fam, col |-> e.col, path |-> e.path]
    BY EntryIs, Zenon
  <2> QED
    BY <2>1, Zenon
<1>3. CASE d.pk # e.pk
  <2>1. KeyLess(d.pk, e.pk) \/ KeyLess(e.pk, d.pk)
    BY <1>1, <1>3, LessTotal, Zenon
  <2> QED
    BY <1>3, <2>1, Zenon DEF Before
<1>4. CASE d.pk = e.pk /\ d.sub /\ e.sub
  <2>1. d.col < e.col \/ e.col < d.col \/ (d.col = e.col /\ d.path # e.path)
    BY <1>1, <1>2, <1>4
  <2>2. \/ d.col < e.col \/ e.col < d.col
        \/ d.col = e.col /\ (PathBefore(d.path, e.path) \/ PathBefore(e.path, d.path))
    BY <1>1, <2>1, PathTotal, Zenon
  <2> QED
    BY <1>4, <2>2, Zenon DEF Before
<1>5. CASE d.pk = e.pk /\ ~(d.sub /\ e.sub)
  <2>1. \/ Group(d) < Group(e) \/ Group(e) < Group(d)
        \/ Group(d) = Group(e) /\ ~d.sub /\ ~e.sub /\ (d.fam < e.fam \/ e.fam < d.fam)
    BY <1>1, <1>2, <1>5 DEF Group
  <2> QED
    BY <1>5, <2>1, Zenon DEF Before
<1> QED
  BY <1>3, <1>4, <1>5

\* The order of keys is the order of the tree.
LEMMA LessIsBefore ==
    ASSUME NEW d, NEW e, IsEntry(d), IsEntry(e), Apart(d, e), d # e
    PROVE  KeyLess(EntryKey(d), EntryKey(e)) <=> Before(d, e)
<1>1. EntryKey(d) \in Seq(Byte) /\ EntryKey(e) \in Seq(Byte)
  BY KeyOfRow, Zenon
<1>2. Apart(e, d)
  BY Zenon DEF Apart
<1>3. Before(d, e) => KeyLess(EntryKey(d), EntryKey(e))
  BY BeforeLess, Zenon
<1>4. Before(e, d) => KeyLess(EntryKey(e), EntryKey(d))
  BY <1>2, BeforeLess, Zenon
<1>5. ~(KeyLess(EntryKey(d), EntryKey(e)) /\ KeyLess(EntryKey(e), EntryKey(d)))
  BY <1>1, LessTransitive, LessIrreflexive, Zenon
<1>6. Before(d, e) \/ Before(e, d)
  BY BeforeTotal, Zenon
<1> QED
  BY <1>3, <1>4, <1>5, <1>6, Zenon

\* What the assumption says of two entries.
LEMMA EntriesApart ==
    \A d, e \in Entries : /\ IsEntry(d) /\ IsEntry(e) /\ Apart(d, e)
                          /\ e.sub => e.col # 0
  BY EntriesAssumption, Zenon DEF Apart

-----------------------------------------------------------------------------
(* The properties *)

\* The pair of entries that is examined.
LEMMA Examined == Spec => [](x \in Entries /\ y \in Entries)
<1>1. Init => x \in Entries /\ y \in Entries
  BY DEF Init
<1>2. (x \in Entries /\ y \in Entries) /\ [Next]_vars => (x \in Entries /\ y \in Entries)'
  BY DEF Next, vars
<1> QED
  BY <1>1, <1>2, PTL DEF Spec

\* The keys of any two entries are ordered as the tree of rows, columns and paths
\* is, each node before its descendants (MakeSubordinatePathKey, MakeFamilyKey).
THEOREM KeysSortLikeTreeHolds == Spec => []KeysSortLikeTree
<1>1. x \in Entries /\ y \in Entries => KeysSortLikeTree
  BY EntriesApart, LessIsBefore, Zenon DEF KeysSortLikeTree
<1> QED
  BY <1>1, Examined, PTL

\* Keys of the subtree of a path start with its prefix.
LEMMA InSubtree ==
    ASSUME NEW d, NEW e, IsEntry(d), IsEntry(e), d.sub, e.sub, e.pk = d.pk, e.col = d.col,
           IsPrefix(d.path, e.path)
    PROVE  IsPrefix(SubtreePrefix(d), EntryKey(e))
<1>1. d.path \in Seq(Segment) /\ e.path \in Seq(Segment)
  BY EntryIs, Zenon
<1>2. /\ Len(d.path) <= Len(e.path) /\ Agree(d.path, e.path, Len(d.path))
      /\ Len(d.path) \in Nat /\ Len(e.path) \in Nat /\ Len(d.path) <= Len(d.path)
  BY <1>1, PrefixIff, Elements
<1> DEFINE s == Encoded(d.path)
           t == Encoded(e.path)
<1>3. /\ s \in Seq(Seq(Byte)) /\ Len(s) = Len(d.path)
      /\ t \in Seq(Seq(Byte)) /\ Len(t) = Len(e.path)
  BY <1>1, EncodedIs, Zenon
<1>4. Agree(s, t, Len(d.path))
  BY <1>1, <1>2, EncodedAgree, Zenon
<1> HIDE DEF s, t
<1>5. IsPrefix(s, t)
  BY <1>2, <1>3, <1>4, PrefixIff
<1>6. IsPrefix(FlattenSeq(s), FlattenSeq(t))
  BY <1>3, <1>5, FlattenPrefix, Zenon
<1>7. IsPrefix(Flat(d.path), Flat(e.path))
  BY <1>6, Zenon DEF Flat, s, t
<1>8. /\ Column(d) \in Seq(Byte) /\ Flat(d.path) \in Seq(Byte) /\ Flat(e.path) \in Seq(Byte)
      /\ SubtreePrefix(d) \in Seq(Byte) /\ SubtreePrefix(e) \in Seq(Byte) /\ EntryKey(e) \in Seq(Byte)
      /\ IsPrefix(SubtreePrefix(e), EntryKey(e))
      /\ SubtreePrefix(d) = Cat(Column(d), Flat(d.path))
      /\ SubtreePrefix(e) = Cat(Column(e), Flat(e.path))
  BY SubKey, Zenon
<1>9. Column(e) = Column(d)
  BY Zenon DEF Column
<1>10. IsPrefix(Cat(Column(d), Flat(d.path)), Cat(Column(d), Flat(e.path)))
  BY <1>7, <1>8, PrefixConcat, Zenon DEF Cat
<1>11. IsPrefix(SubtreePrefix(d), SubtreePrefix(e))
  BY <1>8, <1>9, <1>10, Zenon
<1> QED
  BY <1>8, <1>11, BytePrefixes, Zenon

\* No other key does.
LEMMA NotInSubtree ==
    ASSUME NEW d, NEW e, IsEntry(d), IsEntry(e), Apart(d, e), d.sub,
           ~(e.sub /\ e.pk = d.pk /\ e.col = d.col /\ IsPrefix(d.path, e.path))
    PROVE  ~IsPrefix(SubtreePrefix(d), EntryKey(e))
<1>1. /\ EntryKey(d) \in Seq(Byte) /\ d.pk \in Seq(Byte)
      /\ EntryKey(e) \in Seq(Byte) /\ e.pk \in Seq(Byte) /\ IsPrefix(e.pk, EntryKey(e))
  BY KeyOfRow, Zenon
<1> DEFINE r == Sentinel(d.pk)
           c == Column(d)
           p == SubtreePrefix(d)
           k == EntryKey(e)
<1>2. /\ r \in Seq(Byte) /\ c \in Seq(Byte) /\ p \in Seq(Byte) /\ k \in Seq(Byte)
      /\ IsPrefix(d.pk, r) /\ IsPrefix(r, c) /\ Len(r) < Len(c) /\ IsPrefix(c, p)
  BY <1>1, SentinelIs, SubKey, Zenon
<1> HIDE DEF r, c, p, k
<1>3. IsPrefix(r, p)
  BY <1>2, BytePrefixes, Zenon
<1>4. IsPrefix(d.pk, p) /\ IsPrefix(k, k) /\ IsPrefix(p, p)
  BY <1>1, <1>2, <1>3, BytePrefixes, Zenon
<1>5. SUFFICES Below(p, k) \/ Below(k, p) \/ Len(k) < Len(p)
  <2>1. Below(p, k) \/ Below(k, p) => ~IsPrefix(p, k)
    BY <1>2, BelowStrict, Zenon
  <2>2. IsPrefix(p, k) => Len(p) <= Len(k)
    BY <1>2, PrefixOrder
  <2>3. ~IsPrefix(p, k)
    <3>1. Len(p) \in Nat /\ Len(k) \in Nat
      BY <1>2, Bytes, Zenon
    <3> QED
      BY <1>5, <2>1, <2>2, <3>1
  <2> QED
    BY <2>3, Zenon DEF p, k
<1>6. CASE d.pk # e.pk
  <2>1. ~IsPrefix(d.pk, e.pk) /\ ~IsPrefix(e.pk, d.pk)
    BY <1>6, Zenon DEF Apart
  <2>2. Below(d.pk, e.pk) \/ Below(e.pk, d.pk)
    BY <1>1, <2>1, Comparable, Zenon
  <2>3. IsPrefix(e.pk, k)
    BY <1>1, Zenon DEF k
  <2> QED
    BY <1>1, <1>2, <1>4, <2>2, <2>3, BelowExtends, Zenon
<1>7. CASE d.pk = e.pk /\ ~e.sub /\ e.fam = 0
  <2>1. k = r
    BY <1>7, FamilyKey, Zenon DEF k, r
  <2>2. Len(c) <= Len(p)
    BY <1>2, PrefixOrder
  <2>3. Len(r) \in Nat /\ Len(c) \in Nat /\ Len(p) \in Nat
    BY <1>2, Bytes, Zenon
  <2>4. Len(r) < Len(p)
    BY <1>2, <2>2, <2>3
  <2> QED
    BY <2>1, <2>4
<1>8. CASE d.pk = e.pk /\ ~e.sub /\ e.fam # 0
  <2>1. d.fam = 0 /\ e.fam \in Nat
    BY EntryIs, NumberIsNat, Zenon
  <2>2. d.fam < e.fam
    BY <1>8, <2>1
  <2>3. IsPrefix(Cat(d.pk, EncodeUvarintAscending(d.fam)), p)
    BY <1>3, <2>1, Zenon DEF r, Sentinel
  <2>4. Below(p, EntryKey(e))
    BY <1>2, <1>8, <2>2, <2>3, FamiliesBelow, Zenon
  <2> QED
    BY <2>4, Zenon DEF k
<1>9. CASE d.pk = e.pk /\ e.sub
  <2>1. d.col \in Nat /\ e.col \in Nat /\ d.path \in Seq(Segment) /\ e.path \in Seq(Segment)
    BY EntryIs, NumberIsNat, Zenon
  <2> DEFINE q == SubtreePrefix(e)
  <2>2. /\ Column(e) \in Seq(Byte) /\ q \in Seq(Byte) /\ IsPrefix(Column(e), q) /\ IsPrefix(q, k)
    BY <1>9, SubKey, Zenon DEF k
  <2>3. CASE d.col # e.col
    <3>1. d.col < e.col \/ e.col < d.col
      BY <2>1, <2>3
    <3>2. Below(c, Column(e)) \/ Below(Column(e), c)
      BY <1>9, <3>1, ColumnsBelow, Zenon DEF c
    <3> HIDE DEF q
    <3>3. IsPrefix(Column(e), k)
      BY <1>2, <2>2, BytePrefixes, Zenon
    <3> QED
      BY <1>2, <2>2, <3>2, <3>3, BelowExtends, Zenon
  <2>4. CASE d.col = e.col
    <3>1. ~IsPrefix(d.path, e.path)
      BY <1>9, <2>4, Zenon
    <3>2. d.path # e.path
      BY <2>1, <3>1, PrefixOrder
    <3>3. CASE PathBefore(d.path, e.path)
      <4>1. Below(p, q)
        BY <1>9, <2>4, <3>1, <3>3, PathsBelow, Zenon DEF p
      <4> HIDE DEF q
      <4> QED
        BY <1>2, <1>4, <2>2, <4>1, BelowExtends, Zenon
    <3>4. CASE PathBefore(e.path, d.path)
      BY <1>9, <2>4, <3>4, PathsBelow, Zenon DEF p, k
    <3> QED
      BY <2>1, <3>2, <3>3, <3>4, PathTotal, Zenon
  <2> QED
    BY <2>3, <2>4
<1> QED
  BY <1>6, <1>7, <1>8, <1>9, EntryIs, Zenon

\* A subtree's prefix has a byte that can be incremented.
LEMMA PrefixEnds ==
    ASSUME NEW e, IsEntry(e), e.sub
    PROVE  Ends(SubtreePrefix(e))
<1>1. /\ e.pk \in Seq(Byte) /\ Column(e) \in Seq(Byte) /\ SubtreePrefix(e) \in Seq(Byte)
      /\ IsPrefix(Sentinel(e.pk), Column(e)) /\ IsPrefix(Column(e), SubtreePrefix(e))
  BY EntryIs, SubKey, Zenon
<1> DEFINE z == EncodeUvarintAscending(0)
           r == Sentinel(e.pk)
           p == SubtreePrefix(e)
<1>2. z \in Seq(Byte) /\ Len(z) = 1 /\ z[1] = 136
  BY UvarintIs
<1>3. r = e.pk \o z /\ r \in Seq(Byte)
  BY <1>1, SentinelIs, Zenon DEF Sentinel, Cat
<1>4. IsPrefix(r, p)
  BY <1>1, <1>3, BytePrefixes, Zenon
<1> HIDE DEF r, p
<1>5. Len(e.pk \o z) = Len(e.pk) + Len(z) /\ \A i \in 1..Len(z) : (e.pk \o z)[Len(e.pk) + i] = z[i]
  <2>1. z \in Seq(Byte)
    BY <1>2
  <2> HIDE DEF z
  <2> QED
    BY <1>1, <2>1, ConcatElements, Zenon
<1> HIDE DEF z
<1>6. Len(r) = Len(e.pk) + Len(z) /\ \A i \in 1..Len(z) : r[Len(e.pk) + i] = z[i]
  BY <1>3, <1>5, Zenon
<1>7. Len(e.pk) \in Nat
  BY <1>1, Bytes, Zenon
<1>8. PICK m \in 1..Len(r) : r[m] = 136
  <2>1. Len(e.pk) + 1 \in 1..Len(r) /\ 1 \in 1..Len(z)
    BY <1>2, <1>6, <1>7
  <2>2. r[Len(e.pk) + 1] = z[1]
    BY <1>6, <2>1, Zenon
  <2>3. r[Len(e.pk) + 1] = 136
    BY <1>2, <2>2
  <2> QED
    BY <2>1, <2>3, ZenonT(30)
<1>9. p \in Seq(Byte) /\ Len(r) <= Len(p) /\ Agree(r, p, Len(r))
  BY <1>1, <1>3, <1>4, PrefixIff DEF p
<1>10. p[m] = 136
  BY <1>8, <1>9, ZenonT(30) DEF Agree
<1>11. m \in 1..Len(p)
  BY <1>3, <1>9, Bytes
<1>12. p[m] < 255
  BY <1>10
<1> QED
  BY <1>11, <1>12, Zenon DEF Ends, p

\* The span from a path's prefix to its PrefixEnd holds the keys of the nodes at or
\* under the path and no other key of any row (MakeSubordinatePathPrefix).
THEOREM SubtreeIsSpanHolds == Spec => []SubtreeIsSpan
<1>1. ASSUME x \in Entries, y \in Entries PROVE SubtreeIsSpan
  <2> SUFFICES ASSUME x.sub
               PROVE  InSpan(EntryKey(y), SubtreePrefix(x))
                      <=> y.sub /\ y.pk = x.pk /\ y.col = x.col /\ IsPrefix(x.path, y.path)
    BY Zenon DEF SubtreeIsSpan
  <2>1. IsEntry(x) /\ IsEntry(y) /\ Apart(x, y)
    BY <1>1, EntriesApart, Zenon
  <2>2. SubtreePrefix(x) \in Seq(Byte) /\ Ends(SubtreePrefix(x)) /\ EntryKey(y) \in Seq(Byte)
    BY <2>1, SubKey, PrefixEnds, KeyOfRow, Zenon
  <2>3. InSpan(EntryKey(y), SubtreePrefix(x)) <=> IsPrefix(SubtreePrefix(x), EntryKey(y))
    BY <2>2, SpanIsPrefix, Zenon
  <2> QED
    BY <2>1, <2>3, InSubtree, NotInSubtree, Zenon
<1> QED
  BY <1>1, Examined, PTL

\* The entries at the ends of the span of a deleted row.
First(pk) == [pk |-> pk, sub |-> TRUE, fam |-> 0, col |-> 0, path |-> <<ArrayIndex(0)>>]
Behind(pk) == [pk |-> pk, sub |-> FALSE, fam |-> 1, col |-> 0, path |-> <<>>]

\* They bound the deleted span.
LEMMA DeletedSpanIs ==
    ASSUME NEW pk \in Seq(Byte)
    PROVE  /\ IsEntry(First(pk)) /\ IsEntry(Behind(pk))
           /\ DeletedSpan(pk).start = EntryKey(First(pk)) /\ DeletedSpan(pk).end = EntryKey(Behind(pk))
<1>1. ArrayIndex(0) \in Segment /\ ArrayIndex(0).kind = 1
  BY SmallNumbers DEF ArrayIndex, Segment, ArrayIndexKind, ObjectKeyKind
<1> DEFINE p == <<ArrayIndex(0)>>
<1>2. p \in Seq(Segment) /\ IsPath(p)
  BY <1>1 DEF IsPath
<1>3. IsEntry(First(pk))
  BY <1>2, SmallNumbers DEF IsEntry, First
<1>4. IsEntry(Behind(pk))
  BY SmallNumbers DEF IsEntry, Behind
<1>5. DeletedSpan(pk).start = EntryKey(First(pk))
  BY DEF DeletedSpan, EntryKey, First
<1>6. DeletedSpan(pk).end = EntryKey(Behind(pk))
  BY DEF DeletedSpan, EntryKey, Behind
<1> QED
  BY <1>3, <1>4, <1>5, <1>6

\* The span DeleteRow deletes holds every subordinate value of the row, and neither
\* a sentinel, nor another family, nor a key of another row.
THEOREM RowDeleteTakesSubsHolds == Spec => []RowDeleteTakesSubs
<1>1. ASSUME x \in Entries, y \in Entries PROVE RowDeleteTakesSubs
  <2>1. IsEntry(x) /\ IsEntry(y) /\ Apart(x, y) /\ (y.sub => y.col # 0)
    BY <1>1, EntriesApart, Zenon
  <2>2. /\ x.pk \in Seq(Byte) /\ y.pk \in Seq(Byte) /\ y.sub \in BOOLEAN
        /\ y.fam \in Nat /\ y.col \in Nat
        /\ y.sub => y.fam = 0
    BY <2>1, EntryIs, NumberIsNat, Zenon
  <2> DEFINE a == First(x.pk)
             b == Behind(x.pk)
  <2>3. IsEntry(a) /\ IsEntry(b) /\ DeletedSpan(x.pk).start = EntryKey(a)
        /\ DeletedSpan(x.pk).end = EntryKey(b)
    BY <2>2, DeletedSpanIs, Zenon
  <2>4. /\ a.pk = x.pk /\ a.sub = TRUE /\ a.fam = 0 /\ a.col = 0
        /\ b.pk = x.pk /\ b.sub = FALSE /\ b.fam = 1
    BY DEF First, Behind
  <2> HIDE DEF a, b
  <2>5. Apart(y, a) /\ Apart(y, b)
    BY <2>1, <2>4, Zenon DEF Apart
  <2>6. y # a
    BY <2>1, <2>4
  <2>7. KeyLess(EntryKey(y), EntryKey(a)) <=> Before(y, a)
    BY <2>1, <2>3, <2>5, <2>6, LessIsBefore, Zenon
  <2>8. y # b => (KeyLess(EntryKey(y), EntryKey(b)) <=> Before(y, b))
    BY <2>1, <2>3, <2>5, LessIsBefore, Zenon
  <2>9. y = b => ~KeyLess(EntryKey(y), EntryKey(b))
    BY <2>1, KeyOfRow, LessIrreflexive, Zenon
  <2>10. CASE y.pk # x.pk
    <3>1. Before(y, a) <=> KeyLess(y.pk, x.pk)
      BY <2>4, <2>10, Zenon DEF Before
    <3>2. Before(y, b) <=> KeyLess(y.pk, x.pk)
      BY <2>4, <2>10, Zenon DEF Before
    <3>3. y # b
      BY <2>4, <2>10
    <3> QED
      BY <2>3, <2>7, <2>8, <2>10, <3>1, <3>2, <3>3, Zenon DEF RowDeleteTakesSubs
  <2>11. CASE y.pk = x.pk /\ y.sub
    <3>1. Group(y) = 1 /\ Group(a) = 1 /\ Group(b) = 2
      BY <2>4, <2>11 DEF Group
    <3>2. ~Before(y, a)
      BY <2>1, <2>2, <2>4, <2>11, <3>1 DEF Before
    <3>3. Before(y, b) /\ y # b
      BY <2>4, <2>11, <3>1 DEF Before
    <3> QED
      BY <2>3, <2>7, <2>8, <2>11, <3>2, <3>3, Zenon DEF RowDeleteTakesSubs
  <2>12. CASE y.pk = x.pk /\ ~y.sub /\ y.fam = 0
    <3>1. Group(y) = 0 /\ Group(a) = 1
      BY <2>4, <2>12 DEF Group
    <3>2. Before(y, a)
      BY <2>4, <2>12, <3>1 DEF Before
    <3> QED
      BY <2>3, <2>7, <2>12, <3>2, Zenon DEF RowDeleteTakesSubs
  <2>13. CASE y.pk = x.pk /\ ~y.sub /\ y.fam # 0
    <3>1. Group(y) = 2 /\ Group(b) = 2
      BY <2>4, <2>13 DEF Group
    <3>2. ~Before(y, b)
      BY <2>2, <2>4, <2>13, <3>1 DEF Before
    <3> QED
      BY <2>3, <2>8, <2>9, <2>13, <3>2, Zenon DEF RowDeleteTakesSubs
  <2> QED
    BY <2>2, <2>10, <2>11, <2>12, <2>13, Zenon
<1> QED
  BY <1>1, Examined, PTL

-----------------------------------------------------------------------------
(* Row prefixes *)

\* A byte that is the encoding of a number up to 109.
LEMMA LastByteIs ==
    ASSUME NEW n \in 0..109, NEW b, b = <<136 + n>>
    PROVE  /\ PeekInt(b) /\ DecodeUvarintAscending(b).ok /\ DecodeUvarintAscending(b).val = n
<1>1. Len(b) > 0 /\ b[1] = 136 + n /\ b # <<>>
  OBVIOUS
<1>2. PeekInt(b)
  BY <1>1 DEF PeekInt, IntMin, IntMax
<1>3. b[1] - intZero = n /\ n <= intSmall
  BY <1>1 DEF intZero, intSmall
<1>4. DecodeUvarintAscending(b) = Decoded(Tail(b), n)
  BY <1>1, <1>3 DEF DecodeUvarintAscending
<1> QED
  BY <1>2, <1>4 DEF Decoded

\* The last byte of a key of a row tells how many bytes to strip.
LEMMA RowPrefixOf ==
    ASSUME NEW pk, NEW key, Extends(pk, key), NamesIndex(pk), NEW n \in 0..109,
           Len(key) = Len(pk) + n + 1, key[Len(key)] = 136 + n
    PROVE  GetRowPrefixLength(key) = Decoded(<<>>, Len(pk))
<1> DEFINE r == DecodeActorPrefix(pk).rest
           s == DecodeActorPrefix(key).rest
           t == GetUvarintLen(r).val
           i == SubSeq(r, t + 1, Len(r))
           j == SubSeq(s, t + 1, Len(s))
           f == SubSeq(s, Len(s), Len(s))
<1>1. /\ DecodeActorPrefix(pk).ok /\ PeekInt(r) /\ GetUvarintLen(r).ok
      /\ PeekInt(i) /\ GetUvarintLen(i).ok
  BY Zenon DEF NamesIndex
<1>2. Len(pk) \in Nat /\ Len(key) \in Nat
  BY Bytes DEF Extends
<1>3. Len(pk) > 0
  <2> SUFFICES ASSUME Len(pk) = 0 PROVE FALSE
    BY <1>2
  <2>1. pk = <<>>
    BY DEF Extends
  <2>2. r = <<>>
    BY <2>1 DEF DecodeActorPrefix, Decoded
  <2> HIDE DEF r
  <2> QED
    BY <1>1, <2>2 DEF PeekInt
<1>4. /\ DecodeActorPrefix(key).ok /\ Extends(r, s) /\ Len(s) - Len(r) = Len(key) - Len(pk)
      /\ Len(s) > 0 => s[Len(s)] = key[Len(key)]
  BY <1>1, <1>3, ActorExtends, Zenon
<1> HIDE DEF r, s
<1>5. r \in Seq(Byte) /\ s \in Seq(Byte) /\ Len(r) \in Nat /\ Len(s) \in Nat
  BY <1>4, Bytes DEF Extends
<1>6. Len(s) = Len(r) + n + 1
  BY <1>2, <1>4, <1>5
<1>7. /\ PeekInt(s) /\ GetUvarintLen(s).ok /\ GetUvarintLen(s).val = t /\ t \in 1..Len(r)
  BY <1>1, <1>4, NumberExtends, Zenon
<1> HIDE DEF t
<1>8. PICK m \in 1..(Len(r) + 1) : m = t + 1
  BY <1>5, <1>7
<1>9. Extends(i, j) /\ Len(i) = Len(r) - m + 1 /\ Len(j) = Len(s) - m + 1
  <2> HIDE DEF i, j
  <2>1. Extends(r, s)
    BY <1>4, Zenon
  <2>2. /\ Extends(SubSeq(r, m, Len(r)), SubSeq(s, m, Len(s)))
        /\ Len(SubSeq(r, m, Len(r))) = Len(r) - m + 1
        /\ Len(SubSeq(s, m, Len(s))) = Len(s) - m + 1
    BY <1>8, <2>1, RestExtends, ZenonT(30)
  <2> QED
    BY <1>8, <2>2, Zenon DEF i, j
<1> HIDE DEF i, j
<1>10. /\ PeekInt(j) /\ GetUvarintLen(j).ok /\ GetUvarintLen(j).val = GetUvarintLen(i).val
       /\ GetUvarintLen(i).val \in 1..Len(i)
  BY <1>1, <1>9, NumberExtends, Zenon
<1>11. Len(i) \in Nat /\ Len(i) < Len(j)
  BY <1>5, <1>6, <1>7, <1>9
<1>12. GetUvarintLen(j).val # Len(j)
  BY <1>10, <1>11
<1>13. f = <<136 + n>>
  <2>1. Len(s) > 0 /\ Len(s) \in 1..Len(s)
    BY <1>5, <1>6
  <2>2. s[Len(s)] = 136 + n
    BY <1>4, <2>1
  <2> QED
    BY <1>5, <2>1, <2>2, LastAlone
<1>14. PeekInt(f) /\ DecodeUvarintAscending(f).ok /\ DecodeUvarintAscending(f).val = n
  BY <1>13, LastByteIs
<1> HIDE DEF f
<1>15. DecodeUvarintAscending(f).val \in 0..(Len(s) - 1)
  BY <1>5, <1>6, <1>14
<1>16. GetRowPrefixLength(key) = Decoded(<<>>, Len(key) - DecodeUvarintAscending(f).val - 1)
  <2>1. j = SubSeq(s, GetUvarintLen(s).val + 1, Len(s))
    BY <1>7, Zenon DEF j
  <2> QED
    BY <1>4, <1>7, <1>10, <1>12, <1>14, <1>15, <2>1, Zenon DEF GetRowPrefixLength, s, f
<1>17. Len(key) - DecodeUvarintAscending(f).val - 1 = Len(pk)
  BY <1>2, <1>14
<1> QED
  BY <1>16, <1>17, Zenon

\* The number a key ends with.
LEMMA EndsWith ==
    ASSUME NEW a \in Seq(Byte), NEW n \in 0..intSmall, NEW k, k = Cat(a, EncodeUvarintAscending(n))
    PROVE  Len(k) = Len(a) + 1 /\ k[Len(k)] = intZero + n
<1> DEFINE l == EncodeUvarintAscending(n)
<1>1. l \in Seq(Byte) /\ Len(l) = 1 /\ l[1] = intZero + n
  BY UvarintIs, SMTT(30) DEF intSmall, intZero
<1>2. l \in Seq(Byte) /\ k = a \o l
  BY <1>1, Zenon DEF Cat
<1>3. Len(a) \in Nat
  BY Bytes
<1> HIDE DEF l
<1>4. Len(a \o l) = Len(a) + Len(l) /\ \A i \in 1..Len(l) : (a \o l)[Len(a) + i] = l[i]
  BY <1>2, ConcatElements, Zenon
<1>5. Len(k) = Len(a) + Len(l) /\ \A i \in 1..Len(l) : k[Len(a) + i] = l[i]
  BY <1>2, <1>4, Zenon
<1>6. Len(k) = Len(a) + 1
  BY <1>1, <1>5
<1>7. 1 \in 1..Len(l)
  BY <1>1
<1>8. k[Len(k)] = l[1]
  BY <1>5, <1>6, <1>7, Zenon
<1> QED
  BY <1>1, <1>6, <1>8

\* A key of a row ends with the number of bytes between the row and this number.
LEMMA KeyEndsWith ==
    ASSUME NEW e, IsEntry(e), Len(EntryKey(e)) <= Len(e.pk) + 1 + intSmall
    PROVE  \E n \in 0..intSmall : Len(EntryKey(e)) = Len(e.pk) + n + 1 /\ EntryKey(e)[Len(EntryKey(e))] = intZero + n
<1>1. e.pk \in Seq(Byte) /\ e.fam \in Nat /\ e.col \in Nat /\ e.sub \in BOOLEAN /\ Len(e.pk) \in Nat
  BY EntryIs, NumberIsNat, Bytes, Zenon
<1>2. Sentinel(e.pk) \in Seq(Byte)
  BY <1>1, SentinelIs, Zenon
<1> DEFINE k == EntryKey(e)
<1>3. CASE ~e.sub /\ e.fam = 0
  <2>1. k = Cat(e.pk, EncodeUvarintAscending(0))
    BY <1>3, FamilyKey, Zenon DEF Sentinel
  <2> HIDE DEF k
  <2>4. 0 \in 0..intSmall
    BY DEF intSmall
  <2>2. Len(k) = Len(e.pk) + 1 /\ k[Len(k)] = intZero + 0
    BY <1>1, <2>1, <2>4, EndsWith, ZenonT(30)
  <2>3. 0 \in 0..intSmall /\ Len(k) = Len(e.pk) + 0 + 1
    BY <1>1, <2>2, <2>4
  <2> QED
    BY <2>2, <2>3 DEF k
<1>4. CASE ~e.sub /\ e.fam # 0
  <2> DEFINE f == EncodeUvarintAscending(e.fam)
             a == Cat(e.pk, f)
  <2>1. f \in Seq(Byte) /\ Len(f) \in 1..5
    BY <1>1, UvarintIs, Zenon
  <2>2. k = Cat(a, EncodeUvarintAscending(Len(f)))
    BY <1>4, Zenon DEF EntryKey, MakeFamilyKey, Cat
  <2> HIDE DEF f
  <2>3. a \in Seq(Byte) /\ Len(a) = Len(e.pk) + Len(f)
    BY <1>1, <2>1, ConcatElements, Zenon DEF Cat
  <2> HIDE DEF a, k
  <2>4. PICK n \in 0..intSmall : n = Len(f)
    BY <2>1 DEF intSmall
  <2>5. k = Cat(a, EncodeUvarintAscending(n))
    BY <2>2, <2>4, Zenon
  <2>6. Len(k) = Len(a) + 1 /\ k[Len(k)] = intZero + n
    BY <2>3, <2>5, EndsWith, Zenon
  <2>7. Len(k) = Len(e.pk) + n + 1
    BY <1>1, <2>3, <2>4, <2>6
  <2> QED
    BY <2>6, <2>7 DEF k
<1>5. CASE e.sub
  <2> DEFINE r == Sentinel(e.pk)
             p == SubtreePrefix(e)
             g == Cat(p, EndMark)
             v == Len(g) - (Len(r) - 1)
  <2>1. MakeFamilyKey(e.pk, 0) = r
    BY Zenon DEF MakeFamilyKey, Sentinel, Cat
  <2>2. k = Cat(g, EncodeUvarintAscending(v))
    BY <1>5, <2>1, Zenon DEF EntryKey, MakeSubordinatePathKey, SubtreePrefix, EndMark, Cat
  <2>3. p \in Seq(Byte) /\ Column(e) \in Seq(Byte) /\ Len(r) < Len(Column(e)) /\ IsPrefix(Column(e), p)
    BY <1>5, SubKey, Zenon
  <2>4. r = Cat(e.pk, EncodeUvarintAscending(0))
    BY Zenon DEF Sentinel
  <2> HIDE DEF r
  <2>5. Len(r) = Len(e.pk) + 1
    <3>1. 0 \in 0..intSmall
      BY DEF intSmall
    <3> QED
      BY <1>1, <2>4, <3>1, EndsWith, ZenonT(30)
  <2> HIDE DEF p, k
  <2>6. g \in Seq(Byte) /\ IsPrefix(p, g)
    BY <2>3, EndMarkIs, CatIs, Zenon
  <2> HIDE DEF g
  <2>7. Len(Column(e)) <= Len(p) /\ Len(p) <= Len(g)
    BY <2>3, <2>6, PrefixOrder
  <2>8. Len(Column(e)) \in Nat /\ Len(p) \in Nat /\ Len(g) \in Nat
    BY <2>3, <2>6, Bytes, Zenon
  <2>9. v \in Nat /\ v = Len(g) - Len(e.pk)
    BY <1>1, <2>3, <2>5, <2>7, <2>8
  <2> HIDE DEF v
  <2>10. EncodeUvarintAscending(v) \in Seq(Byte) /\ Len(EncodeUvarintAscending(v)) \in 1..5
    BY <2>9, UvarintIs, Zenon
  <2>11. Len(k) = Len(g) + Len(EncodeUvarintAscending(v))
    BY <2>2, <2>6, <2>10, ConcatElements, Zenon DEF Cat
  <2>12. Len(k) <= Len(e.pk) + 1 + intSmall
    BY DEF k
  <2>13. v \in 0..intSmall
    <3>1. PICK w \in 1..5 : Len(k) = Len(g) + w
      BY <2>10, <2>11, Zenon
    <3>2. PICK q \in Nat, l \in Nat : q = Len(e.pk) /\ l = Len(g)
      BY <1>1, <2>8, Zenon
    <3>3. v \in Nat /\ v = l - q /\ l + w <= q + 1 + intSmall
      BY <2>9, <2>12, <3>1, <3>2, Zenon
    <3> QED
      BY <3>3 DEF intSmall
  <2>14. Len(k) = Len(g) + 1 /\ k[Len(k)] = intZero + v
    BY <2>2, <2>6, <2>13, EndsWith, Zenon
  <2>15. Len(k) = Len(e.pk) + v + 1
    BY <1>1, <2>8, <2>9, <2>14
  <2> QED
    BY <2>13, <2>14, <2>15 DEF k
<1> QED
  BY <1>1, <1>3, <1>4, <1>5

\* GetRowPrefixLength finds the row of an entry whose suffix is short.
LEMMA RowFound ==
    ASSUME NEW e \in Entries, ShortSuffixes
    PROVE  /\ GetRowPrefixLength(EntryKey(e)) = Decoded(<<>>, Len(e.pk))
           /\ IsEntry(e) /\ Len(EntryKey(e)) <= Len(e.pk) + 1 + intSmall
<1>1. IsEntry(e) /\ NamesIndex(e.pk) /\ Len(EntryKey(e)) <= Len(e.pk) + 1 + intSmall
  BY EntriesApart, Zenon DEF ShortSuffixes
<1>2. EntryKey(e) \in Seq(Byte) /\ e.pk \in Seq(Byte) /\ IsPrefix(e.pk, EntryKey(e))
  BY <1>1, KeyOfRow, Zenon
<1>3. Len(e.pk) <= Len(EntryKey(e)) /\ Agree(e.pk, EntryKey(e), Len(e.pk))
  BY <1>2, PrefixIff, Zenon
<1>4. Extends(e.pk, EntryKey(e))
  BY <1>2, <1>3, Zenon DEF Extends, Agree
<1>5. PICK n \in 0..intSmall : /\ Len(EntryKey(e)) = Len(e.pk) + n + 1
                               /\ EntryKey(e)[Len(EntryKey(e))] = intZero + n
  BY <1>1, KeyEndsWith, Zenon
<1>6. GetRowPrefixLength(EntryKey(e)) = Decoded(<<>>, Len(e.pk))
  <2>1. n \in 0..109 /\ EntryKey(e)[Len(EntryKey(e))] = 136 + n
    BY <1>5 DEF intSmall, intZero
  <2> QED
    BY <1>1, <1>4, <1>5, <2>1, RowPrefixOf
<1> QED
  BY <1>1, <1>6

\* Where every suffix is short enough for its length to take one byte,
\* GetRowPrefixLength finds the row of every key: of the sentinel, of the other
\* families and of subordinate values. Without the condition it does not.
THEOREM RowPrefixIsRowHolds ==
    ASSUME ShortSuffixes
    PROVE  Spec => []RowPrefixIsRow
<1>1. ASSUME x \in Entries PROVE RowPrefixIsRow
  BY <1>1, RowFound, Zenon DEF RowPrefixIsRow
<1> QED
  BY <1>1, Examined, PTL

-----------------------------------------------------------------------------
(* Decoding keys *)

\* Six parts joined from the front are joined from the back.
Regroups(a, b, c, d, e, f) ==
    /\ Cat(Cat(Cat(Cat(Cat(a, b), c), d), e), f) = Cat(a, Cat(b, Cat(c, Cat(d, Cat(e, f)))))
    /\ Cat(e, f) \in Seq(Byte) /\ Cat(d, Cat(e, f)) \in Seq(Byte)
    /\ Cat(c, Cat(d, Cat(e, f))) \in Seq(Byte)
    /\ Cat(b, Cat(c, Cat(d, Cat(e, f)))) \in Seq(Byte)

\* They are, as concatenation is associative.
LEMMA SixParts ==
    ASSUME NEW a \in Seq(Byte), NEW b \in Seq(Byte), NEW c \in Seq(Byte), NEW d \in Seq(Byte),
           NEW e \in Seq(Byte), NEW f \in Seq(Byte)
    PROVE  Regroups(a, b, c, d, e, f)
<1> DEFINE ab == Cat(a, b)
           abc == Cat(ab, c)
           abcd == Cat(abc, d)
           ef == Cat(e, f)
           def == Cat(d, ef)
           cdef == Cat(c, def)
           bcdef == Cat(b, cdef)
<1>1. ab \in Seq(Byte)
  BY CatIs, Zenon
<1>2. abc \in Seq(Byte)
  <2> HIDE DEF ab
  <2> QED
    BY <1>1, CatIs, Zenon
<1>3. abcd \in Seq(Byte)
  <2> HIDE DEF abc
  <2> QED
    BY <1>2, CatIs, Zenon
<1>4. ef \in Seq(Byte)
  BY CatIs, Zenon
<1>5. def \in Seq(Byte)
  <2> HIDE DEF ef
  <2> QED
    BY <1>4, CatIs, Zenon
<1>6. cdef \in Seq(Byte)
  <2> HIDE DEF def
  <2> QED
    BY <1>5, CatIs, Zenon
<1>7. bcdef \in Seq(Byte)
  <2> HIDE DEF cdef
  <2> QED
    BY <1>6, CatIs, Zenon
<1>8. Cat(Cat(abcd, e), f) = Cat(abcd, ef)
  <2> HIDE DEF abcd
  <2> QED
    BY <1>3, CatAssociative, ZenonT(30)
<1>9. Cat(abcd, ef) = Cat(abc, def)
  <2> HIDE DEF abc, ef
  <2> QED
    BY <1>2, <1>4, CatAssociative, SMT
<1>10. Cat(abc, def) = Cat(ab, cdef)
  <2> HIDE DEF ab, def
  <2> QED
    BY <1>1, <1>5, CatAssociative, SMT
<1>11. Cat(ab, cdef) = Cat(a, bcdef)
  <2> HIDE DEF cdef
  <2> QED
    BY <1>6, CatAssociative, SMT
<1>12. Cat(Cat(abcd, e), f) = Cat(a, bcdef)
  <2> HIDE DEF ab, abc, abcd, ef, def, cdef, bcdef
  <2> QED
    BY <1>8, <1>9, <1>10, <1>11, Zenon
<1> QED
  BY <1>4, <1>5, <1>6, <1>7, <1>12, Zenon DEF Regroups

\* What follows the column in a subordinate key.
PathSuffix(e, v) == Cat(Flat(e.path), Cat(EndMark, EncodeUvarintAscending(v)))

\* What follows the row.
RowSuffix(e, v) ==
    Cat(EncodeUvarintAscending(0), Cat(EncodeUvarintAscending(e.col), PathSuffix(e, v)))

\* A subordinate key, in the order in which it is decoded.
LEMMA SubKeyParts ==
    ASSUME NEW e, IsEntry(e), e.sub, Len(EntryKey(e)) <= Len(e.pk) + 1 + intSmall
    PROVE  \E v \in Number :
              /\ v > 2 /\ EntryKey(e) = Cat(e.pk, RowSuffix(e, v))
              /\ PathSuffix(e, v) \in Seq(Byte) /\ RowSuffix(e, v) \in Seq(Byte)
              /\ Cat(EncodeUvarintAscending(e.col), PathSuffix(e, v)) \in Seq(Byte)
              /\ Len(RowSuffix(e, v)) >= 4
<1>1. e.pk \in Seq(Byte) /\ e.col \in Nat /\ e.path \in Seq(Segment) /\ Len(e.pk) \in Nat
  BY EntryIs, NumberIsNat, Bytes, Zenon
<1> DEFINE pk == e.pk
           z == EncodeUvarintAscending(0)
           k == EncodeUvarintAscending(e.col)
           f == Flat(e.path)
           r == Cat(pk, z)
           c == Cat(r, k)
           p == Cat(c, f)
           g == Cat(p, EndMark)
           v == Len(g) - (Len(r) - 1)
           l == EncodeUvarintAscending(v)
<1>2. /\ z \in Seq(Byte) /\ k \in Seq(Byte) /\ Len(k) \in 1..5 /\ f \in Seq(Byte)
      /\ EndMark \in Seq(Byte)
  <2>1. 0 \in Nat
    OBVIOUS
  <2> QED
    BY <1>1, <2>1, UvarintIs, EncodedIs, EndMarkIs, Zenon
<1>3. Len(z) = 1 /\ Len(EndMark) = 1
  <2>1. Len(z) = 1
    BY DEF EncodeUvarintAscending, intSmall
  <2> QED
    BY <2>1, EndMarkIs, Zenon
<1>4. EntryKey(e) = Cat(g, l)
  <2>1. MakeFamilyKey(e.pk, 0) = r
    BY Zenon DEF MakeFamilyKey, Cat
  <2>2. SubtreePrefix(e) = p
    BY SubKey, Zenon DEF Column, Sentinel
  <2> HIDE DEF r, p
  <2> QED
    BY <2>1, <2>2, Zenon DEF EntryKey, MakeSubordinatePathKey, SubtreePrefix, EndMark, Cat
<1>5. r \in Seq(Byte) /\ Len(r) = Len(pk) + Len(z)
  <2> HIDE DEF z
  <2> QED
    BY <1>1, <1>2, CatElements, Zenon
<1>6. c \in Seq(Byte) /\ Len(c) = Len(r) + Len(k)
  <2> HIDE DEF r, k
  <2> QED
    BY <1>2, <1>5, CatElements, Zenon
<1>7. p \in Seq(Byte) /\ Len(p) = Len(c) + Len(f)
  <2> HIDE DEF c, f
  <2> QED
    BY <1>2, <1>6, CatElements, Zenon
<1>8. g \in Seq(Byte) /\ Len(g) = Len(p) + Len(EndMark)
  <2> HIDE DEF p
  <2> QED
    BY <1>2, <1>7, CatElements, Zenon
<1>9. Len(f) \in Nat
  BY <1>2, Bytes, Zenon
<1> HIDE DEF z, k, f, r, c, p, g, pk
<1>10. Len(pk) \in Nat
  BY <1>1 DEF pk
<1>11. v \in Nat /\ v > 2 /\ Len(g) = Len(pk) + v
  <2>1. PICK a \in Nat, b \in 1..5, d \in Nat : a = Len(pk) /\ b = Len(k) /\ d = Len(f)
    BY <1>2, <1>9, <1>10, Zenon
  <2>2. Len(r) = a + 1 /\ Len(g) = a + 1 + b + d + 1
    BY <1>3, <1>5, <1>6, <1>7, <1>8, <2>1
  <2>3. v = b + d + 2
    BY <2>2
  <2> HIDE DEF v
  <2> QED
    BY <2>1, <2>2, <2>3
<1> HIDE DEF v
<1>12. l \in Seq(Byte) /\ Len(l) \in 1..5
  BY <1>11, UvarintIs, Zenon
<1> HIDE DEF l
<1>13. Len(EntryKey(e)) = Len(g) + Len(l)
  BY <1>4, <1>8, <1>12, CatElements, Zenon
<1>14. Len(pk) + v + Len(l) <= Len(pk) + 1 + intSmall
  BY <1>11, <1>13 DEF pk
<1>15. v \in Number
  BY <1>10, <1>11, <1>12, <1>14, SMT DEF intSmall, Number
<1>16. /\ Cat(g, l) = Cat(pk, Cat(z, Cat(k, Cat(f, Cat(EndMark, l)))))
       /\ Cat(f, Cat(EndMark, l)) \in Seq(Byte)
       /\ Cat(k, Cat(f, Cat(EndMark, l))) \in Seq(Byte)
       /\ Cat(z, Cat(k, Cat(f, Cat(EndMark, l)))) \in Seq(Byte)
  <2>1. pk \in Seq(Byte)
    BY <1>1 DEF pk
  <2>2. g = Cat(Cat(Cat(Cat(pk, z), k), f), EndMark)
    BY Zenon DEF g, p, c, r
  <2> QED
    <3> HIDE DEF g
    <3>1. /\ pk \in Seq(Byte) /\ z \in Seq(Byte) /\ k \in Seq(Byte) /\ f \in Seq(Byte)
          /\ EndMark \in Seq(Byte) /\ l \in Seq(Byte)
      BY <1>2, <1>12, <2>1
    <3>2. /\ Cat(Cat(Cat(Cat(Cat(pk, z), k), f), EndMark), l)
             = Cat(pk, Cat(z, Cat(k, Cat(f, Cat(EndMark, l)))))
          /\ Cat(f, Cat(EndMark, l)) \in Seq(Byte)
          /\ Cat(k, Cat(f, Cat(EndMark, l))) \in Seq(Byte)
          /\ Cat(z, Cat(k, Cat(f, Cat(EndMark, l)))) \in Seq(Byte)
      <4>1. Regroups(pk, z, k, f, EndMark, l)
        BY <3>1, SixParts, Zenon
      <4> QED
        BY <4>1, Zenon DEF Regroups
    <3> QED
      BY <2>2, <3>2, Zenon
<1>17. PathSuffix(e, v) = Cat(f, Cat(EndMark, l)) /\ RowSuffix(e, v) = Cat(z, Cat(k, Cat(f, Cat(EndMark, l))))
  BY Zenon DEF PathSuffix, RowSuffix, f, l, z, k
<1>18. EntryKey(e) = Cat(e.pk, RowSuffix(e, v))
  BY <1>4, <1>16, <1>17, Zenon DEF pk
<1>19. Len(RowSuffix(e, v)) >= 4
  <2>1. RowSuffix(e, v) \in Seq(Byte)
    BY <1>16, <1>17, Zenon
  <2>2. Len(EntryKey(e)) = Len(e.pk) + Len(RowSuffix(e, v))
    <3> DEFINE u == RowSuffix(e, v)
    <3> HIDE DEF u
    <3>1. Len(Cat(e.pk, u)) = Len(e.pk) + Len(u)
      BY <1>1, <2>1, CatElements, Zenon DEF u
    <3> QED
      BY <1>18, <3>1, Zenon DEF u
  <2>3. Len(RowSuffix(e, v)) \in Nat
    BY <2>1, Bytes, Zenon
  <2>4. Len(pk) + v + Len(l) = Len(pk) + Len(RowSuffix(e, v))
    BY <1>11, <1>13, <2>2 DEF pk
  <2> QED
    <3>1. PICK a \in Nat, b \in 1..5, d \in Nat : a = Len(pk) /\ b = Len(l) /\ d = Len(RowSuffix(e, v))
      BY <1>10, <1>12, <2>3, Zenon
    <3>2. a + v + b = a + d
      BY <2>4, <3>1
    <3>3. d >= 4
      BY <1>11, <3>2
    <3> QED
      BY <3>1, <3>3
<1>20. Cat(EncodeUvarintAscending(e.col), PathSuffix(e, v)) \in Seq(Byte)
  BY <1>16, <1>17, Zenon DEF k
<1> QED
  BY <1>11, <1>15, <1>16, <1>17, <1>18, <1>19, <1>20, Zenon

\* A path without the end mark.
LEMMA WithoutEndIs ==
    ASSUME NEW p \in Seq(Segment)
    PROVE  WithoutEnd(p \o <<Header>>) = p
<1> DEFINE e == <<Header>>
           q == p \o e
<1>1. e \in Seq(Segment) /\ Len(e) = 1 /\ e[1] = Header /\ Header.kind = HeaderKind
  BY HeaderIs DEF Header
<1>2. Len(p) \in Nat
  BY Elements
<1> HIDE DEF e
<1>3. /\ q \in Seq(Segment) /\ Len(q) = Len(p) + Len(e)
      /\ \A i \in 1..Len(p) : q[i] = p[i]
      /\ q[Len(p) + 1] = e[1]
  <2>1. /\ q \in Seq(Segment) /\ Len(q) = Len(p) + Len(e)
        /\ \A i \in 1..(Len(p) + Len(e)) : q[i] = IF i <= Len(p) THEN p[i] ELSE e[i - Len(p)]
    BY <1>1, ConcatProperties, Zenon
  <2> HIDE DEF q
  <2>2. ASSUME NEW i \in 1..Len(p) PROVE q[i] = p[i]
    BY <1>1, <1>2, <2>1
  <2>3. q[Len(p) + 1] = e[1]
    <3>1. PICK i \in 1..(Len(p) + Len(e)) : i = Len(p) + 1 /\ ~(i <= Len(p)) /\ i - Len(p) = 1
      BY <1>1, <1>2
    <3> QED
      BY <2>1, <3>1, Zenon
  <2> QED
    BY <2>1, <2>2, <2>3
<1> HIDE DEF q
<1>4. Len(q) = Len(p) + 1 /\ q # <<>> /\ q[Len(q)].kind = HeaderKind /\ Len(q) - 1 = Len(p)
  BY <1>1, <1>2, <1>3
<1>5. SubSeq(q, 1, Len(p)) = p
  <2>1. Len(p) <= Len(q) /\ Len(p) <= Len(p) /\ Agree(q, p, Len(p))
    BY <1>2, <1>3, <1>4 DEF Agree
  <2>2. SubSeq(q, 1, Len(p)) = SubSeq(p, 1, Len(p))
    BY <1>2, <1>3, <2>1, SameBeginning
  <2> QED
    BY <2>2, SubSeqFull
<1>6. WithoutEnd(q) = p
  BY <1>4, <1>5, Zenon DEF WithoutEnd
<1> QED
  BY <1>6 DEF q, e

\* A subordinate key passes for one and gives back its parts.
LEMMA SubDecodes ==
    ASSUME NEW e, IsEntry(e), e.sub, Len(EntryKey(e)) <= Len(e.pk) + 1 + intSmall,
           GetRowPrefixLength(EntryKey(e)) = Decoded(<<>>, Len(e.pk))
    PROVE  /\ IsSubordinateKey(EntryKey(e), e.pk)
           /\ DecodeSubordinatePathKey(EntryKey(e)) = Decoded(<<>>, <<e.pk, e.col, e.path>>)
<1> DEFINE key == EntryKey(e)
           n == GetRowPrefixLength(key)
<1>1. /\ e.pk \in Seq(Byte) /\ e.col \in Number /\ e.path \in Seq(Segment)
      /\ key \in Seq(Byte) /\ IsPrefix(e.pk, key)
  BY EntryIs, KeyOfRow, Zenon
<1>2. PICK v \in Number :
          /\ v > 2 /\ key = Cat(e.pk, RowSuffix(e, v))
          /\ PathSuffix(e, v) \in Seq(Byte) /\ RowSuffix(e, v) \in Seq(Byte)
          /\ Cat(EncodeUvarintAscending(e.col), PathSuffix(e, v)) \in Seq(Byte)
          /\ Len(RowSuffix(e, v)) >= 4
  BY SubKeyParts, Zenon
<1> DEFINE s == PathSuffix(e, v)
           u == RowSuffix(e, v)
           w == Cat(EncodeUvarintAscending(e.col), s)
           fam == DecodeUvarintAscending(SubSeq(key, n.val + 1, Len(key)))
           col == DecodeUvarintAscending(fam.rest)
           path == DecodeSegments(col.rest)
<1> HIDE DEF key
<1>3. n.ok /\ n.val = Len(e.pk)
  <2>1. n = Decoded(<<>>, Len(e.pk))
    BY DEF key
  <2> HIDE DEF n
  <2> QED
    BY <2>1, DecodedIs, Zenon
<1> HIDE DEF n
<1>4. SubSeq(key, Len(e.pk) + 1, Len(key)) = u
  <2> HIDE DEF u
  <2>1. SubSeq(Cat(e.pk, u), Len(e.pk) + 1, Len(Cat(e.pk, u))) = u
    BY <1>1, <1>2, RestOf, Zenon DEF u
  <2> QED
    BY <1>2, <2>1, Zenon DEF u
<1>5. DecodeUvarintAscending(u) = Decoded(w, 0)
  <2>1. 0 \in Number /\ w \in Seq(Byte) /\ u = Cat(EncodeUvarintAscending(0), w)
    BY <1>2, SmallNumbers, Zenon DEF RowSuffix
  <2> HIDE DEF u, w
  <2> QED
    BY <2>1, NumbersDecode, Zenon
<1>6. DecodeUvarintAscending(w) = Decoded(s, e.col)
  BY <1>1, <1>2, NumbersDecode, Zenon
<1>7. DecodeSegments(s) = Decoded(<<>>, e.path \o <<Header>>)
  BY <1>1, <1>2, PathsDecode, Zenon DEF PathSuffix
<1> HIDE DEF s, u, w
<1>8. fam = Decoded(w, 0)
  BY <1>3, <1>4, <1>5, Zenon
<1> HIDE DEF fam
<1>9. fam.ok /\ fam.val = 0 /\ fam.rest = w
  BY <1>8, DecodedIs, Zenon
<1>10. col.ok /\ col.val = e.col /\ col.rest = s
  <2>1. col = Decoded(s, e.col)
    BY <1>6, <1>9, Zenon
  <2> HIDE DEF col
  <2> QED
    BY <2>1, DecodedIs, Zenon
<1> HIDE DEF col
<1>11. path.ok /\ path.val = e.path \o <<Header>>
  <2>1. path = Decoded(<<>>, e.path \o <<Header>>)
    BY <1>7, <1>10, Zenon
  <2> HIDE DEF path
  <2> QED
    BY <2>1 DEF Decoded
<1> HIDE DEF path
<1>12. WithoutEnd(path.val) = e.path
  BY <1>1, <1>11, WithoutEndIs, Zenon
<1>13. SubSeq(key, 1, n.val) = e.pk
  <2>1. SubSeq(e.pk, 1, Len(e.pk)) = e.pk
    BY <1>1, SubSeqFull
  <2> QED
    BY <1>1, <1>3, <2>1, Zenon DEF IsPrefix
<1>14. col.val >= 0
  BY <1>1, <1>10, NumberIsNat
<1>15. DecodeSubordinatePathKey(key) = Decoded(<<>>, <<e.pk, e.col, e.path>>)
  <2>1. DecodeSubordinatePathKey(key) = Decoded(<<>>, <<SubSeq(key, 1, n.val), col.val, WithoutEnd(path.val)>>)
    BY <1>3, <1>9, <1>10, <1>11, <1>14, Zenon DEF DecodeSubordinatePathKey, n, fam, col, path
  <2> QED
    BY <1>10, <1>12, <1>13, <2>1, Zenon
<1>16. IsSubordinateKey(key, e.pk)
  <2>1. DecodeUvarintAscending(u).ok /\ DecodeUvarintAscending(u).val = 0 /\ Len(u) >= 4
    <3>1. Len(u) >= 4
      BY <1>2 DEF u
    <3> QED
      <4>1. Decoded(w, 0).ok /\ Decoded(w, 0).val = 0
        BY DecodedIs, Zenon
      <4> QED
        BY <1>5, <3>1, <4>1, Zenon
  <2> QED
    BY <1>1, <1>4, <2>1, Zenon DEF IsSubordinateKey
<1> QED
  BY <1>15, <1>16 DEF key

\* A key of a column family does not pass for a subordinate one.
LEMMA FamilyIsNotSub ==
    ASSUME NEW e, IsEntry(e), ~e.sub
    PROVE  ~IsSubordinateKey(EntryKey(e), e.pk)
<1> DEFINE f == EncodeUvarintAscending(e.fam)
           l == EncodeUvarintAscending(Len(f))
           key == EntryKey(e)
           suffix == SubSeq(key, Len(e.pk) + 1, Len(key))
<1>1. e.pk \in Seq(Byte) /\ e.fam \in Number /\ e.fam \in Nat
  BY EntryIs, NumberIsNat, Zenon
<1>2. f \in Seq(Byte) /\ Len(f) \in Nat
  BY <1>1, UvarintIs, Bytes, Zenon
<1>3. l \in Seq(Byte)
  BY <1>2, UvarintIs, Zenon
<1>4. key = MakeFamilyKey(e.pk, e.fam)
  BY DEF EntryKey
<1>5. CASE e.fam = 0
  <2>1. key = Cat(e.pk, f)
    BY <1>4, <1>5, Zenon DEF MakeFamilyKey, Cat
  <2>2. Len(f) = 1
    BY <1>5 DEF EncodeUvarintAscending, intSmall
  <2> HIDE DEF f, l, key
  <2>3. SubSeq(Cat(e.pk, f), Len(e.pk) + 1, Len(Cat(e.pk, f))) = f
    BY <1>1, <1>2, RestOf, Zenon
  <2>4. suffix = f
    BY <2>1, <2>3, Zenon
  <2>5. ~(Len(f) >= 4)
    BY <2>2
  <2>6. ~IsSubordinateKey(key, e.pk)
    BY <2>4, <2>5, Zenon DEF IsSubordinateKey
  <2> QED
    BY <2>6 DEF key
<1>6. CASE e.fam # 0
  <2>1. key = Cat(Cat(e.pk, f), l)
    BY <1>4, <1>6, Zenon DEF MakeFamilyKey, Cat
  <2>2. DecodeUvarintAscending(Cat(f, l)) = Decoded(l, e.fam)
    BY <1>1, <1>3, NumbersDecode, Zenon
  <2> HIDE DEF f, l, key
  <2>3. key = Cat(e.pk, Cat(f, l)) /\ Cat(f, l) \in Seq(Byte)
    <3>1. Cat(Cat(e.pk, f), l) = Cat(e.pk, Cat(f, l)) /\ Cat(f, l) \in Seq(Byte)
      BY <1>1, <1>2, <1>3, CatAssociative, CatIs, ZenonT(30)
    <3> QED
      BY <2>1, <3>1, Zenon
  <2>4. SubSeq(Cat(e.pk, Cat(f, l)), Len(e.pk) + 1, Len(Cat(e.pk, Cat(f, l)))) = Cat(f, l)
    BY <1>1, <2>3, RestOf, Zenon
  <2>5. suffix = Cat(f, l)
    BY <2>3, <2>4, Zenon
  <2>6. DecodeUvarintAscending(suffix).val = e.fam
    <3>1. Decoded(l, e.fam).val = e.fam
      BY DecodedIs, Zenon
    <3> QED
      BY <2>2, <2>5, <3>1, Zenon
  <2>7. ~IsSubordinateKey(key, e.pk)
    BY <1>6, <2>6, Zenon DEF IsSubordinateKey
  <2> QED
    BY <2>7 DEF key
<1> QED
  BY <1>5, <1>6

\* Where every suffix is short, the key of a subordinate value gives back its row,
\* its column and its path (DecodeSubordinatePathKey), and of the keys of a row
\* exactly those of subordinate values pass for subordinate (IsSubordinateKey).
THEOREM KeysDecodeHolds ==
    ASSUME ShortSuffixes
    PROVE  Spec => []KeysDecode
<1>1. ASSUME x \in Entries PROVE KeysDecode
  <2>1. /\ GetRowPrefixLength(EntryKey(x)) = Decoded(<<>>, Len(x.pk))
        /\ IsEntry(x) /\ Len(EntryKey(x)) <= Len(x.pk) + 1 + intSmall
    BY <1>1, RowFound, Zenon
  <2>2. CASE x.sub
    BY <2>1, <2>2, SubDecodes, Zenon DEF KeysDecode
  <2>3. CASE ~x.sub
    BY <2>1, <2>3, FamilyIsNotSub, Zenon DEF KeysDecode
  <2> QED
    BY <2>2, <2>3
<1> QED
  BY <1>1, Examined, PTL
=============================================================================
