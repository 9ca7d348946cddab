-------------------------- MODULE RangeSplitProofs --------------------------
(***************************************************************************)
(* Proofs about RangeSplit, for any rows, any number of splitters and any  *)
(* keys sampled or requested that satisfy KeysOfRows.                      *)
(*                                                                         *)
(* A key cuts no row (NoCut) if the keys of each row are on the same side  *)
(* of it. The inductive invariant Inv says that the bounds of every range  *)
(* and the key of every pending attempt cut no row, that this key lies     *)
(* strictly inside the descriptor the attempt has read, and that every key *)
(* is in exactly one range. An attempt keeps the last when it commits      *)
(* because the descriptor it read is still there. The keys that splitters  *)
(* find are rows (FoundBySize, FoundByLoad), and a row cuts no row because *)
(* no row is a prefix of another (RowNoCut).                               *)
(***************************************************************************)
EXTENDS RangeSplit, KeyEncodingProofs

-----------------------------------------------------------------------------
(* Rows *)

\* A key that does not separate two keys of a row.
NoCut(k) ==
    \A e, f \in Entries : e.row = f.row => (KeyLess(e.key, k) <=> KeyLess(f.key, k))

\* What KeysOfRows says of one entry and of two.
LEMMA EntryFacts ==
    ASSUME KeysOfRows, NEW e \in Entries
    PROVE  /\ e.row \in Seq(Byte) /\ e.key \in Seq(Byte)
           /\ IsPrefix(e.row, e.key) /\ SafeSplitKey(e.key) \subseteq {e.row} /\ Ends(e.row)
           /\ KeyLess(e.key, KeyMax)
           /\ \A f \in Entries : IsPrefix(e.row, f.row) => e.row = f.row
  BY Zenon DEF KeysOfRows, Ends

\* Two rows are apart, and so are their keys.
LEMMA RowsApart ==
    ASSUME KeysOfRows, NEW e \in Entries, NEW f \in Entries, e.row # f.row
    PROVE  Below(e.row, f.row) \/ Below(f.row, e.row)
<1>1. e.row \in Seq(Byte) /\ f.row \in Seq(Byte)
  BY EntryFacts
<1>2. ~IsPrefix(e.row, f.row) /\ ~IsPrefix(f.row, e.row)
  BY EntryFacts, Zenon
<1> QED
  BY <1>1, <1>2, Comparable, Zenon

\* Keys of a row that comes first come first, and before the other row.
LEMMA RowBelow ==
    ASSUME KeysOfRows, NEW e \in Entries, NEW f \in Entries, Below(e.row, f.row)
    PROVE  /\ KeyLess(e.key, f.row) /\ KeyLess(e.key, f.key)
           /\ ~KeyLess(f.key, e.row) /\ ~KeyLess(f.key, e.key)
<1>1. /\ e.row \in Seq(Byte) /\ f.row \in Seq(Byte) /\ e.key \in Seq(Byte) /\ f.key \in Seq(Byte)
      /\ IsPrefix(e.row, e.key) /\ IsPrefix(f.row, f.key)
      /\ IsPrefix(e.row, e.row) /\ IsPrefix(f.row, f.row)
  BY EntryFacts, PrefixOrder, Zenon
<1>2. Below(e.key, f.row) /\ Below(e.key, f.key) /\ Below(e.row, f.key)
  BY <1>1, BelowExtends, Zenon
<1>3. /\ ~Below(f.key, e.row) /\ ~IsPrefix(f.key, e.row)
      /\ ~Below(f.key, e.key) /\ ~IsPrefix(f.key, e.key)
  BY <1>1, <1>2, BelowStrict, Zenon
<1> QED
  BY <1>1, <1>2, <1>3, LessIff, Zenon

\* A row cuts no row.
LEMMA RowNoCut ==
    ASSUME KeysOfRows, NEW g \in Entries
    PROVE  NoCut(g.row)
<1> SUFFICES ASSUME NEW e \in Entries, NEW f \in Entries, e.row = f.row
             PROVE  KeyLess(e.key, g.row) <=> KeyLess(f.key, g.row)
  BY DEF NoCut
<1>1. CASE e.row = g.row
  <2>1. /\ g.row \in Seq(Byte) /\ e.key \in Seq(Byte) /\ f.key \in Seq(Byte)
        /\ IsPrefix(g.row, e.key) /\ IsPrefix(g.row, f.key)
    BY <1>1, EntryFacts, Zenon
  <2> QED
    BY <2>1, PrefixNotAfter, Zenon
<1>2. CASE e.row # g.row
  <2>1. Below(e.row, g.row) \/ Below(g.row, e.row)
    BY <1>2, RowsApart, Zenon
  <2>2. CASE Below(e.row, g.row)
    BY <2>2, RowBelow, Zenon
  <2>3. CASE Below(g.row, e.row)
    BY <2>3, RowBelow, Zenon
  <2> QED
    BY <2>1, <2>2, <2>3
<1> QED
  BY <1>1, <1>2

\* The ends of the key space cut none either.
LEMMA BoundsNoCut ==
    /\ KeyMin \in Seq(Byte) /\ KeyMax \in Seq(Byte) /\ KeyLess(KeyMin, KeyMax)
    /\ \A k \in Seq(Byte) : ~KeyLess(k, KeyMin)
    /\ KeysOfRows => NoCut(KeyMin) /\ NoCut(KeyMax)
<1>1. KeyMin \in Seq(Byte) /\ Len(KeyMin) = 0
  BY DEF KeyMin
<1>2. KeyMax \in Seq(Byte) /\ Len(KeyMax) = 2
  BY DEF KeyMax, Byte
<1>3. \A k \in Seq(Byte) : ~KeyLess(k, KeyMin)
  BY <1>1, Bytes DEF KeyLess
<1>4. KeyLess(KeyMin, KeyMax)
  <2>1. KeyMin # KeyMax
    BY <1>1, <1>2
  <2> QED
    BY <1>1, <1>2, <1>3, <2>1, LessTotal, Zenon
<1>5. KeysOfRows => NoCut(KeyMin) /\ NoCut(KeyMax)
  BY <1>3, EntryFacts, Zenon DEF NoCut
<1> QED
  BY <1>1, <1>2, <1>3, <1>4, <1>5

-----------------------------------------------------------------------------
(* What a splitter finds *)

\* The keys of a range are those of entries in it.
LEMMA KeysAre ==
    ASSUME NEW d, NEW k \in Keys(d), kvs \subseteq Entries
    PROVE  \E e \in kvs : e \in Entries /\ e.key = k /\ ContainsKey(d, k)
  BY DEF Keys

\* A key that is found is the row of an entry of the range.
LEMMA FoundIsRow ==
    ASSUME KeysOfRows, kvs \subseteq Entries, NEW d, NEW K \in SUBSET Keys(d),
           NEW r \in UNION {SafeSplitKey(k) : k \in K}
    PROVE  \E g \in kvs : /\ g \in Entries /\ g.key \in K
                          /\ ContainsKey(d, g.key) /\ r = g.row
<1>1. PICK k \in K : r \in SafeSplitKey(k)
  OBVIOUS
<1>2. PICK g \in kvs : g \in Entries /\ g.key = k /\ ContainsKey(d, k)
  BY KeysAre
<1>3. SafeSplitKey(g.key) \subseteq {g.row}
  BY <1>2, EntryFacts, Zenon
<1> QED
  BY <1>1, <1>2, <1>3

\* The minimum split keys of the two searches.
Mins(d) == mvccMinSplitKey(d, ClampedStart(d)) \cup mvccMinSplitKey(d, d.start)

\* By size, the row of an entry of the range from the minimum split key on.
LEMMA FoundBySize ==
    ASSUME KeysOfRows, kvs \subseteq Entries, NEW d, NEW r \in MVCCFindSplitKey(d)
    PROVE  \E g \in Entries, min \in Mins(d) :
              g.key \in Keys(d) /\ r = g.row /\ ~KeyLess(g.key, min)
<1>1. /\ Candidates(d) \in SUBSET Keys(d)
      /\ \A k \in Candidates(d) : \E min \in Mins(d) : ~KeyLess(k, min)
  BY DEF Candidates, findSplitKeyUsingIterator, Mins
<1>2. r \in UNION {SafeSplitKey(k) : k \in Candidates(d)}
  BY DEF MVCCFindSplitKey
<1>3. PICK g \in kvs : g \in Entries /\ g.key \in Candidates(d) /\ r = g.row
  BY <1>1, <1>2, FoundIsRow
<1> QED
  BY <1>1, <1>3, Zenon

\* By load, the row of an entry from the seek key on.
LEMMA FoundByLoad ==
    ASSUME KeysOfRows, kvs \subseteq Entries, NEW d, NEW desired,
           NEW r \in MVCCFirstSplitKey(d, desired)
    PROVE  \E g \in Entries, min \in Mins(d) :
              g.key \in Keys(d) /\ r = g.row /\ ~KeyLess(g.key, SeekKey(desired, min))
<1> DEFINE K == FirstCandidates(d, desired)
<1>1. /\ K \in SUBSET Keys(d)
      /\ \A k \in K : \E min \in Mins(d) : ~KeyLess(k, SeekKey(desired, min))
  BY DEF FirstCandidates, FirstFrom, Mins
<1>2. r \in UNION {SafeSplitKey(k) : k \in K}
  BY DEF MVCCFirstSplitKey
<1> HIDE DEF K
<1>3. PICK g \in kvs : g \in Entries /\ g.key \in K /\ r = g.row
  BY <1>1, <1>2, FoundIsRow
<1> QED
  BY <1>1, <1>3, Zenon

-----------------------------------------------------------------------------
(* Ranges *)

Left(d, k) == [start |-> d.start, end |-> k]
Right(d, k) == [start |-> k, end |-> d.end]

\* The two parts of a range hold its keys, each key in one part.
LEMMA PartsOf ==
    ASSUME NEW d \in Descriptors, NEW k \in Seq(Byte), KeyLess(d.start, k), KeyLess(k, d.end),
           NEW x \in Seq(Byte)
    PROVE  /\ ContainsKey(Left(d, k), x) <=> ContainsKey(d, x) /\ KeyLess(x, k)
           /\ ContainsKey(Right(d, k), x) <=> ContainsKey(d, x) /\ ~KeyLess(x, k)
<1>1. d.start \in Seq(Byte) /\ d.end \in Seq(Byte)
  BY DEF Descriptors
<1>2. KeyLess(x, k) => KeyLess(x, d.end)
  BY <1>1, LessTransitive, Zenon
<1>3. KeyLess(x, d.start) => KeyLess(x, k)
  BY <1>1, LessTransitive, Zenon
<1>4. /\ ContainsKey(Left(d, k), x) <=> ~KeyLess(x, d.start) /\ KeyLess(x, k)
      /\ ContainsKey(Right(d, k), x) <=> ~KeyLess(x, k) /\ KeyLess(x, d.end)
  <2>1. /\ Left(d, k).start = d.start /\ Left(d, k).end = k
        /\ Right(d, k).start = k /\ Right(d, k).end = d.end
    BY DEF Left, Right
  <2> QED
    BY <2>1, Zenon DEF ContainsKey
<1> QED
  BY <1>2, <1>3, <1>4, Zenon DEF ContainsKey

\* The ranges after a split.
SplitAt(R, d, k) == (R \ {d}) \cup {Left(d, k), Right(d, k)}

\* Exactly one of the ranges has key x.
OneHas(R, x) == \E o \in R : \A r \in R : ContainsKey(r, x) <=> r = o

\* A split keeps every key in exactly one range.
LEMMA SplitKeepsTiles ==
    ASSUME NEW R \in SUBSET Descriptors, NEW d \in R, NEW k \in Seq(Byte),
           KeyLess(d.start, k), KeyLess(k, d.end), NEW x \in Seq(Byte), OneHas(R, x)
    PROVE  OneHas(SplitAt(R, d, k), x)
<1>1. PICK o \in R : \A r \in R : ContainsKey(r, x) <=> r = o
  BY DEF OneHas
<1>2. /\ ContainsKey(Left(d, k), x) <=> ContainsKey(d, x) /\ KeyLess(x, k)
      /\ ContainsKey(Right(d, k), x) <=> ContainsKey(d, x) /\ ~KeyLess(x, k)
  BY PartsOf, Zenon
<1>3. CASE o # d
  <2>1. ~ContainsKey(Left(d, k), x) /\ ~ContainsKey(Right(d, k), x)
    BY <1>1, <1>2, <1>3, Zenon
  <2>2. o \in SplitAt(R, d, k)
    BY <1>3 DEF SplitAt
  <2>3. \A r \in SplitAt(R, d, k) : ContainsKey(r, x) <=> r = o
    BY <1>1, <2>1, Zenon DEF SplitAt
  <2> QED
    BY <2>2, <2>3, Zenon DEF OneHas
<1>4. CASE o = d /\ KeyLess(x, k)
  <2>1. ContainsKey(Left(d, k), x) /\ ~ContainsKey(Right(d, k), x)
    BY <1>1, <1>2, <1>4, Zenon
  <2>2. \A r \in SplitAt(R, d, k) : ContainsKey(r, x) <=> r = Left(d, k)
    BY <1>1, <1>4, <2>1, Zenon DEF SplitAt
  <2> QED
    BY <2>2, Zenon DEF OneHas, SplitAt
<1>5. CASE o = d /\ ~KeyLess(x, k)
  <2>1. ContainsKey(Right(d, k), x) /\ ~ContainsKey(Left(d, k), x)
    BY <1>1, <1>2, <1>5, Zenon
  <2>2. \A r \in SplitAt(R, d, k) : ContainsKey(r, x) <=> r = Right(d, k)
    BY <1>1, <1>5, <2>1, Zenon DEF SplitAt
  <2> QED
    BY <2>2, Zenon DEF OneHas, SplitAt
<1> QED
  BY <1>3, <1>4, <1>5, Zenon

-----------------------------------------------------------------------------
(* The inductive invariant *)

\* A range begins and ends between rows.
Whole(d) == NoCut(d.start) /\ NoCut(d.end)

\* An attempt has a key strictly inside the descriptor it read, between rows.
Attempt(a) ==
    /\ a.desc \in Descriptors /\ a.key \in Seq(Byte)
    /\ KeyLess(a.desc.start, a.key) /\ KeyLess(a.key, a.desc.end)
    /\ NoCut(a.key)

\* Every key is in exactly one range.
Tiled == \A k \in Seq(Byte) : KeyLess(k, KeyMax) => OneHas(ranges, k)

Inv ==
    /\ KeysOfRows
    /\ TypeOK
    /\ \A d \in ranges : Whole(d)
    /\ \A s \in Splitters : split[s] # None => Attempt(split[s])
    /\ Tiled

LEMMA InitInv == KeysOfRows /\ Init => Inv
<1> SUFFICES ASSUME KeysOfRows, Init PROVE Inv
  OBVIOUS
<1> DEFINE all == [start |-> KeyMin, end |-> KeyMax]
<1>1. all \in Descriptors /\ all.start = KeyMin /\ all.end = KeyMax
  BY BoundsNoCut DEF Descriptors
<1>2. ranges = {all} /\ kvs = {} /\ split = [s \in Splitters |-> None]
  BY DEF Init
<1> HIDE DEF all
<1>3. TypeOK
  BY <1>1, <1>2 DEF TypeOK
<1>5. \A d \in ranges : Whole(d)
  BY <1>1, <1>2, BoundsNoCut, Zenon DEF Whole
<1>6. Tiled
  <2> SUFFICES ASSUME NEW k \in Seq(Byte), KeyLess(k, KeyMax) PROVE OneHas(ranges, k)
    BY DEF Tiled
  <2>1. ContainsKey(all, k)
    BY <1>1, BoundsNoCut, Zenon DEF ContainsKey
  <2> QED
    BY <1>2, <2>1, Zenon DEF OneHas
<1>7. \A s \in Splitters : split[s] = None
  BY <1>2
<1> QED
  BY <1>3, <1>5, <1>6, <1>7, Zenon DEF Inv

\* A splitter that passes the checks has an attempt.
LEMMA ChooseStep ==
    ASSUME Inv, NEW s \in Splitters, NEW d \in ranges, NEW k \in Seq(Byte), NoCut(k),
           Choose(s, d, k)
    PROVE  Inv'
<1>1. d \in Descriptors /\ d.start \in Seq(Byte) /\ d.end \in Seq(Byte)
  BY DEF Inv, TypeOK, Descriptors
<1>2. ~KeyLess(k, d.start) /\ KeyLess(k, d.end) /\ k # d.start
  BY Zenon DEF Choose, ContainsKey
<1>3. KeyLess(d.start, k)
  BY <1>1, <1>2, LessTotal, Zenon
<1> DEFINE a == [desc |-> d, key |-> k]
<1>4. Attempt(a) /\ a \in [desc : Descriptors, key : Seq(Byte)]
  BY <1>1, <1>2, <1>3 DEF Attempt
<1>5. split' = [split EXCEPT ![s] = a] /\ kvs' = kvs /\ ranges' = ranges
  BY DEF Choose
<1> HIDE DEF a
<1>6. split \in [Splitters -> {None} \cup [desc : Descriptors, key : Seq(Byte)]]
  BY DEF Inv, TypeOK
<1>7. /\ split' \in [Splitters -> {None} \cup [desc : Descriptors, key : Seq(Byte)]]
      /\ \A t \in Splitters : split'[t] = a \/ split'[t] = split[t]
  BY <1>4, <1>5, <1>6
<1>8. TypeOK'
  BY <1>5, <1>7, Zenon DEF Inv, TypeOK
<1>9. \A t \in Splitters : split'[t] # None => Attempt(split'[t])
  BY <1>4, <1>7, Zenon DEF Inv
<1> QED
  BY <1>5, <1>8, <1>9, Zenon DEF Inv, Tiled, Whole

\* The split transaction.
LEMMA SplitTxnStep ==
    ASSUME Inv, NEW s \in Splitters, SplitTxn(s)
    PROVE  Inv'
<1>1. /\ split[s] # None /\ kvs' = kvs
      /\ split' = [split EXCEPT ![s] = None]
      /\ ranges' = IF split[s].desc \in ranges
                   THEN SplitAt(ranges, split[s].desc, split[s].key) ELSE ranges
  BY Zenon DEF SplitTxn, SplitAt, Left, Right
<1>2. split \in [Splitters -> {None} \cup [desc : Descriptors, key : Seq(Byte)]]
  BY DEF Inv, TypeOK
<1>3. /\ split' \in [Splitters -> {None} \cup [desc : Descriptors, key : Seq(Byte)]]
      /\ \A t \in Splitters : split'[t] = None \/ split'[t] = split[t]
  BY <1>1, <1>2
<1>4. \A t \in Splitters : split'[t] # None => Attempt(split'[t])
  BY <1>3, Zenon DEF Inv
<1>5. PICK d \in Descriptors, k \in Seq(Byte) :
            /\ d = split[s].desc /\ k = split[s].key
            /\ KeyLess(d.start, k) /\ KeyLess(k, d.end) /\ NoCut(k)
  BY <1>1, Zenon DEF Inv, Attempt
<1>6. CASE d \notin ranges
  <2>1. ranges' = ranges
    BY <1>1, <1>5, <1>6, Zenon
  <2> QED
    BY <1>1, <1>3, <1>4, <2>1, Zenon DEF Inv, TypeOK, Tiled, Whole
<1>7. CASE d \in ranges
  <2>1. ranges' = SplitAt(ranges, d, k)
    BY <1>1, <1>5, <1>7, Zenon
  <2>2. /\ d.start \in Seq(Byte) /\ d.end \in Seq(Byte)
        /\ Left(d, k) \in Descriptors /\ Right(d, k) \in Descriptors
        /\ Left(d, k).start = d.start /\ Left(d, k).end = k
        /\ Right(d, k).start = k /\ Right(d, k).end = d.end
    BY DEF Left, Right, Descriptors
  <2>3. ranges \in SUBSET Descriptors /\ Whole(d)
    BY <1>7, Zenon DEF Inv, TypeOK
  <2>4. ranges' \subseteq Descriptors
    BY <2>1, <2>2, <2>3, Zenon DEF SplitAt
  <2>5. \A r \in ranges' : Whole(r)
    <3>1. Whole(Left(d, k)) /\ Whole(Right(d, k))
      BY <1>5, <2>2, <2>3, Zenon DEF Whole
    <3> QED
      BY <2>1, <3>1, Zenon DEF SplitAt, Inv
  <2>6. Tiled'
    BY <1>5, <1>7, <2>1, <2>3, SplitKeepsTiles, Zenon DEF Tiled, Inv
  <2> QED
    BY <1>1, <1>3, <1>4, <2>4, <2>5, <2>6, Zenon DEF Inv, TypeOK, Whole
<1> QED
  BY <1>6, <1>7

LEMMA StoreStep ==
    ASSUME Inv, NEW e \in Entries, Put(e) \/ Delete(e)
    PROVE  Inv'
<1>1. ranges' = ranges /\ split' = split /\ (kvs' = kvs \cup {e} \/ kvs' = kvs \ {e})
  BY DEF Put, Delete
<1>2. TypeOK'
  BY <1>1 DEF Inv, TypeOK
<1> QED
  BY <1>1, <1>2, Zenon DEF Inv, Tiled, Whole

\* One case per action.
LEMMA InvStep ==
    ASSUME Inv, [Next]_vars
    PROVE  Inv'
<1>1. CASE UNCHANGED vars
  BY <1>1, Zenon DEF vars, Inv, TypeOK, Tiled, Whole
<1>2. ASSUME NEW e \in Entries, Put(e) \/ Delete(e)
      PROVE  Inv'
  BY <1>2, StoreStep, Zenon
<1>3. ASSUME NEW s \in Splitters, SplitTxn(s)
      PROVE  Inv'
  BY <1>3, SplitTxnStep, Zenon
<1>4. ASSUME NEW s \in Splitters, NEW d \in ranges, SplitBySize(s, d)
      PROVE  Inv'
  <2>1. PICK k \in MVCCFindSplitKey(d) : Choose(s, d, k)
    BY <1>4 DEF SplitBySize
  <2>2. KeysOfRows /\ kvs \subseteq Entries
    BY DEF Inv, TypeOK
  <2>3. PICK g \in Entries : k = g.row
    BY <2>2, FoundBySize, Zenon
  <2>4. k \in Seq(Byte) /\ NoCut(k)
    BY <2>2, <2>3, EntryFacts, RowNoCut, Zenon
  <2> QED
    BY <2>1, <2>4, ChooseStep, Zenon
<1>5. ASSUME NEW s \in Splitters, NEW d \in ranges, NEW l \in SampledKeys, SplitByLoad(s, d, l)
      PROVE  Inv'
  <2> PICK desired : \E k \in MVCCFirstSplitKey(d, desired) : Choose(s, d, k)
    BY <1>5, Zenon DEF SplitByLoad
  <2>1. PICK k \in MVCCFirstSplitKey(d, desired) : Choose(s, d, k)
    OBVIOUS
  <2>2. KeysOfRows /\ kvs \subseteq Entries
    BY DEF Inv, TypeOK
  <2>3. PICK g \in Entries : k = g.row
    <3>1. PICK g \in Entries, min \in Mins(d) :
              g.key \in Keys(d) /\ k = g.row /\ ~KeyLess(g.key, SeekKey(desired, min))
      BY <2>2, FoundByLoad, Zenon
    <3> QED
      BY <3>1
  <2>4. k \in Seq(Byte) /\ NoCut(k)
    BY <2>2, <2>3, EntryFacts, RowNoCut, Zenon
  <2> QED
    BY <2>1, <2>4, ChooseStep, Zenon
<1>6. ASSUME NEW s \in Splitters, NEW d \in ranges, NEW k \in RequestKeys, SplitAtKey(s, d, k)
      PROVE  Inv'
  <2>1. k \in Seq(Byte) /\ NoCut(k)
    BY Zenon DEF Inv, KeysOfRows, NoCut
  <2> QED
    BY <1>6, <2>1, ChooseStep, Zenon DEF SplitAtKey
<1> QED
  BY <1>1, <1>2, <1>3, <1>4, <1>5, <1>6, Zenon DEF Next

\* The ranges tile the key space and neither they nor the pending attempts cut a
\* row.
THEOREM Invariant == KeysOfRows /\ Spec => []Inv
<1>1. Inv /\ [Next]_vars => Inv'
  BY InvStep
<1> QED
  BY <1>1, InitInv, PTL DEF Spec

-----------------------------------------------------------------------------
(* Rows stay whole, and ranges tile *)

\* RowsStayWhole: no row has keys in two ranges, whatever keys MVCCFindSplitKey
\* and MVCCFirstSplitKey return while rows are written and deleted. The keys of a
\* row are on the same side of the start of every range and of its end.
THEOREM RowsStayWholeHolds == KeysOfRows /\ Spec => []RowsStayWhole
<1>1. Inv => RowsStayWhole
  <2> SUFFICES ASSUME Inv, NEW e \in kvs, NEW f \in kvs, NEW d \in ranges, e.row = f.row
               PROVE  ContainsKey(d, e.key) <=> ContainsKey(d, f.key)
    BY DEF RowsStayWhole
  <2>1. e \in Entries /\ f \in Entries
    BY DEF Inv, TypeOK
  <2> QED
    BY <2>1, Zenon DEF Inv, Whole, NoCut, ContainsKey
<1> QED
  BY <1>1, Invariant, PTL

\* RangesTile: every key is in exactly one range although attempts overlap,
\* because splitTxnAttempt writes only over the descriptor that was read.
THEOREM RangesTileHolds == KeysOfRows /\ Spec => []RangesTile
<1>1. Inv => RangesTile
  <2> SUFFICES ASSUME Inv, NEW e \in Entries
               PROVE  \E d \in ranges : \A r \in ranges : ContainsKey(r, e.key) <=> r = d
    BY DEF RangesTile
  <2>1. e.key \in Seq(Byte) /\ KeyLess(e.key, KeyMax)
    BY EntryFacts DEF Inv
  <2>2. OneHas(ranges, e.key)
    BY <2>1, Zenon DEF Inv, Tiled
  <2> QED
    BY <2>2 DEF OneHas
<1> QED
  BY <1>1, Invariant, PTL

-----------------------------------------------------------------------------
(* Where the keys found lie *)

\* The end of the row of an entry, or the successor of its key when that is not a
\* key of a table.
MinAfter(min, e) ==
    min = PrefixEnd(e.row) \/ (~IsTableKey(e.key) /\ min = e.key \o <<0>>)

\* No key of a range is before the start of either search.
LEMMA StartBelow ==
    ASSUME kvs \subseteq Entries, NEW d, NEW k \in Keys(d)
    PROVE  ~KeyLess(k, d.start) /\ ~KeyLess(k, ClampedStart(d))
<1>1. ~KeyLess(k, d.start)
  BY DEF Keys, ContainsKey
<1>2. k \in {e.key : e \in Entries}
  BY KeysAre
<1>3. ~KeyLess(k, LocalMax)
  BY <1>2, NotRangeLocal, Zenon
<1> QED
  BY <1>1, <1>3, Zenon DEF ClampedStart

\* The minimum split key comes from the first key of the range.
LEMMA MinIs ==
    ASSUME KeysOfRows, kvs \subseteq Entries, NEW d, NEW min \in Mins(d)
    PROVE  \E e \in Entries :
              /\ e.key \in Keys(d) /\ \A k \in Keys(d) : ~KeyLess(k, e.key)
              /\ MinAfter(min, e)
<1>1. PICK start \in {ClampedStart(d), d.start} : min \in mvccMinSplitKey(d, start)
  BY DEF Mins
<1>2. PICK k \in FirstFrom(Keys(d), start) :
            min \in IF IsTableKey(k) THEN {PrefixEnd(row) : row \in SafeSplitKey(k)} ELSE {k \o <<0>>}
  BY <1>1 DEF mvccMinSplitKey
<1>3. k \in Keys(d) /\ \A g \in Keys(d) : ~KeyLess(g, k)
  BY <1>1, <1>2, StartBelow, Zenon DEF FirstFrom
<1>4. PICK e \in kvs : e \in Entries /\ e.key = k /\ ContainsKey(d, k)
  BY <1>3, KeysAre
<1>5. SafeSplitKey(k) \subseteq {e.row}
  BY <1>4, EntryFacts, Zenon
<1>6. min = PrefixEnd(e.row) \/ (~IsTableKey(k) /\ min = k \o <<0>>)
  BY <1>2, <1>5
<1> QED
  BY <1>3, <1>4, <1>6, Zenon DEF MinAfter

\* A key is below its successor.
LEMMA SuccessorAfter ==
    ASSUME NEW k \in Seq(Byte)
    PROVE  k \o <<0>> \in Seq(Byte) /\ KeyLess(k, k \o <<0>>)
<1>1. <<0>> \in Seq(Byte) /\ Len(<<0>>) = 1
  BY DEF Byte
<1>2. k \o <<0>> \in Seq(Byte) /\ Len(k \o <<0>>) = Len(k) + 1 /\ IsPrefix(k, k \o <<0>>)
  BY <1>1, PrefixOfConcat, Zenon
<1>3. Len(k) < Len(k \o <<0>>)
  BY <1>2, Bytes
<1> QED
  BY <1>2, <1>3, LessIff, Zenon

\* A key from the minimum split key on is of a row after the first one.
LEMMA PastFirstRow ==
    ASSUME KeysOfRows, NEW e \in Entries, NEW g \in Entries, NEW min,
           MinAfter(min, e), ~KeyLess(g.key, e.key), ~KeyLess(g.key, min)
    PROVE  KeyLess(e.key, g.row)
<1>1. /\ e.row \in Seq(Byte) /\ e.key \in Seq(Byte) /\ g.key \in Seq(Byte)
      /\ Ends(e.row) /\ IsPrefix(g.row, g.key)
  BY EntryFacts
<1>2. e.row # g.row
  <2> SUFFICES ASSUME e.row = g.row PROVE FALSE
    OBVIOUS
  <2>1. CASE min = PrefixEnd(e.row)
    <3>1. IsPrefix(e.row, g.key)
      BY <1>1
    <3>2. InSpan(g.key, e.row)
      BY <1>1, <3>1, SpanIsPrefix, Zenon
    <3> QED
      BY <2>1, <3>2, Zenon DEF InSpan
  <2>2. CASE ~IsTableKey(e.key) /\ min = e.key \o <<0>>
    <3>1. g.key = e.key
      BY <2>2, Zenon DEF KeysOfRows
    <3> QED
      BY <1>1, <2>2, <3>1, SuccessorAfter
  <2> QED
    BY <2>1, <2>2, Zenon DEF MinAfter
<1>3. ~Below(g.row, e.row)
  BY RowBelow, Zenon
<1>4. Below(e.row, g.row)
  BY <1>2, <1>3, RowsApart, Zenon
<1> QED
  BY <1>4, RowBelow, Zenon

\* The minimum split key is a key.
LEMMA MinInSeq ==
    ASSUME KeysOfRows, kvs \subseteq Entries, NEW d, NEW min \in Mins(d)
    PROVE  min \in Seq(Byte)
<1>1. PICK e \in Entries : min = PrefixEnd(e.row) \/ min = e.key \o <<0>>
  BY MinIs, Zenon DEF MinAfter
<1>2. e.row \in Seq(Byte) /\ Ends(e.row) /\ e.key \in Seq(Byte)
  BY EntryFacts
<1>3. PrefixEnd(e.row) \in Seq(Byte)
  BY <1>2, PrefixEndIs, Zenon
<1> QED
  BY <1>1, <1>2, <1>3, SuccessorAfter, Zenon

\* Not to be below is transitive.
LEMMA NotLessTransitive ==
    ASSUME NEW a \in Seq(Byte), NEW b \in Seq(Byte), NEW c \in Seq(Byte),
           ~KeyLess(a, b), ~KeyLess(b, c)
    PROVE  ~KeyLess(a, c)
  BY LessTotal, LessTransitive, Zenon

\* A row from which a key is found divides the keys of the range.
LEMMA Divides ==
    ASSUME KeysOfRows, kvs \subseteq Entries, NEW d, NEW min \in Mins(d),
           NEW g \in Entries, g.key \in Keys(d), ~KeyLess(g.key, min)
    PROVE  /\ \E l \in Keys(d) : KeyLess(l, g.row)
           /\ \E l \in Keys(d) : ~KeyLess(l, g.row)
<1>1. PICK e \in Entries :
              /\ e.key \in Keys(d) /\ \A k \in Keys(d) : ~KeyLess(k, e.key)
              /\ MinAfter(min, e)
  BY MinIs
<1>2. KeyLess(e.key, g.row)
  BY <1>1, PastFirstRow, Zenon
<1>3. ~KeyLess(g.key, g.row)
  BY EntryFacts, PrefixNotAfter, Zenon
<1> QED
  BY <1>1, <1>2, <1>3, Zenon

-----------------------------------------------------------------------------
(* Load-based split keys *)

\* The length of a row prefix is at most that of the key.
LEMMA RowPrefixInKey ==
    ASSUME NEW key \in Seq(Byte), GetRowPrefixLength(key).ok
    PROVE  GetRowPrefixLength(key).val \in 0..Len(key)
<1> DEFINE sqlKey == DecodeActorPrefix(key).rest
           sqlN == Len(sqlKey)
           cut == DecodeUvarintAscending(SubSeq(sqlKey, sqlN, sqlN)).val
<1>1. Len(key) \in Nat
  BY Bytes
<1>2. DecodeActorPrefix(key).ok => sqlN \in 0..Len(key)
  <2>1. CASE key = <<>> \/ key[1] # ActorPrefixByte
    BY <1>1, <2>1 DEF DecodeActorPrefix, Decoded
  <2>2. CASE ~(key = <<>> \/ key[1] # ActorPrefixByte) /\ Len(key) < 1 + ActorHashLen
    BY <2>2 DEF DecodeActorPrefix, Failed
  <2>3. CASE ~(key = <<>> \/ key[1] # ActorPrefixByte) /\ ~(Len(key) < 1 + ActorHashLen)
    <3>1. sqlKey = SubSeq(key, ActorHashLen + 2, Len(key))
      BY <2>3, Zenon DEF DecodeActorPrefix, Decoded
    <3>2. Len(SubSeq(key, ActorHashLen + 2, Len(key))) \in 0..Len(key)
      BY <1>1, <2>3, HashLenAssumption, SubSeqProperties
    <3> QED
      BY <3>1, <3>2, Zenon
  <2> QED
    BY <2>1, <2>2, <2>3
<1>3. \/ GetRowPrefixLength(key) = Failed
      \/ GetRowPrefixLength(key) = Decoded(<<>>, Len(key))
      \/ /\ DecodeActorPrefix(key).ok /\ cut \in 0..(sqlN - 1)
         /\ GetRowPrefixLength(key) = Decoded(<<>>, Len(key) - cut - 1)
  BY Zenon DEF GetRowPrefixLength
<1> HIDE DEF sqlKey, sqlN, cut
<1>4. CASE GetRowPrefixLength(key) = Failed
  BY <1>4 DEF Failed
<1>5. CASE GetRowPrefixLength(key) = Decoded(<<>>, Len(key))
  BY <1>1, <1>5 DEF Decoded
<1>6. CASE /\ DecodeActorPrefix(key).ok /\ cut \in 0..(sqlN - 1)
           /\ GetRowPrefixLength(key) = Decoded(<<>>, Len(key) - cut - 1)
  <2>1. GetRowPrefixLength(key).val = Len(key) - cut - 1
    BY <1>6 DEF Decoded
  <2> QED
    BY <1>1, <1>2, <1>6, <2>1
<1> QED
  BY <1>3, <1>4, <1>5, <1>6

\* The desired key of a load-based split is a key.
LEMMA DesiredIsKey == ASSUME NEW l \in Seq(Byte) PROVE loadSplitKey(l) \in Seq(Byte)
<1> DEFINE n == GetRowPrefixLength(l)
<1>1. CASE n.ok
  <2>1. loadSplitKey(l) = SubSeq(l, 1, n.val)
    BY <1>1, Zenon DEF loadSplitKey, EnsureSafeSplitKey, Decoded
  <2>2. n.val \in 0..Len(l) /\ Len(l) \in Nat
    BY <1>1, RowPrefixInKey, Bytes, Zenon
  <2> HIDE DEF n
  <2>3. SubSeq(l, 1, n.val) \in Seq(Byte)
    BY <2>2, SubSeqProperties
  <2> QED
    BY <2>1, <2>3
<1>2. CASE ~n.ok
  BY <1>2 DEF loadSplitKey, EnsureSafeSplitKey, Failed
<1> QED
  BY <1>1, <1>2

\* SplitsDivide: the key that MVCCFindSplitKey or MVCCFirstSplitKey returns has
\* keys of the range on both sides. It is a row after the one that mvccMinSplitKey
\* skips, so the keys of that one are below it.
THEOREM SplitsDivideHolds == KeysOfRows /\ Spec => []SplitsDivide
<1>1. Inv => SplitsDivide
  <2> SUFFICES ASSUME Inv, NEW d \in ranges,
                      NEW k \in MVCCFindSplitKey(d)
                                \cup UNION {MVCCFirstSplitKey(d, loadSplitKey(l)) :
                                               l \in {l \in SampledKeys : ContainsKey(d, l)}}
               PROVE  (\E l \in Keys(d) : KeyLess(l, k)) /\ (\E l \in Keys(d) : ~KeyLess(l, k))
    BY DEF SplitsDivide
  <2>1. KeysOfRows /\ kvs \subseteq Entries
    BY DEF Inv, TypeOK
  <2>2. PICK g \in Entries, min \in Mins(d) :
              g.key \in Keys(d) /\ k = g.row /\ ~KeyLess(g.key, min)
    <3>1. CASE k \in MVCCFindSplitKey(d)
      BY <2>1, <3>1, FoundBySize
    <3>2. ASSUME NEW l \in SampledKeys, k \in MVCCFirstSplitKey(d, loadSplitKey(l))
          PROVE  \E g \in Entries, min \in Mins(d) :
                    g.key \in Keys(d) /\ k = g.row /\ ~KeyLess(g.key, min)
      <4>1. l \in Seq(Byte)
        BY <2>1 DEF KeysOfRows
      <4>2. PICK desired \in Seq(Byte) : k \in MVCCFirstSplitKey(d, desired)
        BY <3>2, <4>1, DesiredIsKey, Zenon
      <4>3. PICK g \in Entries, min \in Mins(d) :
                g.key \in Keys(d) /\ k = g.row /\ ~KeyLess(g.key, SeekKey(desired, min))
        BY <2>1, <4>2, FoundByLoad, Zenon
      <4>4. g.key \in Seq(Byte)
        BY <2>1, EntryFacts
      <4>5. min \in Seq(Byte)
        BY <2>1, MinInSeq, Zenon
      <4>6. CASE KeyLess(desired, min)
        BY <4>3, <4>6, Zenon DEF SeekKey
      <4>7. CASE ~KeyLess(desired, min)
        <5>1. ~KeyLess(g.key, desired)
          BY <4>3, <4>7, Zenon DEF SeekKey
        <5>2. ~KeyLess(g.key, min)
          BY <4>4, <4>5, <4>7, <5>1, NotLessTransitive, Zenon
        <5> QED
          BY <4>3, <5>2, Zenon
      <4> QED
        BY <4>6, <4>7
    <3> QED
      BY <3>1, <3>2
  <2> QED
    BY <2>1, <2>2, Divides, Zenon
<1> QED
  BY <1>1, Invariant, PTL

-----------------------------------------------------------------------------
(* Ranges with several rows *)

\* The keys of every row but the first are from the minimum split key on.
LEMMA LaterRowFound ==
    ASSUME KeysOfRows, NEW e \in Entries, NEW g \in Entries, g.row # e.row,
           ~KeyLess(g.key, e.key)
    PROVE  ~KeyLess(g.key, PrefixEnd(e.row)) /\ ~KeyLess(g.key, e.key \o <<0>>)
<1>1. /\ e.row \in Seq(Byte) /\ e.key \in Seq(Byte) /\ g.row \in Seq(Byte) /\ g.key \in Seq(Byte)
      /\ Ends(e.row) /\ IsPrefix(g.row, g.key) /\ IsPrefix(e.row, e.row)
  BY EntryFacts, PrefixOrder, Zenon
<1>2. Below(e.row, g.row)
  BY RowsApart, RowBelow, Zenon
<1>3. KeyLess(e.key, g.key) /\ ~KeyLess(g.key, e.row)
  BY <1>2, RowBelow, Zenon
<1>4. ~IsPrefix(e.row, g.key)
  BY <1>1, <1>2, BelowExtends, BelowStrict, Zenon
<1>5. ~InSpan(g.key, e.row)
  BY <1>1, <1>4, SpanIsPrefix, Zenon
<1>6. ~KeyLess(g.key, PrefixEnd(e.row))
  BY <1>3, <1>5, Zenon DEF InSpan
<1> QED
  BY <1>1, <1>3, <1>6, NoneBetween, Zenon

\* LargeRangesSplit: when the keys of a range parse and one of them that may be
\* split at is of another row than the first, MVCCFindSplitKey has keys to choose
\* from and returns the row of whichever it chooses. mvccMinSplitKey returns the end
\* of the first row or the successor of its key, and the keys of every other row are
\* at or after it.
THEOREM LargeRangesSplitHolds == KeysOfRows /\ Spec => []LargeRangesSplit
<1>1. Inv => LargeRangesSplit
  <2> SUFFICES ASSUME Inv, NEW d \in ranges, \A k \in Keys(d) : Parses(k),
                      NEW e \in kvs, NEW g \in kvs, e.key \in FirstFrom(Keys(d), d.start),
                      ContainsKey(d, g.key), g.row # e.row, isValidSplitKey(g.key, NoSplitSpans)
               PROVE  Candidates(d) # {} /\ \A k \in Candidates(d) : Parses(k)
    BY Zenon DEF LargeRangesSplit
  <2>1. KeysOfRows /\ kvs \subseteq Entries
    BY DEF Inv, TypeOK
  <2>2. e \in Entries /\ g \in Entries /\ e.key \in Keys(d) /\ g.key \in Keys(d)
    BY <2>1 DEF Keys, FirstFrom
  <2>3. \A k \in Keys(d) : ~KeyLess(k, e.key) /\ ~KeyLess(k, ClampedStart(d))
    BY <2>1, StartBelow, Zenon DEF FirstFrom
  <2>4. e.key \in FirstFrom(Keys(d), ClampedStart(d))
    BY <2>2, <2>3 DEF FirstFrom
  <2>5. SafeSplitKey(e.key) = {e.row}
    <3>1. SafeSplitKey(e.key) # {}
      BY <2>2, Zenon DEF Parses
    <3>2. SafeSplitKey(e.key) \subseteq {e.row}
      BY <2>1, <2>2, EntryFacts, Zenon
    <3> QED
      BY <3>1, <3>2
  <2>6. \E min \in mvccMinSplitKey(d, ClampedStart(d)) :
            min = PrefixEnd(e.row) \/ min = e.key \o <<0>>
    <3> DEFINE min(k) == IF IsTableKey(k) THEN {PrefixEnd(row) : row \in SafeSplitKey(k)}
                         ELSE {k \o <<0>>}
    <3>1. mvccMinSplitKey(d, ClampedStart(d)) =
              UNION {min(k) : k \in FirstFrom(Keys(d), ClampedStart(d))}
      BY DEF mvccMinSplitKey
    <3>2. PrefixEnd(e.row) \in min(e.key) \/ e.key \o <<0>> \in min(e.key)
      BY <2>5, Zenon
    <3> HIDE DEF min
    <3>3. min(e.key) \subseteq mvccMinSplitKey(d, ClampedStart(d))
      BY <2>4, <3>1
    <3> QED
      BY <3>2, <3>3, Zenon
  <2>7. PICK min \in mvccMinSplitKey(d, ClampedStart(d)) : ~KeyLess(g.key, min)
    BY <2>1, <2>2, <2>3, <2>6, LaterRowFound, Zenon
  <2>8. isValidSplitKey(g.key, {s \in NoSplitSpans : ~KeyLess(s.end, min)})
    BY Zenon DEF isValidSplitKey
  <2>9. g.key \in findSplitKeyUsingIterator(d, ClampedStart(d), min)
    BY <2>2, <2>3, <2>7, <2>8 DEF findSplitKeyUsingIterator
  <2>10. Candidates(d) # {}
    BY <2>7, <2>9 DEF Candidates
  <2>11. Candidates(d) \subseteq Keys(d)
    BY DEF Candidates, findSplitKeyUsingIterator
  <2> QED
    BY <2>10, <2>11
<1> QED
  BY <1>1, Invariant, PTL
=============================================================================
