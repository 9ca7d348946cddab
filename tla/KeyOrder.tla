------------------------------ MODULE KeyOrder ------------------------------
(***************************************************************************)
(* What the rest of the system needs of the keys of KeyEncoding: that the  *)
(* byte order of the keys of a row is the order of the tree they encode,   *)
(* that the span of a path is its subtree, and that a key can be taken     *)
(* apart again. A state is a pair of entries; a step replaces the second,  *)
(* so that every pair of Entries is examined.                              *)
(*                                                                         *)
(* An entry is a column family of a row (sub is FALSE) or a subordinate    *)
(* value of a row (sub is TRUE).                                           *)
(***************************************************************************)
EXTENDS KeyEncoding

CONSTANT Entries

\* The entries a table can have: an array element is a path of its index, a node
\* of a JSON value a path that starts with the header, and the header occurs
\* nowhere else.
IsPath(p) == p \in Seq(Segment) /\ p # <<>> /\ \A i \in 2..Len(p) : p[i].kind # HeaderKind

IsEntry(e) ==
    /\ e \in [pk : Seq(Byte), sub : BOOLEAN, fam : Number, col : Number, path : Seq(Segment)]
    /\ e.sub => e.fam = 0 /\ IsPath(e.path)
    /\ ~e.sub => e.col = 0 /\ e.path = <<>>

\* Column IDs start at 1. The key of a row is a sequence of encoded columns that
\* each tell where they end, so that no row's key is the beginning of another's.
ASSUME EntriesAssumption ==
    /\ \A e \in Entries : IsEntry(e) /\ (e.sub => e.col # 0)
    /\ \A d, e \in Entries : d.pk # e.pk => ~IsPrefix(d.pk, e.pk)

VARIABLES x, y
vars == <<x, y>>

EntryKey(e) ==
    IF e.sub THEN MakeSubordinatePathKey(MakeFamilyKey(e.pk, 0), e.col, e.path)
    ELSE MakeFamilyKey(e.pk, e.fam)

SubtreePrefix(e) == MakeSubordinatePathPrefix(MakeFamilyKey(e.pk, 0), e.col, e.path)

\* Starts at the second element of the first column.
DeletedSpanBroken(pk) ==
    [start |-> MakeSubordinatePathKey(MakeFamilyKey(pk, 0), 1, <<ArrayIndex(1)>>),
     end |-> MakeFamilyKey(pk, 1)]

\* The span DeleteRow deletes besides the row's sentinel. Column IDs start at 1.
DeletedSpan(pk) ==
    [start |-> MakeSubordinatePathKey(MakeFamilyKey(pk, 0), 0, <<ArrayIndex(0)>>),
     end |-> MakeFamilyKey(pk, 1)]

Init == x \in Entries /\ y \in Entries
Next == y' \in Entries /\ UNCHANGED x
Spec == Init /\ [][Next]_vars

-----------------------------------------------------------------------------
(* The entries whose row GetRowPrefixLength finds *)

\* The key of a row names its table and its index, an actor's behind the actor.
NamesIndex(pk) ==
    LET sqlKey == DecodeActorPrefix(pk).rest
        tableIDLen == GetUvarintLen(sqlKey)
        index == SubSeq(sqlKey, tableIDLen.val + 1, Len(sqlKey))
    IN  /\ DecodeActorPrefix(pk).ok
        /\ PeekInt(sqlKey) /\ tableIDLen.ok
        /\ PeekInt(index) /\ GetUvarintLen(index).ok

\* The length of what follows the row takes one byte at the end of the key.
ShortSuffixes ==
    \A e \in Entries : NamesIndex(e.pk) /\ Len(EntryKey(e)) <= Len(e.pk) + 1 + intSmall

-----------------------------------------------------------------------------
(* The reference: the order of the tree, without bytes *)

SegmentBefore(s, t) ==
    \/ s.kind < t.kind
    \/ s.kind = t.kind /\ s.idx < t.idx
    \/ s.kind = t.kind /\ KeyLess(s.name, t.name)

\* Depth first, an ancestor before its descendants.
PathBefore(p, q) ==
    \E n \in 0..Len(p) :
        /\ n < Len(q)
        /\ SubSeq(p, 1, n) = SubSeq(q, 1, n)
        /\ n < Len(p) => SegmentBefore(p[n + 1], q[n + 1])

\* The sentinel of family 0, then the subordinate values, then the other families.
Group(e) == IF e.sub THEN 1 ELSE IF e.fam = 0 THEN 0 ELSE 2

Before(d, e) ==
    IF d.pk # e.pk THEN KeyLess(d.pk, e.pk)
    ELSE \/ Group(d) < Group(e)
         \/ Group(d) = Group(e) /\ ~d.sub /\ d.fam < e.fam
         \/ d.sub /\ e.sub /\ d.col < e.col
         \/ d.sub /\ e.sub /\ d.col = e.col /\ PathBefore(d.path, e.path)

-----------------------------------------------------------------------------

\* Keys sort as the tree does: the sentinel of a row, then its subordinate
\* values, every node before its descendants, then the other families. The
\* fetchers rebuild a row in one forward scan (MakeSubordinatePathKey).
KeysSortLikeTree == x # y => (KeyLess(EntryKey(x), EntryKey(y)) <=> Before(x, y))

\* The span of a path holds the keys of its subtree and no other key, which
\* the deletion of a subtree relies on (MakeSubordinatePathPrefix).
SubtreeIsSpan ==
    x.sub => (InSpan(EntryKey(y), SubtreePrefix(x))
              <=> y.sub /\ y.pk = x.pk /\ y.col = x.col /\ IsPrefix(x.path, y.path))

\* A key of a row gives back its parts, and only subordinate keys pass for
\* subordinate (DecodeSubordinatePathKey, IsSubordinateKey).
KeysDecode ==
    /\ IsSubordinateKey(EntryKey(x), x.pk) <=> x.sub
    /\ x.sub => DecodeSubordinatePathKey(EntryKey(x)) = Decoded(<<>>, <<x.pk, x.col, x.path>>)

\* The row prefix found in a key is its row ("This makes GetRowPrefixLength
\* work correctly", MakeSubordinatePathKey).
RowPrefixIsRow == GetRowPrefixLength(EntryKey(x)) = Decoded(<<>>, Len(x.pk))

\* Deleting a row deletes all its subordinate values and nothing else: no
\* sentinel, and no value of a row whose key starts with this row's (DeleteRow).
RowDeleteTakesSubs ==
    LET span == DeletedSpan(x.pk)
    IN  ~KeyLess(EntryKey(y), span.start) /\ KeyLess(EntryKey(y), span.end)
            <=> y.sub /\ y.pk = x.pk
=============================================================================
