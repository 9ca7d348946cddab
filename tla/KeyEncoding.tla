---------------------------- MODULE KeyEncoding ----------------------------
(***************************************************************************)
(* How keys are made of bytes: the order-preserving encodings              *)
(* (pkg/util/encoding), row, family and actor prefixes (pkg/keys/keys.go,  *)
(* pkg/keys/sql.go), the keys of subordinate entries, which hold the       *)
(* elements of an array or the nodes of a JSON value next to their row     *)
(* (pkg/keys/subordinate.go), and those of Durable Object storage.         *)
(*                                                                         *)
(* A byte is a number below 256 and a key a sequence of bytes. Integers    *)
(* are below 2^31, so the widths above four bytes do not occur. Keys are   *)
(* those of the system tenant, whose prefix is empty. A decoder returns    *)
(* [ok, rest, val]; Failed stands for every error. A first byte below the  *)
(* encoding of zero decodes to a negative number here and to one of 2^63   *)
(* or more in the code: every use rejects it.                              *)
(*                                                                         *)
(* Definitions named ...Broken are defective variants of the definition    *)
(* that follows them.                                                      *)
(***************************************************************************)
EXTENDS Integers, Sequences

CONSTANT ActorHashLen      \* bytes of an actor hash (16 in the code)

ASSUME HashLenAssumption == ActorHashLen \in Nat

Byte == 0..255

\* Two operators of SequencesExt. That module is not extended, because the modules
\* it brings in make the proofs about keys take four times as long.
IsPrefix(s, t) == Len(s) <= Len(t) /\ SubSeq(t, 1, Len(s)) = SubSeq(s, 1, Len(s))

FlattenSeq(seqs) ==
    LET upTo[n \in 0..Len(seqs)] == IF n = 0 THEN <<>> ELSE upTo[n - 1] \o seqs[n]
    IN  upTo[Len(seqs)]

IntMin == 128
IntMax == 253
intZero == 136
intSmall == 109
bytesMarker == 18
ActorPrefixByte == 251
DOKVTableID == 51

Failed == [ok |-> FALSE, rest |-> <<>>, val |-> 0]
Decoded(rest, val) == [ok |-> TRUE, rest |-> rest, val |-> val]

\* bytes.Compare.
KeyLess(a, b) ==
    \E n \in 0..Len(a) :
        /\ n < Len(b)
        /\ SubSeq(a, 1, n) = SubSeq(b, 1, n)
        /\ n < Len(a) => a[n + 1] < b[n + 1]

KeyMin == <<>>
KeyMax == <<255, 255>>

\* The carry out of the last byte is lost.
PrefixEndBroken(b) ==
    IF b = <<>> THEN KeyMax ELSE SubSeq(b, 1, Len(b) - 1) \o <<(b[Len(b)] + 1) % 256>>

\* keysbase.PrefixEnd: the first key after those that start with b.
PrefixEnd(b) ==
    LET low == {i \in 1..Len(b) : b[i] < 255}
        i == CHOOSE i \in low : \A j \in low : j <= i
    IN  IF b = <<>> THEN KeyMax
        ELSE IF low = {} THEN b ELSE SubSeq(b, 1, i - 1) \o <<b[i] + 1>>

\* Whether a key is in the span of a prefix.
InSpan(k, prefix) == ~KeyLess(k, prefix) /\ KeyLess(k, PrefixEnd(prefix))

PeekInt(b) == Len(b) > 0 /\ b[1] \in IntMin..IntMax

-----------------------------------------------------------------------------
(* Integers and byte strings *)

\* The numbers written here.
Number == {v \in Nat : v <= 2147483647}

\* The number of bytes of v without leading zeros, and these bytes.
Place == <<1, 256, 65536, 16777216>>
Width(v) ==
    IF v < Place[2] THEN 1 ELSE IF v < Place[3] THEN 2 ELSE IF v < Place[4] THEN 3 ELSE 4
BigEndian(v, n) == [i \in 1..n |-> (v \div Place[n - i + 1]) % 256]

EncodeUvarintAscending(v) ==
    IF v <= intSmall
    THEN <<intZero + v>>
    ELSE <<intZero + intSmall + Width(v)>> \o BigEndian(v, Width(v))

DecodeUvarintAscending(b) ==
    IF b = <<>> THEN Failed
    ELSE LET small == b[1] - intZero
             n == small - intSmall
             rest == Tail(b)
             value[i \in 0..n] == IF i = 0 THEN 0 ELSE value[i - 1] * 256 + rest[i]
         IN  IF small <= intSmall THEN Decoded(rest, small)
             ELSE IF n > 8 \/ Len(rest) < n THEN Failed
             ELSE Decoded(SubSeq(rest, n + 1, Len(rest)), value[n])

\* GetUvarintLen; val is the length.
GetUvarintLen(b) ==
    LET n == b[1] - intZero - intSmall
    IN  IF b = <<>> THEN Failed
        ELSE IF n <= 0 THEN Decoded(b, 1)
        ELSE IF n > 8 \/ Len(b) < 1 + n THEN Failed
        ELSE Decoded(b, 1 + n)

\* A zero byte is not escaped.
EncodeBytesAscendingBroken(data) == <<bytesMarker>> \o data \o <<0, 1>>

\* A zero byte is escaped; 0, 1 terminates.
EncodeBytesAscending(data) ==
    <<bytesMarker>>
    \o FlattenSeq([i \in 1..Len(data) |-> IF data[i] = 0 THEN <<0, 255>> ELSE <<data[i]>>])
    \o <<0, 1>>

\* What is decoded from a position on, with the element before it.
Prepended(x, from) == IF from.ok THEN Decoded(from.rest, <<x>> \o from.val) ELSE Failed

\* decodeBytesInternal, from position i on.
DecodeBytesAscending(b) ==
    LET from[i \in 2..(Len(b) + 2)] ==
            IF i >= Len(b) THEN Failed
            ELSE IF b[i] # 0 THEN Prepended(b[i], from[i + 1])
            ELSE IF b[i + 1] = 1 THEN Decoded(SubSeq(b, i + 2, Len(b)), <<>>)
            ELSE IF b[i + 1] = 255 THEN Prepended(0, from[i + 2])
            ELSE Failed
    IN  IF b = <<>> \/ b[1] # bytesMarker THEN Failed ELSE from[2]

-----------------------------------------------------------------------------
(* Rows *)

\* Family 0 has no length byte.
MakeFamilyKey(pk, fam) ==
    IF fam = 0 THEN pk \o EncodeUvarintAscending(0)
    ELSE LET f == EncodeUvarintAscending(fam)
         IN  pk \o f \o EncodeUvarintAscending(Len(f))

\* rest is the key without the prefix of an actor, if it has one.
DecodeActorPrefix(key) ==
    IF key = <<>> \/ key[1] # ActorPrefixByte THEN Decoded(key, 0)
    ELSE IF Len(key) < 1 + ActorHashLen THEN Failed
    ELSE Decoded(SubSeq(key, ActorHashLen + 2, Len(key)), 0)

\* The length byte itself is not stripped.
GetRowPrefixLengthBroken(key) ==
    LET fam == DecodeUvarintAscending(<<key[Len(key)]>>)
    IN  IF ~PeekInt(DecodeActorPrefix(key).rest) THEN Decoded(<<>>, Len(key))
        ELSE Decoded(<<>>, Len(key) - fam.val)

\* The part of a key that is common to the keys of its row, found by reading how
\* many bytes to strip from the last byte alone. val is the length.
GetRowPrefixLength(key) ==
    LET actor == DecodeActorPrefix(key)
        sqlKey == actor.rest
        sqlN == Len(sqlKey)
        tableIDLen == GetUvarintLen(sqlKey)
        index == SubSeq(sqlKey, tableIDLen.val + 1, sqlN)
        indexIDLen == GetUvarintLen(index)
        colFamIDLenByte == SubSeq(sqlKey, sqlN, sqlN)
        colFamIDLen == DecodeUvarintAscending(colFamIDLenByte)
    IN  IF ~actor.ok THEN Failed
        ELSE IF ~PeekInt(sqlKey) THEN Decoded(<<>>, Len(key))
        ELSE IF ~tableIDLen.ok THEN Failed
        ELSE IF ~PeekInt(index) THEN Decoded(<<>>, Len(key))
        ELSE IF ~indexIDLen.ok THEN Failed
        ELSE IF indexIDLen.val = Len(index) THEN Decoded(<<>>, Len(key))
        ELSE IF ~PeekInt(colFamIDLenByte) \/ ~colFamIDLen.ok THEN Failed
        ELSE IF colFamIDLen.val \notin 0..(sqlN - 1) THEN Failed
        ELSE Decoded(<<>>, Len(key) - colFamIDLen.val - 1)

\* EnsureSafeSplitKey; val is the key.
EnsureSafeSplitKey(key) ==
    LET n == GetRowPrefixLength(key)
    IN  IF n.ok THEN Decoded(<<>>, SubSeq(key, 1, n.val)) ELSE Failed

-----------------------------------------------------------------------------
(* Subordinate entries *)

HeaderKind == 0
ArrayIndexKind == 1
ObjectKeyKind == 2

Header == [kind |-> HeaderKind, idx |-> 0, name |-> <<>>]
ArrayIndex(i) == [kind |-> ArrayIndexKind, idx |-> i, name |-> <<>>]
ObjectKey(k) == [kind |-> ObjectKeyKind, idx |-> 0, name |-> k]

Segment ==
    {s \in [kind : 0..2, idx : Number, name : Seq(Byte)] :
        (s.kind # ArrayIndexKind => s.idx = 0) /\ (s.kind # ObjectKeyKind => s.name = <<>>)}

EncodeSegment(seg) ==
    EncodeUvarintAscending(seg.kind) \o
    CASE seg.kind = HeaderKind     -> <<>>
      [] seg.kind = ArrayIndexKind -> EncodeUvarintAscending(seg.idx)
      [] seg.kind = ObjectKeyKind  -> EncodeBytesAscending(seg.name)

MakeSubordinatePathPrefix(rowKey, colID, path) ==
    rowKey \o EncodeUvarintAscending(colID)
           \o FlattenSeq([i \in 1..Len(path) |-> EncodeSegment(path[i])])

MakeSubordinatePathKey(rowKey, colID, path) ==
    LET key == MakeSubordinatePathPrefix(rowKey, colID, path)
               \o EncodeUvarintAscending(HeaderKind)
    IN  key \o EncodeUvarintAscending(Len(key) - (Len(rowKey) - 1))

\* The end marker is a header; it is not part of the path.
WithoutEnd(path) ==
    IF path # <<>> /\ path[Len(path)].kind = HeaderKind THEN SubSeq(path, 1, Len(path) - 1)
    ELSE path

\* The loop of DecodeSubordinatePathKey, from position i on. The length at the
\* end of a key is no segment.
DecodeSegments(suffix) ==
    LET from[i \in 1..(Len(suffix) + 1)] ==
            LET kind == DecodeUvarintAscending(SubSeq(suffix, i, Len(suffix)))
                idx == DecodeUvarintAscending(kind.rest)
                name == DecodeBytesAscending(kind.rest)
                Then(seg, rest) == Prepended(seg, from[Len(suffix) + 1 - Len(rest)])
            IN  IF i > Len(suffix) THEN Decoded(<<>>, <<>>)
                ELSE IF ~kind.ok THEN Failed
                ELSE IF kind.val = HeaderKind THEN Then(Header, kind.rest)
                ELSE IF kind.val = ArrayIndexKind
                     THEN IF idx.ok /\ idx.val >= 0 THEN Then(ArrayIndex(idx.val), idx.rest)
                          ELSE Failed
                ELSE IF kind.val = ObjectKeyKind
                     THEN IF name.ok THEN Then(ObjectKey(name.val), name.rest) ELSE Failed
                ELSE IF i = 1 THEN Failed ELSE Decoded(<<>>, <<>>)
    IN  from[1]

\* The trailing end marker is kept as a segment of the path.
DecodeSubordinatePathKeyBroken(key) ==
    LET n == GetRowPrefixLength(key)
        fam == DecodeUvarintAscending(SubSeq(key, n.val + 1, Len(key)))
        col == DecodeUvarintAscending(fam.rest)
        path == DecodeSegments(col.rest)
    IN  IF n.ok /\ fam.ok /\ fam.val = 0 /\ col.ok /\ col.val >= 0 /\ path.ok
        THEN Decoded(<<>>, <<SubSeq(key, 1, n.val), col.val, path.val>>)
        ELSE Failed

\* val is the row prefix, the column and the path.
DecodeSubordinatePathKey(key) ==
    LET n == GetRowPrefixLength(key)
        fam == DecodeUvarintAscending(SubSeq(key, n.val + 1, Len(key)))
        col == DecodeUvarintAscending(fam.rest)
        path == DecodeSegments(col.rest)
    IN  IF n.ok /\ fam.ok /\ fam.val = 0 /\ col.ok /\ col.val >= 0 /\ path.ok
        THEN Decoded(<<>>, <<SubSeq(key, 1, n.val), col.val, WithoutEnd(path.val)>>)
        ELSE Failed

\* Keys that are shorter than family sentinel, column, element and length are
\* not subordinate.
IsSubordinateKey(key, rowPrefix) ==
    LET suffix == SubSeq(key, Len(rowPrefix) + 1, Len(key))
        fam == DecodeUvarintAscending(suffix)
    IN  IsPrefix(rowPrefix, key) /\ Len(suffix) >= 4 /\ fam.ok /\ fam.val = 0

-----------------------------------------------------------------------------
(* Actors and Durable Objects *)

MakeActorPrefixFromHash(hash) == <<ActorPrefixByte>> \o hash

MakeDOKVPrefix(hash) ==
    MakeActorPrefixFromHash(hash) \o EncodeUvarintAscending(DOKVTableID)
                                  \o EncodeUvarintAscending(1)

MakeDOKVKey(hash, userKey) == MakeDOKVPrefix(hash) \o EncodeBytesAscending(userKey)
=============================================================================
