---------------------------- MODULE MCRangeSplit ----------------------------
EXTENDS RangeSplit, TLC

Symmetric == Permutations(Splitters)

\* Two rows of table 104, and a row of the same table of an actor.
Row1 == <<240, 137, 137>>
Row2 == <<240, 137, 138>>
ActorPrefix == MakeActorPrefixFromHash(<<0, 255>>)
ActorRow1 == ActorPrefix \o Row1
ActorRow2 == ActorPrefix \o Row2

Of(row, keys) == [row : {row}, key : keys]
Node(row, path) == MakeSubordinatePathKey(MakeFamilyKey(row, 0), 3, <<Header>> \o path)

OwnRow(key) == Of(key, {key})

\* The liveness records of two nodes, the storage of a Durable Object, a row with one
\* key, a row with a node of a JSON value, and a row of an actor.
MixedEntries ==
    OwnRow(NodeLivenessPrefix \o <<137>>) \cup OwnRow(NodeLivenessPrefix \o <<138>>)
    \cup OwnRow(MakeDOKVKey(<<0, 1>>, <<97>>))
    \cup Of(Row1, {MakeFamilyKey(Row1, 0)})
    \cup Of(Row2, {MakeFamilyKey(Row2, 0), Node(Row2, <<ObjectKey(<<97>>)>>)})
    \cup Of(ActorRow1, {MakeFamilyKey(ActorRow1, 0)})

\* The start of the actor.
Boundaries == {ActorPrefix}

NoKeys == {}

ASSUME Entries = MixedEntries => KeysOfRows

\* A key of a row, the end of a scan over it and the start of one after it.
Sampled == {MakeFamilyKey(Row2, 0) \o <<0>>, MakeFamilyKey(ActorRow1, 0) \o <<0>>, Row2}

\* A row whose JSON value has an object key of 64 bytes in an object under
\* another: the suffix of the subordinate key has 140 bytes.
LongName == [i \in 1..64 |-> 120]
LongEntries ==
    Of(Row1, {MakeFamilyKey(Row1, 0)})
    \cup Of(Row2, {MakeFamilyKey(Row2, 0), Node(Row2, <<ObjectKey(LongName), ObjectKey(LongName)>>)})

\* Two rows of one actor.
ActorEntries ==
    UNION {Of(r, {MakeFamilyKey(r, 0)}) : r \in {ActorRow1, ActorRow2}}

\* The storage of two Durable Objects.
DOEntries ==
    UNION {OwnRow(MakeDOKVKey(h, <<97>>)) : h \in {<<0, 1>>, <<0, 2>>}}

\* Two rows with a JSON scalar each.
TwoNodes ==
    UNION {Of(r, {MakeFamilyKey(r, 0), Node(r, <<>>)}) : r \in {Row1, Row2}}
TableStart == {<<240>>}
AfterSentinel == {MakeFamilyKey(Row2, 0) \o <<0>>}
=============================================================================
