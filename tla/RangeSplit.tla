----------------------------- MODULE RangeSplit -----------------------------
(***************************************************************************)
(* Where ranges are split. A splitter (the split queue, or an AdminSplit   *)
(* request) reads the descriptor of a range and the keys in it, chooses a  *)
(* split key (storage.MVCCFindSplitKey by size, storage.MVCCFirstSplitKey  *)
(* by load, the given key for a request) and then runs the split           *)
(* transaction, which fails if the descriptor has changed since            *)
(* (adminSplitWithDescriptor, splitTxnAttempt).                            *)
(*                                                                         *)
(* Abstractions. An entry is a key with the row it belongs to; the row is  *)
(* not read by the code. Sizes are left out: the key nearest to half of    *)
(* the maximum size may be any that findSplitKeyUsingIterator considers.   *)
(* The attempts that fail before a key is chosen leave everything as it is *)
(* and are not steps. Merges, replicas and the sticky bit are left out. No *)
(* key is range-local (NotRangeLocal) or of a secondary tenant, so that    *)
(* keys.Addr returns the key it is given and DecodeTenantPrefixE succeeds. *)
(*                                                                         *)
(* Definitions named ...Broken are defective variants of the definition    *)
(* that follows them.                                                      *)
(***************************************************************************)
EXTENDS KeyEncoding, FiniteSets

CONSTANTS
    Entries,       \* what may be stored: records [row, key]
    RequestKeys,   \* split keys given to AdminSplit and by span configurations
    SampledKeys,   \* keys of the requests that load-based splitting samples
    Splitters,     \* concurrent split attempts
    None

VARIABLES
    kvs,           \* the entries stored
    ranges,        \* the range descriptors: records [start, end]
    split          \* per splitter None, or the descriptor read and the key chosen
vars == <<kvs, ranges, split>>

Descriptors == [start : Seq(Byte), end : Seq(Byte)]

TypeOK ==
    /\ kvs \subseteq Entries
    /\ ranges \subseteq Descriptors
    /\ split \in [Splitters -> {None} \cup [desc : Descriptors, key : Seq(Byte)]]

Init ==
    /\ kvs = {}
    /\ ranges = {[start |-> KeyMin, end |-> KeyMax]}
    /\ split = [s \in Splitters |-> None]

-----------------------------------------------------------------------------
(* Where a range may be split *)

\* The end of the range-local keys; the first key of the meta ranges.
LocalMax == <<2>>

ASSUME NotRangeLocal ==
    \A k \in {e.key : e \in Entries} \cup RequestKeys \cup SampledKeys : ~KeyLess(k, LocalMax)

\* Of a key that is not range-local.
ContainsKey(d, k) == ~KeyLess(k, d.start) /\ KeyLess(k, d.end)

Meta2KeyMax == <<3>> \o KeyMax
NodeLivenessPrefix == <<4, 0, 108, 105, 118, 101, 110, 101, 115, 115, 45>>

\* Meta1Span, Meta2MaxSpan and NodeLivenessSpan.
NoSplitSpans ==
    {[start |-> KeyMin, end |-> <<3>>],
     [start |-> Meta2KeyMax, end |-> <<4>>],
     [start |-> NodeLivenessPrefix, end |-> PrefixEnd(NodeLivenessPrefix)]}

isValidSplitKey(k, noSplitSpans) ==
    k # Meta2KeyMax /\ \A s \in noSplitSpans : ~(KeyLess(s.start, k) /\ KeyLess(k, s.end))

-----------------------------------------------------------------------------
(* Choosing a split key *)

Keys(d) == {e.key : e \in {e \in kvs : ContainsKey(d, e.key)}}

\* The first of the keys from k on, {} if there is none.
FirstFrom(keys, k) ==
    {f \in keys : ~KeyLess(f, k) /\ \A g \in keys : KeyLess(g, k) \/ ~KeyLess(g, f)}

\* DecodeTablePrefix succeeds.
IsTableKey(k) ==
    LET key == DecodeActorPrefix(k)
    IN  key.ok /\ PeekInt(key.rest) /\ DecodeUvarintAscending(key.rest).ok

\* What EnsureSafeSplitKey returns, {} if it fails.
SafeSplitKey(k) == {r.val : r \in {r \in {EnsureSafeSplitKey(k)} : r.ok}}

\* Any key after the first may be chosen, the others of its row included.
mvccMinSplitKeyBroken(d, start) == {k \o <<0>> : k \in FirstFrom(Keys(d), start)}

\* The first split key is past the table of the first row.
mvccMinSplitKeyTableBroken(d, start) ==
    {PrefixEnd(SubSeq(k, 1, 1)) : k \in FirstFrom(Keys(d), start)}

\* The end of the first row from start on; {} if there is none or it is not found.
mvccMinSplitKey(d, start) ==
    UNION {IF IsTableKey(k) THEN {PrefixEnd(row) : row \in SafeSplitKey(k)} ELSE {k \o <<0>>} :
              k \in FirstFrom(Keys(d), start)}

\* The keys that may be nearest to the middle of the range.
findSplitKeyUsingIterator(d, start, minSplitKey) ==
    LET noSplitSpans == {s \in NoSplitSpans : ~KeyLess(s.end, minSplitKey)}
    IN  {k \in Keys(d) : /\ ~KeyLess(k, start) /\ ~KeyLess(k, minSplitKey)
                         /\ noSplitSpans = {} \/ isValidSplitKey(k, noSplitSpans)}

ClampedStart(d) == IF KeyLess(d.start, LocalMax) THEN LocalMax ELSE d.start

\* The keys among which MVCCFindSplitKey chooses by size.
Candidates(d) ==
    UNION {findSplitKeyUsingIterator(d, ClampedStart(d), min) :
              min \in mvccMinSplitKey(d, ClampedStart(d))}

\* The keys MVCCFindSplitKey may return.
MVCCFindSplitKey(d) == UNION {SafeSplitKey(k) : k \in Candidates(d)}

\* The later of the desired key and the end of the first row.
SeekKey(desired, min) == IF KeyLess(desired, min) THEN min ELSE desired

\* The first key at or after the desired one, past the first row; {} if there is
\* none, or the range starts in the meta1 key space.
FirstCandidates(d, desired) ==
    IF KeyLess(d.start, LocalMax) THEN {}
    ELSE UNION {FirstFrom(Keys(d), SeekKey(desired, min)) : min \in mvccMinSplitKey(d, d.start)}

\* The key found is not cut back to its row.
MVCCFirstSplitKeyBroken(d, desired) == FirstCandidates(d, desired)

\* The row of that key.
MVCCFirstSplitKey(d, desired) == UNION {SafeSplitKey(k) : k \in FirstCandidates(d, desired)}

\* A sampled key, cut back to its row when it parses as a key of one.
loadSplitKey(k) ==
    LET row == EnsureSafeSplitKey(k)
    IN  IF row.ok THEN row.val ELSE k

-----------------------------------------------------------------------------
(* Actions *)

Put(e) == kvs' = kvs \cup {e} /\ UNCHANGED <<ranges, split>>
Delete(e) == kvs' = kvs \ {e} /\ UNCHANGED <<ranges, split>>

\* The checks of adminSplitWithDescriptor on the key found.
Choose(s, d, k) ==
    /\ split[s] = None
    /\ ContainsKey(d, k)
    /\ isValidSplitKey(k, NoSplitSpans)
    /\ k # d.start
    /\ split' = [split EXCEPT ![s] = [desc |-> d, key |-> k]]
    /\ UNCHANGED <<kvs, ranges>>

SplitBySize(s, d) == \E k \in MVCCFindSplitKey(d) : Choose(s, d, k)

SplitByLoad(s, d, k) ==
    \E desired \in {loadSplitKey(k)} :
        /\ ContainsKey(d, k) /\ ContainsKey(d, desired)
        /\ desired # d.start
        /\ \E found \in MVCCFirstSplitKey(d, desired) : Choose(s, d, found)

SplitAtKey(s, d, k) == Choose(s, d, k)

\* The descriptor is written without a look at the stored one.
SplitTxnBroken(s) ==
    LET d == split[s].desc
        k == split[s].key
    IN  /\ split[s] # None
        /\ ranges' = {r \in ranges : r.start # d.start}
                     \cup {[start |-> d.start, end |-> k], [start |-> k, end |-> d.end]}
        /\ split' = [split EXCEPT ![s] = None]
        /\ UNCHANGED kvs

\* splitTxnAttempt: the left descriptor is written on the condition that it is
\* the one read, the right one is new. The attempt is dropped otherwise.
SplitTxn(s) ==
    LET d == split[s].desc
        k == split[s].key
    IN  /\ split[s] # None
        /\ ranges' = IF d \in ranges
                     THEN (ranges \ {d}) \cup {[start |-> d.start, end |-> k],
                                               [start |-> k, end |-> d.end]}
                     ELSE ranges
        /\ split' = [split EXCEPT ![s] = None]
        /\ UNCHANGED kvs

Next ==
    \/ \E e \in Entries : Put(e) \/ Delete(e)
    \/ \E s \in Splitters : SplitTxn(s)
    \/ \E s \in Splitters, d \in ranges :
          \/ SplitBySize(s, d)
          \/ \E k \in SampledKeys : SplitByLoad(s, d, k)
          \/ \E k \in RequestKeys : SplitAtKey(s, d, k)

Spec == Init /\ [][Next]_vars

-----------------------------------------------------------------------------
\* What the proofs assume of the entries and of the keys given in requests, and
\* MixedEntries has: a row is a prefix of its keys, and EnsureSafeSplitKey finds it
\* from each of them or fails; no row is a prefix of another; a key that is not of
\* a table is a row; and a request does not ask to split inside a row.
KeysOfRows ==
    /\ Entries \subseteq [row : Seq(Byte), key : Seq(Byte)]
    /\ RequestKeys \subseteq Seq(Byte) /\ SampledKeys \subseteq Seq(Byte)
    /\ \A e \in Entries :
        /\ IsPrefix(e.row, e.key) /\ SafeSplitKey(e.key) \subseteq {e.row}
        /\ \E i \in 1..Len(e.row) : e.row[i] < 255
        /\ KeyLess(e.key, KeyMax)
    /\ \A e, f \in Entries :
        /\ IsPrefix(e.row, f.row) => e.row = f.row
        /\ e.row = f.row /\ ~IsTableKey(e.key) => f.key = e.key
        /\ e.row = f.row => \A k \in RequestKeys : KeyLess(e.key, k) <=> KeyLess(f.key, k)

-----------------------------------------------------------------------------
(* Properties *)

\* No row has keys in two ranges, whatever key the size or the load of a range
\* suggests ("we must never return a split key that falls within a table row",
\* MVCCFindSplitKey).
RowsStayWhole ==
    \A e, f \in kvs, d \in ranges :
        e.row = f.row => (ContainsKey(d, e.key) <=> ContainsKey(d, f.key))

\* Every key is in exactly one range, although split attempts overlap and act
\* on descriptors they read before (the optimistic lock of
\* adminSplitWithDescriptor).
RangesTile ==
    \A e \in Entries : \E d \in ranges : \A r \in ranges : ContainsKey(r, e.key) <=> r = d

\* A key found by size or by load leaves keys of the range on both of its
\* sides, so it is never the start of the range, on which the node would end
\* itself (log.Fatal in adminSplitWithDescriptor).
SplitsDivide ==
    \A d \in ranges :
        \A k \in MVCCFindSplitKey(d)
                 \cup UNION {MVCCFirstSplitKey(d, loadSplitKey(l)) :
                                l \in {l \in SampledKeys : ContainsKey(d, l)}} :
            /\ \E l \in Keys(d) : KeyLess(l, k)
            /\ \E l \in Keys(d) : ~KeyLess(l, k)

\* EnsureSafeSplitKey succeeds.
Parses(k) == SafeSplitKey(k) # {}

\* A range can be split by size, whichever of its keys is nearest to the middle, if
\* all its keys parse and one that may be split at is of another row than the first
\* key. One key that does not parse may block the split: EnsureSafeSplitKey fails on
\* the first key (mvccMinSplitKey) or on the one found, and is not tried on another
\* ("The split queue handles splitting at actor boundaries when a range grows large
\* enough", ensureActorExists).
LargeRangesSplit ==
    \A d \in ranges :
        /\ \A k \in Keys(d) : Parses(k)
        /\ \E e, g \in kvs :
              /\ e.key \in FirstFrom(Keys(d), d.start)
              /\ ContainsKey(d, g.key) /\ g.row # e.row /\ isValidSplitKey(g.key, NoSplitSpans)
        => Candidates(d) # {} /\ \A k \in Candidates(d) : Parses(k)

\* The same without the condition on the keys.
EveryLargeRangeSplits ==
    \A d \in ranges :
        Cardinality({e.row : e \in {e \in kvs : ContainsKey(d, e.key)}}) > 1
            => MVCCFindSplitKey(d) # {}

\* IsInteriorActorSplitKey, which nothing calls.
IsInteriorActorSplitKey(k) ==
    k # <<>> /\ k[1] = ActorPrefixByte /\ Len(k) > ActorHashLen + 1

\* No range starts inside the keys of an actor ("An actor is guaranteed to
\* remain within a single Raft group for its lifetime", the actors RFC).
ActorsStayWhole == \A d \in ranges : ~IsInteriorActorSplitKey(d.start)

\* The key MVCCFirstSplitKey returns is not below the desired one ("guaranteed
\* to be: ... No less than desiredSplitKey").
FirstSplitNotBelow ==
    \A d \in ranges, k \in SampledKeys :
        ContainsKey(d, k) /\ ContainsKey(d, loadSplitKey(k)) =>
            \A found \in MVCCFirstSplitKey(d, loadSplitKey(k)) : ~KeyLess(found, loadSplitKey(k))
=============================================================================
