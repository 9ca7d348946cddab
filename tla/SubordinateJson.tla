-------------------------- MODULE SubordinateJson --------------------------
(***************************************************************************)
(* How a JSON column of one row is stored and changed: the document is     *)
(* spread over subordinate keys, one per node, below the row's sentinel    *)
(* key, and the sentinel's tuple holds a copy of the whole document that   *)
(* is read only when the row has no subordinate key of the column.         *)
(*                                                                         *)
(*   sql/rowenc/subordinate.go           document -> entries               *)
(*   sql/row/subordinate_builders.go     entries -> document               *)
(*   sql/row/{inserter,updater,deleter,writer}.go   whole-row statements   *)
(*   sql/row/subordinate_json_mutation.go           direct UPDATEs         *)
(*                                                                         *)
(* Abstractions.  One row and one JSON column: statements run in           *)
(* transactions, so the statements of one row are a sequence.  A key is    *)
(* its decoded path, an array index being [idx |-> i] and an object key    *)
(* [key |-> k]; the header segment that starts every path is dropped, so   *)
(* the root is <<>>.  That the span a DelRange deletes is exactly the      *)
(* subtree of its path is KeyOrder's SubtreeIsSpan.  A direct mutation     *)
(* finds the path of a subtree by decoding its key, and panics when it     *)
(* cannot: paths here are short enough to decode, which is KeyOrder's      *)
(* KeysDecode for suffixes of at most 109 bytes.  Secondary indexes and    *)
(* primary key changes are left out (the latter delete one row and insert  *)
(* another).  A batch's requests run in order, so its deletions precede    *)
(* the puts that follow them.                                              *)
(*                                                                         *)
(* Definitions named ...Broken are defective variants of the definition    *)
(* that follows them.                                                      *)
(***************************************************************************)
EXTENDS JsonValue

CONSTANTS Documents, Mutations, Null, Absent,
          MaxNodes     \* bound on the entries of the row

VARIABLES exists,      \* whether the row's sentinel key is there
          inline,      \* the document in the sentinel's tuple, or Null
          entries,     \* path -> node, the subordinate keys of the column
          outcome,     \* what the last statement reported
          nullable     \* whether the column lacks NOT NULL

vars == <<exists, inline, entries, outcome, nullable>>

Datums == Documents \cup (IF nullable THEN {Null} ELSE {})

NoEntries == <<>>
Outcomes == {"ok", "error", "assertion"}

(***************************************************************************)
(* Document -> entries.                                                    *)
(***************************************************************************)
ObjectNode(count) == [object |-> count]
ArrayNode(count) == [array |-> count]

EncodeSubordinateJSONValue(j) ==
    CASE IsObject(j) -> ObjectNode(Cardinality(DOMAIN j.members))
      [] IsArray(j) -> ArrayNode(Len(j.elems))
      [] OTHER -> j

Segments(j) ==
    CASE IsObject(j) -> {[key |-> k] : k \in DOMAIN j.members}
      [] IsArray(j) -> {[idx |-> i] : i \in 0..Len(j.elems) - 1}
      [] OTHER -> {}

Child(j, seg) == IF IsObject(j) THEN j.members[seg.key] ELSE j.elems[seg.idx + 1]

RECURSIVE appendJSONSubordinateEntries(_, _)
appendJSONSubordinateEntries(path, j) ==
    LET sub == [seg \in Segments(j) |->
                   appendJSONSubordinateEntries(Append(path, seg), Child(j, seg))]
        below == UNION {DOMAIN sub[seg] : seg \in Segments(j)}
    IN  (path :> EncodeSubordinateJSONValue(j))
            @@ [p \in below |-> sub[p[Len(path) + 1]][p]]

\* Only containers get entries.
EncodeSubordinateKeysBroken(d) ==
    IF d = Null \/ isScalar(d) THEN NoEntries
    ELSE appendJSONSubordinateEntries(<<>>, d)

\* EncodeSubordinateKeys: a NULL column has no entries.
EncodeSubordinateKeys(d) ==
    IF d = Null THEN NoEntries ELSE appendJSONSubordinateEntries(<<>>, d)

(***************************************************************************)
(* Entries -> document.  A node without a value of its own, and a missing  *)
(* element below the largest index, is an assertion failure; counts are    *)
(* not looked at, and neither is what lies below a scalar.                 *)
(***************************************************************************)
Missing == [missing |-> TRUE]

Below(E, p) == {q[Len(p) + 1] : q \in {r \in DOMAIN E : IsStrictPrefix(p, r)}}
KeysBelow(E, p) == {seg.key : seg \in {s \in Below(E, p) : "key" \in DOMAIN s}}
IndexesBelow(E, p) == {seg.idx : seg \in {s \in Below(E, p) : "idx" \in DOMAIN s}}

RECURSIVE materialize(_, _)
materialize(E, p) ==
    IF p \notin DOMAIN E THEN Missing
    ELSE IF "object" \in DOMAIN E[p]
    THEN LET f == [k \in KeysBelow(E, p) |-> materialize(E, Append(p, [key |-> k]))]
         IN  IF \E k \in DOMAIN f : f[k] = Missing THEN Missing ELSE Object(f)
    ELSE IF "array" \in DOMAIN E[p]
    THEN LET maxIdx == Max(IndexesBelow(E, p) \cup {-1})
             s == [i \in 1..maxIdx + 1 |-> materialize(E, Append(p, [idx |-> i - 1]))]
         IN  IF \E i \in DOMAIN s : s[i] = Missing THEN Missing ELSE Array(s)
    ELSE E[p]

\* What a query reads: the entries when there are any, else the tuple.
Read == IF entries = NoEntries THEN inline ELSE materialize(entries, <<>>)

(***************************************************************************)
(* Whole-row statements.                                                   *)
(***************************************************************************)
WithoutKeys(E, S) == Restrict(E, DOMAIN E \ S)

WithoutSubtree(E, p) == WithoutKeys(E, {q \in DOMAIN E : IsPrefix(p, q)})

Report(what) == outcome' = what

\* A statement that fails changes nothing.
Fail(what) == Report(what) /\ UNCHANGED <<exists, inline, entries>>

\* InsertRow with conditional puts: a key that is there is a duplicate key.
InsertRow(d) ==
    LET new == EncodeSubordinateKeys(d)
    IN  IF exists \/ DOMAIN new \cap DOMAIN entries /= {}
        THEN Fail("error")
        ELSE /\ exists' = TRUE
             /\ inline' = d
             /\ entries' = new @@ entries
             /\ Report("ok")

\* InsertRow with overwrite: blind puts, for an UPSERT that fetches nothing.
InsertRowOverwrite(d) ==
    /\ exists' = TRUE
    /\ inline' = d
    /\ entries' = EncodeSubordinateKeys(d) @@ entries
    /\ Report("ok")

\* Updater.UpdateRow: deletes the entries of the old value that the new one
\* does not put at the same position, then puts all the new ones.
UpdateRow(d) ==
    /\ exists
    /\ IF Read = Missing THEN Fail("assertion")
       ELSE /\ inline' = d
            /\ entries' = EncodeSubordinateKeys(d)
                   @@ WithoutKeys(entries, DOMAIN EncodeSubordinateKeys(Read))
            /\ Report("ok")
            /\ UNCHANGED exists

\* An UPDATE of another column writes the row's tuple anew from what it read.
UpdateOther == UpdateRow(Read)

\* UPSERT: overwrites blindly when the statement gives every column its value
\* and the table has no secondary index, else fetches the row.
UpsertBlind(d) == InsertRowOverwrite(d)
UpsertFetched(d) == IF exists THEN UpdateRow(d) ELSE InsertRow(d)

\* DeleteRow: one DelRange over all subordinate keys of the row.
DeleteRow ==
    /\ exists
    /\ exists' = FALSE
    /\ inline' = Null
    /\ entries' = NoEntries
    /\ Report("ok")

(***************************************************************************)
(* Direct UPDATEs: the statement does not fetch the column.                *)
(***************************************************************************)
Fallback == [fallback |-> TRUE]

HasNode(p) == p \in DOMAIN entries
IsObjectNode(p) == HasNode(p) /\ "object" \in DOMAIN entries[p]
IsArrayNode(p) == HasNode(p) /\ "array" \in DOMAIN entries[p]

KeyPath(k) == <<[key |-> k]>>
IdxPath(i) == <<[idx |-> i]>>

putSubordinateJSONSubtree(E, p, j) == appendJSONSubordinateEntries(p, j) @@ E

\* p is what DecodeSubordinatePathKey gives for the key of the subtree.
deleteSubordinateExactSubtree(E, p) == WithoutSubtree(E, p)

\* Sets the child p \o path of the object at p; header and child are looked up
\* before the batch runs.
setChild(p, child, v, createMissing) ==
    LET count == entries[p].object
        q == p \o child
    IN  IF ~HasNode(q) /\ ~createMissing THEN entries
        ELSE IF HasNode(q)
        THEN putSubordinateJSONSubtree(deleteSubordinateExactSubtree(entries, q), q, v)
        ELSE (p :> ObjectNode(count + 1)) @@ putSubordinateJSONSubtree(entries, q, v)

\* Counts every key of the right side, the ones that replace one included.
applyLocalRootObjectConcatBroken(right) ==
    LET keys == DOMAIN right.members
        kept == {q \in DOMAIN entries : \A k \in keys : ~IsPrefix(KeyPath(k), q)}
        put == WithoutKeys(appendJSONSubordinateEntries(<<>>, right), {<<>>})
    IN  (<<>> :> ObjectNode(entries[<<>>].object + Cardinality(keys)))
            @@ put @@ Restrict(entries, kept)

applyLocalRootObjectConcat(right) ==
    LET keys == DOMAIN right.members
        old == {k \in keys : HasNode(KeyPath(k))}
        kept == {q \in DOMAIN entries : \A k \in old : ~IsPrefix(KeyPath(k), q)}
        put == WithoutKeys(appendJSONSubordinateEntries(<<>>, right), {<<>>})
    IN  (<<>> :> ObjectNode(entries[<<>>].object + Cardinality(keys \ old)))
            @@ put @@ Restrict(entries, kept)

applyLocalRootObjectDeleteKey(k) ==
    IF ~HasNode(KeyPath(k)) THEN entries
    ELSE (<<>> :> ObjectNode(entries[<<>>].object - 1))
            @@ deleteSubordinateExactSubtree(entries, KeyPath(k))

\* Appends the right side as one element.
applyLocalRootArrayAppendBroken(right) ==
    LET count == entries[<<>>].array
    IN  (<<>> :> ArrayNode(count + 1))
            @@ putSubordinateJSONSubtree(entries, IdxPath(count), right)

\* The elements go to the indexes from the header's count on.
applyLocalRootArrayAppend(right) ==
    LET count == entries[<<>>].array
        sub == appendJSONSubordinateEntries(<<>>, right)
        shift(p) == <<[idx |-> p[1].idx + count]>> \o Tail(p)
    IN  (<<>> :> ArrayNode(count + Len(right.elems)))
            @@ [q \in {shift(p) : p \in DOMAIN sub \ {<<>>}} |->
                   sub[<<[idx |-> q[1].idx - count]>> \o Tail(q)]]
            @@ entries

applyLocalRootArrayDeleteLast ==
    LET count == entries[<<>>].array
    IN  IF count = 0 THEN entries
        ELSE (<<>> :> ArrayNode(count - 1))
                @@ deleteSubordinateExactSubtree(entries, IdxPath(count - 1))

applyLocalRootArrayObjectKeySet(i, k, v, createMissing) ==
    IF i >= entries[<<>>].array \/ ~HasNode(IdxPath(i)) THEN entries
    ELSE IF ~IsObjectNode(IdxPath(i)) THEN Fallback
    ELSE setChild(IdxPath(i), KeyPath(k), v, createMissing)

\* The entries after the mutation, or Fallback.
tryApplyLocalSubordinateJSONMutation(op) ==
    CASE op.kind = "concat" /\ IsObjectNode(<<>>) /\ IsObject(op.value) ->
            applyLocalRootObjectConcat(op.value)
      [] op.kind = "concat" /\ IsArrayNode(<<>>) /\ IsArray(op.value) ->
            applyLocalRootArrayAppend(op.value)
      [] op.kind = "deleteKey" /\ IsObjectNode(<<>>) ->
            applyLocalRootObjectDeleteKey(op.key)
      [] op.kind = "deleteLast" /\ IsArrayNode(<<>>) ->
            applyLocalRootArrayDeleteLast
      [] op.kind = "setPath" /\ IsObjectNode(<<>>) /\ Len(op.path) = 1 ->
            setChild(<<>>, KeyPath(op.path[1]), op.value, op.createMissing)
      [] /\ op.kind = "setPath" /\ IsArrayNode(<<>>) /\ Len(op.path) = 2
         /\ op.path[1] \in DOMAIN Atoi /\ Atoi[op.path[1]] >= 0 ->
            applyLocalRootArrayObjectKeySet(
                Atoi[op.path[1]], op.path[2], op.value, op.createMissing)
      [] OTHER -> Fallback

\* UpdateSubordinateJSONRow: the local mutation, else the whole column is read
\* and rewritten.  The tuple is left alone.
UpdateSubordinateJSONRow(op) ==
    LET local == tryApplyLocalSubordinateJSONMutation(op)
        current == materialize(entries, <<>>)
        next == applyGenericSubordinateJSONMutation(current, op)
    IN  IF local /= Fallback
        THEN entries' = local /\ Report("ok") /\ UNCHANGED <<exists, inline>>
        ELSE IF current = Missing THEN Fail("assertion")
        ELSE IF next = Error THEN Fail("error")
        ELSE /\ entries' = appendJSONSubordinateEntries(<<>>, next)
             /\ Report("ok")
             /\ UNCHANGED <<exists, inline>>

\* ClearSubordinateJSONColumn
ClearSubordinateJSONColumn ==
    /\ entries' = NoEntries
    /\ Report("ok")
    /\ UNCHANGED <<exists, inline>>

\* processSourceRow of a direct UPDATE.  The rendered value of the column is the
\* operand, or NULL when the mutation has none, and it meets the NOT NULL check
\* before the mutation runs.
Mutate(op) ==
    /\ exists
    /\ IF ~nullable /\ ~HasOperand(op) THEN Fail("error")
                                       ELSE UpdateSubordinateJSONRow(op)

\* The operand is NULL.
MutateNull ==
    /\ exists
    /\ IF ~nullable THEN Fail("error") ELSE ClearSubordinateJSONColumn

Init ==
    /\ exists = FALSE
    /\ inline = Null
    /\ entries = NoEntries
    /\ outcome = "ok"
    /\ nullable \in BOOLEAN

\* The bound on the entries; the column's declaration stays.
Bounded == Cardinality(DOMAIN entries') <= MaxNodes /\ UNCHANGED nullable

WholeRow ==
    \/ \E d \in Datums : InsertRow(d) \/ UpsertFetched(d) \/ UpdateRow(d)
    \/ UpdateOther
    \/ DeleteRow

Blind == \E d \in Datums : UpsertBlind(d)
Direct == \E op \in Mutations : Mutate(op)

Next == (WholeRow \/ Blind \/ Direct \/ MutateNull) /\ Bounded

Spec == Init /\ [][Next]_vars

(***************************************************************************)
(* The statements that keep the two copies of the column in step: a blind  *)
(* UPSERT only where there are no entries to leave behind, a mutation only *)
(* of a column that is not NULL, a deletion only of a column that may be,  *)
(* a NULL operand only for a column that is NULL already (or that refuses  *)
(* it).                                                                    *)
(***************************************************************************)
CarefulNext ==
    /\ \/ WholeRow
       \/ entries = NoEntries /\ Blind
       \/ Read /= Null /\ \E op \in Mutations : (nullable \/ HasOperand(op)) /\ Mutate(op)
       \/ (Read = Null \/ ~nullable) /\ MutateNull
    /\ Bounded

CarefulSpec == Init /\ [][CarefulNext]_vars

\* CarefulSpec and one of the four other kinds of statement.
BlindSpec == Init /\ [][CarefulNext \/ (Blind /\ Bounded)]_vars
DeleteSpec == Init /\ [][CarefulNext \/ (Read /= Null /\ Direct /\ Bounded)]_vars
NullSpec == Init /\ [][CarefulNext \/ (Direct /\ Bounded)]_vars
ClearSpec == Init /\ [][CarefulNext \/ (MutateNull /\ Bounded)]_vars

(***************************************************************************)
(* Properties.                                                             *)
(***************************************************************************)

\* Every container's count is the number of its children, every child has a
\* node of its own, array elements are numbered from 0 without a gap, and
\* nothing lies below a scalar.  The local mutations trust the count (they
\* append at it and delete at it minus one) while queries count the children.
CountsMatch ==
    \A p \in DOMAIN entries :
        LET below == Below(entries, p)
            node == entries[p]
        IN  /\ \A seg \in below : Append(p, seg) \in DOMAIN entries
            /\ CASE "object" \in DOMAIN node ->
                        /\ Cardinality(below) = node.object
                        /\ IndexesBelow(entries, p) = {}
                 [] "array" \in DOMAIN node ->
                        below = {[idx |-> i] : i \in 0..node.array - 1}
                 [] OTHER -> below = {}

\* A row whose tuple holds a document has entries for it: the fetchers treat a
\* document found in the tuple alone as an assertion failure when they filter
\* on the column (finishJSONExistsFilter and its siblings).
InlineHasEntries == inline /= Null => entries /= NoEntries

\* No statement runs into materialize's "missing subordinate JSON node value".
NoMissingNode == outcome /= "assertion"

\* The stored column is the column SQL promises, statement by statement: after
\* each statement a query reads what the same SQL statement makes of JsonColumn's
\* value, and the statement reports success or an error as SQL does, whether a
\* mutation was applied to a few entries, to the whole column or through a
\* whole-row write. Only the deletion of a key of a NOT NULL column is left out.
Column == INSTANCE JsonColumn
              WITH value <- IF exists THEN Read ELSE Absent, outcome <- outcome
ImplementsJsonColumn ==
    /\ Column!Init
    /\ [][ /\ \A d \in Datums :
                  /\ InsertRow(d) => Column!Insert(d)
                  /\ UpdateRow(d) => Column!Update(d)
                  /\ UpsertBlind(d) => Column!Upsert(d)
                  /\ exists /\ UpsertFetched(d) => Column!Upsert(d)
           /\ UpdateOther => Column!UpdateOther
           /\ \A op \in Mutations :
                  (nullable \/ HasOperand(op)) /\ Mutate(op) => Column!Mutate(op)
           /\ MutateNull => Column!MutateNull
           /\ DeleteRow => Column!Delete ]_vars

\* The tests plan the deletion of a key of a NOT NULL column as a direct
\* mutation: it does what SQL says.
DeletionsAgree == [][\A op \in Mutations : Mutate(op) => Column!Mutate(op)]_vars
=============================================================================
