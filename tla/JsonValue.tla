----------------------------- MODULE JsonValue -----------------------------
(***************************************************************************)
(* JSON documents and the operators of util/json that SQL's j || v, j - k, *)
(* j - i and jsonb_set evaluate to.                                        *)
(*                                                                         *)
(* A document is a record whose field names its kind: [str |-> s] and      *)
(* [num |-> n] for scalars (JSON's null, true and false behave like a      *)
(* number here and are left out), [elems |-> sequence] for arrays and      *)
(* [members |-> function of keys] for objects.  Error stands for any error *)
(* of the Go function, Nil for its nil result.                             *)
(***************************************************************************)
EXTENDS Integers, Sequences, FiniteSets, SequencesExt

CONSTANT Atoi      \* strconv.Atoi: the integer a numeral denotes; other keys
                   \* are not in its domain

Error == [error |-> TRUE]
Nil == [nil |-> TRUE]

Object(f) == [members |-> f]
Array(s) == [elems |-> s]
IsObject(j) == "members" \in DOMAIN j
IsArray(j) == "elems" \in DOMAIN j
isScalar(j) == ~IsObject(j) /\ ~IsArray(j)

scalarConcat(left, other) ==
    IF IsArray(other) THEN Array(<<left>> \o other.elems)
    ELSE IF IsObject(other) THEN Error
    ELSE Array(<<left, other>>)

Concat(j, other) ==
    CASE IsArray(j) ->
            Array(j.elems \o (IF IsArray(other) THEN other.elems ELSE <<other>>))
      [] IsObject(j) /\ IsObject(other) -> Object(other.members @@ j.members)
      [] IsObject(j) /\ isScalar(other) -> Error
      [] OTHER -> scalarConcat(j, other)

RemoveString(j, s) ==
    CASE isScalar(j) -> Error
      [] IsObject(j) -> Object(Restrict(j.members, DOMAIN j.members \ {s}))
      [] IsArray(j) -> Array(SelectSeq(j.elems, LAMBDA e : e /= [str |-> s]))

\* A negative index counts from the end of the array.
FromEnd(j, i) == IF i < 0 THEN Len(j.elems) + i ELSE i

HasIndex(j, i) == FromEnd(j, i) \in 0..Len(j.elems) - 1

RemoveIndex(j, i) ==
    CASE ~IsArray(j) -> Error
      [] IsArray(j) /\ ~HasIndex(j, i) -> j
      [] OTHER -> Array(RemoveAt(j.elems, FromEnd(j, i) + 1))

FetchValKeyOrIdx(j, k) ==
    CASE IsObject(j) /\ k \in DOMAIN j.members -> j.members[k]
      [] IsArray(j) /\ k \in DOMAIN Atoi /\ HasIndex(j, Atoi[k]) ->
            j.elems[FromEnd(j, Atoi[k]) + 1]
      [] OTHER -> Nil

SetKey(j, k, to, createMissing) ==
    IF createMissing \/ k \in DOMAIN j.members
    THEN Object((k :> to) @@ j.members) ELSE j

\* setValKeyOrIdx on an array: outside it, `to' goes before the first element
\* or after the last one, when createMissing says so.
SetIdx(j, i, to, createMissing) ==
    CASE HasIndex(j, i) -> Array([j.elems EXCEPT ![FromEnd(j, i) + 1] = to])
      [] ~HasIndex(j, i) /\ ~createMissing -> j
      [] OTHER -> Array(IF FromEnd(j, i) < 0 THEN <<to>> \o j.elems
                                             ELSE Append(j.elems, to))

setValKeyOrIdx(j, k, to, createMissing) ==
    CASE IsObject(j) -> SetKey(j, k, to, createMissing)
      [] IsArray(j) /\ k \notin DOMAIN Atoi -> Error
      [] IsArray(j) /\ k \in DOMAIN Atoi -> SetIdx(j, Atoi[k], to, createMissing)
      [] isScalar(j) -> j

RECURSIVE deepSet(_, _, _, _)
deepSet(j, path, to, createMissing) ==
    IF path = <<>> THEN j
    ELSE IF Len(path) = 1 THEN setValKeyOrIdx(j, path[1], to, createMissing)
    ELSE LET fetched == FetchValKeyOrIdx(j, path[1])
             sub == deepSet(fetched, Tail(path), to, createMissing)
         IN  IF fetched = Nil THEN j
             ELSE IF sub = Error THEN Error
             ELSE setValKeyOrIdx(j, path[1], sub, createMissing)

DeepSet(j, path, to, createMissing) ==
    IF isScalar(j) THEN Error ELSE deepSet(j, path, to, createMissing)

(***************************************************************************)
(* The four mutations a direct UPDATE of a JSON column recognises:         *)
(* j || value, j - key, j - (jsonb_array_length(j) - 1) and                *)
(* jsonb_set(j, path, value, create).                                      *)
(***************************************************************************)
ConcatOp(v) == [kind |-> "concat", value |-> v]
DeleteKeyOp(k) == [kind |-> "deleteKey", key |-> k]
DeleteLastOp == [kind |-> "deleteLast"]
SetPathOp(p, v, c) == [kind |-> "setPath", path |-> p, value |-> v, createMissing |-> c]

HasOperand(op) == op.kind \in {"concat", "setPath"}

applyGenericSubordinateJSONMutation(current, op) ==
    CASE op.kind = "concat" -> Concat(current, op.value)
      [] op.kind = "deleteKey" -> RemoveString(current, op.key)
      [] op.kind = "deleteLast" ->
            IF IsArray(current) THEN RemoveIndex(current, Len(current.elems) - 1)
                                ELSE Error
      [] op.kind = "setPath" ->
            DeepSet(current, op.path, op.value, op.createMissing)
=============================================================================
