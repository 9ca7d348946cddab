----------------------------- MODULE JsonColumn -----------------------------
(***************************************************************************)
(* What SQL promises of the JSON column of one row: a single value that    *)
(* INSERT, UPSERT and UPDATE ... SET j = d replace, that DELETE removes    *)
(* with its row, and that UPDATE ... SET j = <expression of j> replaces by *)
(* what the expression evaluates to: NULL when j or the operand is NULL,   *)
(* an error and no change when the expression fails.                       *)
(***************************************************************************)
EXTENDS JsonValue

CONSTANTS Documents,   \* JSON documents that statements write whole
          Mutations,   \* mutations that statements apply to j
          Null,        \* SQL NULL
          Absent       \* no row

VARIABLES value,       \* a document, Null or Absent
          outcome,     \* "ok" or "error": what the last statement reported
          nullable     \* whether the column lacks NOT NULL

vars == <<value, outcome, nullable>>

\* The datums a statement may store whole.
Datums == Documents \cup (IF nullable THEN {Null} ELSE {})

\* INSERT of a row that is there is a duplicate key error.
Insert(d) ==
    /\ value' = (IF value = Absent THEN d ELSE value)
    /\ outcome' = (IF value = Absent THEN "ok" ELSE "error")

Upsert(d) ==
    /\ value' = d
    /\ outcome' = "ok"

Update(d) ==
    /\ value /= Absent
    /\ value' = d
    /\ outcome' = "ok"

UpdateOther ==
    /\ value /= Absent
    /\ outcome' = "ok"
    /\ UNCHANGED value

Mutate(op) ==
    LET next == IF value = Null THEN Null
                ELSE applyGenericSubordinateJSONMutation(value, op)
    IN  /\ value /= Absent
        /\ value' = (IF next = Error THEN value ELSE next)
        /\ outcome' = (IF next = Error THEN "error" ELSE "ok")

\* The operand of || or of jsonb_set is NULL.
MutateNull ==
    /\ value /= Absent
    /\ value' = (IF nullable THEN Null ELSE value)
    /\ outcome' = (IF nullable THEN "ok" ELSE "error")

Delete ==
    /\ value /= Absent
    /\ value' = Absent
    /\ outcome' = "ok"

Init == value = Absent /\ outcome = "ok" /\ nullable \in BOOLEAN

Statement ==
    \/ \E d \in Datums : Insert(d) \/ Upsert(d) \/ Update(d)
    \/ UpdateOther
    \/ \E op \in Mutations : Mutate(op)
    \/ MutateNull
    \/ Delete

Next == Statement /\ UNCHANGED nullable

Spec == Init /\ [][Next]_vars
=============================================================================
