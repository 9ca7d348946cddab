------------------------- MODULE MCSubordinateJson -------------------------
(***************************************************************************)
(* Small documents and the mutations whose cases differ: a key that is     *)
(* there or not, with children or without; an index inside the array, at   *)
(* its end, or negative; a path through an object, an array and a scalar.  *)
(***************************************************************************)
EXTENDS SubordinateJson

One == [num |-> 1]
Str == [str |-> "a"]
Obj(k, v) == Object(k :> v)
Inner == Obj("b", One)

MCAtoi == [s \in {"0", "1", "-1"} |->
              CASE s = "0" -> 0 [] s = "1" -> 1 [] s = "-1" -> -1]

MCDocuments == {One, Obj("a", Inner), Array(<<Str, One>>), Array(<<Inner>>)}

Operands == {One, Obj("a", Inner), Obj("b", One), Array(<<Inner>>)}

MCMutations ==
    {ConcatOp(v) : v \in Operands}
        \cup {SetPathOp(p, One, TRUE) : p \in {<<>>, <<"a">>, <<"1">>, <<"-1">>,
                                               <<"-1", "b">>, <<"a", "b">>}}
        \cup {SetPathOp(p, Inner, TRUE) : p \in {<<"a">>, <<"0", "b">>}}
        \cup {SetPathOp(p, One, FALSE) : p \in {<<"b">>, <<"0", "a">>, <<"1", "b">>}}
        \cup {DeleteKeyOp("a"), DeleteKeyOp("b"), DeleteLastOp}
=============================================================================
