----------------------------- MODULE MCKeyOrder -----------------------------
EXTENDS KeyOrder, TLC

\* Two rows of table 104, one of which has a string in its key, and the same
\* row of an actor.
Pks == {<<240, 137, 137>>,
        <<240, 137>> \o EncodeBytesAscending(<<97, 0>>),
        <<251, 0, 255, 240, 137, 137>>}

\* Tables have one row group: family 0 is a row's sentinel, family 1 only ends
\* the span of its subordinate values.
Families(pks, fams) == [pk : pks, sub : {FALSE}, fam : fams, col : {0}, path : {<<>>}]
Subs(pks, cols, paths) == [pk : pks, sub : {TRUE}, fam : {0}, col : cols, path : paths]

\* Array elements around the widths of an index, and the nodes of a JSON value
\* whose object keys are prefixes of each other or hold a zero byte.
Elements == {<<ArrayIndex(i)>> : i \in {0, 1, 109, 110, 255, 256}}
Names == {<<>>, <<97>>, <<97, 0>>, <<97, 0, 1>>, <<98>>}
Nodes == {<<Header>>}
         \cup {<<Header, ObjectKey(k)>> : k \in Names}
         \cup {<<Header, ObjectKey(<<97>>), s>> :
                  s \in {ArrayIndex(0), ArrayIndex(110), ObjectKey(<<0>>)}}
         \cup {<<Header, ArrayIndex(i)>> : i \in {0, 110}}

\* A path of three object keys: the suffix of its subordinate key has 16 bytes
\* besides the names. With 31 bytes in the last one the suffix is the longest
\* whose length takes one byte, with 32 the shortest whose length takes two.
LongName(n) == ObjectKey([i \in 1..n |-> 120])
LongPath(n) == <<Header, LongName(31), LongName(31), LongName(n)>>

\* The longest suffix that takes one byte is among them.
ShortEntries ==
    Families(Pks, {0, 1}) \cup Subs(Pks, {1, 2, 110}, Elements)
                          \cup Subs(Pks, {3}, Nodes \cup {LongPath(31)})

\* The row of every one of them can be found in its key.
ASSUME Entries = ShortEntries => ShortSuffixes

LongEntries ==
    Families(Pks, {0, 1}) \cup Subs(Pks, {3}, Nodes \cup {LongPath(31), LongPath(32)})
=============================================================================
