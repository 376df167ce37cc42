----------------------------- MODULE MCGenerate -----------------------------
(* Two query files, schemas that differ in what a query, a table or an enum
   tells, and a directory generated earlier, perhaps from other queries. *)
EXTENDS Generate, TLC

CONSTANTS p1, p2,
  list, listMany,  \* one SQL, two headers; its rows are whole
  count,           \* another
  old, column, label  \* schemas: the first, one column more, one enum label more

Symmetry == Permutations(Procs)

SqlOf(t) == IF t = listMany THEN list ELSE t
ShapeOf(sql, s) == IF sql = list /\ s = column THEN 2 ELSE 1
TablesOf(s) == IF s = column THEN 2 ELSE 1
TypesOf(s)  == IF s = label THEN 2 ELSE 1

Queries(a, b) == [f \in Files |-> IF f = 2 THEN a ELSE b]

\* The answers of a schema that did not change meanwhile.
Answers(src, s) ==
  [shape |-> [f \in Files |-> IF src[f] = None THEN None ELSE ShapeOf(SqlOf(src[f]), s)],
   tables |-> TablesOf(s), types |-> TypesOf(s)]

\* A tree whose package and record are those of an earlier run.
Tree(now, s, was, t, d) ==
  [queries |-> now, schema |-> s, migrations |-> 1,
   pkg |-> [Build(was, Answers(was, t)) EXCEPT ![Other] = Hand],
   lock |-> Of(was, Answers(was, t), d)]

NewTree(q) ==
  [queries |-> q, schema |-> old, migrations |-> 1,
   pkg |-> [n \in Names |-> IF n = Other THEN Hand ELSE None], lock |-> None]

Trees ==
  {NewTree(Queries(list, count)),
   Tree(Queries(list, count), old, Queries(list, count), old, 1),
   Tree(Queries(None, list), column, Queries(list, None), old, 1),
   Tree(Queries(listMany, None), label, Queries(list, count), old, 2)}

\* A file written by hand where the query file will be generated to.
HandWrittenTrees == {[NewTree(Queries(list, None)) EXCEPT !.pkg[2] = Hand]}

AllCommands == [op : {"generate", "check", "verify"}, url : BOOLEAN]
=============================================================================
