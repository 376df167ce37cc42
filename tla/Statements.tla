----------------------------- MODULE Statements -----------------------------
(***************************************************************************)
(* The server's side of a description, the reference Compile is checked    *)
(* against: a statement is known by its text; what the server says of its  *)
(* columns and parameters, and which columns can be NULL, follows from     *)
(* what was put into it.                                                   *)
(***************************************************************************)
EXTENDS Catalog, NotNull

CONSTANT NoTable   \* where an expression comes from

\* sql: the text; out: the output list; from: the tables, each with the join
\* that brings it in; params: their types; means: the pairs of a parameter and
\* a column it is compared with or stored in; plain: whether the joins and the
\* list are written the way pgc's patterns expect them.  An output is a column
\* of a table of from, under its own name or another one (as), all of them
\* ("*"), or (ref = 0) an expression.
OwnName == ""
Output == [ref : Nat, column : STRING, as : STRING, type : TypeIds \cup {NoType}, null : BOOLEAN]

\* Of the statements there are, the one with a text.
StatementsOf(sts, text) == {st \in sts : st.sql = text}
StatementOf(sts, text)  == CHOOSE st \in sts : st.sql = text

TableOf(st, o) == IF o.ref = 0 THEN NoTable ELSE st.from[o.ref].table

\* "*" stands for every column of its table, in attnum order.
AllOf(s, st, o) ==
  LET columns == s.tables[TableOf(st, o)].columns
  IN  [k \in DOMAIN columns |-> [o EXCEPT !.column = columns[k].name]]

Outputs(s, st) ==
  FlattenSeq([k \in DOMAIN st.out |-> IF st.out[k].column = "*" THEN AllOf(s, st, st.out[k])
                                                                ELSE <<st.out[k]>>])

\* A statement about a table or a column that is not there is refused.
Valid(s, st) ==
  /\ \A r \in DOMAIN st.from : st.from[r].table \in DOMAIN s.tables
  /\ {st.params[n] : n \in DOMAIN st.params} \subseteq DOMAIN s.types
  /\ \A k \in DOMAIN st.out :
       LET o == st.out[k]
       IN  IF o.ref = 0 THEN o.type \in DOMAIN s.types
           ELSE o.column = "*" \/ \E c \in ToSet(s.tables[TableOf(st, o)].columns) : c.name = o.column

ColumnOf(s, st, o) ==
  CHOOSE c \in ToSet(s.tables[TableOf(st, o)].columns) : c.name = o.column

\* A result column of a domain is described with the type below it.
BelowDomains(s, type) ==
  LET below[n \in 0..Cardinality(TypeIds)] ==
        IF n = 0 THEN type
        ELSE LET last == below[n - 1]
             IN  IF s.types[last].kind = "domain" THEN s.types[last].base ELSE last
  IN  below[Cardinality(TypeIds)]

\* What Describe brings: the parameters, and for each column its name, its
\* table, its attnum and its type.
Answer(s, st) ==
  LET column(o) ==
        IF o.ref = 0 THEN [name |-> o.column, table |-> NoTable, attnum |-> 0, type |-> o.type]
        ELSE LET c == ColumnOf(s, st, o)
             IN  [name |-> IF o.as = OwnName THEN c.name ELSE o.as, table |-> TableOf(st, o), attnum |-> c.attnum,
                  type |-> BelowDomains(s, c.type)]
      outs == Outputs(s, st)
  IN  [params |-> st.params, columns |-> [k \in DOMAIN outs |-> column(outs[k])]]

\* The joins that can leave the columns of a table of from without a row; a
\* ROLLUP does it too.
Nulled(st, ref) ==
  \/ st.from[ref].join \in {"left", "full", "rollup"}
  \/ \E later \in (ref + 1)..Len(st.from) : st.from[later].join \in {"right", "full"}

CanBeNull(s, st, k) ==
  LET o == Outputs(s, st)[k]
  IN  IF o.ref = 0 THEN o.null ELSE Nulled(st, o.ref) \/ ~ColumnOf(s, st, o).notnull
=============================================================================
