------------------------------ MODULE QueryFile ------------------------------
(***************************************************************************)
(* How a query file becomes queries (src/internal/queryfile/queryfile.go): *)
(* ParseFile reads it line by line, a header opens a query and closes the  *)
(* one before it, annotations stand between the header and the statement.  *)
(***************************************************************************)
EXTENDS NotNull

\* A line has a kind ("header", "override", "param", "embed" or "text"), the
\* text it has as a part of a statement, and what it says.  An override is for
\* a column, for $param or for @named, and gives a Go type, a nullability or
\* both.
NoGo == [expr |-> "", form |-> "none", uses |-> {}, helper |-> <<>>]
Override(column, param, named, go, null) ==
  [column |-> column, param |-> param, named |-> named, go |-> go, null |-> null]

Commands == {"one", "many", "iter", "exec", "execrows"}

NoQuery == [name |-> <<>>, command |-> "", overrides |-> <<>>, names |-> <<>>,
            embeds |-> <<>>, sql |-> <<>>]
Unread  == [queries |-> <<>>, cur |-> NoQuery, inBody |-> FALSE, body |-> <<>>, failed |-> FALSE]

Fails(r) == [r EXCEPT !.failed = TRUE]

-----------------------------------------------------------------------------
(* The end of a query. *)

\* The blank lines and the comments after the last line with SQL are no part
\* of the statement.
DropTrailingComments(body) ==
  LET solid == {k \in DOMAIN body : Trim(body[k]) # <<>> /\ Starts(Trim(body[k])) # "--"}
  IN  IF solid = {} THEN <<>> ELSE SubSeq(body, 1, Max(solid))

JoinLines(lines) == FoldLeft(LAMBDA sql, line : sql \o line \o <<"\n">>, <<>>, lines)

Statement(body) ==
  LET sql == Trim(JoinLines(DropTrailingComments(body)))
  IN  IF Ends(sql) = ";" THEN Trim(Front(sql)) ELSE sql

\* Mutant: an override gets the number of its own place.
OwnPlace(names, overrides, k) == k

\* The number of the parameter an override names.
NumberOf(names, overrides, k) == CHOOSE n \in 1..Len(names) : names[n] = overrides[k].named

\* @name placeholders become numbers, in the statement and in the overrides;
\* the two styles do not mix.
NumberedAs(q, rewritten) ==
  LET names       == rewritten.names
      named       == {k \in DOMAIN q.overrides : q.overrides[k].named # <<>>}
      known       == \A k \in named : Contains(names, q.overrides[k].named)
      numbered(k) == IF k \in named
                     THEN [q.overrides[k] EXCEPT !.named = <<>>,
                                                 !.param = NumberOf(names, q.overrides, k)]
                     ELSE q.overrides[k]
  IN  IF names = <<>> THEN [ok |-> named = {}, query |-> q]
      ELSE IF rewritten.refused \/ q.names # <<>> \/ ~known THEN [ok |-> FALSE, query |-> q]
      ELSE [ok |-> TRUE,
            query |-> [q EXCEPT !.sql = rewritten.text, !.names = names,
                                !.overrides = [k \in DOMAIN q.overrides |-> numbered(k)]]]

ResolveNamed(q) == NumberedAs(q, RewriteNamed(q.sql))

\* The query is done, unless it has no statement.
QueryRead(r, resolved) ==
  IF resolved.query.sql = <<>> \/ ~resolved.ok THEN Fails(r)
  ELSE [r EXCEPT !.queries = Append(@, resolved.query), !.cur = NoQuery, !.body = <<>>]

Flush(r) ==
  IF r.cur = NoQuery THEN r ELSE QueryRead(r, ResolveNamed([r.cur EXCEPT !.sql = Statement(r.body)]))

-----------------------------------------------------------------------------
(* The lines. *)

NewQuery(flushed, line) ==
  [flushed EXCEPT !.cur = [NoQuery EXCEPT !.name = line.name, !.command = line.command],
                  !.inBody = FALSE, !.failed = @ \/ line.command \notin Commands]

Header(r, line) == NewQuery(Flush(r), line)

\* Once the statement has begun, a comment is a part of it.
Annotates(r) == ~r.inBody

\* Parameters named by annotations are a prefix here, in order (ParamNames is
\* a map in the code).
Annotation(r, line) ==
  CASE line.kind = "override" -> [r EXCEPT !.cur.overrides = Append(@, line.override)]
    [] line.kind = "param"    -> [r EXCEPT !.cur.names = Append(@, line.name)]
    [] line.kind = "embed"    -> [r EXCEPT !.cur.embeds = Append(@, line.embed)]
    [] OTHER                  -> r

ReadLine(r, line) ==
  IF r.failed THEN r
  ELSE IF line.kind = "header" THEN Header(r, line)
  ELSE IF r.cur = NoQuery THEN r
  ELSE IF Annotates(r) /\ Starts(Trim(line.text)) = "--" THEN Annotation(r, line)
  ELSE IF Annotates(r) /\ Trim(line.text) = <<>> THEN r
  ELSE [r EXCEPT !.inBody = TRUE, !.body = Append(@, line.text)]

AtEnd(read) == IF read.failed THEN read ELSE Flush(read)

Distinctly(end) ==
  LET qs == end.queries
  IN  [ok |-> /\ ~end.failed /\ qs # <<>>
              /\ \A i, j \in DOMAIN qs : i # j => qs[i].name # qs[j].name,
       queries |-> qs]

\* The queries of a file, none of them named twice.
ParseFile(lines) ==
  LET read[k \in 0..Len(lines)] == IF k = 0 THEN Unread ELSE ReadLine(read[k - 1], lines[k])
  IN  Distinctly(AtEnd(read[Len(lines)]))
=============================================================================
