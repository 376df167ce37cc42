------------------------------ MODULE MCSplit ------------------------------
(* Every text of up to the given number of atoms over the alphabets that can
   interact: strings with dollar quotes, comments with statements, the body
   of a routine, the commands of a transaction, and placeholders among them. *)
EXTENDS Split, Named

CONSTANTS QuoteLength, CommentLength, RoutineLength, ControlLength, NameLength, ParenLength

Words(alphabet, n) == UNION {[1..k -> alphabet] : k \in 0..n}

Heads ==
  {<<"create", " ", "function", " ">>,
   <<"create", " ", "or", " ", "replace", "\n", "function", " ">>,
   <<"create", " ", "or", " ", "function", " ">>}

Heads1 == <<"create", " ", "function", " ">>

PlaceholderTexts ==
  UNION {{h \o w : h \in {<<>>, <<"e", "'">>}, w \in Words({"'", "e", "\\", "$", "@", "a"}, NameLength)},
         {h \o w : h \in {<<>>, <<"/*">>}, w \in Words({"--", "\n", "/*", "*/", "@", "a"}, NameLength)},
         Words({" ", "<", "@", "a", "b", "\""}, NameLength),
         {FlattenSeq(w) : w \in Words({<<"@", "a", " ">>, <<"@", "b", ",">>, <<"'">>}, NameLength)}}

AllTexts ==
  UNION {Words({"'", "\"", "\\", "e", "$", ";"}, QuoteLength),
         Words({"--", "\n", "/*", "*/", "'", ";", "commit"}, CommentLength),
         {h \o w : h \in Heads, w \in Words({" ", "begin", "case", "end", ";"}, RoutineLength)},
         Words({" ", "--", "\n", "/*", "*/", "start", "transaction", "$"}, ControlLength),
         {h \o w : h \in {<<"a">>, Heads1}, w \in Words({"(", ")", "begin", "case", "end", ";"}, ParenLength)},
         Words({" ", ";", "rollback", "to", "prepare", "transaction", "commit"}, ControlLength),
         PlaceholderTexts}

\* A query gets the numbers its @names call for, by first appearance, and
\* nothing else of it is touched: not what looks like a name in a string, a
\* quoted identifier, a comment or a dollar quote, whose ends rewriteNamed
\* must find where the server does.
NumbersAsNamed ==
  Done /\ Contains(sql, "@") =>
    ReadApart(sql) \/ Unfinished(sql) \/ RewriteNamed(sql).text = Expected(sql)
=============================================================================
