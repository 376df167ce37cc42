----------------------------- MODULE MCCompile -----------------------------
(* Small databases and query files for Compile: a family of cases for each
   question, a case being a database, a file and the statements in it. *)
EXTENDS Compile

Spaced(ws) == FlattenSeq([k \in DOMAIN ws |-> IF k = 1 THEN ws[k] ELSE <<" ">> \o ws[k]])
Commas(ws) == FlattenSeq([k \in DOMAIN ws |-> IF k = 1 THEN ws[k] ELSE <<",", " ">> \o ws[k]])
Paren(e)   == <<"(">> \o e \o <<")">>

-----------------------------------------------------------------------------
(* Databases: users, orgs, and the users of another schema. *)

T(kind, elem, base, labels) == [kind |-> kind, elem |-> elem, base |-> base, labels |-> labels]
DbTypes ==
  [int4   |-> T("base", NoType, NoType, <<>>),
   text   |-> T("base", NoType, NoType, <<>>),
   jsonb  |-> T("base", NoType, NoType, <<>>),
   point  |-> T("base", NoType, NoType, <<>>),
   email  |-> T("domain", NoType, "text", <<>>),
   login  |-> T("domain", NoType, "email", <<>>),
   nick   |-> T("domain", NoType, "login", <<>>),
   codes  |-> T("array", "code", NoType, <<>>),
   code   |-> T("domain", NoType, "int4", <<>>),
   points |-> T("array", "point", NoType, <<>>),
   state  |-> T("enum", NoType, NoType, <<"on", "row">>)]

Col(name, attnum, type, notnull) == [name |-> name, attnum |-> attnum, type |-> type, notnull |-> notnull]
Users(type, notnull) ==
  [schema |-> "public", name |-> "users", columns |-> <<Col("id", 1, "int4", TRUE), Col("data", 3, type, notnull)>>]
Orgs == [schema |-> "public", name |-> "orgs", columns |-> <<Col("oid", 1, "int4", TRUE), Col("title", 2, "text", TRUE)>>]
Other == [schema |-> "audit", name |-> "users", columns |-> <<Col("id", 1, "int4", TRUE), Col("title", 2, "text", TRUE)>>]

Db(users) == [types |-> DbTypes, tables |-> ("users" :> users @@ "orgs" :> Orgs @@ "audit" :> Other)]
Home    == Db(Users("jsonb", FALSE))
Typed   == [t \in DOMAIN DbTypes |-> Db(Users(t, TRUE))]
\* A table called new.
News == [Other EXCEPT !.schema = "public", !.name = "new"]
Newer == [Db(Users("state", TRUE)) EXCEPT !.tables = @ @@ "new" :> News]
Databases == "home" :> Home @@ "new" :> Newer @@ Typed
Dropped == [Home EXCEPT !.tables = "orgs" :> Orgs @@ "audit" :> Other]
Shallow == [Home EXCEPT !.types = [t \in {"int4", "text", "jsonb"} |-> DbTypes[t]]]
AllSchemas == {Dropped, Shallow} \cup Range(Databases)

-----------------------------------------------------------------------------
(* Statements. *)

Entry(text, ref, column, type, null) ==
  [text |-> text, out |-> [ref |-> ref, column |-> column, as |-> OwnName, type |-> type, null |-> null]]
From(ref, table, column) ==
  Entry(<<table, ".", IF column = "*" THEN "*" ELSE column>>, ref, column, NoType, FALSE)
As(item, name) == [text |-> item.text \o <<" ", "as", " ", name>>, out |-> [item.out EXCEPT !.as = name]]
Value(e, name) == Entry(e.text, 0, name, "text", e.null)

St(items, tail, from, params) ==
  [sql |-> <<"select", " ">> \o Commas([k \in DOMAIN items |-> items[k].text]) \o tail,
   out |-> [k \in DOMAIN items |-> items[k].out], from |-> from, params |-> params, means |-> {}, plain |-> TRUE]
Source(table, join) == [table |-> table, join |-> join]
Simple(items) == St(items, <<" ", "from", " ", "users">>, <<Source("users", "")>>, <<>>)

\* Files.
Line == [kind |-> "text", text |-> <<>>, name |-> <<>>, command |-> "",
         override |-> NoOverride, embed |-> [table |-> <<>>, as |-> <<>>]]
Note(kind) == [Line EXCEPT !.kind = kind, !.text = <<"--", " ", kind>>]
Head1(name, command) == [Note("header") EXCEPT !.name = name, !.command = command]
Over(column, param, named, go, null) == [Note("override") EXCEPT !.override = Override(column, param, named, go, null)]
OfColumn(column, go, null) == Over(column, 0, <<>>, go, null)
Named1(word) == [Note("param") EXCEPT !.name = word]
Embedded(table, as) == [Note("embed") EXCEPT !.embed = [table |-> table, as |-> as]]
Sql(text) == [Line EXCEPT !.text = text]

Query(name, command, notes, text) == <<Head1(name, command)>> \o notes \o <<Sql(text)>>
Get == <<"get", "it">>
\* A case: the file, and the name of the database it is compiled against.
Case(db, sts, lines) == [db |-> db, lines |-> lines, statements |-> sts]
Single(st, command, notes) == Case("home", {st}, Query(Get, command, notes, st.sql))

Mine == GoValue("Mine", {})

-----------------------------------------------------------------------------
(* Which expressions can be NULL. *)

E(text, null) == [text |-> text, null |-> null]
Quoted1(w)  == <<"'", w, "'">>
Constants1  == {E(Quoted1("x"), FALSE), E(<<"0">>, FALSE), E(<<"true">>, FALSE)}
Nullables   == {E(<<"null">>, TRUE), E(<<"data">>, TRUE)}
Atoms1      == Constants1 \cup Nullables
Targets1    == {E(<<"int">>, FALSE), E(<<"int", "[]">>, FALSE), E(<<"text", "(", "0", ")">>, FALSE), E(<<"mood">>, TRUE)}
Cast(e, t)  == E(e.text \o <<"::">> \o t.text, e.null \/ t.null)
Plus(e, f)  == E(e.text \o <<" ", "+", " ">> \o f.text, e.null \/ f.null)
Call(name, es) == <<name>> \o Paren(Commas([k \in DOMAIN es |-> es[k].text]))
Coalesce(e, f) == E(Call("coalesce", <<e, f>>), e.null /\ f.null)
Count(e)    == E(Call("count", <<e>>), FALSE)
Max1(e)     == E(Call("max", <<e>>), TRUE)

Casts     == {Cast(e, t) : e \in Atoms1, t \in Targets1}
Calls1    == {Coalesce(e, f) : e \in Nullables, f \in Atoms1 \cup Casts} \cup {Count(e) : e \in Atoms1}
             \cup {Max1(e) : e \in Constants1}
Sums      == {Plus(e, f) : e \in Atoms1 \cup Casts \cup Calls1, f \in Atoms1}
             \cup {Plus(Count(E(<<"0">>, FALSE)), Max1(f)) : f \in Constants1}
Wrapped   == {Coalesce(e, E(<<"0">>, FALSE)) : e \in Calls1} \cup {Max1(e) : e \in Calls1}
             \cup {Cast(e, t) : e \in Calls1, t \in Targets1}
             \cup {E(Paren(e.text), e.null) : e \in Atoms1 \cup Calls1}
Expressions == (Atoms1 \ {E(<<"data">>, TRUE)}) \cup Casts \cup Calls1 \cup Sums \cup Wrapped

Aliased(e) == {Value(e, "a"), Value([e EXCEPT !.text = @ \o <<" ", "as", " ", "a">>], "a"),
               Value([e EXCEPT !.text = @ \o <<" ", "a">>], "a")}
Expression == {Single(Simple(<<Value(e, "a")>>), "one", <<>>) : e \in Expressions}
              \cup {Single(Simple(<<item>>), "one", <<>>) :
                      item \in UNION {Aliased(e) : e \in Casts \cup Calls1}}

\* Lists that must line up with the columns, and those that do not.
Two == {Simple(<<Value(e, "a"), Value([f EXCEPT !.text = @ \o <<" ", "b">>], "b")>>) :
          e \in {E(<<"0">>, FALSE), E(<<"data", " ", "+", " ", "data">>, TRUE)},
          f \in {E(Quoted1(","), FALSE), E(Call("max", <<E(<<"0">>, FALSE), E(<<"0">>, FALSE)>>), TRUE), E(<<"null">>, TRUE)}}
Combined(st) ==
  [st EXCEPT !.sql = @ \o <<" ", "union", " ", "select", " ", "data", ",", " ", "data">>,
             !.out = [k \in DOMAIN st.out |-> [st.out[k] EXCEPT !.null = TRUE]]]
InParens(st) ==
  [Combined(st) EXCEPT !.sql = Paren(st.sql) \o SubSeq(@, Len(st.sql) + 1, Len(@)), !.plain = FALSE]
Distinct(st, on) == [st EXCEPT !.sql = <<"select", " ", "distinct", " ">> \o on \o Tail(Tail(@))]
WithStar(st) == [st EXCEPT !.sql = <<"select", " ", "users", ".", "*", ",">> \o Tail(@),
                           !.out = <<[ref |-> 1, column |-> "*", as |-> OwnName, type |-> NoType, null |-> FALSE]>> \o @]
Lists == Two \cup {Combined(st) : st \in Two} \cup {WithStar(st) : st \in Two}
         \cup {InParens(St(<<Value(E(<<"0">>, FALSE), "a"), Value(E(Quoted1("x"), FALSE), "b")>>, <<>>, <<>>, <<>>))}
         \cup {Distinct(st, on) : st \in Two, on \in {<<>>, <<"on", " ", "(", "id", ")", " ">>}}
ExpressionLists == {Single(st, "many", <<>>) : st \in Lists}

-----------------------------------------------------------------------------
(* Outer joins. *)

Ons == <<" ", "on", " ", "true">>
JoinForms ==
  {[kind |-> k, text |-> w, plain |-> TRUE] : k \in {"left", "right", "full"}, w \in {<<>>, <<"outer", " ">>}}
  \cup {[kind |-> "", text |-> <<>>, plain |-> TRUE], [kind |-> "left", text |-> <<"/*", "*/">>, plain |-> FALSE]}
JoinText(form) == (IF form.kind = "" THEN <<>> ELSE <<form.kind, " ">>) \o form.text \o <<"join", " ">>

\* users and orgs, joined once or twice: the second time orgs with itself or
\* with a list of its rows.
Joined(items, form, name) ==
  [St(items, <<" ", "from", " ", "users", " ">> \o JoinText(form) \o name \o Ons,
      <<Source("users", ""), Source("orgs", form.kind)>>, <<>>) EXCEPT !.plain = form.plain]
Thrice(items, form, second) ==
  [St(items, <<" ", "from", " ", "orgs", " ">> \o JoinText(form) \o <<"users">> \o Ons \o <<" ">> \o second.text \o Ons,
      <<Source("orgs", ""), Source("users", form.kind), Source("audit", second.kind)>>, <<>>)
   EXCEPT !.plain = form.plain /\ second.plain]
Seconds ==
  {[kind |-> k, text |-> <<k, " ", "join", " ", "audit", ".", "users">>, plain |-> TRUE] : k \in {"left", "right"}}
  \cup {[kind |-> "left", text |-> <<"left", " ", "join", " ", "(", "table", " ", "audit", ".", "users", ")">>, plain |-> FALSE]}
Rollup(items) ==
  [St(items, <<" ", "from", " ", "users", " ", "group", " ", "by", " ", "rollup", "(", "id", ")">>,
      <<Source("users", "rollup")>>, <<>>) EXCEPT !.plain = FALSE]

Id == From(1, "users", "id")
Both == {<<Id, From(2, "orgs", "oid")>>, <<From(2, "orgs", "oid")>>, <<From(2, "orgs", "*")>>,
         <<From(1, "users", "*"), From(2, "orgs", "*")>>}
Spoken1 == {<<>>, <<OfColumn("oid", NoGo, "nullable")>>, <<OfColumn("oid", NoGo, "notnull")>>, <<OfColumn("oid", Mine, "")>>}

Join ==
  {Single(Joined(items, form, name), "many", notes) :
     items \in Both, form \in JoinForms, name \in {<<"orgs">>, <<"public", ".", "orgs">>}, notes \in Spoken1}
  \cup {Single(Thrice(<<From(1, "orgs", "oid"), From(2, "users", "id"), From(3, "audit", "title")>>, form, second), "many", notes) :
          form \in JoinForms, second \in Seconds, notes \in Spoken1}
  \cup {Single(Rollup(<<Id>>), "many", <<>>)}

-----------------------------------------------------------------------------
(* The struct of a table, its embeds and the overrides. *)

Data == From(1, "users", "data")
Columns == {<<From(1, "users", "*")>>, <<Id, Data>>, <<Data, Id>>, <<Id, Id>>, <<Id>>,
            <<As(Id, "data"), As(Data, "id")>>, <<Id, As(Data, "a")>>, <<As(Id, "id"), Data>>}
Notes == {<<>>} \cup {<<OfColumn(c, go, null)>> : c \in {"id", "data"}, <<go, null>> \in {NoGo} \X {"notnull", "nullable"} \cup {<<Mine, "">>}}
Model ==
  {Single(Simple(items), "one", notes) : items \in Columns, notes \in Notes}
  \cup {LET s1 == Simple(i1) s2 == Simple(i2)
        IN  Case("home", {s1, s2}, Query(Get, "one", n1, s1.sql) \o Query(<<"list">>, "many", <<>>, s2.sql)) :
          i1 \in Columns, i2 \in Columns, n1 \in Notes}

Swapped(items) == Joined(items, [kind |-> "left", text |-> <<>>, plain |-> TRUE], <<"orgs">>)
Runs == {<<From(1, "users", "*"), From(2, "orgs", "*")>>, <<From(2, "orgs", "*"), From(1, "users", "*")>>,
         <<Data, Id, From(2, "orgs", "title")>>, <<From(1, "users", "*"), From(1, "users", "*")>>,
         <<As(Id, "data"), As(Data, "id"), From(2, "orgs", "title")>>}
Embed ==
  {Single(Swapped(items), "many", embeds \o notes) : items \in Runs, notes \in {<<>>, <<OfColumn("id", NoGo, "nullable")>>},
     embeds \in {<<>>} \cup {<<Embedded(t, <<>>)>> : t \in {<<"users">>, <<"public", "users">>, <<"orgs">>, <<"nobody">>}}
                \cup {<<Embedded(<<"users">>, <<>>), Embedded(t, as)>> : t \in {<<"users">>, <<"orgs">>}, as \in {<<>>, <<"the", "other">>}}}

-----------------------------------------------------------------------------
(* Types, and a schema that changes meanwhile. *)

Type1 == {Case(db, {st}, Query(Get, "one", notes, st.sql)) :
           db \in DOMAIN DbTypes, st \in {Simple(<<From(1, "users", "*")>>), Simple(<<From(1, "users", "data")>>)},
           notes \in {<<>>, <<OfColumn("data", NoGo, "nullable")>>}}
Changing == {c \in Type1 : c.db \in {"login", "state", "codes", "jsonb"}}

-----------------------------------------------------------------------------
(* Parameters, and the names of everything. *)

\* ... where id = <the first of them> and id = <the second> ...
Where(operands) ==
  <<" ", "from", " ", "users", " ", "where", " ">>
  \o FlattenSeq([k \in DOMAIN operands |->
       (IF k = 1 THEN <<>> ELSE <<" ", "and", " ">>) \o <<"id", " ", "=", " ">> \o operands[k]])
Placed(items, numbers, type) ==
  LET n == Cardinality(ToSet(numbers))
  IN  [St(items, Where([k \in DOMAIN numbers |-> <<Numbered[numbers[k]]>>]), <<Source("users", "")>>, [k \in 1..n |-> type])
       EXCEPT !.means = {<<k, <<"id">>>> : k \in 1..n}]
Parameter ==
  {Case("home", {Placed(<<Id>>, IF names[1] = names[2] THEN <<1, 1>> ELSE <<1, 2>>, type)},
        Query(Get, "many", notes, <<"select", " ">> \o Id.text \o Where([k \in 1..2 |-> <<"@", names[k]>>]))) :
     names \in {"a", "b"} \X {"a", "b"}, type \in {"int4", "code"},
     notes \in {<<>>} \cup {<<Over("", 0, <<n>>, Mine, "")>> : n \in {"a", "b"}}
               \cup {<<Over("", 0, <<n>>, Mine, ""), Over("", 0, <<m>>, NoGo, "notnull")>> : n, m \in {"a", "b"}}
               \cup {<<Over("", 1, <<>>, NoGo, null), Over("", 0, <<"a">>, Mine, "")>> : null \in {"notnull", "nullable"}}
               \cup {<<Over("", 2, <<>>, Mine, "")>>, <<Named1(<<"a">>)>>}}

ParamWords == {<<"id">>, <<"yield">>, <<"zero">>, <<"v">>, <<"u">>, <<"r">>, <<"rows">>, <<"type">>, <<"find">>,
               <<"string">>, <<"int32", "array">>}
Shapes1 == {<<From(1, "users", "data")>>, <<Id>>, <<From(1, "users", "*")>>, <<From(1, "users", "data"), Value(E(<<"0", " ", "a">>, FALSE), "a")>>}
Naming ==
  {LET st == Placed(items, [k \in DOMAIN names |-> k], type)
   IN  Case(db, {st}, Query(name, command, [k \in DOMAIN names |-> Named1(names[k])], st.sql)) :
     db \in {"home", "codes"}, items \in Shapes1, type \in {"int4", "codes"}, command \in {"one", "many", "iter", "execrows"},
     name \in {<<"find">>, <<"zero">>, <<"list", "users">>, <<"list", "append">>},
     names \in {<<>>} \cup {<<a>> : a \in ParamWords} \cup {<<a, <<"id">> >> : a \in {<<"id">>, <<"find">>}}
               \cup {<<<<"id">>, <<"id">>, <<"v">>, <<"u">> >>, <<<<"id">>, <<"v">>, <<"u">>, <<"zero">> >>}}

\* Parameters nobody named: a condition or a value is a piece of text and
\* what it means, comments and strings around it mean nothing.
Piece(text, means) == [text |-> text, means |-> means]
Conditions(c, n) ==
  LET p == Numbered[n]
      of(text) == Piece(text, {<<n, <<c>>>>})
  IN  {of(<<c, " ", "=", " ", p>>), of(<<p, "<", "=", c>>), of(<<"users", ".", c, " ", "like", " ", p>>),
       of(<<"\"", c, "\"", " ", "=", p>>), of(<<c, " ", "in", " ", "(", p, ",", " ", "0", ")">>),
       of(<<c, "=", "any", "(", p, ")">>), of(<<p, "=", "any", "(", c, ")">>),
       of(<<c, " ", "between", " ", p, " ", "and", " ", "0">>), of(<<c, "::", "text", "=", p>>),
       Piece(<<"lower", "(", c, ")", " ", "=", " ", p>>, {}), Piece(<<"0", " ", "+", " ", c, " ", "=", " ", p>>, {})}
Around == {<<>>, <<"--", "data", "=", "$1", "\n">>, <<"/*", "'", "(", "*/">>, <<"'", "id", "=", "$2", "'", "<", "data", " ", "and", " ">>}

Conditional(first, around, second) ==
  [St(<<Id>>, <<" ", "from", " ", "users", " ", "where", " ">> \o first.text \o <<" ", "and", " ">> \o around
              \o second.text \o <<" ", "limit", " ", "$3">>, <<Source("users", "")>>, <<"int4", "int4", "int4">>)
   EXCEPT !.means = first.means \cup second.means \cup {<<3, <<"limit">>>>}]

\* The values of a row, for a column and the parameter n.
Values1(c, n) ==
  LET p == Numbered[n]
  IN  {Piece(text, {<<n, <<c>>>>}) :
         text \in {<<p>>, <<"(", p, ")">>, <<p, "::", "int">>, <<"coalesce", "(", p, ",", "0", ")">>,
                   <<"(", "0", ",", p, ",", "0", ")">>, <<"/*", ",", "*/", p>>}}
Listed == {<<"id", ",", " ", "data">>, <<"\"", "id", "\"", ",", "data">>, <<"id", ".", "x", ",", "data">>}
Insert(listed, first, second) ==
  [sql |-> <<"insert", " ", "into", " ", "users", " ", "(">> \o listed \o <<")", " ", "values", " ", "(">>
           \o first.text \o <<",", " ">> \o second.text \o <<")">>,
   out |-> <<>>, from |-> <<Source("users", "")>>, params |-> <<"int4", "int4">>,
   means |-> first.means \cup second.means, plain |-> TRUE]
\* The rows are swapped on the way in.
Crossed ==
  [Insert(<<"id", ",", "data">>, Piece(<<>>, {}), Piece(<<>>, {})) EXCEPT
     !.sql = <<"insert", " ", "into", " ", "users", "(", "id", ",", "data", ")", " ", "select", " ", "data", ",", "id", " ", "from",
               "(", "values", " ", "(", "$1", ",", "$2", ")", ")", "as", " ", "v", "(", "id", ",", "data", ")">>,
     !.means = {<<1, <<"data">>>>, <<2, <<"id">>>>}]

Inferred ==
  {Single(Conditional(first, around, second), "many", <<>>) :
     first \in UNION {Conditions(c, 1) : c \in {"id", "data"}}, around \in Around,
     second \in UNION {Conditions("data", n) : n \in {1, 2}}}
  \cup {Single(Insert(listed, first, second), "exec", <<>>) :
          listed \in Listed, first \in Values1("id", 1) \cup Values1("id", 2), second \in Values1("data", 2)}
  \cup {Single(Crossed, "exec", <<>>)}

\* Headers, prose and annotations where they do and do not count, and names
\* that collide.
IdOnly == Simple(<<Id>>)
Annotated == [IdOnly EXCEPT !.sql = <<"select", "\n", "--", " ", "override", "\n">> \o Tail(Tail(@))]
Layouts ==
  {Case("home", {IdOnly, Annotated}, lines) :
     lines \in {<<Note("prose"), Sql(<<>>)>> \o Query(Get, "one", <<Sql(<<>>), Note("doc")>>, IdOnly.sql \o <<";">>) \o <<Sql(<<>>), Note("prose")>>,
                Query(Get, "one", <<>>, IdOnly.sql) \o <<OfColumn("id", Mine, "")>>,
                <<Head1(Get, "one"), Sql(<<"select">>), OfColumn("id", Mine, ""), Sql(Tail(Tail(IdOnly.sql)))>>,
                Query(Get, "fetch", <<>>, IdOnly.sql), <<Head1(Get, "one")>>, <<Sql(IdOnly.sql)>>,
                Query(Get, "one", <<>>, IdOnly.sql) \o Query(Get, "many", <<>>, IdOnly.sql)}}
Pair == Simple(<<Id, Value(E(<<"0", " ", "a">>, FALSE), "a")>>)
FromTable(t) == St(<<From(1, t, "*")>>, <<" ", "from", " ", t>>, <<Source(t, "")>>, <<>>)
Collision ==
  {Case(db, {FromTable(t), FromTable("users"), Pair},
        Query(name, "many", <<>>, Pair.sql) \o Query(<<"list">>, "many", <<>>, FromTable(t).sql)
        \o Query(<<"all">>, "many", <<>>, FromTable("users").sql)) :
     <<db, t>> \in {<<"state", "orgs">>, <<"state", "audit">>, <<"new", "new">>},
     name \in {<<"get">>, <<"state">>, <<"users">>, <<"a">>}}

-----------------------------------------------------------------------------
AllFiles == UNION {Expression, ExpressionLists, Join, Model, Embed, Type1, Parameter, Naming, Inferred, Layouts, Collision}

AllWords == [w \in {"id", "data", "oid", "title", "a", "b", "users", "orgs", "state", "new", "on", "row", "?column?"} |->
               CASE w = "oid" -> <<"o", "id">> [] OTHER -> <<w>>]
AllRenames == <<"orgs">> :> <<"state", "row">> @@ <<"audit", "users">> :> <<"a", "row">>
AllMapped == "email" :> GoValue("mail.Address", {<<"mail">>})
             @@ "code" :> [GoValue("*code.Number", {<<"code">>}) EXCEPT !.form = "pointer"]
FirstLetters ==
  [w \in {"users", "state", "new", "a"} |->
     CASE w = "users" -> "u" [] w = "state" -> "s" [] w = "new" -> "n" [] OTHER -> "a"]

MCInit == InitCompile /\ schema = Databases[file.db]
MCNext == Steps \/ (file \in Changing /\ changes = 0 /\ schema = Databases[file.db] /\ SchemaChanges)
MCSpec == MCInit /\ [][MCNext]_vars
=============================================================================
