-------------------------------- MODULE Emit --------------------------------
(***************************************************************************)
(* The identifiers of a generated method (src/internal/gen: emitQuery and  *)
(* naming.go).  A lower-camel identifier is the sequence of its words, each*)
(* underscore that unique appends one more; exported ones cannot be hidden *)
(* by anything in a method and are left out.  A method is the sequence of  *)
(* its declarations and uses, in the order of the text.                    *)
(***************************************************************************)
EXTENDS Integers, Sequences, SequencesExt, FiniteSets

CONSTANT Initial   \* the first letter of each word

Keywords    == {<<"type">>, <<"range">>}
BodyIdents  == {<<"q">>, <<"ctx">>, <<"row">>, <<"rows">>, <<"res">>, <<"err">>, <<"arg">>}
Predeclared == {<<"int32">>, <<"string">>, <<"byte">>, <<"error">>, <<"bool">>, <<"nil">>, <<"append">>}
Verbs       == {"list", "get"}

\* unique: underscores until the name is free.
Unique(name, taken) ==
  LET longer[n \in 0..Cardinality(taken)] == IF n = 0 THEN name ELSE Append(longer[n - 1], "_")
      free == {n \in 0..Cardinality(taken) : longer[n] \notin taken}
  IN  longer[CHOOSE n \in free : \A m \in free : n <= m]

\* A query takes its arguments as a struct from four on.
UsesParamStruct(q) == Len(q.params) >= 4

ParamName(name) ==
  IF name = <<>> THEN <<"arg">>
  ELSE IF name \in Keywords \cup BodyIdents THEN Append(name, "_") ELSE name

\* Mutant: the constant with the SQL is not one of them.
Declared(q) == BodyIdents \cup Predeclared

\* What the method refers to, whatever its parameters are called.
Reserved(q) ==
  UNION {{q.name}, BodyIdents, Predeclared, {<<"context">>, <<"iter">>},
         q.ret.go.uses, {q.ret.go.helper},
         UNION {q.params[n].go.uses \cup {q.params[n].go.helper} : n \in DOMAIN q.params}}

ParamNames(q) ==
  LET pick(names, p) == Append(names, Unique(ParamName(p.name), Reserved(q) \cup ToSet(names)))
  IN  FoldLeft(pick, <<>>, q.params)

\* The names the body declares itself: each row, ...
ItemVar(q) ==
  LET name == CASE q.ret.kind = "model" -> <<Initial[q.ret.type[1]]>>
                [] q.ret.kind = "row"   -> <<"r">>
                [] OTHER                -> <<"v">>
  IN  Unique(name, BodyIdents \cup ToSet(ParamNames(q)))

\* ... the rows (ListUsers collects into users) ...
SliceVar(q) ==
  LET rest == IF Len(q.name) > 1 /\ q.name[1] \in Verbs THEN Tail(q.name) ELSE q.name
  IN  Unique(IF rest \in Keywords THEN <<"items">> ELSE rest,
             BodyIdents \cup ToSet(ParamNames(q)) \cup {ItemVar(q)})

\* ... and what goes with an error.
ZeroVar(q) == Unique(<<"zero">>, BodyIdents \cup ToSet(ParamNames(q)) \cup {ItemVar(q)})

-----------------------------------------------------------------------------
(* The body. *)

\* A declaration and a use say what the identifier is to stand for; "outer" is
\* what it stands for outside the method.
Declare(x, what) == <<[op |-> "declare", ident |-> x, what |-> what]>>
Use(x, what)     == <<[op |-> "use", ident |-> x, what |-> what]>>
Open             == <<[op |-> "open", ident |-> <<>>, what |-> ""]>>
Close            == <<[op |-> "close", ident |-> <<>>, what |-> ""]>>

Uses(xs) == FlattenSeq([n \in DOMAIN xs |-> Use(xs[n], "outer")])

\* The arguments of the method, and how the call passes them.
ArgName(n) == <<"the first", "the second", "the third">>[n]

Arguments(q) ==
  IF UsesParamStruct(q) THEN Declare(<<"arg">>, "arg")
  ELSE FlattenSeq([n \in DOMAIN q.params |-> Declare(ParamNames(q)[n], ArgName(n))])

Passes(q) ==
  LET adapter(n) == IF q.params[n].go.helper = <<>> THEN <<>> ELSE Use(q.params[n].go.helper, "outer")
      argument(n) == IF UsesParamStruct(q) THEN Use(<<"arg">>, "arg") ELSE Use(ParamNames(q)[n], ArgName(n))
  IN  FlattenSeq([n \in DOMAIN q.params |-> adapter(n) \o argument(n)])

\* q.db.QueryContext(ctx, <the constant>, <the arguments>)
Calls(q) == Use(<<"q">>, "q") \o Use(<<"ctx">>, "ctx") \o Use(q.name, "outer") \o Passes(q)

ReturnType(q) == Uses(SetToSeq(q.ret.go.uses))

Helpers(q) ==
  LET flat == FlattenSeq([k \in DOMAIN q.ret.fields |->
                IF q.ret.fields[k].embed = <<>> THEN <<q.ret.fields[k]>> ELSE q.ret.fields[k].embed])
      helpers == {q.ret.go.helper} \cup {flat[k].go.helper : k \in DOMAIN flat}
  IN  Uses(SetToSeq(helpers \ {<<>>}))

Scans(q) == Use(ItemVar(q), "item") \o Helpers(q)
FailsWith(x, what) == Use(x, what) \o Use(<<"err">>, "err")

Item(q) == ReturnType(q) \o Declare(ItemVar(q), "item")

One(q) ==
  Calls(q) \o Declare(<<"row">>, "row") \o Item(q)
  \o Use(<<"row">>, "row") \o Scans(q) \o Declare(<<"err">>, "err")
  \o FailsWith(ItemVar(q), "item")

Rows(q) == Calls(q) \o Declare(<<"rows">>, "rows") \o Declare(<<"err">>, "err")

NextRow(q) ==
  Open \o Use(<<"rows">>, "rows") \o Item(q)
  \o Open \o Use(<<"rows">>, "rows") \o Scans(q) \o Declare(<<"err">>, "err")

Many(q) ==
  Rows(q) \o FailsWith(<<"nil">>, "outer")
  \o ReturnType(q) \o Declare(SliceVar(q), "slice")
  \o NextRow(q) \o FailsWith(<<"nil">>, "outer") \o Close
  \o Use(<<"append">>, "outer") \o Use(SliceVar(q), "slice") \o Use(ItemVar(q), "item") \o Close
  \o Use(SliceVar(q), "slice") \o Use(<<"rows">>, "rows")

Yields(q) == Use(<<"yield">>, "yield") \o FailsWith(ZeroVar(q), "zero")

Iter(q) ==
  ReturnType(q) \o Use(<<"error">>, "outer") \o Use(<<"bool">>, "outer")
  \o Open \o Declare(<<"yield">>, "yield")
  \o ReturnType(q) \o Declare(ZeroVar(q), "zero") \o Rows(q) \o Yields(q)
  \o NextRow(q) \o Yields(q) \o Close
  \o Use(<<"yield">>, "yield") \o Use(ItemVar(q), "item") \o Use(<<"nil">>, "outer") \o Close
  \o Open \o Use(<<"rows">>, "rows") \o Declare(<<"err">>, "err") \o Yields(q) \o Close
  \o Close

\* res, err := q.db.ExecContext(...)
Exec(q) ==
  Calls(q) \o (IF q.command = "execrows" THEN Declare(<<"res">>, "res") ELSE <<>>)
  \o Declare(<<"err">>, "err") \o Use(<<"err">>, "err")
  \o (IF q.command = "execrows" THEN Use(<<"res">>, "res") ELSE <<>>)

Method(q) ==
  Open \o Declare(<<"q">>, "q") \o Declare(<<"ctx">>, "ctx") \o Arguments(q)
  \o (CASE q.command = "one"  -> One(q)
        [] q.command = "many" -> Many(q)
        [] q.command = "iter" -> Iter(q)
        [] OTHER              -> Exec(q))
  \o Close

-----------------------------------------------------------------------------
(* Go's scopes, the reference. *)

\* A use finds the innermost declaration; nothing is declared twice in a
\* block, but err (a := brings it again).
Resolves(body) ==
  LET finds(scopes, x) ==
        LET in == {n \in DOMAIN scopes : x \in DOMAIN scopes[n]}
        IN  IF in = {} THEN "outer" ELSE scopes[CHOOSE n \in in : \A m \in in : m <= n][x]
      inner(scopes) == scopes[Len(scopes)]
      step(r, s) ==
        CASE s.op = "open"  -> [r EXCEPT !.scopes = Append(@, [x \in {} |-> ""])]
          [] s.op = "close" -> [r EXCEPT !.scopes = Front(@)]
          [] s.op = "use"   -> [r EXCEPT !.ok = @ /\ finds(r.scopes, s.ident) = s.what]
          [] OTHER -> [r EXCEPT !.ok = @ /\ (s.ident \notin DOMAIN inner(r.scopes) \/ s.what = "err"),
                                !.scopes[Len(r.scopes)] =
                                   [x \in DOMAIN @ \cup {s.ident} |-> IF x = s.ident THEN s.what ELSE @[x]]]
  IN  FoldLeft(step, [scopes |-> <<>>, ok |-> TRUE], body).ok

\* The struct of the arguments has no field twice.
FieldsApart(q) ==
  UsesParamStruct(q) => \A m, n \in DOMAIN q.params : m # n => q.params[m].name # q.params[n].name
=============================================================================
