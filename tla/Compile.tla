------------------------------- MODULE Compile -------------------------------
(***************************************************************************)
(* One run of pgc's compiler (src/internal/compile): the query file is     *)
(* parsed, the server describes each statement, the catalog is loaded, and *)
(* the queries are resolved one after the other into names and Go types.   *)
(* The schema may change under it until the catalog is loaded.             *)
(***************************************************************************)
EXTENDS Statements, QueryFile, Params, Emit

CONSTANTS
  Files,      \* the query files: their lines, and the statements in them
  Words,      \* how splitWords cuts each database name
  Mapped,     \* the "types" of pgc.json
  Renames     \* the "rename" of pgc.json, by <<schema, table>> or <<table>>

EmbedNote == [table : Seq(STRING), as : Seq(STRING)]
GoTypeIn(forms) == [expr : STRING, form : forms, uses : SUBSET Seq(STRING), helper : Seq(STRING)]
IsMapped(go) == go \in GoTypeIn({"value", "pointer", "slice"})

\* An override stands in a comment and is for a column or for a parameter.
OverrideNote == [column : STRING, param : Nat, named : Seq(STRING),
                 go : GoTypeIn({"value", "pointer", "slice", "none"}), null : STRING]
Overrides(line) ==
  line.kind = "override" =>
    /\ Starts(Trim(line.text)) = "--"
    /\ line.override \in OverrideNote
    /\ line.override.column # "" => line.override.param = 0 /\ line.override.named = <<>>
Embeds(line)    == line.kind = "embed" => line.embed \in EmbedNote
AreLines(lines) == lines \in Seq(Range(lines)) /\ \A line \in Range(lines) : Overrides(line) /\ Embeds(line)

\* A type of pgc.json is a Go type.  A statement is known by its text; a "*"
\* belongs to a table.
ASSUME CompileAssumption ==
  /\ NoTable \notin TableIds
  /\ \A t \in DOMAIN Mapped : IsMapped(Mapped[t])
  /\ \A f \in Files :
       /\ \A st \in f.statements :
            /\ st.from \in Seq([table : TableIds, join : STRING])
            /\ st.out \in Seq(Output) /\ st.params \in Seq(TypeIds)
            /\ \A k \in DOMAIN st.out :
                 /\ st.out[k].ref \in 0..Len(st.from)
                 /\ st.out[k].column = "*" => st.out[k].ref # 0 /\ st.out[k].as = OwnName
       /\ \A st1, st2 \in f.statements : st1.sql = st2.sql => st1 = st2
       /\ AreLines(f.lines)

VARIABLES
  file, phase, queries,
  described,   \* Answer for each of the queries so far
  built,       \* the queries compiled so far
  models,      \* the tables that have a struct
  enumTypes,   \* the enums that have a type
  warnings     \* <<query, column>> for each column a warning lists

runVars == <<file, phase, queries, described, built, models, enumTypes, warnings>>
vars == <<catalogVars, runVars>>

CamelCase(name) == Words[name]

-----------------------------------------------------------------------------
(* Go types. *)

GoValue(expr, uses) == [expr |-> expr, form |-> "value", uses |-> uses, helper |-> <<>>]

\* uses: the identifiers of the expression, but the exported ones.
PgTypes ==
  [int4  |-> GoValue("int32", {<<"int32">>}),
   text  |-> GoValue("string", {<<"string">>}),
   date  |-> GoValue("time.Time", {<<"time">>}),
   jsonb |-> GoValue("json.RawMessage", {<<"json">>}),
   bytea |-> [GoValue("[]byte", {<<"byte">>}) EXCEPT !.form = "slice"]]

ArrayElems ==
  [int4 |-> [expr |-> "[]int32", form |-> "slice", uses |-> {<<"int32">>}, helper |-> <<"int32", "array">>],
   text |-> [expr |-> "[]string", form |-> "slice", uses |-> {<<"string">>}, helper |-> <<"string", "array">>]]

\* Slices and pointers.
InherentlyNullable(go) == go.form # "value"

WrapNull(go, notNull) ==
  IF notNull \/ InherentlyNullable(go) THEN go ELSE [go EXCEPT !.form = "pointer"]

\* A type and those its domains lead to; they are followed MaxRounds times.
Chain(oid) ==
  LET below[n \in 0..MaxRounds] ==
        IF n = 0 THEN <<oid>>
        ELSE LET chain == below[n - 1]
                 last  == Last(chain)
             IN  IF last \in DOMAIN types /\ types[last].kind = "domain"
                 THEN Append(chain, types[last].base) ELSE chain
  IN  below[MaxRounds]

TerminalName(oid) == Last(Chain(oid))

\* The first of them that is settled, if one is: it has an entry in "types" or
\* a standard Go type, or it is no domain.
Settled(chain) ==
  LET settles(t) == t \in DOMAIN Mapped \cup DOMAIN PgTypes \/ types[t].kind # "domain"
  IN  {chain[n] : n \in {n \in DOMAIN chain : /\ \A m \in 1..n : chain[m] \in DOMAIN types
                                              /\ settles(chain[n])
                                              /\ \A m \in 1..(n - 1) : ~settles(chain[m])}}

Walk(oid) == UNION {Settled(chain) : chain \in {Chain(oid)}}

IsEnum(found)  == found \notin DOMAIN Mapped \cup DOMAIN PgTypes /\ types[found].kind = "enum"
IsArray(found) == /\ found \notin DOMAIN Mapped \cup DOMAIN PgTypes /\ types[found].kind = "array"
                  /\ TerminalName(types[found].elem) \in DOMAIN ArrayElems

GoOf(found) ==
  CASE found \in DOMAIN Mapped                   -> Mapped[found]
    [] found \in DOMAIN PgTypes \ DOMAIN Mapped  -> PgTypes[found]
    [] IsEnum(found)                             -> GoValue(found, {})
    [] IsArray(found)                            -> ArrayElems[TerminalName(types[found].elem)]
    [] OTHER                                     -> NoGo

\* The Go type for a value of a type, NoGo where there is none.
ValueGo(oid) ==
  LET gos == {GoOf(found) : found \in Walk(oid)}
  IN  IF gos = {} THEN NoGo ELSE CHOOSE go \in gos : TRUE

\* An override's own Go type is taken as it is.
GoType(oid, notNull, o) ==
  IF o.go # NoGo THEN o.go
  ELSE WrapNull(ValueGo(oid), IF o.null = "" THEN notNull ELSE o.null = "notnull")

\* The enum a type comes down to, which then gets a Go type.
EnumFor(oid, o) == {found \in Walk(oid) : o.go = NoGo /\ IsEnum(found)}

-----------------------------------------------------------------------------
(* Overrides. *)

NoOverride == Override("", 0, <<>>, NoGo, "")

FirstOf(q, at) == IF at = {} THEN NoOverride ELSE q.overrides[Min(at)]
OverrideForParam(q, n)     == FirstOf(q, {k \in DOMAIN q.overrides : q.overrides[k].param = n})
OverrideForColumn(q, name) == FirstOf(q, {k \in DOMAIN q.overrides : q.overrides[k].column = name})

\* An override or a name for what the statement does not have is an error.
CheckOverrides(q, d) ==
  /\ Len(q.names) <= Len(d.params)
  /\ \A o \in ToSet(q.overrides) :
       /\ o.param <= Len(d.params)
       /\ o.column # "" => \E c \in ToSet(d.columns) : c.name = o.column

-----------------------------------------------------------------------------
(* Columns, tables and models. *)

NotNullColumn(col) ==
  /\ col.table \in DOMAIN tables
  /\ \E c \in ToSet(tables[col.table].columns) : c.attnum = col.attnum /\ c.notnull

ColumnType(q, d, k) ==
  LET col == d.columns[k]
      notNull == IF col.table # NoTable THEN NotNullColumn(col)
                 ELSE ExpressionNotNull(q.sql, k, Len(d.columns))
  IN  GoType(col.type, notNull, OverrideForColumn(q, col.name))

\* gos stands for these below.
GoTypes(q, d) == [k \in DOMAIN d.columns |-> ColumnType(q, d, k)]

\* The tables a name can stand for; it must be one.
TablesNamed(name) ==
  {b \in DOMAIN tables : name \in {<<tables[b].name>>, <<tables[b].schema, tables[b].name>>}}

\* Mutant: two columns of the table can be the same one.
EachOfTable(cols, b) ==
  Len(cols) = Len(tables[b].columns)
  /\ \A k \in DOMAIN cols : \E c \in ToSet(tables[b].columns) :
        cols[k].table = b /\ c.attnum = cols[k].attnum /\ c.name = cols[k].name

\* The columns are the table's, each of them once.
IsPermutation(cols, b) ==
  LET columns == tables[b].columns
  IN  /\ Len(cols) = Len(columns)
      /\ \A k \in DOMAIN cols :
           /\ cols[k].table = b
           /\ \E c \in ToSet(columns) : c.attnum = cols[k].attnum /\ c.name = cols[k].name
           /\ \A l \in 1..(k - 1) : cols[l].attnum # cols[k].attnum

ModelName(b) ==
  LET t == tables[b]
  IN  IF <<t.schema, t.name>> \in DOMAIN Renames THEN Renames[<<t.schema, t.name>>]
      ELSE IF <<t.name>> \in DOMAIN Renames THEN Renames[<<t.name>>] ELSE CamelCase(t.name)

Field(name, go) == [name |-> name, goName |-> CamelCase(name), go |-> go, embed |-> <<>>, table |-> NoTable]

ModelFields(b) ==
  LET columns == tables[b].columns
  IN  [k \in DOMAIN columns |->
         Field(columns[k].name, GoType(columns[k].type, columns[k].notnull, NoOverride))]

\* The fields of the model, in the order of the SELECT.
SelectOrderedFields(cols, b) ==
  [k \in DOMAIN cols |-> CHOOSE f \in ToSet(ModelFields(b)) : f.name = cols[k].name]

\* Mutant: the overrides are not looked at.
AlwaysFit(q, d, gos, from, fields) == TRUE

\* The query asks nothing else of the columns than the model's fields are.
OverridesFit(q, d, gos, from, fields) ==
  \A k \in DOMAIN fields :
    OverrideForColumn(q, d.columns[from + k - 1].name) # NoOverride =>
      gos[from + k - 1] = fields[k].go

HasGo(fields) == \A k \in DOMAIN fields : fields[k].go # NoGo
Run(cols, i, b) == SubSeq(cols, i, i + Len(tables[b].columns) - 1)
RunOf(cols, i, b) ==
  i + Len(tables[b].columns) - 1 <= Len(cols) /\ IsPermutation(Run(cols, i, b), b)

-----------------------------------------------------------------------------
(* The result of a query. *)

Ret(kind, type, go, fields) ==
  [ok |-> TRUE, kind |-> kind, type |-> type, go |-> go, fields |-> fields, models |-> {}]
NoRet == [Ret("failed", <<>>, NoGo, <<>>) EXCEPT !.ok = FALSE]

\* The table whose model the whole result is, if there is one.
WholeTable(q, d) ==
  IF q.embeds # <<>> \/ Len(d.columns) < 2 THEN {}
  ELSE {b \in DOMAIN tables : IsPermutation(d.columns, b)}

NoRow == [ok |-> FALSE, fields |-> <<>>, models |-> {}]

\* No two fields of a row have the same name.
OnTop(field, used, rest) ==
  [ok     |-> rest.ok /\ \A k \in DOMAIN rest.fields : rest.fields[k].goName # field.goName,
   fields |-> <<field>> \o rest.fields,
   models |-> rest.models \cup used]

\* The tables the embed in turn can be, and the field it becomes.
EmbedTables(q, e) == IF e > Len(q.embeds) THEN {} ELSE TablesNamed(q.embeds[e].table)

EmbedField(q, cols, i, e, b) ==
  [name   |-> tables[b].name,
   goName |-> IF q.embeds[e].as # <<>> THEN q.embeds[e].as ELSE ModelName(b),
   go     |-> NoGo, embed |-> SelectOrderedFields(Run(cols, i, b), b), table |-> b]

\* A projection from column i on, with the embeds from e on: column by column;
\* the next embed takes the run of its table's columns when it comes to it.
RowFrom(q, d, gos, row, i, e) ==
  LET cols  == d.columns
      named == EmbedTables(q, e)
      b     == CHOOSE t \in named : TRUE
      field == EmbedField(q, cols, i, e, b)
  IN  CASE i > Len(cols) -> [NoRow EXCEPT !.ok = e > Len(q.embeds)]
        [] i <= Len(cols) /\ e <= Len(q.embeds) /\ Cardinality(named) # 1 -> NoRow
        [] i <= Len(cols) /\ Cardinality(named) = 1 /\ RunOf(cols, i, b) ->
             IF HasGo(field.embed) /\ OverridesFit(q, d, gos, i, field.embed)
             THEN OnTop(field, {b}, row[<<i + Len(field.embed), e + 1>>]) ELSE NoRow
        [] OTHER -> IF cols[i].name = "?column?" \/ gos[i] = NoGo THEN NoRow
                    ELSE OnTop(Field(cols[i].name, gos[i]), {}, row[<<i + 1, e>>])

RowFields(q, d, gos) ==
  LET row[at \in (1..(Len(d.columns) + 1)) \X (1..(Len(q.embeds) + 1))] ==
        RowFrom(q, d, gos, row, at[1], at[2])
      all == row[<<1, 1>>]
  IN  [Ret("row", q.name \o <<"row">>, NoGo, all.fields) EXCEPT !.ok = all.ok, !.models = all.models]

\* A table whose struct the overrides keep from being the result has one all
\* the same.
CompileRet(q, d, gos) ==
  LET whole  == WholeTable(q, d)
      b      == CHOOSE t \in whole : TRUE
      fields == SelectOrderedFields(d.columns, b)
  IN  CASE d.columns = <<>> -> Ret("none", <<>>, NoGo, <<>>)
        [] Len(d.columns) = 1 /\ q.embeds = <<>> ->
             IF gos[1] = NoGo THEN NoRet ELSE Ret("scalar", <<>>, gos[1], <<>>)
        [] whole # {} /\ ~HasGo(fields) -> NoRet
        [] whole # {} /\ HasGo(fields) /\ OverridesFit(q, d, gos, 1, fields) ->
             [Ret("model", ModelName(b), NoGo, fields) EXCEPT !.models = whole]
        [] OTHER -> [RowFields(q, d, gos) EXCEPT !.models = @ \cup whole]

\* Parameters default to NOT NULL.
CompileParams(q, d) ==
  LET names == InferParamNames(q.sql, q.names, Len(d.params))
  IN  [n \in DOMAIN d.params |-> [name |-> names[n],
                                  go |-> GoType(d.params[n], TRUE, OverrideForParam(q, n))]]

-----------------------------------------------------------------------------
(* Outer joins: what the text says of them. *)

\* The position after some blanks, or 0 where there are none.
AfterBlanks(text, i) ==
  LET solid == {k \in i..Len(text) : text[k] \notin Blank}
  IN  IF i \notin DOMAIN text \/ solid = {} \/ i \in solid THEN 0 ELSE Min(solid)

\* The position of the JOIN that a word of some kinds starts, or 0.
JoinOf(text, k, kinds) ==
  LET next == AfterBlanks(text, k + 1)
      join == IF WordAt(text, next) = "outer" THEN AfterBlanks(text, next + 1) ELSE next
  IN  IF text[k] \in kinds /\ WordAt(text, join) = "join" THEN join ELSE 0

Joins(text, kinds) == {k \in DOMAIN text : JoinOf(text, k, kinds) > 0}

\* The tables the LEFT JOINs name, with or without their schema; one that is
\* followed by something else than a name is none.
LeftJoined(text) ==
  LET at == {AfterBlanks(text, JoinOf(text, k, {"left"}) + 1) : k \in Joins(text, {"left"})}
      qualified(k) == k + 2 <= Len(text) /\ text[k + 1] = "." /\ Letter(text[k + 2])
  IN  {IF qualified(k) THEN <<text[k], text[k + 2]>> ELSE <<text[k]>> :
         k \in {k \in at : k > 0 /\ Letter(text[k])}}

\* The tables of some names, or all where one of them is not one table.
Narrowed(names) ==
  IF names = {} \/ \E name \in names : Cardinality(TablesNamed(name)) # 1 THEN DOMAIN tables
  ELSE UNION {TablesNamed(name) : name \in names}

\* Mutant: RIGHT and FULL are as good as LEFT.
OnlyLeft(text) == Narrowed(LeftJoined(text))

\* The tables the joins can fill with NULLs: those the LEFT JOINs name, or all
\* where a join does not name them.
OuterTables(text) ==
  IF Joins(text, {"right", "full"}) # {} THEN DOMAIN tables ELSE Narrowed(LeftJoined(text))

Spoken(q, name) == OverrideForColumn(q, name) # NoOverride

UnspokenColumns(q, d) ==
  {col.name : col \in {c \in ToSet(d.columns) :
                         NotNullColumn(c) /\ c.table \in OuterTables(q.sql) /\ ~Spoken(q, c.name)}}

Warned(q, d) == IF Joins(q.sql, {"left", "right", "full"}) = {} THEN {} ELSE UnspokenColumns(q, d)

-----------------------------------------------------------------------------
(* The package. *)

\* Mutant: the structs of the queries are forgotten.
TypesOnly ==
  {<<<<"model", b>>, ModelName(b)>> : b \in models} \cup {<<<<"enum", e>>, CamelCase(e)>> : e \in enumTypes}

\* What checkNameCollisions claims: for whom, and the Go name.
Claims ==
  UNION {{<<<<"plumbing", name>>, <<name>> >> : name \in {"dbtx", "queries", "querier"}},
         {<<<<"model", b>>, ModelName(b)>> : b \in models},
         {<<<<"enum", e>>, CamelCase(e)>> : e \in enumTypes},
         {<<<<"values", e>>, CamelCase(e) \o <<"values">> >> : e \in enumTypes},
         {<<<<"parse", e>>, <<"parse">> \o CamelCase(e)>> : e \in enumTypes},
         {<<<<"row", n>>, built[n].ret.type>> : n \in {n \in DOMAIN built : built[n].ret.kind = "row"}},
         {<<<<"params", n>>, built[n].name \o <<"params">> >> : n \in {n \in DOMAIN built : UsesParamStruct(built[n])}}}

Collides == \E c1, c2 \in Claims : c1 # c2 /\ c1[2] = c2[2]

-----------------------------------------------------------------------------
InitCompile ==
  /\ file \in Files
  /\ InitCatalog
  /\ phase = "parse" /\ queries = <<>> /\ described = <<>> /\ built = <<>>
  /\ models = {} /\ enumTypes = {} /\ warnings = {}

Parse ==
  /\ phase = "parse"
  /\ LET parsed == ParseFile(file.lines)
     IN  IF parsed.ok THEN phase' = "describe" /\ queries' = parsed.queries
         ELSE phase' = "failed" /\ UNCHANGED queries
  /\ UNCHANGED <<catalogVars, file, described, built, models, enumTypes, warnings>>

\* The server is asked about one query after the other.
Describe ==
  /\ phase = "describe" /\ Len(described) < Len(queries)
  /\ LET sql == queries[Len(described) + 1].sql
     IN  IF \E st \in StatementsOf(file.statements, sql) : Valid(schema, st)
         THEN described' = Append(described, Answer(schema, StatementOf(file.statements, sql))) /\ UNCHANGED phase
         ELSE phase' = "failed" /\ UNCHANGED described
  /\ UNCHANGED <<catalogVars, file, queries, built, models, enumTypes, warnings>>

\* Then the catalog is asked about all they touch.
AsksCatalog ==
  /\ phase = "describe" /\ Len(described) = Len(queries)
  /\ LET columns == UNION {ToSet(described[n].columns) : n \in DOMAIN described}
     IN  Asks((UNION {ToSet(described[n].params) : n \in DOMAIN described}) \cup {c.type : c \in columns},
              {c.table : c \in columns} \ {NoTable})
  /\ phase' = "load"
  /\ UNCHANGED <<file, queries, described, built, models, enumTypes, warnings>>

Loading == phase = "load" /\ Loads /\ UNCHANGED runVars

Loaded ==
  /\ phase = "load" /\ load \in {"loaded", "failed"}
  /\ phase' = IF load = "loaded" THEN "build" ELSE "failed"
  /\ UNCHANGED <<catalogVars, file, queries, described, built, models, enumTypes, warnings>>

\* The enums the types of a query come down to.
EnumsOf(q, d, used) ==
  UNION {UNION {EnumFor(d.params[n], OverrideForParam(q, n)) : n \in DOMAIN d.params},
         UNION {EnumFor(c.type, OverrideForColumn(q, c.name)) : c \in ToSet(d.columns)},
         UNION {UNION {EnumFor(c.type, NoOverride) : c \in ToSet(tables[b].columns)} : b \in used}}

\* One query: its overrides, its parameters, its result, its warning.
CompileQuery ==
  /\ phase = "build" /\ Len(built) < Len(queries)
  /\ \E n \in {Len(built) + 1} : \E q \in {queries[n]}, d \in {described[n]} :
         \E params \in {CompileParams(q, d)}, gos \in {GoTypes(q, d)} : \E ret \in {CompileRet(q, d, gos)} :
           IF \/ ~CheckOverrides(q, d) \/ ~HasGo(params) \/ ~ret.ok
              \/ q.command \in {"one", "many", "iter"} /\ d.columns = <<>>
           THEN phase' = "failed" /\ UNCHANGED <<built, models, enumTypes, warnings>>
           ELSE /\ built' = Append(built, [name |-> q.name, command |-> q.command, params |-> params, ret |-> ret])
                /\ models' = models \cup ret.models
                /\ enumTypes' = enumTypes \cup EnumsOf(q, d, ret.models)
                /\ warnings' = warnings \cup {<<n, name>> : name \in Warned(q, d)}
                /\ UNCHANGED phase
  /\ UNCHANGED <<catalogVars, file, queries, described>>

CheckNameCollisions ==
  /\ phase = "build" /\ Len(built) = Len(queries)
  /\ phase' = IF Collides THEN "failed" ELSE "built"
  /\ UNCHANGED <<catalogVars, file, queries, described, built, models, enumTypes, warnings>>

\* Once the catalog is loaded, nothing is read from the database.
SchemaChanges == phase \in {"describe", "load"} /\ Change /\ UNCHANGED runVars

Steps == Parse \/ Describe \/ AsksCatalog \/ Loading \/ Loaded \/ CompileQuery \/ CheckNameCollisions

CompileSpec == InitCompile /\ [][Steps \/ SchemaChanges]_vars

-----------------------------------------------------------------------------
(* Safety. *)

Sent(n) == StatementOf(file.statements, queries[n].sql)
Compiled == IF phase = "built" THEN DOMAIN built ELSE {}

\* What Scan fills, in its order: a field, or those of the struct it nests.
Flat(f) == IF f.table = NoTable THEN <<f>> ELSE f.embed
FlatFields(fields) == FlattenSeq([k \in DOMAIN fields |-> Flat(fields[k])])

Targets(n) ==
  LET ret == built[n].ret
  IN  IF ret.kind = "scalar" THEN <<Field(described[n].columns[1].name, ret.go)>>
      ELSE FlatFields(ret.fields)

\* The model structs among them: the table, and where its fields are.
Structs(n) ==
  LET ret == built[n].ret
      from(k) == Len(FlatFields(SubSeq(ret.fields, 1, k - 1)))
  IN  IF ret.kind = "model" THEN {[table |-> b, from |-> 1, to |-> Len(ret.fields)] : b \in ret.models}
      ELSE {[table |-> ret.fields[k].table,
             from |-> from(k) + 1, to |-> from(k) + Len(ret.fields[k].embed)] :
              k \in {k \in DOMAIN ret.fields : ret.fields[k].table # NoTable}}

\* Scan puts each column where its name says, and a row of a table's struct
\* has all of its fields from that table: none left out, none filled twice,
\* none from the column next to it that was given its name (SELECT id AS data).
\* (selectOrderedFields, isPermutation)
ScansOwnColumn ==
  \A n \in Compiled :
    LET columns == described[n].columns
    IN  built[n].ret.kind # "none" =>
          /\ Len(Targets(n)) = Len(columns)
          /\ \A k \in DOMAIN columns : Targets(n)[k].name = columns[k].name
          /\ \A s \in Structs(n) :
               /\ {columns[k].attnum : k \in s.from..s.to} = {c.attnum : c \in ToSet(tables[s.table].columns)}
               /\ \A k \in s.from..s.to :
                    /\ columns[k].table = s.table
                    /\ \E c \in ToSet(tables[s.table].columns) :
                         c.attnum = columns[k].attnum /\ c.name = columns[k].name

\* The overrides of a query as its author wrote them: between the header and
\* the first line of the statement.
IsHeader(line) == line.kind = "header"
IsSql(line)    == Trim(line.text) # <<>> /\ Starts(Trim(line.text)) # "--"

Headers(lines, k) == {j \in 1..k : IsHeader(lines[j])}
HeaderLine(lines, n) == CHOOSE k \in DOMAIN lines : IsHeader(lines[k]) /\ Cardinality(Headers(lines, k)) = n
LastLine(lines, n) ==
  Min({k \in (HeaderLine(lines, n) + 1)..Len(lines) : IsHeader(lines[k])} \cup {Len(lines) + 1}) - 1
FirstSql(lines, n) ==
  Min({k \in (HeaderLine(lines, n) + 1)..LastLine(lines, n) : IsSql(lines[k])} \cup {LastLine(lines, n) + 1})

Written(n) ==
  {k \in (HeaderLine(file.lines, n) + 1)..(FirstSql(file.lines, n) - 1) : file.lines[k].kind = "override"}
WrittenOverride(k) == file.lines[k].override

\* The number of an @name in the statement as it was written.
NumberWritten(n, name) ==
  LET body == FirstSql(file.lines, n)..LastLine(file.lines, n)
      text == FlattenSeq([k \in DOMAIN file.lines |-> IF k \in body THEN file.lines[k].text \o <<"\n">> ELSE <<>>])
      at   == Placeholders(text)
      nameAt(k) == SubSeq(text, k + 1, NameEnd(text, k + 1) - 1)
      first(m) == Min({k \in at : nameAt(k) = m})
  IN  Cardinality({m \in {nameAt(k) : k \in at} : first(m) <= first(name)})

Number(n, o) == IF o.named = <<>> THEN o.param ELSE NumberWritten(n, o.named)

\* A bare notnull or nullable keeps the mapped type (DOC.md:338), which can be
\* a pointer of itself.
Shapes(o, go) ==
  /\ o.go # NoGo => go = o.go
  /\ o.go = NoGo /\ o.null = "notnull"  => go.form # "pointer" \/ go \in Range(Mapped)
  /\ o.go = NoGo /\ o.null = "nullable" => go.form # "value"

\* An override of a column always shapes the result (DOC.md:344): there is
\* such a column, and all of that name have the Go type it asks for, also where
\* the query could share the model of its table or nests one.  Of two overrides
\* for the same column the first one counts.
ColumnOverridesHonoured ==
  \A n \in Compiled : \A k \in Written(n) :
    LET o == WrittenOverride(k)
        named == {c \in DOMAIN described[n].columns : described[n].columns[c].name = o.column}
    IN  o.column # "" /\ (\A j \in Written(n) : WrittenOverride(j).column = o.column => k <= j) =>
          named # {} /\ \A c \in named : Shapes(o, Targets(n)[c].go)

\* So does an override of a parameter, and @name is the parameter of that name,
\* whatever else is numbered before it; $2 and the @name that is second are the
\* same one.
ParameterOverridesHonoured ==
  \A n \in Compiled : \A k \in Written(n) :
    LET o == WrittenOverride(k)
        number == Number(n, o)
    IN  number > 0 /\ (\A j \in Written(n) : Number(n, WrittenOverride(j)) = number => k <= j) =>
          number \in DOMAIN built[n].params /\ Shapes(o, built[n].params[number].go)

\* A value that cannot hold NULL is only scanned from a column that can be
\* NULL where the author has said so or has been warned of it, unless the
\* statement is written in a way the patterns do not see (Apart).
Exposed(n, k) ==
  LET name == described[n].columns[k].name
  IN  /\ Targets(n)[k].go.form = "value" /\ CanBeNull(schema, Sent(n), k)
      /\ ~\E j \in Written(n) : WrittenOverride(j).column = name
      /\ <<n, name>> \notin warnings

\* A cast whose type is followed by more is still taken for a constant.
CastAndMore(text) ==
  \E i, j \in DOMAIN text : i < j /\ text[i] = "::" /\ text[j] \in Operators

Apart(n) == ~Sent(n).plain \/ CastAndMore(queries[n].sql)

NullFits ==
  changes = 0 =>
    \A n \in Compiled : \A k \in DOMAIN described[n].columns : Exposed(n, k) => Apart(n)

\* The patterns of params.go look at the one word beside a comparison, which
\* may be the type of a cast or a part of a sum; and at the first VALUES behind
\* the columns of an INSERT, of which it counts the words.
Misread(text) ==
  \/ \E i, j \in DOMAIN text : i < j /\ text[i] \in {"::", "+"} /\ text[j] = "="
  \/ text[1] = "insert" /\ \E i \in DOMAIN text : text[i] \in {"select", "."}

\* A parameter nobody named is named for a column it is compared with or
\* inserted into, or for none (argN): never for another column, whatever
\* comments, strings and calls stand around it.  (InferParamNames)
NamedForColumn ==
  \A n \in Compiled : \A p \in DOMAIN built[n].params :
    p > Len(queries[n].names) =>
      \/ <<p, built[n].params[p].name>> \in Sent(n).means
      \/ built[n].params[p].name = Arg(p)
      \/ Misread(queries[n].sql)

\* The exported names the files of a package declare at its top, and for what;
\* Querier only where pgc.json asks for it.
New == <<<<"func", "new">>, <<"new">> >>

Declarations ==
  LET companions(e) ==
        {<<<<"enum", e>>, CamelCase(e)>>, <<<<"values", e>>, CamelCase(e) \o <<"values">> >>,
         <<<<"parse", e>>, <<"parse">> \o CamelCase(e)>>}
      labels(e) ==
        {<<<<"label", <<e, k>> >>, CamelCase(e) \o CamelCase(enums[e][k])>> : k \in DOMAIN enums[e]}
      structs(n) ==
        {<<<<"row", n>>, built[n].name \o <<"row">> >> : ret \in {r \in {built[n].ret} : r.kind = "row"}}
        \cup {<<<<"params", n>>, built[n].name \o <<"params">> >> : q \in {q \in {built[n]} : UsesParamStruct(q)}}
  IN  {<<<<"plumbing", name>>, <<name>> >> : name \in {"dbtx", "queries", "querier"}} \cup {New}
      \cup {<<<<"model", b>>, ModelName(b)>> : b \in models}
      \cup (UNION {companions(e) : e \in enumTypes})
      \cup (UNION {labels(e) : e \in enumTypes \cap DOMAIN enums})
      \cup (UNION {structs(n) : n \in Compiled})

\* What checkNameCollisions does not know of: the function New, and the
\* constants of an enum's labels.
Unclaimed(d) == d[1][1] \in {"func", "label"}

\* No two types or functions of a package share a name, whichever schemas,
\* queries, enums and renames it comes from, unless one of the two is nothing
\* checkNameCollisions knows of (Unclaimed).
DeclaresOnce ==
  \A d1, d2 \in Declarations :
    phase = "built" /\ d1 # d2 /\ d1[2] = d2[2] => Unclaimed(d1) \/ Unclaimed(d2)

\* The names gen does not keep apart: yield, which an iterator declares; a
\* query Zero, whose constant the zero value hides; rows collected into a name
\* the loop needs; an adapter that only a field uses.
KeptApart(q) ==
  LET params == ToSet(ParamNames(q))
  IN  /\ ~(q.command = "iter" /\ (<<"yield">> \in params \/ q.name = <<"zero">>))
      /\ ~(q.command = "many" /\ SliceVar(q) \in Predeclared \cup q.ret.go.uses)
      /\ \A k \in DOMAIN q.ret.fields : q.ret.fields[k].go.helper \notin params
      /\ FieldsApart(q)

\* In a generated method every identifier stands for what emitQuery means by
\* it, whatever the parameters are called: none of them hides the constant
\* with the SQL, an adapter or a type.
NamesResolve == \A n \in Compiled : KeptApart(built[n]) => Resolves(Method(built[n]))

-----------------------------------------------------------------------------
(* Sentences of the source that the code does not keep to. *)

\* neverNull: an expression it accepts cannot produce NULL, whatever the data.
AcceptedNeverNull ==
  \A n \in Compiled : \A k \in DOMAIN described[n].columns :
    /\ described[n].columns[k].table = NoTable
    /\ ExpressionNotNull(queries[n].sql, k, Len(described[n].columns))
    => ~CanBeNull(schema, Sent(n), k)

\* paramNames: every identifier the method refers to is reserved before a
\* parameter may take it.
ReservedFirst ==
  \A n \in Compiled : ~UsesParamStruct(built[n]) =>
    \A s \in ToSet(Method(built[n])) :
      s.op = "use" /\ s.ident \in ToSet(ParamNames(built[n])) => s.what \in {ArgName(k) : k \in 1..3}
=============================================================================
