---------------------------- MODULE CompileProofs ----------------------------
(***************************************************************************)
(* What a run of the compiler can rely on: the catalog it has loaded is    *)
(* closed and knows all that was described, whatever changes in the        *)
(* database meanwhile, the package it builds declares nothing twice, and   *)
(* the columns of a result are scanned where their names say.              *)
(***************************************************************************)
EXTENDS Compile, FiniteSetTheorems, SequenceTheorems, WellFoundedInduction, TLAPS

-----------------------------------------------------------------------------
(* The catalog. *)

\* The strengthening: what is still to be loaded is pending.
Progress ==
  /\ load \in {"idle", "tables", "columns"} => DOMAIN types = {}
  /\ load \in {"columns", "types", "loaded"} => DOMAIN tables = wanted.tables
  /\ load = "types" =>
       /\ wanted.types \cup ColumnTypes(tables) \subseteq DOMAIN types \cup pending
       /\ Unloaded(types) \subseteq pending

CatalogInv == Progress /\ Closed

\* Nothing is loaded, so nothing is referred to.
LEMMA NothingUnloaded == ASSUME NEW ts, DOMAIN ts = {} PROVE Unloaded(ts) = {}
BY DEF Unloaded

LEMMA InitKeeps == InitCatalog => CatalogInv
BY DEF InitCatalog, CatalogInv, Progress, Closed, Empty

\* Another schema is no other catalog.
LEMMA ChangeKeeps == CatalogInv /\ Change => CatalogInv'
BY DEF CatalogInv, Progress, Closed, Change, loadVars, ColumnTypes, Unloaded

LEMMA AsksKeeps ==
  ASSUME NEW ts, NEW bs, CatalogInv, Asks(ts, bs) PROVE CatalogInv'
BY DEF CatalogInv, Progress, Closed, Asks

LEMMA LoadTablesKeeps == CatalogInv /\ LoadTables => CatalogInv'
<1> SUFFICES ASSUME CatalogInv, LoadTables PROVE CatalogInv'
  OBVIOUS
<1>1. DOMAIN types' = {}
  BY DEF CatalogInv, Progress, LoadTables
<1>2. load' = "columns" => DOMAIN tables' = wanted'.tables
  BY DEF LoadTables
<1>3. load' \in {"columns", "failed"}
  BY DEF LoadTables
<1> QED
  BY <1>1, <1>2, <1>3 DEF CatalogInv, Progress, Closed

\* The first round asks for everything: nothing was loaded before it.
LEMMA LoadColumnsKeeps == CatalogInv /\ LoadColumns => CatalogInv'
<1> SUFFICES ASSUME CatalogInv, LoadColumns PROVE CatalogInv'
  OBVIOUS
<1>1. load' = "types" /\ UNCHANGED <<wanted, types>>
  BY DEF LoadColumns
<1>2. DOMAIN tables' = wanted'.tables
  BY DEF CatalogInv, Progress, LoadColumns
<1>3. pending' = wanted'.types \cup ColumnTypes(tables')
  BY <1>1 DEF LoadColumns, FirstRound
<1>4. Unloaded(types') = {}
  BY <1>1, NothingUnloaded DEF CatalogInv, Progress, LoadColumns
<1> QED
  BY <1>1, <1>2, <1>3, <1>4 DEF CatalogInv, Progress, Closed

\* A round that found all it asked for leaves only what that refers to.
LEMMA LoadTypesKeeps == CatalogInv /\ LoadTypes => CatalogInv'
<1> SUFFICES ASSUME CatalogInv, LoadTypes PROVE CatalogInv'
  OBVIOUS
<1>1. load' \in {"types", "failed"} /\ UNCHANGED <<wanted, tables>>
  BY DEF LoadTypes
<1>2. DOMAIN tables' = wanted'.tables
  BY <1>1 DEF CatalogInv, Progress, LoadTypes
<1>3. DOMAIN types \subseteq DOMAIN types' /\ pending' = Unloaded(types')
  BY DEF LoadTypes
<1>4. load' = "types" => pending \subseteq DOMAIN types'
  BY DEF LoadTypes
<1>5. wanted'.types \cup ColumnTypes(tables') \subseteq DOMAIN types \cup pending
  BY <1>1 DEF CatalogInv, Progress, LoadTypes, ColumnTypes
<1> QED
  BY <1>1, <1>2, <1>3, <1>4, <1>5 DEF CatalogInv, Progress, Closed

LEMMA TooDeepKeeps == CatalogInv /\ TooDeep => CatalogInv'
BY DEF CatalogInv, Progress, Closed, TooDeep

\* Nothing is pending any more, so everything is there.
LEMMA LoadEnumsKeeps == CatalogInv /\ LoadEnums => CatalogInv'
<1> SUFFICES ASSUME CatalogInv, LoadEnums PROVE CatalogInv'
  OBVIOUS
<1>1. load = "types" /\ load' = "loaded" /\ pending = {} /\ UNCHANGED <<wanted, tables, types>>
  BY DEF LoadEnums
<1>2. /\ wanted.types \cup ColumnTypes(tables) \subseteq DOMAIN types
      /\ Unloaded(types) = {}
      /\ DOMAIN tables = wanted.tables
  BY <1>1 DEF CatalogInv, Progress
<1>3. Closed'
  BY <1>1, <1>2 DEF Closed, ColumnTypes, Unloaded
<1> QED
  BY <1>1, <1>2, <1>3 DEF CatalogInv, Progress

LEMMA StutterKeeps == CatalogInv /\ UNCHANGED catalogVars => CatalogInv'
BY DEF CatalogInv, Progress, Closed, catalogVars, loadVars, ColumnTypes, Unloaded

\* Whatever Load is asked for, and however often the schema changes between
\* its queries, the catalog it returns leads nowhere it has not loaded.
THEOREM CatalogClosed == CatalogSpec => []Closed
<1>1. CatalogInv /\ [CatalogNext]_catalogVars => CatalogInv'
  <2> SUFFICES ASSUME CatalogInv, [CatalogNext]_catalogVars PROVE CatalogInv'
    OBVIOUS
  <2>1. CASE \E ts \in SUBSET TypeIds, bs \in SUBSET TableIds : Asks(ts, bs)
    BY <2>1, AsksKeeps
  <2>2. CASE Loads
    BY <2>2, LoadTablesKeeps, LoadColumnsKeeps, LoadTypesKeeps, TooDeepKeeps, LoadEnumsKeeps DEF Loads
  <2>3. CASE Change
    BY <2>3, ChangeKeeps
  <2>4. CASE UNCHANGED catalogVars
    BY <2>4, StutterKeeps
  <2> QED
    BY <2>1, <2>2, <2>3, <2>4 DEF CatalogNext
<1>2. CatalogInv => Closed
  BY DEF CatalogInv
<1> QED
  BY <1>1, <1>2, InitKeeps, PTL DEF CatalogSpec

-----------------------------------------------------------------------------
(* A run. *)

TouchedTypes ==
  (UNION {ToSet(described[n].params) : n \in DOMAIN described})
  \cup {c.type : c \in UNION {ToSet(described[n].columns) : n \in DOMAIN described}}
TouchedTables ==
  {c.table : c \in UNION {ToSet(described[n].columns) : n \in DOMAIN described}} \ {NoTable}

\* The catalog was asked for what was described, and its load is where the
\* run is.
Asked ==
  /\ phase \in {"parse", "describe"} => load = "idle"
  /\ phase \in {"build", "built"} => load = "loaded"
  /\ phase \in {"load", "build", "built"} => wanted = [types |-> TouchedTypes, tables |-> TouchedTables]

RunInv == CatalogInv /\ Asked

\* Each step of a run is one of the catalog's, or leaves it alone.
LEMMA CatalogStep ==
  ASSUME [Steps \/ SchemaChanges]_vars
  PROVE  \/ \E ts, bs : Asks(ts, bs)
         \/ Loads
         \/ Change
         \/ UNCHANGED catalogVars
<1>1. CASE AsksCatalog
  BY <1>1 DEF AsksCatalog
<1>2. CASE Loading
  BY <1>2 DEF Loading
<1>3. CASE SchemaChanges
  BY <1>3 DEF SchemaChanges
<1>4. CASE Parse \/ Describe \/ Loaded \/ CompileQuery \/ CheckNameCollisions
  BY <1>4 DEF Parse, Describe, Loaded, CompileQuery, CheckNameCollisions
<1>5. CASE UNCHANGED vars
  BY <1>5 DEF vars
<1> QED
  BY <1>1, <1>2, <1>3, <1>4, <1>5 DEF Steps

LEMMA CatalogKeeps ==
  ASSUME CatalogInv, [Steps \/ SchemaChanges]_vars PROVE CatalogInv'
<1>1. CASE \E ts, bs : Asks(ts, bs)
  BY <1>1, AsksKeeps
<1>2. CASE Loads
  BY <1>2, LoadTablesKeeps, LoadColumnsKeeps, LoadTypesKeeps, TooDeepKeeps, LoadEnumsKeeps DEF Loads
<1>3. CASE Change
  BY <1>3, ChangeKeeps
<1>4. CASE UNCHANGED catalogVars
  BY <1>4, StutterKeeps
<1> QED
  BY <1>1, <1>2, <1>3, <1>4, CatalogStep

LEMMA AskedKeeps ==
  ASSUME Asked, [Steps \/ SchemaChanges]_vars PROVE Asked'
<1>1. CASE Parse
  BY <1>1 DEF Parse, Asked, catalogVars, loadVars
<1>2. CASE Describe
  BY <1>2 DEF Describe, Asked, catalogVars, loadVars
<1>3. CASE AsksCatalog
  BY <1>3 DEF AsksCatalog, Asks, Asked, TouchedTypes, TouchedTables
<1>4. CASE Loading
  <2>1. wanted' = wanted /\ UNCHANGED <<phase, described>> /\ phase = "load"
    BY <1>4 DEF Loading, Loads, LoadTables, LoadColumns, LoadTypes, TooDeep, LoadEnums, runVars
  <2> QED
    BY <2>1 DEF Asked, TouchedTypes, TouchedTables
<1>5. CASE Loaded
  BY <1>5 DEF Loaded, Asked, catalogVars, loadVars, TouchedTypes, TouchedTables
<1>6. CASE CompileQuery
  <2>1. UNCHANGED <<catalogVars, described>> /\ phase = "build" /\ phase' \in {"build", "failed"}
    BY <1>6 DEF CompileQuery
  <2> QED
    BY <2>1 DEF Asked, catalogVars, loadVars, TouchedTypes, TouchedTables
<1>7. CASE CheckNameCollisions
  BY <1>7 DEF CheckNameCollisions, Asked, catalogVars, loadVars, TouchedTypes, TouchedTables
<1>8. CASE SchemaChanges
  BY <1>8 DEF SchemaChanges, Change, Asked, loadVars, runVars, TouchedTypes, TouchedTables
<1>9. CASE UNCHANGED vars
  BY <1>9 DEF vars, runVars, catalogVars, loadVars, Asked, TouchedTypes, TouchedTables
<1> QED
  BY <1>1, <1>2, <1>3, <1>4, <1>5, <1>6, <1>7, <1>8, <1>9 DEF Steps

LEMMA RunKeeps == RunInv /\ [Steps \/ SchemaChanges]_vars => RunInv'
BY CatalogKeeps, AskedKeeps DEF RunInv

LEMMA InitRun == InitCompile => RunInv
BY InitKeeps DEF InitCompile, InitCatalog, RunInv, Asked

\* All that Build looks up: the types the server described, the tables the
\* columns are from and the types of their columns, and what those refer to.
Known ==
  phase \in {"build", "built"} =>
    /\ TouchedTypes \cup ColumnTypes(tables) \subseteq DOMAIN types
    /\ TouchedTables = DOMAIN tables
    /\ Unloaded(types) = {}

\* In a run of the compiler the catalog is closed whenever it is loaded.
THEOREM RunClosed == CompileSpec => []Closed
<1>1. RunInv => Closed
  BY DEF RunInv, CatalogInv
<1> QED
  BY <1>1, InitRun, RunKeeps, PTL DEF CompileSpec

\* Once the queries are compiled, the catalog knows every type and every table
\* they touch, also where the schema has changed since they were described.
THEOREM KnowsDescribed == CompileSpec => []Known
<1>1. RunInv => Known
  BY DEF RunInv, CatalogInv, Closed, Asked, Known
<1> QED
  BY <1>1, InitRun, RunKeeps, PTL DEF CompileSpec

-----------------------------------------------------------------------------
(* The package. *)

\* A query is added to a sequence of them.
LEMMA Appended ==
  ASSUME NEW S, NEW s \in Seq(S), NEW x
  PROVE  /\ Append(s, x) \in Seq(S \cup {x})
         /\ Len(Append(s, x)) = Len(s) + 1
         /\ \A n \in 1..Len(s) : Append(s, x)[n] = s[n]
         /\ Append(s, x)[Len(s) + 1] = x
OBVIOUS

\* What a row struct is called does not depend on its fields.
LEMMA RowsNamed ==
  ASSUME NEW q, NEW d, NEW gos, CompileRet(q, d, gos).kind = "row"
  PROVE  CompileRet(q, d, gos).type = q.name \o <<"row">>
<1> DEFINE fields == RowFields(q, d, gos)
           whole == WholeTable(q, d)
           merged == [fields EXCEPT !.models = @ \cup whole]
<1>1. fields.type = q.name \o <<"row">> /\ DOMAIN fields = DOMAIN NoRet
  BY DEF RowFields, Ret, NoRet
<1>2. merged.type = q.name \o <<"row">>
  BY <1>1 DEF NoRet, Ret
<1> HIDE DEF fields
<1>3. \/ CompileRet(q, d, gos) = merged
      \/ CompileRet(q, d, gos).kind \in {"none", "scalar", "failed", "model"}
  BY DEF CompileRet, Ret, NoRet, fields
<1> QED
  BY <1>2, <1>3

Named == \A n \in DOMAIN built : built[n].ret.kind = "row" => built[n].ret.type = built[n].name \o <<"row">>

\* After the last check nothing is declared any more.
PackageInv ==
  /\ \E S : built \in Seq(S)
  /\ Named
  /\ phase = "built" => ~Collides

LEMMA QueryNamed ==
  ASSUME PackageInv, CompileQuery PROVE Named' /\ \E S : built' \in Seq(S)
<1>1. PICK S : built \in Seq(S)
  BY DEF PackageInv
<1>2. CASE UNCHANGED built
  BY <1>2 DEF PackageInv, Named
<1>3. CASE ~UNCHANGED built
  <2> DEFINE Adds(q, params, ret) ==
               built' = Append(built, [name |-> q.name, command |-> q.command, params |-> params, ret |-> ret])
  <2>0. \E n \in {Len(built) + 1} : \E q \in {queries[n]}, d \in {described[n]} :
          \E params \in {CompileParams(q, d)}, gos \in {GoTypes(q, d)} : \E ret \in {CompileRet(q, d, gos)} :
            Adds(q, params, ret)
    BY <1>3 DEF CompileQuery
  <2>1. PICK q, d, gos, params, ret : Adds(q, params, ret) /\ ret = CompileRet(q, d, gos)
    BY <2>0
  <2> DEFINE x == [name |-> q.name, command |-> q.command, params |-> params, ret |-> ret]
  <2>2. x.ret.kind = "row" => x.ret.type = x.name \o <<"row">>
    BY <2>1, RowsNamed
  <2> HIDE DEF x
  <2>3. /\ built' \in Seq(S \cup {x}) /\ DOMAIN built' = 1..(Len(built) + 1)
        /\ \A n \in 1..Len(built) : built'[n] = built[n]
        /\ built'[Len(built) + 1] = x
    BY <1>1, <2>1, Appended DEF x
  <2>4. Named'
    <3>1. SUFFICES ASSUME NEW n \in 1..(Len(built) + 1), built'[n].ret.kind = "row"
                   PROVE  built'[n].ret.type = built'[n].name \o <<"row">>
      BY <2>3 DEF Named
    <3>2. CASE n = Len(built) + 1
      BY <2>2, <2>3, <3>1, <3>2
    <3>3. CASE n \in 1..Len(built)
      <4>1. n \in DOMAIN built /\ built'[n] = built[n]
        BY <1>1, <2>3, <3>3
      <4> QED
        BY <3>1, <4>1 DEF PackageInv, Named
    <3> QED
      BY <1>1, <3>2, <3>3
  <2> QED
    BY <2>3, <2>4
<1> QED
  BY <1>2, <1>3

\* Claims as a function of what it reads, to see that it reads nothing else.
ClaimsOf(qs, ms, es, ts) ==
  LET model(b) ==
        IF <<ts[b].schema, ts[b].name>> \in DOMAIN Renames THEN Renames[<<ts[b].schema, ts[b].name>>]
        ELSE IF <<ts[b].name>> \in DOMAIN Renames THEN Renames[<<ts[b].name>>] ELSE Words[ts[b].name]
  IN  UNION {{<<<<"plumbing", name>>, <<name>> >> : name \in {"dbtx", "queries", "querier"}},
             {<<<<"model", b>>, model(b)>> : b \in ms},
             {<<<<"enum", e>>, Words[e]>> : e \in es},
             {<<<<"values", e>>, Words[e] \o <<"values">> >> : e \in es},
             {<<<<"parse", e>>, <<"parse">> \o Words[e]>> : e \in es},
             {<<<<"row", n>>, qs[n].ret.type>> : n \in {n \in DOMAIN qs : qs[n].ret.kind = "row"}},
             {<<<<"params", n>>, qs[n].name \o <<"params">> >> : n \in {n \in DOMAIN qs : Len(qs[n].params) >= 4}}}

LEMMA ClaimsKept ==
  ASSUME UNCHANGED <<built, models, enumTypes, tables>> PROVE Claims' = Claims
<1>1. Claims = ClaimsOf(built, models, enumTypes, tables)
  BY DEF Claims, ClaimsOf, ModelName, CamelCase, UsesParamStruct
<1>2. Claims' = ClaimsOf(built', models', enumTypes', tables')
  BY DEF Claims, ClaimsOf, ModelName, CamelCase, UsesParamStruct
<1> QED
  BY <1>1, <1>2

LEMMA PackageKeeps ==
  ASSUME PackageInv, [Steps \/ SchemaChanges]_vars PROVE PackageInv'
<1>1. CASE CompileQuery
  <2>1. phase' # "built"
    BY <1>1 DEF CompileQuery
  <2> QED
    BY <1>1, <2>1, QueryNamed DEF PackageInv
<1>2. CASE Parse \/ Describe \/ AsksCatalog \/ Loading \/ Loaded \/ SchemaChanges
  <2>1. built' = built /\ phase' # "built"
    BY <1>2 DEF Parse, Describe, AsksCatalog, Loading, Loaded, SchemaChanges, runVars
  <2> QED
    BY <2>1 DEF PackageInv, Named
<1>3. CASE CheckNameCollisions
  <2>1. UNCHANGED <<built, models, enumTypes, tables>> /\ (phase' = "built" => ~Collides)
    BY <1>3 DEF CheckNameCollisions, catalogVars, loadVars
  <2> QED
    BY <2>1, ClaimsKept DEF PackageInv, Named, Collides
<1>4. CASE UNCHANGED vars
  BY <1>4, ClaimsKept DEF vars, runVars, catalogVars, loadVars, PackageInv, Named, Collides
<1> QED
  BY <1>1, <1>2, <1>3, <1>4 DEF Steps

\* What a file declares has been claimed, if checkNameCollisions knows of it:
\* a row under the type it was given, which is its query's name and Row.
LEMMA Claimed ==
  ASSUME PackageInv, phase = "built"
  PROVE  \A d \in Declarations : Unclaimed(d) \/ d \in Claims
<1> DEFINE plumbing == {<<<<"plumbing", name>>, <<name>> >> : name \in {"dbtx", "queries", "querier"}}
           structs == {<<<<"model", b>>, ModelName(b)>> : b \in models}
           companions(e) ==
             {<<<<"enum", e>>, CamelCase(e)>>, <<<<"values", e>>, CamelCase(e) \o <<"values">> >>,
              <<<<"parse", e>>, <<"parse">> \o CamelCase(e)>>}
           labels(e) == {<<<<"label", <<e, k>> >>, CamelCase(e) \o CamelCase(enums[e][k])>> : k \in DOMAIN enums[e]}
           rows(n) == {<<<<"row", n>>, built[n].name \o <<"row">> >> : ret \in {r \in {built[n].ret} : r.kind = "row"}}
           params(n) == {<<<<"params", n>>, built[n].name \o <<"params">> >> : q \in {q \in {built[n]} : UsesParamStruct(q)}}
<1> SUFFICES ASSUME NEW d \in Declarations PROVE Unclaimed(d) \/ d \in Claims
  OBVIOUS
<1>1. ASSUME d \in plumbing PROVE d \in Claims
  BY <1>1 DEF Claims
<1>2. ASSUME d = New PROVE Unclaimed(d)
  BY <1>2 DEF New, Unclaimed
<1>3. ASSUME d \in structs PROVE d \in Claims
  BY <1>3 DEF Claims
<1>4. ASSUME NEW e \in enumTypes, d \in companions(e) PROVE d \in Claims
  BY <1>4 DEF Claims
<1>5. ASSUME NEW e, d \in labels(e) PROVE Unclaimed(d)
  <2>1. d[1][1] = "label"
    BY <1>5
  <2> QED
    BY <2>1 DEF Unclaimed
<1>6. ASSUME NEW n \in DOMAIN built, d \in rows(n) PROVE d \in Claims
  <2>1. built[n].ret.kind = "row" /\ d = <<<<"row", n>>, built[n].name \o <<"row">> >>
    BY <1>6
  <2> QED
    BY <2>1 DEF Claims, PackageInv, Named
<1>7. ASSUME NEW n \in DOMAIN built, d \in params(n) PROVE d \in Claims
  <2>1. UsesParamStruct(built[n]) /\ d = <<<<"params", n>>, built[n].name \o <<"params">> >>
    BY <1>7, Zenon
  <2>2. d \in {<<<<"params", m>>, built[m].name \o <<"params">> >> : m \in {m \in DOMAIN built : UsesParamStruct(built[m])}}
    BY <2>1, Zenon
  <2> QED
    BY <2>2, Zenon DEF Claims
<1>8. Compiled = DOMAIN built
  BY DEF Compiled
<1> HIDE DEF companions, labels, rows, params
<1> DEFINE ofEnums == UNION {companions(e) : e \in enumTypes}
           ofLabels == UNION {labels(e) : e \in enumTypes \cap DOMAIN enums}
           ofQueries == UNION {rows(n) \cup params(n) : n \in Compiled}
<1>9. ASSUME d \in ofEnums PROVE d \in Claims
  BY <1>4, <1>9
<1>10. ASSUME d \in ofLabels PROVE Unclaimed(d)
  BY <1>5, <1>10
<1>11. ASSUME d \in ofQueries PROVE d \in Claims
  BY <1>6, <1>7, <1>8, <1>11
<1>12. d \in plumbing \cup {New} \cup structs \cup ofEnums \cup ofLabels \cup ofQueries
  BY Zenon DEF Declarations, companions, labels, rows, params
<1> HIDE DEF plumbing, structs, ofEnums, ofLabels, ofQueries
<1> QED
  BY <1>1, <1>2, <1>3, <1>9, <1>10, <1>11, <1>12

\* No two types or functions of the package that is written share a name,
\* unless one of them is the function New or the constant of an enum's label,
\* which checkNameCollisions does not know of (Unclaimed).
THEOREM DeclaredOnce == CompileSpec => []DeclaresOnce
<1>1. InitCompile => PackageInv
  <2>1. <<>> \in Seq({})
    OBVIOUS
  <2> QED
    BY <2>1 DEF InitCompile, PackageInv, Named
<1>2. PackageInv /\ [Steps \/ SchemaChanges]_vars => PackageInv'
  BY PackageKeeps
<1>3. PackageInv => DeclaresOnce
  <2> SUFFICES ASSUME PackageInv, phase = "built",
                      NEW d1 \in Declarations, NEW d2 \in Declarations, d1 # d2,
                      ~Unclaimed(d1), ~Unclaimed(d2)
               PROVE  d1[2] # d2[2]
    BY DEF DeclaresOnce
  <2>1. d1 \in Claims /\ d2 \in Claims
    BY Claimed
  <2> QED
    BY <2>1 DEF PackageInv, Collides
<1> QED
  BY <1>1, <1>2, <1>3, PTL DEF CompileSpec

-----------------------------------------------------------------------------
(* Sequences strung together. *)

\* Every set of numbers has a least one.
LEMMA LeastIn ==
  ASSUME NEW N, N \subseteq Nat, N # {}
  PROVE  \E n \in N : \A m \in N : n <= m
<1> DEFINE R == {ss \in Nat \X Nat : ss[1] < ss[2]}
<1>1. IsWellFoundedOn(R, Nat)
  BY NatLessThanWellFounded DEF OpToRel
<1> HIDE DEF R
<1>2. PICK n \in N : \A m \in N : ~(<<m, n>> \in R)
  BY <1>1, WFMin
<1>3. ASSUME NEW m \in N PROVE n <= m
  <2>1. m \in Nat /\ n \in Nat /\ ~(<<m, n>> \in R)
    BY <1>2
  <2> QED
    BY <2>1 DEF R
<1> QED
  BY <1>3

\* FlattenSeq takes one part after the other.
LEMMA FlattenedStepwise ==
  ASSUME NEW T, NEW seqs \in Seq(Seq(T)), seqs # <<>>
  PROVE  \E f \in [1..Len(seqs) -> Seq(T)] :
           /\ FlattenSeq(seqs) = f[Len(seqs)]
           /\ \A i \in 1..Len(seqs) : f[i] = IF i = 1 THEN seqs[i] ELSE f[i - 1] \o seqs[i]
<1> DEFINE
      N == Len(seqs)
      Part(f, i) == IF i = 1 THEN seqs[i] ELSE f[i - 1] \o seqs[i]
      Upto(n) == \E f \in [1..n -> Seq(T)] : \A i \in 1..n : f[i] = Part(f, i)
      Lacking == {n \in 0..N : ~Upto(n)}
<1>0. N \in Nat /\ \A i \in 1..N : seqs[i] \in Seq(T)
  OBVIOUS
<1>1. ASSUME NEW n \in 0..N, n # N, Upto(n) PROVE Upto(n + 1)
  <2>1. PICK f \in [1..n -> Seq(T)] : \A i \in 1..n : f[i] = Part(f, i)
    BY <1>1
  <2> DEFINE last == IF n = 0 THEN seqs[1] ELSE f[n] \o seqs[n + 1]
             g == [i \in 1..n + 1 |-> IF i = n + 1 THEN last ELSE f[i]]
  <2>2. last \in Seq(T)
    <3>1. CASE n = 0
      BY <1>0, <1>1, <3>1
    <3>2. CASE n # 0
      <4>1. f[n] \in Seq(T) /\ seqs[n + 1] \in Seq(T)
        BY <1>0, <1>1, <3>2
      <4> QED
        BY <3>2, <4>1
    <3> QED
      BY <3>1, <3>2
  <2> HIDE DEF last
  <2>3. g \in [1..n + 1 -> Seq(T)]
    BY <2>2
  <2>4. ASSUME NEW i \in 1..n + 1 PROVE g[i] = Part(g, i)
    <3>1. CASE i \in 1..n
      <4>1. f[i] = Part(f, i)
        BY <2>1, <3>1
      <4>2. g[i] = f[i] /\ (i # 1 => g[i - 1] = f[i - 1])
        BY <3>1
      <4> QED
        BY <4>1, <4>2
    <3>2. CASE i = n + 1
      <4>1. g[i] = last /\ (n # 0 => g[i - 1] = f[n])
        BY <3>2
      <4> QED
        BY <4>1, <3>2 DEF last
    <3> QED
      BY <3>1, <3>2
  <2> QED
    BY <2>3, <2>4
<1>2. Upto(0)
  <2> DEFINE none == [i \in 1..0 |-> <<>>]
  <2>1. none \in [1..0 -> Seq(T)] /\ \A i \in 1..0 : none[i] = Part(none, i)
    <3>1. 1..0 = {}
      OBVIOUS
    <3>2. none \in [1..0 -> Seq(T)]
      BY <3>1, Zenon
    <3> QED
      BY <3>1, <3>2, Zenon
  <2> HIDE DEF none, Part
  <2> QED
    BY <2>1, Zenon
<1>3. Upto(N)
  <2> HIDE DEF Upto
  <2>1. SUFFICES ASSUME Lacking # {} PROVE FALSE
    <3>1. N \in 0..N
      BY <1>0
    <3>2. ~Upto(N) => N \in Lacking
      BY <3>1, Zenon
    <3> QED
      BY <2>1, <3>2, Zenon
  <2>2. PICK n \in Lacking : \A m \in Lacking : n <= m
    <3>1. Lacking \subseteq Nat
      BY <1>0
    <3> QED
      BY <2>1, <3>1, LeastIn
  <2>3. n # 0
    BY <1>2, <2>2
  <2>4. n - 1 \in 0..N /\ n - 1 # N /\ n - 1 \notin Lacking
    BY <1>0, <2>2, <2>3
  <2>5. Upto(n - 1 + 1)
    BY <2>4, <1>1
  <2> QED
    BY <2>2, <2>5, <1>0
<1>4. N # 0
  BY EmptySeq
<1>5. CASE N # 0
  <2> DEFINE Whole(f) == f = [i \in 1..N |-> Part(f, i)]
  <2>1. PICK f \in [1..N -> Seq(T)] : \A i \in 1..N : f[i] = Part(f, i)
    BY <1>3
  <2>2. f = [i \in 1..N |-> Part(f, i)]
    BY <2>1
  <2>3. \E g : Whole(g)
    BY <2>2
  <2> DEFINE flat == CHOOSE g : Whole(g)
  <2>4. Whole(flat)
    BY <2>3
  <2>5. FlattenSeq(seqs) = flat[N]
    BY <1>5 DEF FlattenSeq
  <2> HIDE DEF flat
  <2>6. \A i \in 1..N : flat[i] = Part(flat, i)
    BY <2>4
  <2> DEFINE Bad == {i \in 1..N : flat[i] \notin Seq(T)}
  <2>7. Bad = {}
    <3>1. SUFFICES ASSUME Bad # {} PROVE FALSE
      OBVIOUS
    <3>2. PICK n \in Bad : \A m \in Bad : n <= m
      <4>1. Bad \subseteq Nat
        BY <1>0
      <4> QED
        BY <3>1, <4>1, LeastIn
    <3>3. n # 1
      BY <2>6, <3>2, <1>0
    <3>4. n - 1 \in 1..N /\ n - 1 \notin Bad
      BY <1>0, <3>2, <3>3
    <3>5. flat[n - 1] \in Seq(T) /\ seqs[n] \in Seq(T)
      BY <1>0, <3>2, <3>4
    <3>6. flat[n] = flat[n - 1] \o seqs[n]
      BY <2>6, <3>2, <3>3
    <3>7. flat[n - 1] \o seqs[n] \in Seq(T)
      BY <3>5
    <3> HIDE DEF Part
    <3>8. flat[n] \notin Seq(T)
      BY <3>2
    <3> QED
      BY <3>6, <3>7, <3>8, Zenon
  <2>8. flat \in [1..N -> Seq(T)]
    BY <2>4, <2>7
  <2> QED
    BY <2>5, <2>6, <2>8
<1> QED
  BY <1>4, <1>5

LEMMA Flattened ==
  ASSUME NEW T, NEW seqs \in Seq(Seq(T)) PROVE FlattenSeq(seqs) \in Seq(T)
<1>1. CASE seqs = <<>>
  BY <1>1 DEF FlattenSeq
<1>2. CASE seqs # <<>>
  <2>1. Len(seqs) \in 1..Len(seqs)
    BY <1>2
  <2> QED
    BY <1>2, <2>1, FlattenedStepwise
<1> QED
  BY <1>1, <1>2

LEMMA Regrouped ==
  ASSUME NEW T, NEW s \in Seq(T)
  PROVE  \A t, u \in Seq(T) : (s \o t) \o u = s \o (t \o u)
<1> SUFFICES ASSUME NEW t \in Seq(T), NEW u \in Seq(T) PROVE (s \o t) \o u = s \o (t \o u)
  OBVIOUS
<1>1. s \o t \in Seq(T) /\ t \o u \in Seq(T)
  OBVIOUS
<1>2. (s \o t) \o u \in Seq(T) /\ s \o (t \o u) \in Seq(T)
  BY <1>1
<1>3. Len((s \o t) \o u) = Len(s \o (t \o u))
  BY <1>1
<1>4. \A i \in 1..Len((s \o t) \o u) : ((s \o t) \o u)[i] = (s \o (t \o u))[i]
  BY <1>1, SMTT(30)
<1> QED
  BY <1>2, <1>3, <1>4, SeqEqual

\* The first part comes first.
LEMMA FlattenedFirst ==
  ASSUME NEW T, NEW x \in Seq(T), NEW seqs \in Seq(Seq(T))
  PROVE  FlattenSeq(<<x>> \o seqs) = x \o FlattenSeq(seqs)
<1> DEFINE all == <<x>> \o seqs
<1>0. PICK N \in Nat : N = Len(seqs)
  OBVIOUS
<1>1. /\ all \in Seq(Seq(T)) /\ Len(all) = N + 1 /\ all[1] = x /\ all # <<>>
      /\ \A i \in 1..N : all[i + 1] = seqs[i] /\ seqs[i] \in Seq(T)
  BY <1>0
<1>7. \A t, u \in Seq(T) : (x \o t) \o u = x \o (t \o u)
  BY ONLY Regrouped, x \in Seq(T), SMTT(30)
<1> HIDE DEF all
<1>2. PICK g \in [1..(N + 1) -> Seq(T)] :
        /\ FlattenSeq(all) = g[N + 1]
        /\ \A i \in 1..(N + 1) : g[i] = IF i = 1 THEN all[i] ELSE g[i - 1] \o all[i]
  <2>1. PICK g \in [1..Len(all) -> Seq(T)] :
          /\ FlattenSeq(all) = g[Len(all)]
          /\ \A i \in 1..Len(all) : g[i] = IF i = 1 THEN all[i] ELSE g[i - 1] \o all[i]
    <3>1. all \in Seq(Seq(T)) /\ all # <<>>
      BY <1>1, Zenon
    <3> QED
      BY ONLY <3>1, FlattenedStepwise
  <2> QED
    BY <1>1, <2>1, Zenon
<1>3. g[1] = x
  BY <1>1, <1>2
<1>4. ASSUME NEW i \in 1..N, NEW j, j = i + 1 PROVE g[j] = g[i] \o seqs[i]
  <2>1. j \in 1..(N + 1) /\ j # 1 /\ j - 1 = i
    BY <1>4
  <2>2. g[j] = g[j - 1] \o all[j]
    BY <1>2, <2>1
  <2>3. all[j] = seqs[i]
    BY <1>1, <1>4
  <2> QED
    BY <2>1, <2>2, <2>3, Zenon
<1>5. CASE seqs = <<>>
  <2>1. FlattenSeq(seqs) = <<>> /\ N = 0
    BY <1>0, <1>5 DEF FlattenSeq
  <2>2. x \o <<>> = x
    BY ConcatEmptySeq
  <2> QED
    BY <1>2, <1>3, <2>1, <2>2 DEF all
<1>6. CASE seqs # <<>>
  <2>1. PICK f \in [1..N -> Seq(T)] :
          /\ FlattenSeq(seqs) = f[N]
          /\ \A i \in 1..N : f[i] = IF i = 1 THEN seqs[i] ELSE f[i - 1] \o seqs[i]
    <3>1. \E f \in [1..Len(seqs) -> Seq(T)] :
            /\ FlattenSeq(seqs) = f[Len(seqs)]
            /\ \A i \in 1..Len(seqs) : f[i] = IF i = 1 THEN seqs[i] ELSE f[i - 1] \o seqs[i]
      BY ONLY <1>6, seqs \in Seq(Seq(T)), FlattenedStepwise, SMTT(30)
    <3> QED
      BY <1>0, <3>1, Zenon
  <2>2. N # 0
    BY <1>0, <1>6, EmptySeq
  <2> DEFINE Shifted(i) == g[i + 1] = x \o f[i]
  <2>3. Shifted(1)
    <3>1. 1 \in 1..N /\ 1 + 1 = 2
      BY <2>2
    <3>2. f[1] = seqs[1]
      BY <2>1, <3>1
    <3>3. g[1 + 1] = g[1] \o seqs[1]
      BY <1>4, <3>1, Zenon
    <3> QED
      BY <1>3, <3>2, <3>3, Zenon
  <2>4. ASSUME NEW i \in 1..N, i + 1 \in 1..N, Shifted(i) PROVE Shifted(i + 1)
    <3>1. f[i + 1] = f[i] \o seqs[i + 1]
      <4>1. PICK j \in 1..N : j = i + 1 /\ j # 1 /\ j - 1 = i
        BY <2>4
      <4>2. f[j] = f[j - 1] \o seqs[j]
        BY <2>1, <4>1
      <4> QED
        BY <4>1, <4>2, Zenon
    <3>2. g[i + 1 + 1] = g[i + 1] \o seqs[i + 1]
      BY <1>4, <2>4
    <3>3. f[i] \in Seq(T) /\ seqs[i + 1] \in Seq(T) /\ x \in Seq(T)
      BY <1>1, <2>1, <2>4
    <3>4. (x \o f[i]) \o seqs[i + 1] = x \o (f[i] \o seqs[i + 1])
      BY <1>7, <3>3, Zenon
    <3> QED
      BY <2>4, <3>1, <3>2, <3>4, Zenon
  <2> HIDE DEF Shifted
  <2> DEFINE Bad == {i \in 1..N : ~Shifted(i)}
  <2>5. Bad = {}
    <3>1. SUFFICES ASSUME Bad # {} PROVE FALSE
      OBVIOUS
    <3>2. PICK n \in Bad : \A m \in Bad : n <= m
      <4>1. Bad \subseteq Nat
        OBVIOUS
      <4> QED
        BY <3>1, <4>1, LeastIn
    <3>3. n # 1 /\ n \in 1..N
      BY <2>3, <3>2
    <3>4. n - 1 \in 1..N /\ n - 1 + 1 = n
      BY <3>3
    <3>5. Shifted(n - 1)
      BY <3>2, <3>4
    <3> QED
      BY <2>4, <3>2, <3>3, <3>4, <3>5
  <2>6. Shifted(N)
    <3>1. N \in 1..N
      BY <2>2
    <3> QED
      BY <2>5, <3>1, Zenon
  <2> QED
    BY <1>2, <2>1, <2>6 DEF all, Shifted
<1> QED
  BY <1>5, <1>6

-----------------------------------------------------------------------------
(* The rows of a projection. *)

\* The tables are some the database had.
TablesTyped ==
  \A b \in DOMAIN tables : b \in TableIds /\ tables[b].columns \in Seq(Column)

LEMMA OneTable ==
  ASSUME NEW q, NEW e, Cardinality(EmbedTables(q, e)) = 1
  PROVE  /\ \E b \in DOMAIN tables : b \in EmbedTables(q, e)
         /\ (CHOOSE t \in EmbedTables(q, e) : TRUE) \in EmbedTables(q, e)
         /\ EmbedTables(q, e) \subseteq DOMAIN tables
         /\ ~(e > Len(q.embeds))
<1>1. EmbedTables(q, e) # {}
  BY FS_EmptySet
<1> QED
  BY <1>1 DEF EmbedTables, TablesNamed

\* A function on the first numbers is a sequence.
LEMMA IsSequence ==
  ASSUME NEW T, NEW n \in Nat, NEW f \in [1..n -> T]
  PROVE  f \in Seq(T) /\ Len(f) = n /\ DOMAIN f = 1..n
OBVIOUS

LEMMA RunLength ==
  ASSUME TablesTyped, NEW C, NEW cols \in Seq(C), NEW i \in 1..(Len(cols) + 1), NEW b \in DOMAIN tables,
         RunOf(cols, i, b)
  PROVE  /\ Run(cols, i, b) \in Seq(C) /\ Len(Run(cols, i, b)) = Len(tables[b].columns)
         /\ \A k \in 1..Len(tables[b].columns) : Run(cols, i, b)[k] = cols[i + k - 1]
         /\ Len(tables[b].columns) \in Nat /\ i + Len(tables[b].columns) <= Len(cols) + 1
<1>1. PICK n \in Nat : n = Len(tables[b].columns)
  BY DEF TablesTyped
<1>2. PICK m \in Int : m = i + n - 1
  OBVIOUS
<1>3. m <= Len(cols) /\ m - i + 1 = n /\ (i <= m => m - i + 1 = n) /\ (~(i <= m) => n = 0)
  BY <1>1, <1>2 DEF RunOf
<1>4. Run(cols, i, b) = SubSeq(cols, i, m)
  BY <1>1, <1>2 DEF Run
<1>5. \A k \in i..m : cols[k] \in C
  BY <1>3
<1>6. /\ SubSeq(cols, i, m) \in Seq(C)
      /\ Len(SubSeq(cols, i, m)) = IF i <= m THEN m - i + 1 ELSE 0
      /\ \A k \in 1..(m - i + 1) : SubSeq(cols, i, m)[k] = cols[i + k - 1]
  BY <1>5, SubSeqProperties
<1>7. Len(SubSeq(cols, i, m)) = n
  BY <1>3, <1>6
<1>8. \A k \in 1..n : SubSeq(cols, i, m)[k] = cols[i + k - 1]
  BY <1>3, <1>6
<1>9. i + n <= Len(cols) + 1
  BY <1>2, <1>3
<1> QED
  BY <1>1, <1>4, <1>6, <1>7, <1>8, <1>9

\* The model's fields in the order of the SELECT are those of the run.
LEMMA EmbedFits ==
  ASSUME TablesTyped, NEW C, NEW cols \in Seq(C), NEW i \in 1..(Len(cols) + 1), NEW b \in DOMAIN tables,
         RunOf(cols, i, b)
  PROVE  LET fields == SelectOrderedFields(Run(cols, i, b), b)
         IN  /\ fields \in Seq(ToSet(ModelFields(b)))
             /\ Len(fields) = Len(tables[b].columns)
             /\ \A k \in 1..Len(fields) : fields[k].name = cols[i + k - 1].name
<1> DEFINE run == Run(cols, i, b)
           fields == SelectOrderedFields(run, b)
<1>1. PICK n \in Nat : n = Len(tables[b].columns)
  BY DEF TablesTyped
<1>2. /\ run \in Seq(C) /\ Len(run) = n
      /\ \A k \in 1..n : run[k] = cols[i + k - 1]
  BY <1>1, RunLength
<1>3. IsPermutation(run, b)
  BY DEF RunOf
<1>4. ASSUME NEW k \in 1..n
      PROVE  \E f \in ToSet(ModelFields(b)) : f.name = run[k].name
  <2>1. PICK c \in ToSet(tables[b].columns) : c.name = run[k].name
    BY <1>2, <1>3 DEF IsPermutation
  <2>2. PICK j \in DOMAIN tables[b].columns : c = tables[b].columns[j]
    BY <2>1 DEF ToSet
  <2>3. ModelFields(b)[j].name = c.name /\ j \in DOMAIN ModelFields(b)
    BY <2>2 DEF ModelFields, Field
  <2> QED
    BY <2>1, <2>3 DEF ToSet
<1> HIDE DEF run
<1>5. fields = [k \in 1..n |-> CHOOSE f \in ToSet(ModelFields(b)) : f.name = run[k].name]
  BY <1>2 DEF SelectOrderedFields
<1> HIDE DEF fields
<1>6. \A k \in 1..n : fields[k] \in ToSet(ModelFields(b)) /\ fields[k].name = run[k].name
  BY <1>4, <1>5
<1>7. fields \in [1..n -> ToSet(ModelFields(b))]
  BY <1>5, <1>6
<1>8. fields \in Seq(ToSet(ModelFields(b))) /\ Len(fields) = n
  BY <1>7, IsSequence
<1> QED
  BY <1>1, <1>2, <1>6, <1>8 DEF fields, run

\* What a row begins with at a column, whatever its rest: with nothing, with an
\* embedded model or with a field of its own.
Stops(q, d, gos, i, e) ==
  i = Len(d.columns) + 1 /\ \A row : RowFrom(q, d, gos, row, i, e) = [NoRow EXCEPT !.ok = e > Len(q.embeds)]
Refuses(q, d, gos, i, e) == \A row : RowFrom(q, d, gos, row, i, e) = NoRow
NestsModel(q, d, gos, i, e, b) ==
  /\ i <= Len(d.columns) /\ ~(e > Len(q.embeds)) /\ RunOf(d.columns, i, b)
  /\ OverridesFit(q, d, gos, i, EmbedField(q, d.columns, i, e, b).embed)
  /\ \A row : RowFrom(q, d, gos, row, i, e) =
                 OnTop(EmbedField(q, d.columns, i, e, b), {b},
                       row[<<i + Len(EmbedField(q, d.columns, i, e, b).embed), e + 1>>])
FillsField(q, d, gos, i, e) ==
  /\ i <= Len(d.columns)
  /\ \A row : RowFrom(q, d, gos, row, i, e) = OnTop(Field(d.columns[i].name, gos[i]), {}, row[<<i + 1, e>>])

LEMMA RowForms ==
  ASSUME NEW q, NEW d, NEW gos, NEW C, d.columns \in Seq(C),
         NEW i \in 1..(Len(d.columns) + 1), NEW e
  PROVE  \/ Stops(q, d, gos, i, e) \/ Refuses(q, d, gos, i, e) \/ FillsField(q, d, gos, i, e)
         \/ \E b \in DOMAIN tables : NestsModel(q, d, gos, i, e, b)
<1> DEFINE cols == d.columns
           b == CHOOSE t \in EmbedTables(q, e) : TRUE
           one == Cardinality(EmbedTables(q, e)) = 1
<1>1. i <= Len(cols) <=> ~(i > Len(cols))
  OBVIOUS
<1>2. CASE i > Len(cols)
  <2>1. i = Len(cols) + 1
    BY <1>2
  <2>2. \A row : RowFrom(q, d, gos, row, i, e) = [NoRow EXCEPT !.ok = e > Len(q.embeds)]
    BY <1>1, <1>2, Zenon DEF RowFrom
  <2> QED
    BY <2>1, <2>2 DEF Stops
<1>3. CASE ~(i > Len(cols)) /\ one /\ RunOf(cols, i, b)
  <2>1. b \in DOMAIN tables /\ ~(e > Len(q.embeds))
    BY <1>3, OneTable
  <2> DEFINE field == EmbedField(q, cols, i, e, b)
             fits == HasGo(field.embed) /\ OverridesFit(q, d, gos, i, field.embed)
  <2>2. \A row : RowFrom(q, d, gos, row, i, e) =
                   IF fits THEN OnTop(field, {b}, row[<<i + Len(field.embed), e + 1>>]) ELSE NoRow
    BY <1>1, <1>3, Zenon DEF RowFrom
  <2>3. fits => OverridesFit(q, d, gos, i, field.embed)
    OBVIOUS
  <2> HIDE DEF b, fits
  <2> QED
    BY <1>1, <1>3, <2>1, <2>2, <2>3 DEF NestsModel, Refuses
<1>4. CASE ~(i > Len(cols)) /\ e <= Len(q.embeds) /\ ~one
  <2>1. \A row : RowFrom(q, d, gos, row, i, e) = NoRow
    BY <1>1, <1>4, Zenon DEF RowFrom
  <2> QED
    BY <2>1 DEF Refuses
<1>5. CASE ~(i > Len(cols)) /\ ~(e <= Len(q.embeds) /\ ~one) /\ ~(one /\ RunOf(cols, i, b))
  <2>1. \A row : RowFrom(q, d, gos, row, i, e) =
                   IF cols[i].name = "?column?" \/ gos[i] = NoGo THEN NoRow
                   ELSE OnTop(Field(cols[i].name, gos[i]), {}, row[<<i + 1, e>>])
    BY <1>1, <1>5, Zenon DEF RowFrom
  <2> HIDE DEF b, one
  <2> QED
    BY <1>1, <1>5, <2>1 DEF FillsField, Refuses
<1> QED
  BY <1>2, <1>3, <1>4, <1>5

\* A row is made of rows further on.
LEMMA RowAsksFurther ==
  ASSUME TablesTyped, NEW q, NEW d, NEW gos, NEW C, d.columns \in Seq(C), q.embeds \in Seq(EmbedNote),
         NEW i \in 1..(Len(d.columns) + 1), NEW e \in 1..(Len(q.embeds) + 1), NEW r1, NEW r2,
         \A j \in 1..(Len(d.columns) + 1), g \in 1..(Len(q.embeds) + 1) :
           j + g > i + e => r1[<<j, g>>] = r2[<<j, g>>]
  PROVE  RowFrom(q, d, gos, r1, i, e) = RowFrom(q, d, gos, r2, i, e)
<1> DEFINE N == Len(d.columns)
           M == Len(q.embeds)
<1>1. N \in Nat /\ M \in Nat /\ i \in Nat /\ e \in Nat
  OBVIOUS
<1>2. ASSUME NEW b \in DOMAIN tables, NestsModel(q, d, gos, i, e, b)
      PROVE  RowFrom(q, d, gos, r1, i, e) = RowFrom(q, d, gos, r2, i, e)
  <2> DEFINE n == Len(EmbedField(q, d.columns, i, e, b).embed)
  <2>1. i <= N /\ ~(e > M) /\ RunOf(d.columns, i, b)
    BY <1>2 DEF NestsModel
  <2>2. EmbedField(q, d.columns, i, e, b).embed = SelectOrderedFields(Run(d.columns, i, b), b)
    BY DEF EmbedField
  <2>3. Len(SelectOrderedFields(Run(d.columns, i, b), b)) = Len(tables[b].columns)
    BY <2>1, EmbedFits
  <2>4. Len(tables[b].columns) \in Nat /\ i + Len(tables[b].columns) <= N + 1
    BY <2>1, RunLength
  <2>5. n \in Nat /\ i + n <= N + 1
    BY <2>2, <2>3, <2>4
  <2> HIDE DEF n, N, M
  <2>6. i + n \in 1..(N + 1) /\ e + 1 \in 1..(M + 1) /\ i + n + (e + 1) > i + e
    BY <1>1, <2>1, <2>5
  <2>7. r1[<<i + n, e + 1>>] = r2[<<i + n, e + 1>>]
    BY <2>6 DEF N, M
  <2> QED
    BY <1>2, <2>7, Zenon DEF n, NestsModel
<1>3. ASSUME FillsField(q, d, gos, i, e)
      PROVE  RowFrom(q, d, gos, r1, i, e) = RowFrom(q, d, gos, r2, i, e)
  <2>1. i <= N
    BY <1>3 DEF FillsField
  <2> HIDE DEF N, M
  <2>2. i + 1 \in 1..(N + 1) /\ i + 1 + e > i + e
    BY <1>1, <2>1
  <2>3. r1[<<i + 1, e>>] = r2[<<i + 1, e>>]
    BY <2>2 DEF N
  <2> QED
    BY <1>3, <2>3, Zenon DEF FillsField
<1>4. CASE Stops(q, d, gos, i, e) \/ Refuses(q, d, gos, i, e)
  BY <1>4, Zenon DEF Stops, Refuses
<1> QED
  BY <1>2, <1>3, <1>4, RowForms

\* So there is one row to each place, as RowFields has it.
RowsAre(q, d, gos, row) ==
  row = [at \in (1..(Len(d.columns) + 1)) \X (1..(Len(q.embeds) + 1)) |-> RowFrom(q, d, gos, row, at[1], at[2])]

LEMMA RowsExist ==
  ASSUME TablesTyped, NEW q, NEW d, NEW gos, NEW C, d.columns \in Seq(C), q.embeds \in Seq(EmbedNote)
  PROVE  \E row : RowsAre(q, d, gos, row)
<1> DEFINE N == Len(d.columns)
           M == Len(q.embeds)
           D == (1..(N + 1)) \X (1..(M + 1))
           Far(at) == N + M + 2 - at[1] - at[2]
           Fits(f, at) == f[at] = RowFrom(q, d, gos, f, at[1], at[2])
           Upto(m) == \E f : f = [at \in D |-> f[at]] /\ \A at \in D : Far(at) < m => Fits(f, at)
           Lacking == {m \in Nat : ~Upto(m)}
<1>0. N \in Nat /\ M \in Nat
  OBVIOUS
<1> HIDE DEF N, M
<1>1. \A at \in D : Far(at) \in Int /\ 0 <= Far(at) /\ Far(at) < N + M + 1
  <2> SUFFICES ASSUME NEW at \in D PROVE Far(at) \in Int /\ 0 <= Far(at) /\ Far(at) < N + M + 1
    OBVIOUS
  <2>1. PICK i \in 1..(N + 1), e \in 1..(M + 1) : at[1] = i /\ at[2] = e
    OBVIOUS
  <2>2. Far(at) = N + M + 2 - i - e
    BY <2>1
  <2> HIDE DEF Far, D
  <2> QED
    BY <1>0, <2>2
<1> HIDE DEF Far, D
<1>2. Upto(0)
  <2> DEFINE f == [at \in D |-> NoRow]
  <2>1. f = [at \in D |-> f[at]]
    OBVIOUS
  <2>2. \A at \in D : ~(Far(at) < 0)
    BY <1>1
  <2> HIDE DEF f, Fits
  <2> QED
    BY <2>1, <2>2
<1>3. ASSUME NEW m \in Nat, Upto(m) PROVE Upto(m + 1)
  <2> HIDE DEF Fits
  <2>1. PICK f : f = [at \in D |-> f[at]] /\ \A at \in D : Far(at) < m => Fits(f, at)
    BY <1>3
  <2> DEFINE g == [at \in D |-> IF Far(at) = m THEN RowFrom(q, d, gos, f, at[1], at[2]) ELSE f[at]]
  <2>2. g = [at \in D |-> g[at]]
    OBVIOUS
  <2>3. \A at \in D : g[at] = IF Far(at) = m THEN RowFrom(q, d, gos, f, at[1], at[2]) ELSE f[at]
    OBVIOUS
  <2> HIDE DEF g
  <2>4. ASSUME NEW at \in D, Far(at) < m + 1 PROVE Fits(g, at)
    <3>1. PICK i \in 1..(N + 1), e \in 1..(M + 1) : at = <<i, e>> /\ at[1] = i /\ at[2] = e
      BY DEF D
    <3>2. ASSUME NEW j \in 1..(N + 1), NEW h \in 1..(M + 1), j + h > i + e
          PROVE  g[<<j, h>>] = f[<<j, h>>]
      <4>1. <<j, h>> \in D /\ Far(<<j, h>>) = N + M + 2 - j - h /\ Far(at) = N + M + 2 - i - e
        BY <3>1 DEF D, Far
      <4>2. Far(<<j, h>>) # m
        BY <1>0, <2>4, <3>2, <4>1
      <4> QED
        BY <2>3, <4>1, <4>2
    <3>3. RowFrom(q, d, gos, g, i, e) = RowFrom(q, d, gos, f, i, e)
      BY <3>2, RowAsksFurther DEF N, M
    <3>4. CASE Far(at) = m
      <4>1. g[at] = RowFrom(q, d, gos, f, i, e)
        BY <2>3, <3>1, <3>4
      <4> QED
        BY <3>1, <3>3, <4>1 DEF Fits
    <3>5. CASE Far(at) # m
      <4>1. Far(at) \in Int
        BY <1>1
      <4>2. Far(at) < m
        BY <2>4, <3>5, <4>1
      <4>3. g[at] = f[at] /\ Fits(f, at)
        BY <2>1, <2>3, <3>5, <4>2
      <4> QED
        BY <3>1, <3>3, <4>3 DEF Fits
    <3> QED
      BY <3>4, <3>5
  <2> QED
    BY <2>2, <2>4
<1> HIDE DEF Upto
<1>4. Lacking = {}
  <2>1. SUFFICES ASSUME Lacking # {} PROVE FALSE
    OBVIOUS
  <2>2. PICK n \in Lacking : \A m \in Lacking : n <= m
    <3>1. Lacking \subseteq Nat
      OBVIOUS
    <3> QED
      BY <2>1, <3>1, LeastIn
  <2>3. n \in Nat /\ n # 0
    BY <1>2, <2>2
  <2>4. n - 1 \in Nat /\ n - 1 + 1 = n /\ n - 1 \notin Lacking
    BY <2>2, <2>3
  <2> QED
    BY <1>3, <2>2, <2>4
<1>5. Upto(N + M + 1)
  BY <1>0, <1>4
<1>6. PICK f : f = [at \in D |-> f[at]] /\ \A at \in D : Far(at) < N + M + 1 => Fits(f, at)
  BY <1>5 DEF Upto
<1>7. \A at \in D : f[at] = RowFrom(q, d, gos, f, at[1], at[2])
  <2>1. \A at \in D : Far(at) < N + M + 1
    BY <1>1
  <2> QED
    BY <1>6, <2>1
<1>8. f = [at \in D |-> RowFrom(q, d, gos, f, at[1], at[2])]
  <2> HIDE DEF Fits
  <2> QED
    BY <1>6, <1>7
<1> QED
  BY <1>8 DEF D, N, M, RowsAre

-----------------------------------------------------------------------------
(* Every column is scanned into its own field. *)

\* The columns of a table, in some order, each under its own name, and no other.
Covers(ts, cols, from, to, b) ==
  /\ b \in DOMAIN ts
  /\ {cols[k].attnum : k \in from..to} = {c.attnum : c \in ToSet(ts[b].columns)}
  /\ \A k \in from..to :
       /\ cols[k].table = b
       /\ \E c \in ToSet(ts[b].columns) : c.attnum = cols[k].attnum /\ c.name = cols[k].name

\* As many different columns as the table has are all of them.
LEMMA RunCovers ==
  ASSUME TablesTyped, NEW C, NEW cols \in Seq(C), NEW i \in 1..(Len(cols) + 1), NEW b \in DOMAIN tables,
         RunOf(cols, i, b)
  PROVE  Covers(tables, cols, i, i + Len(tables[b].columns) - 1, b)
<1> DEFINE columns == tables[b].columns
           run == Run(cols, i, b)
           B == {c.attnum : c \in ToSet(columns)}
<1>1. PICK n \in Nat : n = Len(columns) /\ DOMAIN columns = 1..n
  BY DEF TablesTyped
<1>2. /\ Len(run) = n /\ DOMAIN run = 1..n
      /\ \A k \in 1..n : run[k] = cols[i + k - 1]
  BY <1>1, RunLength
<1>3. ASSUME NEW k \in 1..n
      PROVE  /\ run[k].table = b
             /\ \E c \in ToSet(columns) : c.attnum = run[k].attnum /\ c.name = run[k].name
             /\ run[k].attnum \in B
             /\ \A l \in 1..(k - 1) : run[l].attnum # run[k].attnum
  <2>1. IsPermutation(run, b)
    BY DEF RunOf
  <2> HIDE DEF run
  <2>2. /\ run[k].table = b
        /\ \E c \in ToSet(columns) : c.attnum = run[k].attnum /\ c.name = run[k].name
        /\ \A l \in 1..(k - 1) : run[l].attnum # run[k].attnum
    BY <1>2, <2>1, Zenon DEF IsPermutation
  <2> QED
    BY <2>2, Zenon
<1> DEFINE f == [k \in 1..n |-> run[k].attnum]
           g == [k \in 1..n |-> columns[k].attnum]
<1> HIDE DEF run, columns
<1>4. f \in Injection(1..n, B)
  <2>1. f \in [1..n -> B]
    BY <1>3
  <2>2. ASSUME NEW k \in 1..n, NEW l \in 1..n, f[k] = f[l] PROVE k = l
    <3>1. run[k].attnum = run[l].attnum
      BY <2>2
    <3>2. ~(l \in 1..(k - 1)) /\ ~(k \in 1..(l - 1))
      BY <1>3, <3>1
    <3> QED
      BY <3>2
  <2> HIDE DEF f, B
  <2> QED
    BY <2>1, <2>2 DEF Injection, IsInjective
<1>5. g \in Surjection(1..n, B)
  <2>1. \A c \in ToSet(columns) : \E k \in 1..n : c = columns[k]
    BY <1>1 DEF ToSet
  <2>2. \A k \in 1..n : columns[k] \in ToSet(columns)
    BY <1>1 DEF ToSet
  <2>3. g \in [1..n -> B]
    BY <2>2
  <2>4. \A x \in B : \E k \in 1..n : g[k] = x
    BY <2>1
  <2> HIDE DEF g, B
  <2> QED
    BY <2>3, <2>4 DEF Surjection
<1> HIDE DEF f, g, B
<1>6. IsFiniteSet(1..n) /\ Cardinality(1..n) = n
  <2>1. 1 \in Int /\ n \in Int
    OBVIOUS
  <2>2. IsFiniteSet(1..n) /\ Cardinality(1..n) = IF 1 > n THEN 0 ELSE n - 1 + 1
    BY <2>1, FS_Interval, Zenon
  <2>3. n = IF 1 > n THEN 0 ELSE n - 1 + 1
    OBVIOUS
  <2> QED
    BY <2>2, <2>3
<1>7. IsFiniteSet(B) /\ Cardinality(B) <= n /\ Cardinality(B) \in Nat
  BY <1>5, <1>6, FS_Surjection, FS_CardinalityType
<1>8. f \in Surjection(1..n, B)
  <2>1. /\ Cardinality(1..n) <= Cardinality(B)
        /\ Cardinality(1..n) = Cardinality(B) <=> f \in Surjection(1..n, B)
    BY <1>4, <1>7, FS_Injection
  <2> QED
    BY <1>6, <1>7, <2>1
<1>9. {run[k].attnum : k \in 1..n} = B
  <2>1. \A x \in B : \E k \in 1..n : f[k] = x
    BY <1>8 DEF Surjection
  <2>2. \A k \in 1..n : f[k] = run[k].attnum
    BY DEF f
  <2> QED
    BY <1>3, <2>1, <2>2
<1>10. {cols[k].attnum : k \in i..(i + n - 1)} = {run[k].attnum : k \in 1..n}
  <2>1. ASSUME NEW k \in i..(i + n - 1) PROVE \E l \in 1..n : cols[k] = run[l]
    <3>1. k - i + 1 \in 1..n /\ i + (k - i + 1) - 1 = k
      OBVIOUS
    <3> QED
      BY <1>2, <3>1
  <2>2. ASSUME NEW l \in 1..n PROVE \E k \in i..(i + n - 1) : cols[k] = run[l]
    <3>1. i + l - 1 \in i..(i + n - 1)
      OBVIOUS
    <3> QED
      BY <1>2, <3>1
  <2>3. {cols[k].attnum : k \in i..(i + n - 1)} \subseteq {run[k].attnum : k \in 1..n}
    BY <2>1
  <2>4. {run[k].attnum : k \in 1..n} \subseteq {cols[k].attnum : k \in i..(i + n - 1)}
    BY <2>2
  <2> QED
    BY <2>3, <2>4
<1>11. ASSUME NEW k \in i..(i + n - 1)
       PROVE  /\ cols[k].table = b
              /\ \E c \in ToSet(columns) : c.attnum = cols[k].attnum /\ c.name = cols[k].name
  <2>1. k - i + 1 \in 1..n /\ i + (k - i + 1) - 1 = k
    OBVIOUS
  <2>2. run[k - i + 1] = cols[k]
    BY <1>2, <2>1
  <2> QED
    BY <1>3, <2>1, <2>2
<1> QED
  BY <1>1, <1>9, <1>10, <1>11 DEF Covers, B, columns

\* The fields of a row lie one after the other.
LEMMA FlatFirst ==
  ASSUME NEW T, NEW F, NEW fs \in Seq(F), NEW g \in F, \A f \in F : Flat(f) \in Seq(T)
  PROVE  /\ FlatFields(fs) \in Seq(T)
         /\ FlatFields(<<g>> \o fs) = Flat(g) \o FlatFields(fs)
<1> DEFINE parts == [k \in DOMAIN fs |-> Flat(fs[k])]
           all == <<g>> \o fs
           allParts == [k \in DOMAIN all |-> Flat(all[k])]
<1>1. PICK n \in Nat : n = Len(fs) /\ DOMAIN fs = 1..n
  OBVIOUS
<1>2. \A k \in 1..n : fs[k] \in F
  BY <1>1
<1>3. DOMAIN all = 1..(n + 1) /\ all[1] = g /\ \A k \in 2..(n + 1) : all[k] = fs[k - 1]
  BY <1>1
<1>4. parts \in [1..n -> Seq(T)]
  BY <1>1, <1>2
<1>5. parts \in Seq(Seq(T)) /\ Len(parts) = n
  BY <1>4, IsSequence
<1>6. allParts = <<Flat(g)>> \o parts
  <2> HIDE DEF all
  <2> DEFINE other == <<Flat(g)>> \o parts
  <2>1. Flat(g) \in Seq(T)
    OBVIOUS
  <2>2. \A k \in 1..n : parts[k] = Flat(fs[k])
    BY <1>1
  <2> HIDE DEF parts
  <2>3. /\ other \in Seq(Seq(T)) /\ Len(other) = n + 1
        /\ other[1] = Flat(g) /\ \A k \in 2..(n + 1) : other[k] = parts[k - 1]
    BY <1>5, <2>1
  <2> HIDE DEF other
  <2>4. \A k \in 1..(n + 1) : other[k] = Flat(all[k])
    <3> SUFFICES ASSUME NEW k \in 1..(n + 1) PROVE other[k] = Flat(all[k])
      OBVIOUS
    <3>1. CASE k = 1
      BY <1>3, <2>3, <3>1
    <3>2. CASE k # 1
      <4>1. k \in 2..(n + 1) /\ k - 1 \in 1..n
        BY <3>2
      <4> QED
        BY <1>3, <2>2, <2>3, <4>1
    <3> QED
      BY <3>1, <3>2
  <2>5. other = [k \in 1..(n + 1) |-> other[k]]
    BY <2>3
  <2> QED
    BY <1>3, <2>4, <2>5 DEF other
<1>7. FlatFields(fs) = FlattenSeq(parts) /\ FlatFields(all) = FlattenSeq(allParts)
  BY DEF FlatFields
<1> HIDE DEF parts, allParts
<1>8. FlattenSeq(<<Flat(g)>> \o parts) = Flat(g) \o FlattenSeq(parts)
  BY <1>5, FlattenedFirst
<1>9. FlattenSeq(parts) \in Seq(T)
  BY <1>5, Flattened
<1> QED
  BY <1>6, <1>7, <1>8, <1>9

\* What a query asks of the field for each of its columns: its name and, where
\* an override speaks of the column, its Go type.
Wants(q, cols, gos) ==
  [k \in DOMAIN cols |-> [name |-> cols[k].name, spoken |-> Spoken(q, cols[k].name), go |-> gos[k]]]
Meets(f, want) == f.name = want.name /\ (want.spoken => f.go = want.go)

\* Fields lie over the columns from one on: each scanned value goes to the
\* field that was asked for, and each model covers its table.
Laid(ts, fs, cols, wants, i) ==
  /\ Len(FlatFields(fs)) = Len(cols) + 1 - i
  /\ \A k \in 1..Len(FlatFields(fs)) : Meets(FlatFields(fs)[k], wants[i + k - 1])
  /\ \A j \in 1..Len(fs) : \A at \in Int :
       fs[j].table # NoTable /\ at = i + Len(FlatFields(SubSeq(fs, 1, j - 1))) =>
         Covers(ts, cols, at, at + Len(fs[j].embed) - 1, fs[j].table)

\* A field before fields that are laid.
LEMMA LaidBefore ==
  ASSUME NEW C, NEW cols \in Seq(C), NEW wants, NEW T, NEW F, NEW fs \in Seq(F), NEW g \in F,
         \A f \in F : Flat(f) \in Seq(T),
         NEW i \in 1..(Len(cols) + 1), i + Len(Flat(g)) <= Len(cols) + 1,
         Laid(tables, fs, cols, wants, i + Len(Flat(g))),
         \A k \in 1..Len(Flat(g)) : Meets(Flat(g)[k], wants[i + k - 1]),
         g.table # NoTable => Covers(tables, cols, i, i + Len(g.embed) - 1, g.table)
  PROVE  Laid(tables, <<g>> \o fs, cols, wants, i)
<1> DEFINE all == <<g>> \o fs
           whole == FlatFields(all)
<1>1. PICK flat \in Seq(T), rest \in Seq(T) :
        flat = Flat(g) /\ rest = FlatFields(fs) /\ whole = flat \o rest
  <2>1. FlatFields(fs) \in Seq(T) /\ whole = Flat(g) \o FlatFields(fs)
    BY FlatFirst
  <2>2. Flat(g) \in Seq(T)
    BY Zenon
  <2> HIDE DEF whole
  <2> QED
    BY <2>1, <2>2, Zenon
<1>2. PICK n \in Nat, m \in Nat : n = Len(flat) /\ m = Len(rest)
  OBVIOUS
<1> HIDE DEF whole
<1>3. m = Len(cols) + 1 - (i + n)
  BY <1>1, <1>2 DEF Laid
<1>4. \A k \in 1..m : Meets(rest[k], wants[i + n + k - 1])
  BY <1>1, <1>2 DEF Laid
<1>5. /\ Len(whole) = n + m
      /\ \A k \in 1..(n + m) : whole[k] = IF k <= n THEN flat[k] ELSE rest[k - n]
  BY <1>1, <1>2, ConcatProperties
<1>6. Len(whole) = Len(cols) + 1 - i
  BY <1>3, <1>5
<1>7. ASSUME NEW k \in 1..(n + m) PROVE Meets(whole[k], wants[i + k - 1])
  <2>1. CASE k <= n
    <3>1. whole[k] = flat[k] /\ k \in 1..n
      BY <1>5, <2>1
    <3>2. Meets(flat[k], wants[i + k - 1])
      BY <1>1, <1>2, <3>1
    <3> QED
      BY <3>1, <3>2
  <2>2. CASE ~(k <= n)
    <3>1. k - n \in 1..m /\ i + n + (k - n) - 1 = i + k - 1
      BY <2>2
    <3>2. whole[k] = rest[k - n]
      BY <1>5, <2>2
    <3>3. Meets(rest[k - n], wants[i + n + (k - n) - 1])
      BY <1>4, <3>1
    <3> QED
      BY <3>1, <3>2, <3>3
  <2> QED
    BY <2>1, <2>2
<1>8. PICK l \in Nat : l = Len(fs)
  OBVIOUS
<1>9. /\ Len(all) = l + 1 /\ all[1] = g
      /\ \A j \in 2..(l + 1) : all[j] = fs[j - 1]
      /\ all \in Seq(F)
  BY <1>8
<1>10. ASSUME NEW j \in 1..(l + 1), NEW at \in Int, all[j].table # NoTable,
              at = i + Len(FlatFields(SubSeq(all, 1, j - 1)))
       PROVE  Covers(tables, cols, at, at + Len(all[j].embed) - 1, all[j].table)
  <2>1. CASE j = 1
    <3>1. SubSeq(all, 1, j - 1) = <<>>
      BY <2>1, SubSeqEmpty
    <3>2. FlatFields(<<>>) = <<>>
      BY DEF FlatFields, FlattenSeq
    <3>3. at = i + 0
      <4>1. at = i + Len(FlatFields(<<>>))
        BY <1>10, <3>1, Zenon
      <4>2. Len(<<>>) = 0
        OBVIOUS
      <4> QED
        BY <3>2, <4>1, <4>2, Zenon
    <3>4. at = i /\ all[j] = g
      BY <1>9, <2>1, <3>3
    <3> QED
      BY <1>10, <3>4
  <2>2. CASE j # 1
    <3>1. PICK h \in 1..l : h = j - 1
      BY <2>2
    <3> DEFINE before == SubSeq(fs, 1, h - 1)
    <3>2. before \in Seq(F)
      <4>1. \A k \in 1..(h - 1) : fs[k] \in F
        BY <1>8, <3>1
      <4> QED
        BY <4>1, SubSeqProperties
    <3>3. SubSeq(all, 1, h) = <<g>> \o before
      <4>1. /\ before \in Seq(F) /\ Len(before) = h - 1
            /\ \A k \in 1..(h - 1) : before[k] = fs[k]
        BY <1>8, <3>1, <3>2
      <4>2. \A k \in 1..h : all[k] \in F
        <5>1. PICK s : s = all /\ s \in Seq(F) /\ Len(s) = l + 1
          BY <1>9, Zenon
        <5>2. \A k \in 1..h : s[k] \in F
          BY ONLY <1>8, <3>1, <5>1
        <5> QED
          BY <5>1, <5>2, Zenon
      <4>3. /\ SubSeq(all, 1, h) \in Seq(F) /\ Len(SubSeq(all, 1, h)) = h
            /\ \A k \in 1..h : SubSeq(all, 1, h)[k] = all[k]
        <5> HIDE DEF all
        <5> QED
          BY <1>9, <3>1, <4>2
      <4> HIDE DEF before, all
      <4>4. /\ <<g>> \o before \in Seq(F) /\ Len(<<g>> \o before) = h
            /\ (<<g>> \o before)[1] = g
            /\ \A k \in 2..h : (<<g>> \o before)[k] = before[k - 1]
        BY <4>1
      <4>5. \A k \in 1..h : SubSeq(all, 1, h)[k] = (<<g>> \o before)[k]
        <5> SUFFICES ASSUME NEW k \in 1..h PROVE SubSeq(all, 1, h)[k] = (<<g>> \o before)[k]
          OBVIOUS
        <5>1. SubSeq(all, 1, h)[k] = all[k]
          BY <4>3
        <5>2. CASE k = 1
          BY <1>9, <4>4, <5>1, <5>2, Zenon
        <5>3. CASE k # 1
          <6>1. k \in 2..h /\ k - 1 \in 1..(h - 1) /\ k \in 2..(l + 1)
            BY <5>3
          <6>2. all[k] = fs[k - 1] /\ before[k - 1] = fs[k - 1]
            BY <1>9, <4>1, <6>1, Zenon
          <6> QED
            BY <4>4, <5>1, <6>1, <6>2, Zenon
        <5> QED
          BY <5>2, <5>3
      <4> QED
        BY <4>3, <4>4, <4>5, SeqEqual
    <3> HIDE DEF all, before
    <3>4. PICK some \in Seq(T) : some = FlatFields(before) /\ FlatFields(<<g>> \o before) = flat \o some
      BY <1>1, <3>2, FlatFirst
    <3>5. Len(flat \o some) = n + Len(some) /\ Len(some) \in Nat
      BY <1>2
    <3>6. at = i + n + Len(FlatFields(before))
      <4>1. FlatFields(SubSeq(all, 1, j - 1)) = flat \o some
        BY <3>1, <3>3, <3>4
      <4>2. at = i + Len(flat \o some)
        BY <1>10, <4>1
      <4> QED
        BY <3>4, <3>5, <4>2
    <3>7. all[j] = fs[h]
      <4>1. j \in 2..(l + 1)
        BY ONLY <1>8, <2>2, j \in 1..(l + 1)
      <4>2. all[j] = fs[j - 1]
        BY <1>9, <4>1, Zenon
      <4> QED
        BY <3>1, <4>2, Zenon
    <3>8. Covers(tables, cols, at, at + Len(fs[h].embed) - 1, fs[h].table)
      <4>1. i + n + Len(FlatFields(before)) = i + Len(Flat(g)) + Len(FlatFields(SubSeq(fs, 1, h - 1)))
        BY <1>1, <1>2, Zenon DEF before
      <4>2. h \in 1..Len(fs) /\ fs[h].table # NoTable
        BY <1>8, <1>10, <3>7
      <4>3. at = (i + Len(Flat(g))) + Len(FlatFields(SubSeq(fs, 1, h - 1)))
        BY <3>6, <4>1
      <4> QED
        BY <4>2, <4>3, Zenon DEF Laid
    <3> QED
      BY <3>7, <3>8
  <2> QED
    BY <2>1, <2>2
<1> HIDE DEF all
<1> QED
  BY <1>2, <1>5, <1>6, <1>7, <1>8, <1>9, <1>10 DEF Laid, all, whole

LEMMA OnTopHas ==
  ASSUME NEW f, NEW used, NEW rest, NEW made, made = OnTop(f, used, rest), made.ok
  PROVE  rest.ok /\ made.fields = <<f>> \o rest.fields
BY DEF OnTop

\* They are a sequence of fields, and of what each of them fills.
Lies(ts, fs, cols, wants, i) ==
  \E T, F : fs \in Seq(F) /\ (\A f \in F : Flat(f) \in Seq(T)) /\ Laid(ts, fs, cols, wants, i)

LEMMA LiesBefore ==
  ASSUME NEW C, NEW cols \in Seq(C), NEW wants, NEW U, NEW fs, NEW g, Flat(g) \in Seq(U),
         NEW i \in 1..(Len(cols) + 1), i + Len(Flat(g)) <= Len(cols) + 1,
         Lies(tables, fs, cols, wants, i + Len(Flat(g))),
         \A k \in 1..Len(Flat(g)) : Meets(Flat(g)[k], wants[i + k - 1]),
         g.table # NoTable => Covers(tables, cols, i, i + Len(g.embed) - 1, g.table)
  PROVE  Lies(tables, <<g>> \o fs, cols, wants, i)
<1>1. PICK T, F : fs \in Seq(F) /\ (\A f \in F : Flat(f) \in Seq(T)) /\ Laid(tables, fs, cols, wants, i + Len(Flat(g)))
  BY Zenon DEF Lies
<1> DEFINE T2 == T \cup U
           F2 == F \cup {g}
<1>2. fs \in Seq(F2) /\ g \in F2
  BY <1>1, SeqMonotonic
<1>3. ASSUME NEW f \in F2 PROVE Flat(f) \in Seq(T2)
  <2>1. CASE f = g
    BY <2>1, SeqMonotonic
  <2>2. CASE f \in F
    BY <1>1, <2>2, SeqMonotonic
  <2> QED
    BY <2>1, <2>2
<1> HIDE DEF T2, F2
<1>4. Laid(tables, <<g>> \o fs, cols, wants, i)
  BY <1>1, <1>2, <1>3, LaidBefore
<1>5. <<g>> \o fs \in Seq(F2)
  BY <1>2
<1> QED
  BY <1>3, <1>4, <1>5 DEF Lies

LEMMA NothingLies ==
  ASSUME NEW C, NEW cols \in Seq(C), NEW wants PROVE Lies(tables, <<>>, cols, wants, Len(cols) + 1)
<1>1. FlatFields(<<>>) = <<>>
  BY DEF FlatFields, FlattenSeq
<1>2. Laid(tables, <<>>, cols, wants, Len(cols) + 1)
  BY <1>1 DEF Laid
<1>3. PICK F : F = {}
  OBVIOUS
<1>4. <<>> \in Seq(F) /\ \A f \in F : Flat(f) \in Seq(F)
  BY <1>3
<1> QED
  BY <1>2, <1>4 DEF Lies

\* A field of its own, then what lies over the columns behind it.
LEMMA FieldLies ==
  ASSUME NEW C, NEW cols \in Seq(C), NEW wants, NEW i \in 1..Len(cols), NEW go, NEW made, NEW rest,
         Meets(Field(cols[i].name, go), wants[i]),
         made = OnTop(Field(cols[i].name, go), {}, rest), made.ok,
         rest.ok => Lies(tables, rest.fields, cols, wants, i + 1)
  PROVE  Lies(tables, made.fields, cols, wants, i)
<1> DEFINE g == Field(cols[i].name, go)
<1>0. PICK none : made = OnTop(g, none, rest)
  OBVIOUS
<1>2. g.table = NoTable /\ Meets(g, wants[i])
  BY DEF Field
<1> HIDE DEF g
<1>1. rest.ok /\ made.fields = <<g>> \o rest.fields
  BY <1>0, OnTopHas
<1>3. Flat(g) = <<g>> /\ Len(Flat(g)) = 1 /\ Flat(g)[1] = g /\ Flat(g) \in Seq({g})
  BY <1>2 DEF Flat
<1>4. ASSUME NEW k \in 1..Len(Flat(g)) PROVE Meets(Flat(g)[k], wants[i + k - 1])
  <2>1. k = 1 /\ i + k - 1 = i
    BY <1>3
  <2> QED
    BY <1>2, <1>3, <2>1
<1>5. Lies(tables, rest.fields, cols, wants, i + 1)
  BY <1>1
<1>6. i \in 1..(Len(cols) + 1) /\ i + Len(Flat(g)) <= Len(cols) + 1
  BY <1>3
<1>7. Lies(tables, <<g>> \o rest.fields, cols, wants, i)
  BY <1>2, <1>3, <1>4, <1>5, <1>6, LiesBefore
<1> QED
  BY <1>1, <1>7

\* A model over the run of its table's columns, then what lies behind it.
LEMMA ModelLies ==
  ASSUME TablesTyped, CompileAssumption, NEW C, NEW cols \in Seq(C), NEW i \in 1..(Len(cols) + 1),
         NEW b \in DOMAIN tables, RunOf(cols, i, b),
         NEW q, NEW d, NEW gos, NEW e, NEW made, NEW rest, NEW wants,
         d.columns = cols, wants = Wants(q, cols, gos),
         OverridesFit(q, d, gos, i, EmbedField(q, cols, i, e, b).embed),
         made = OnTop(EmbedField(q, cols, i, e, b), {b}, rest), made.ok,
         rest.ok => Lies(tables, rest.fields, cols, wants, i + Len(EmbedField(q, cols, i, e, b).embed))
  PROVE  Lies(tables, made.fields, cols, wants, i)
<1> DEFINE g == EmbedField(q, cols, i, e, b)
           n == Len(g.embed)
<1>0. PICK own : made = OnTop(g, own, rest)
  OBVIOUS
<1>1. rest.ok /\ made.fields = <<g>> \o rest.fields
  <2> HIDE DEF g
  <2>1. made.ok
    OBVIOUS
  <2> QED
    BY ONLY <1>0, <2>1, OnTopHas
<1>2. g.table = b /\ g.embed = SelectOrderedFields(Run(cols, i, b), b)
  BY DEF EmbedField
<1>3. b # NoTable
  BY DEF CompileAssumption, TablesTyped
<1>4. Lies(tables, rest.fields, cols, wants, i + n)
  BY <1>1
<1> HIDE DEF g
<1>5. Flat(g) = g.embed
  BY <1>2, <1>3 DEF Flat
<1>6. /\ Flat(g) \in Seq(ToSet(ModelFields(b))) /\ n = Len(tables[b].columns)
      /\ \A k \in 1..Len(Flat(g)) : Flat(g)[k].name = cols[i + k - 1].name
  <2>1. LET fields == SelectOrderedFields(Run(cols, i, b), b)
        IN  /\ fields \in Seq(ToSet(ModelFields(b)))
            /\ Len(fields) = Len(tables[b].columns)
            /\ \A k \in 1..Len(fields) : fields[k].name = cols[i + k - 1].name
    BY EmbedFits
  <2>2. PICK fields : fields = SelectOrderedFields(Run(cols, i, b), b) /\ fields = g.embed /\ fields = Flat(g)
    BY <1>2, <1>5, Zenon
  <2>3. fields \in Seq(ToSet(ModelFields(b))) /\ Len(fields) = Len(tables[b].columns)
        /\ \A k \in 1..Len(fields) : fields[k].name = cols[i + k - 1].name
    BY <2>1, <2>2, Zenon
  <2> QED
    BY <2>2, <2>3, Zenon
<1>7. Covers(tables, cols, i, i + n - 1, g.table)
  <2>1. Covers(tables, cols, i, i + Len(tables[b].columns) - 1, b)
    BY RunCovers
  <2> QED
    BY <1>2, <1>6, <2>1, Zenon
<1>8. i + n <= Len(cols) + 1
  BY <1>6, RunLength
<1>9. ASSUME NEW k \in 1..Len(Flat(g)) PROVE Meets(Flat(g)[k], wants[i + k - 1])
  <2>1. PICK m \in Nat : m = n /\ m = Len(Flat(g)) /\ DOMAIN Flat(g) = 1..m
    <3>1. Len(Flat(g)) \in Nat /\ DOMAIN Flat(g) = 1..Len(Flat(g))
      <4>1. PICK t : t = Flat(g) /\ t \in Seq(ToSet(ModelFields(b)))
        BY <1>6, Zenon
      <4>2. Len(t) \in Nat /\ DOMAIN t = 1..Len(t)
        BY ONLY <4>1
      <4> QED
        BY <4>1, <4>2, Zenon
    <3>2. n = Len(Flat(g))
      BY <1>5, Zenon
    <3> QED
      BY <3>1, <3>2, Zenon
  <2>2. i + k - 1 \in 1..Len(cols) /\ k \in DOMAIN g.embed
    BY <1>5, <1>8, <2>1
  <2>3. wants[i + k - 1] = [name |-> cols[i + k - 1].name, spoken |-> Spoken(q, cols[i + k - 1].name), go |-> gos[i + k - 1]]
    BY <2>2 DEF Wants
  <2>4. Spoken(q, cols[i + k - 1].name) => gos[i + k - 1] = g.embed[k].go
    BY <2>2 DEF OverridesFit, Spoken, g
  <2> QED
    BY <1>5, <1>6, <2>3, <2>4 DEF Meets
<1>10. Lies(tables, <<g>> \o rest.fields, cols, wants, i)
  BY <1>4, <1>5, <1>6, <1>7, <1>8, <1>9, LiesBefore
<1> QED
  BY <1>1, <1>10

\* A row that is made has a field, of its own or of a model, for each column
\* from its first one on.
LEMMA RowsLie ==
  ASSUME TablesTyped, CompileAssumption, NEW q, NEW d, NEW gos, NEW C, d.columns \in Seq(C), q.embeds \in Seq(EmbedNote),
         NEW i \in 1..(Len(d.columns) + 1), NEW e \in 1..(Len(q.embeds) + 1),
         NEW row, row[<<i, e>>] = RowFrom(q, d, gos, row, i, e), row[<<i, e>>].ok,
         NEW wants, wants = Wants(q, d.columns, gos),
         \A j \in 1..(Len(d.columns) + 1), h \in 1..(Len(q.embeds) + 1) :
           j + h > i + e /\ row[<<j, h>>].ok => Lies(tables, row[<<j, h>>].fields, d.columns, wants, j)
  PROVE  Lies(tables, row[<<i, e>>].fields, d.columns, wants, i)
<1> DEFINE cols == d.columns
<1>1. PICK N \in Nat, M \in Nat : N = Len(cols) /\ M = Len(q.embeds)
  OBVIOUS
<1>2. i \in 1..(N + 1) /\ e \in 1..(M + 1)
  BY <1>1
<1>3. ASSUME NEW j \in 1..(N + 1), NEW h \in 1..(M + 1), j + h > i + e, row[<<j, h>>].ok
      PROVE  Lies(tables, row[<<j, h>>].fields, cols, wants, j)
  BY <1>1, <1>3
<1>4. CASE Stops(q, d, gos, i, e)
  <2>1. row[<<i, e>>].fields = <<>> /\ i = Len(cols) + 1
    BY <1>4 DEF Stops, NoRow
  <2> QED
    BY <2>1, NothingLies
<1>5. CASE Refuses(q, d, gos, i, e)
  BY <1>5 DEF Refuses, NoRow
<1>6. CASE FillsField(q, d, gos, i, e)
  <2>1. row[<<i, e>>] = OnTop(Field(cols[i].name, gos[i]), {}, row[<<i + 1, e>>])
    BY <1>6, Zenon DEF FillsField
  <2>2. i \in 1..Len(cols) /\ i <= N
    BY <1>1, <1>2, <1>6 DEF FillsField
  <2>3. i + 1 \in 1..(N + 1) /\ i + 1 + e > i + e
    BY <1>1, <1>2, <2>2
  <2>4. row[<<i + 1, e>>].ok => Lies(tables, row[<<i + 1, e>>].fields, cols, wants, i + 1)
    BY <1>2, <1>3, <2>3
  <2>5. Meets(Field(cols[i].name, gos[i]), wants[i])
    BY <2>2 DEF Meets, Field, Wants
  <2> QED
    BY <2>1, <2>2, <2>4, <2>5, FieldLies
<1>7. ASSUME NEW b \in DOMAIN tables, NestsModel(q, d, gos, i, e, b)
      PROVE  Lies(tables, row[<<i, e>>].fields, cols, wants, i)
  <2> DEFINE g == EmbedField(q, cols, i, e, b)
             n == Len(g.embed)
  <2>1. row[<<i, e>>] = OnTop(g, {b}, row[<<i + n, e + 1>>])
    BY <1>7, Zenon DEF NestsModel
  <2>2. i <= N /\ ~(e > M) /\ RunOf(cols, i, b) /\ OverridesFit(q, d, gos, i, g.embed)
    BY <1>1, <1>7, Zenon DEF NestsModel
  <2>3. n = Len(tables[b].columns)
    BY <2>2, EmbedFits DEF EmbedField
  <2>4. n \in Nat /\ i + n <= N + 1
    BY <1>1, <2>2, <2>3, RunLength
  <2>5. ~(e > M) /\ M \in Nat /\ N \in Nat
    BY <1>1, <2>2
  <2> HIDE DEF n
  <2>6. i + n \in 1..(N + 1) /\ e + 1 \in 1..(M + 1) /\ i + n + (e + 1) > i + e
    BY <1>2, <2>4, <2>5
  <2>7. row[<<i + n, e + 1>>].ok => Lies(tables, row[<<i + n, e + 1>>].fields, cols, wants, i + n)
    BY <1>3, <2>6
  <2> QED
    BY <2>1, <2>2, <2>7, ModelLies DEF n
<1> QED
  BY <1>4, <1>5, <1>6, <1>7, RowForms

\* So the fields of a row lie over all the columns.
LEMMA RowFieldsLie ==
  ASSUME TablesTyped, CompileAssumption, NEW q, NEW d, NEW gos, NEW C, d.columns \in Seq(C), q.embeds \in Seq(EmbedNote),
         NEW wants, wants = Wants(q, d.columns, gos), RowFields(q, d, gos).ok
  PROVE  Lies(tables, RowFields(q, d, gos).fields, d.columns, wants, 1)
<1> DEFINE N == Len(d.columns)
           M == Len(q.embeds)
           row == CHOOSE f : RowsAre(q, d, gos, f)
<1>0. N \in Nat /\ M \in Nat
  OBVIOUS
<1>1. RowsAre(q, d, gos, row)
  <2>1. \E f : RowsAre(q, d, gos, f)
    BY RowsExist
  <2> QED
    BY <2>1, Zenon
<1>2. RowFields(q, d, gos) =
        [Ret("row", q.name \o <<"row">>, NoGo, row[<<1, 1>>].fields)
           EXCEPT !.ok = row[<<1, 1>>].ok, !.models = row[<<1, 1>>].models]
  BY Zenon DEF RowFields, RowsAre
<1> HIDE DEF row
<1>3. RowFields(q, d, gos).ok = row[<<1, 1>>].ok /\ RowFields(q, d, gos).fields = row[<<1, 1>>].fields
  <2> PICK top : top = row[<<1, 1>>]
    OBVIOUS
  <2> QED
    BY <1>2 DEF Ret
<1>4. \A i \in 1..(N + 1), e \in 1..(M + 1) : row[<<i, e>>] = RowFrom(q, d, gos, row, i, e)
  BY <1>1 DEF RowsAre
<1> HIDE DEF N, M
<1> DEFINE Far(i, e) == N + M + 2 - i - e
           Strays(i, e) == row[<<i, e>>].ok /\ ~Lies(tables, row[<<i, e>>].fields, d.columns, wants, i)
           Lacking == {m \in Nat : \E i \in 1..(N + 1), e \in 1..(M + 1) : m = Far(i, e) /\ Strays(i, e)}
<1> HIDE DEF Strays
<1>5. \A i \in 1..(N + 1), e \in 1..(M + 1) : Far(i, e) \in Nat
  BY <1>0
<1>6. Lacking = {}
  <2>1. SUFFICES ASSUME Lacking # {} PROVE FALSE
    OBVIOUS
  <2>2. PICK n \in Lacking : \A m \in Lacking : n <= m
    <3>1. Lacking \subseteq Nat
      OBVIOUS
    <3> QED
      BY <2>1, <3>1, LeastIn
  <2>3. PICK i \in 1..(N + 1), e \in 1..(M + 1) : n = Far(i, e) /\ Strays(i, e)
    BY <2>2
  <2>4. ASSUME NEW j \in 1..(N + 1), NEW h \in 1..(M + 1), j + h > i + e PROVE ~Strays(j, h)
    <3>1. Far(j, h) < Far(i, e) /\ Far(j, h) \in Nat
      BY <1>0, <1>5, <2>4
    <3>2. Far(j, h) \notin Lacking
      <4> HIDE DEF Lacking, Far
      <4>1. n = Far(i, e) /\ Far(i, e) \in Nat
        BY <1>5, <2>3
      <4>2. Far(j, h) \in Lacking => n <= Far(j, h)
        BY <2>2
      <4> QED
        BY <3>1, <4>1, <4>2
    <3> QED
      BY <3>1, <3>2
  <2>5. row[<<i, e>>].ok /\ ~Lies(tables, row[<<i, e>>].fields, d.columns, wants, i)
    BY <2>3 DEF Strays
  <2>6. \A j \in 1..(N + 1), h \in 1..(M + 1) :
          j + h > i + e /\ row[<<j, h>>].ok => Lies(tables, row[<<j, h>>].fields, d.columns, wants, j)
    BY <2>4 DEF Strays
  <2> HIDE DEF Lacking, Far
  <2> QED
    BY <1>4, <2>5, <2>6, RowsLie DEF N, M
<1>7. ~Strays(1, 1)
  <2>1. 1 \in 1..(N + 1) /\ 1 \in 1..(M + 1)
    BY <1>0
  <2>2. Far(1, 1) \in Nat
    BY <1>5, <2>1
  <2> QED
    BY <1>6, <2>1, <2>2
<1> QED
  BY <1>3, <1>7 DEF Strays

\* Fields that nest nothing are what they fill.
LEMMA SinglesFlat ==
  ASSUME NEW F, NEW fs \in Seq(F), \A f \in F : f.table = NoTable
  PROVE  FlatFields(fs) = fs
<1> DEFINE Whole(n) == \A gs \in Seq(F) : Len(gs) = n => FlatFields(gs) = gs
           Broken == {n \in Nat : ~Whole(n)}
<1>1. \A f \in F : Flat(f) = <<f>> /\ Flat(f) \in Seq(F)
  BY DEF Flat
<1>2. Whole(0)
  <2>1. FlatFields(<<>>) = <<>>
    BY DEF FlatFields, FlattenSeq
  <2> QED
    BY <2>1
<1>3. ASSUME NEW n \in Nat, Whole(n) PROVE Whole(n + 1)
  <2> SUFFICES ASSUME NEW gs \in Seq(F), Len(gs) = n + 1 PROVE FlatFields(gs) = gs
    OBVIOUS
  <2>1. Head(gs) \in F /\ Tail(gs) \in Seq(F) /\ Len(Tail(gs)) = n /\ gs = <<Head(gs)>> \o Tail(gs)
    <3>1. gs # <<>>
      OBVIOUS
    <3> QED
      BY <3>1, HeadTailProperties
  <2>2. PICK h \in F, t \in Seq(F) : h = Head(gs) /\ t = Tail(gs)
    BY <2>1
  <2>3. FlatFields(t) = t
    BY <1>3, <2>1, <2>2
  <2>4. FlatFields(<<h>> \o t) = Flat(h) \o FlatFields(t)
    BY <1>1, FlatFirst
  <2> QED
    BY <1>1, <2>1, <2>2, <2>3, <2>4, Zenon
<1> HIDE DEF Whole
<1>4. Broken = {}
  <2>1. SUFFICES ASSUME Broken # {} PROVE FALSE
    OBVIOUS
  <2>2. PICK n \in Broken : \A m \in Broken : n <= m
    <3>1. Broken \subseteq Nat
      OBVIOUS
    <3> QED
      BY <2>1, <3>1, LeastIn
  <2>3. n \in Nat /\ n # 0 /\ ~Whole(n)
    BY <1>2, <2>2
  <2>4. n - 1 \in Nat /\ n - 1 + 1 = n /\ n - 1 \notin Broken
    BY <2>2, <2>3
  <2> QED
    BY <1>3, <2>3, <2>4
<1>5. Whole(Len(fs))
  BY <1>4
<1> QED
  BY <1>5 DEF Whole

\* What a result promises of the columns it is scanned from.
Scanned(ts, cols, wants, ret) ==
  \/ ret.kind = "none" /\ cols = <<>>
  \/ ret.kind = "scalar" /\ ret.fields = <<>> /\ Len(cols) = 1 /\ ret.go = wants[1].go
  \/ /\ ret.kind = "model"
     /\ FlatFields(ret.fields) = ret.fields /\ Len(ret.fields) = Len(cols)
     /\ \A k \in 1..Len(cols) : Meets(ret.fields[k], wants[k])
     /\ \A b \in ret.models : Covers(ts, cols, 1, Len(cols), b)
  \/ ret.kind = "row" /\ Lies(ts, ret.fields, cols, wants, 1)

\* A whole table is the run of its columns.
LEMMA WholeFits ==
  ASSUME TablesTyped, NEW C, NEW cols \in Seq(C), NEW b \in DOMAIN tables, IsPermutation(cols, b)
  PROVE  LET fields == SelectOrderedFields(cols, b)
         IN  /\ FlatFields(fields) = fields /\ Len(fields) = Len(cols)
             /\ \A k \in 1..Len(cols) : fields[k].name = cols[k].name
             /\ Covers(tables, cols, 1, Len(cols), b)
<1>1. PICK n \in Nat : n = Len(cols) /\ n = Len(tables[b].columns)
  BY DEF IsPermutation
<1>2. Run(cols, 1, b) = cols
  <2>1. Run(cols, 1, b) = SubSeq(cols, 1, 1 + n - 1) /\ 1 + n - 1 = n
    BY <1>1 DEF Run
  <2>2. SubSeq(cols, 1, Len(cols)) = cols
    BY SubSeqFull
  <2> QED
    BY <1>1, <2>1, <2>2, Zenon
<1>3. RunOf(cols, 1, b)
  <2>1. 1 + n - 1 <= n
    OBVIOUS
  <2> QED
    BY <1>1, <1>2, <2>1, Zenon DEF RunOf
<1>4. 1 \in 1..(Len(cols) + 1)
  BY <1>1
<1>5. Covers(tables, cols, 1, Len(cols), b)
  <2>1. Covers(tables, cols, 1, 1 + Len(tables[b].columns) - 1, b)
    BY <1>3, <1>4, RunCovers
  <2>2. 1 + n - 1 = n
    OBVIOUS
  <2> QED
    BY <1>1, <2>1, <2>2, Zenon
<1>6. PICK fields : fields = SelectOrderedFields(cols, b)
  OBVIOUS
<1>7. /\ fields \in Seq(ToSet(ModelFields(b)))
      /\ Len(fields) = n
      /\ \A k \in 1..Len(fields) : fields[k].name = cols[1 + k - 1].name
  <2>1. LET fs == SelectOrderedFields(Run(cols, 1, b), b)
        IN  /\ fs \in Seq(ToSet(ModelFields(b)))
            /\ Len(fs) = Len(tables[b].columns)
            /\ \A k \in 1..Len(fs) : fs[k].name = cols[1 + k - 1].name
    BY <1>3, <1>4, EmbedFits
  <2> QED
    BY <1>1, <1>2, <1>6, <2>1, Zenon
<1>8. \A f \in ToSet(ModelFields(b)) : f.table = NoTable
  <2> SUFFICES ASSUME NEW k \in DOMAIN ModelFields(b) PROVE ModelFields(b)[k].table = NoTable
    BY Zenon DEF ToSet
  <2>1. PICK name, go : ModelFields(b)[k] = Field(name, go)
    BY DEF ModelFields
  <2> QED
    BY <2>1 DEF Field
<1>9. FlatFields(fields) = fields
  BY <1>7, <1>8, SinglesFlat
<1>10. \A k \in 1..n : fields[k].name = cols[k].name
  <2> SUFFICES ASSUME NEW k \in 1..n PROVE fields[k].name = cols[k].name
    OBVIOUS
  <2>1. 1 + k - 1 = k
    OBVIOUS
  <2> QED
    BY <1>7, <2>1
<1> QED
  BY <1>1, <1>5, <1>6, <1>7, <1>9, <1>10, Zenon

\* However a query's result is made, it fits its columns.
LEMMA RetScanned ==
  ASSUME TablesTyped, CompileAssumption, NEW q, NEW d, NEW gos, NEW C, d.columns \in Seq(C), q.embeds \in Seq(EmbedNote),
         CompileRet(q, d, gos).ok,
         NEW wants, wants = Wants(q, d.columns, gos)
  PROVE  Scanned(tables, d.columns, wants, CompileRet(q, d, gos))
<1> DEFINE ret == CompileRet(q, d, gos)
           whole == WholeTable(q, d)
           b == CHOOSE t \in whole : TRUE
           fields == SelectOrderedFields(d.columns, b)
           fit == OverridesFit(q, d, gos, 1, fields)
           whether == Len(d.columns) = 1 /\ q.embeds = <<>>
<1>2. whole # {} => ~(d.columns = <<>>) /\ ~whether
  <2> SUFFICES ASSUME whole # {} PROVE ~(d.columns = <<>>) /\ ~whether
    OBVIOUS
  <2>1. ~(Len(d.columns) < 2)
    BY Zenon DEF WholeTable
  <2>2. PICK n \in Nat : n = Len(d.columns)
    OBVIOUS
  <2>3. Len(<<>>) = 0
    OBVIOUS
  <2>4. ~(n < 2)
    BY <2>1, <2>2, Zenon
  <2>5. n # 0 /\ n # 1
    BY ONLY n \in Nat, <2>4
  <2> QED
    BY <2>2, <2>3, <2>5, Zenon
<1>1. CASE d.columns = <<>>
  <2>1. whole = {} /\ ~whether
    <3>1. Len(d.columns) # 1
      BY <1>1
    <3> QED
      BY <1>1, <1>2, <3>1, Zenon
  <2>2. ret = Ret("none", <<>>, NoGo, <<>>)
    BY <1>1, <2>1, Zenon DEF CompileRet
  <2>3. ret.kind = "none"
    BY <2>2 DEF Ret
  <2> QED
    BY <1>1, <2>3, Zenon DEF Scanned
<1>3. CASE ~(d.columns = <<>>) /\ whether
  <2>1. whole = {}
    BY <1>2, <1>3
  <2>2. ret = IF gos[1] = NoGo THEN NoRet ELSE Ret("scalar", <<>>, gos[1], <<>>)
    BY <1>3, <2>1, Zenon DEF CompileRet
  <2>3. ret.kind = "scalar" /\ ret.fields = <<>> /\ ret.go = gos[1]
    BY <2>2 DEF Ret, NoRet
  <2>4. wants[1].go = gos[1]
    BY <1>3 DEF Wants
  <2> QED
    BY <1>3, <2>3, <2>4 DEF Scanned
<1>4. CASE whole # {} /\ ~HasGo(fields)
  <2>1. ret = NoRet
    BY <1>2, <1>4, Zenon DEF CompileRet
  <2> QED
    BY <2>1 DEF NoRet, Ret
<1>5. CASE whole # {} /\ HasGo(fields) /\ fit
  <2>1. ret = [Ret("model", ModelName(b), NoGo, fields) EXCEPT !.models = whole]
    BY <1>2, <1>5, Zenon DEF CompileRet
  <2>2. b \in whole
    BY <1>5, Zenon
  <2>3. \A t \in whole : t \in DOMAIN tables /\ IsPermutation(d.columns, t)
    BY DEF WholeTable
  <2>4. DOMAIN fields = 1..Len(d.columns)
    BY DEF SelectOrderedFields
  <2> HIDE DEF b, whole
  <2>5. /\ FlatFields(fields) = fields /\ Len(fields) = Len(d.columns)
        /\ \A k \in 1..Len(d.columns) : fields[k].name = d.columns[k].name
    BY <2>2, <2>3, WholeFits
  <2>6. \A t \in whole : Covers(tables, d.columns, 1, Len(d.columns), t)
    BY <2>3, WholeFits
  <2> HIDE DEF fields
  <2>7. ret.kind = "model" /\ ret.fields = fields /\ ret.models = whole
    BY <2>1 DEF Ret
  <2>8. ASSUME NEW k \in 1..Len(d.columns) PROVE Meets(fields[k], wants[k])
    <3>1. wants[k] = [name |-> d.columns[k].name, spoken |-> Spoken(q, d.columns[k].name), go |-> gos[k]]
      BY DEF Wants
    <3>2. Spoken(q, d.columns[k].name) => gos[k] = fields[k].go
      <4>1. k \in DOMAIN fields /\ 1 + k - 1 = k
        BY <2>5, <2>4
      <4>2. OverrideForColumn(q, d.columns[1 + k - 1].name) # NoOverride => gos[1 + k - 1] = fields[k].go
        BY <1>5, <4>1 DEF OverridesFit
      <4> QED
        BY <4>1, <4>2 DEF Spoken
    <3> QED
      BY <2>5, <3>1, <3>2 DEF Meets
  <2> QED
    BY <2>5, <2>6, <2>7, <2>8, Zenon DEF Scanned
<1>6. CASE ~(d.columns = <<>>) /\ ~whether /\ ~(whole # {} /\ ~HasGo(fields)) /\ ~(whole # {} /\ HasGo(fields) /\ fit)
  <2> DEFINE row == RowFields(q, d, gos)
  <2>1. ret = [row EXCEPT !.models = @ \cup whole]
    BY <1>6, Zenon DEF CompileRet
  <2>2. row.kind = "row" /\ DOMAIN row = DOMAIN NoRet
    BY DEF RowFields, Ret, NoRet
  <2> HIDE DEF row, whole
  <2>3. ret.kind = "row" /\ ret.fields = row.fields /\ ret.ok = row.ok
    BY <2>1, <2>2 DEF NoRet, Ret
  <2>4. Lies(tables, row.fields, d.columns, wants, 1)
    BY <2>3, RowFieldsLie DEF row
  <2> QED
    BY <2>3, <2>4, Zenon DEF Scanned
<1> QED
  BY <1>1, <1>3, <1>4, <1>5, <1>6

\* A field behind m scan targets starts at the next one.
LEMMA NextPlace ==
  \A m \in Nat, l \in Nat : \E at \in Int : at = 1 + m /\ at = m + 1 /\ at + l - 1 = m + l
<1>1. ASSUME NEW m \in Nat, NEW l \in Nat
      PROVE  1 + m \in Int /\ 1 + m = m + 1 /\ (1 + m) + l - 1 = m + l
  OBVIOUS
<1> QED
  BY <1>1

\* Which is what ScansOwnColumn says of it.
LEMMA ScansIt ==
  ASSUME NEW n, NEW C, described[n].columns \in Seq(C), built[n].ret.kind # "none",
         NEW q, NEW gos, NEW wants, wants = Wants(q, described[n].columns, gos),
         Scanned(tables, described[n].columns, wants, built[n].ret)
  PROVE  /\ Len(Targets(n)) = Len(described[n].columns)
         /\ \A k \in DOMAIN described[n].columns : Meets(Targets(n)[k], wants[k])
         /\ \A s \in Structs(n) : Covers(tables, described[n].columns, s.from, s.to, s.table)
<1> DEFINE cols == described[n].columns
           ret == built[n].ret
<1>0. PICK N \in Nat : N = Len(cols) /\ DOMAIN cols = 1..N
  OBVIOUS
<1>1. CASE ret.kind = "scalar" /\ ret.fields = <<>> /\ Len(cols) = 1 /\ ret.go = wants[1].go
  <2>1. Targets(n) = <<Field(cols[1].name, ret.go)>>
    BY <1>1, Zenon DEF Targets
  <2>2. Meets(Field(cols[1].name, ret.go), wants[1])
    BY <1>0, <1>1 DEF Field, Meets, Wants
  <2>3. PICK f : f = Field(cols[1].name, ret.go) /\ Meets(f, wants[1])
    BY <2>2
  <2>4. Len(Targets(n)) = Len(cols)
    BY <1>1, <2>1
  <2>5. \A k \in DOMAIN cols : Meets(Targets(n)[k], wants[k])
    BY <1>0, <1>1, <2>1, <2>3
  <2>6. Structs(n) = {}
    BY <1>1 DEF Structs
  <2> QED
    BY <2>4, <2>5, <2>6
<1>2. CASE /\ ret.kind = "model"
           /\ FlatFields(ret.fields) = ret.fields /\ Len(ret.fields) = Len(cols)
           /\ \A k \in 1..Len(cols) : Meets(ret.fields[k], wants[k])
           /\ \A b \in ret.models : Covers(tables, cols, 1, Len(cols), b)
  <2>1. Targets(n) = ret.fields
    BY <1>2 DEF Targets
  <2>2. \A s \in Structs(n) : \E b \in ret.models : s = [table |-> b, from |-> 1, to |-> Len(ret.fields)]
    BY <1>2 DEF Structs
  <2>3. \A s \in Structs(n) : Covers(tables, cols, s.from, s.to, s.table)
    <3> SUFFICES ASSUME NEW s \in Structs(n) PROVE Covers(tables, cols, s.from, s.to, s.table)
      OBVIOUS
    <3>1. PICK b \in ret.models : s.table = b /\ s.from = 1 /\ s.to = Len(ret.fields)
      BY <2>2
    <3> QED
      BY <1>2, <3>1
  <2> QED
    BY <1>0, <1>2, <2>1, <2>3
<1>3. CASE ret.kind = "row" /\ Lies(tables, ret.fields, cols, wants, 1)
  <2> DEFINE fs == ret.fields
             from(k) == Len(FlatFields(SubSeq(fs, 1, k - 1)))
  <2>1. PICK T, F : fs \in Seq(F) /\ (\A f \in F : Flat(f) \in Seq(T)) /\ Laid(tables, fs, cols, wants, 1)
    BY <1>3, Zenon DEF Lies
  <2>2. Targets(n) = FlatFields(fs)
    BY <1>3 DEF Targets
  <2>3. Len(FlatFields(fs)) = N
    BY <1>0, <2>1 DEF Laid
  <2>4. ASSUME NEW k \in 1..N PROVE Meets(FlatFields(fs)[k], wants[k])
    <3>1. Meets(FlatFields(fs)[k], wants[1 + k - 1])
      BY <2>1, <2>3 DEF Laid
    <3>2. 1 + k - 1 = k
      OBVIOUS
    <3> QED
      BY <3>1, <3>2
  <2>5. ASSUME NEW k \in DOMAIN fs, fs[k].table # NoTable
        PROVE  Covers(tables, cols, from(k) + 1, from(k) + Len(fs[k].embed), fs[k].table)
    <3>1. k \in 1..Len(fs) /\ fs[k] \in F
      BY <2>1
    <3>2. fs[k].embed \in Seq(T)
      BY <2>1, <2>5, <3>1 DEF Flat
    <3>3. SubSeq(fs, 1, k - 1) \in Seq(F)
      <4>1. \A j \in 1..(k - 1) : fs[j] \in F
        BY <2>1, <3>1
      <4>2. 1 \in Int /\ k - 1 \in Int
        BY <3>1
      <4> QED
        BY <4>1, <4>2, SubSeqProperties
    <3>4. FlatFields(SubSeq(fs, 1, k - 1)) \in Seq(T)
      BY <2>1, <3>1, <3>3, FlatFirst
    <3>5. PICK m \in Nat, l \in Nat : m = from(k) /\ l = Len(fs[k].embed)
      BY <3>2, <3>4
    <3>6. PICK at \in Int : at = 1 + m /\ at = m + 1 /\ at + l - 1 = m + l
      BY <3>5, NextPlace, Zenon
    <3>7. at = 1 + Len(FlatFields(SubSeq(fs, 1, k - 1)))
      BY <3>5, <3>6
    <3>8. Covers(tables, cols, at, at + Len(fs[k].embed) - 1, fs[k].table)
      BY <2>1, <2>5, <3>1, <3>7 DEF Laid
    <3> QED
      BY <3>5, <3>6, <3>8, Zenon
  <2>6. \A s \in Structs(n) : \E k \in DOMAIN fs :
          fs[k].table # NoTable /\ s = [table |-> fs[k].table, from |-> from(k) + 1, to |-> from(k) + Len(fs[k].embed)]
    BY <1>3 DEF Structs
  <2> HIDE DEF from, fs
  <2>7. ASSUME NEW s \in Structs(n) PROVE Covers(tables, cols, s.from, s.to, s.table)
    <3>1. PICK k \in DOMAIN fs :
            fs[k].table # NoTable /\ s = [table |-> fs[k].table, from |-> from(k) + 1, to |-> from(k) + Len(fs[k].embed)]
      BY <2>6
    <3>2. s.table = fs[k].table /\ s.from = from(k) + 1 /\ s.to = from(k) + Len(fs[k].embed)
      BY <3>1
    <3> QED
      BY <2>5, <3>1, <3>2, Zenon
  <2> QED
    BY <1>0, <2>2, <2>3, <2>4, <2>7
<1> QED
  BY <1>1, <1>2, <1>3, Zenon DEF Scanned

-----------------------------------------------------------------------------
(* What was described, and what was loaded, is well formed. *)

TablesRead == schema \in Schemas /\ \A b \in DOMAIN tables : b \in TableIds /\ tables[b] \in Table

LEMMA TablesAreTyped == TablesRead => TablesTyped
BY DEF TablesRead, TablesTyped, Table

LEMMA SchemaTyped ==
  ASSUME NEW s \in Schemas
  PROVE  \A b \in DOMAIN s.tables : b \in TableIds /\ s.tables[b] \in Table
<1>1. Maps(s.tables, TableIds, Table)
  BY CatalogAssumption
<1> QED
  BY <1>1 DEF Maps

LEMMA ReadsKeep ==
  ASSUME TablesRead, [Steps \/ SchemaChanges]_vars PROVE TablesRead'
<1>0. \A b \in DOMAIN schema.tables : b \in TableIds /\ schema.tables[b] \in Table
  BY SchemaTyped DEF TablesRead
<1>1. CASE LoadTables
  <2>1. schema' = schema
    BY <1>1 DEF LoadTables, dbVars
  <2>2. ASSUME NEW b \in DOMAIN tables' PROVE b \in TableIds /\ tables'[b] \in Table
    <3>1. b \in DOMAIN schema.tables /\ tables'[b] = [schema.tables[b] EXCEPT !.columns = <<>>]
      BY <1>1 DEF LoadTables
    <3>2. PICK t \in Table : t = schema.tables[b]
      BY <1>0, <3>1
    <3>5. <<>> \in Seq(Column)
      OBVIOUS
    <3>3. PICK none \in Seq(Column) : none = <<>>
      BY <3>5
    <3>4. [t EXCEPT !.columns = none] \in Table
      BY DEF Table
    <3> QED
      BY <1>0, <3>1, <3>2, <3>3, <3>4
  <2> QED
    BY <2>1, <2>2 DEF TablesRead
<1>2. CASE LoadColumns
  <2>1. schema' = schema
    BY <1>2 DEF LoadColumns, dbVars
  <2>2. ASSUME NEW b \in DOMAIN tables' PROVE b \in TableIds /\ tables'[b] \in Table
    <3>1. /\ b \in DOMAIN tables
          /\ tables'[b] = IF b \in DOMAIN schema.tables
                          THEN [tables[b] EXCEPT !.columns = schema.tables[b].columns] ELSE tables[b]
      BY <1>2 DEF LoadColumns
    <3>2. PICK t \in Table : t = tables[b] /\ b \in TableIds
      BY <3>1 DEF TablesRead
    <3>3. ASSUME NEW u \in Table PROVE [t EXCEPT !.columns = u.columns] \in Table
      BY DEF Table
    <3> QED
      BY <1>0, <3>1, <3>2, <3>3
  <2> QED
    BY <2>1, <2>2 DEF TablesRead
<1>3. CASE LoadTypes \/ TooDeep \/ LoadEnums
  BY <1>3 DEF LoadTypes, TooDeep, LoadEnums, dbVars, TablesRead
<1>4. CASE Change
  BY <1>4 DEF Change, loadVars, TablesRead
<1>5. CASE \E ts, bs : Asks(ts, bs)
  BY <1>5 DEF Asks, dbVars, TablesRead
<1>6. CASE UNCHANGED catalogVars
  BY <1>6 DEF catalogVars, dbVars, loadVars, TablesRead
<1> QED
  BY <1>1, <1>2, <1>3, <1>4, <1>5, <1>6, CatalogStep DEF Loads

LEMMA StatementIs ==
  ASSUME CompileAssumption, NEW f \in Files, NEW sql, NEW st \in StatementsOf(f.statements, sql)
  PROVE  st \in f.statements /\ StatementOf(f.statements, sql) = st
<1>1. st \in f.statements /\ st.sql = sql
  BY DEF StatementsOf
<1>2. \A u \in f.statements : u.sql = sql => u = st
  BY <1>1 DEF CompileAssumption
<1> QED
  BY <1>1, <1>2 DEF StatementOf

\* The columns of an answer are a list.
LEMMA AnswerLists ==
  ASSUME CompileAssumption, NEW f \in Files, NEW st \in f.statements, NEW s \in Schemas, Valid(s, st)
  PROVE  \E C : Answer(s, st).columns \in Seq(C)
<1> DEFINE part(k) == IF st.out[k].column = "*" THEN AllOf(s, st, st.out[k]) ELSE <<st.out[k]>>
           parts == [k \in DOMAIN st.out |-> part(k)]
           outs == Outputs(s, st)
<1>1. PICK n \in Nat : n = Len(st.out) /\ DOMAIN st.out = 1..n /\ \A k \in 1..n : st.out[k] \in Output
  <2>1. st.out \in Seq(Output)
    BY DEF CompileAssumption
  <2> QED
    BY <2>1
<1>2. ASSUME NEW k \in 1..n PROVE part(k) \in Seq(Output)
  <2>1. PICK o \in Output : o = st.out[k]
    BY <1>1
  <2>2. CASE o.column # "*"
    <3>1. part(k) = <<o>>
      BY <2>1, <2>2
    <3>2. <<o>> \in Seq(Output)
      OBVIOUS
    <3> QED
      BY <3>1, <3>2, Zenon
  <2>3. CASE o.column = "*"
    <3>1. o.ref \in 1..Len(st.from) /\ DOMAIN st.from = 1..Len(st.from)
      <4>1. o.ref \in 0..Len(st.from) /\ o.ref # 0 /\ st.from \in Seq([table : TableIds, join : STRING])
        BY <1>1, <2>1, <2>3 DEF CompileAssumption
      <4> QED
        BY <4>1
    <3>2. TableOf(st, o) \in DOMAIN s.tables
      <4>1. o.ref # 0 /\ o.ref \in DOMAIN st.from
        BY <3>1
      <4>2. TableOf(st, o) = st.from[o.ref].table
        BY ONLY <4>1, Zenon DEF TableOf
      <4> QED
        BY <4>1, <4>2, Zenon DEF Valid
    <3>3. PICK columns \in Seq(Column) : columns = s.tables[TableOf(st, o)].columns
      BY <3>2, SchemaTyped DEF Table
    <3>4. PICK m \in Nat : m = Len(columns) /\ DOMAIN columns = 1..m /\ \A j \in 1..m : columns[j] \in Column
      OBVIOUS
    <3>5. ASSUME NEW j \in 1..m PROVE [o EXCEPT !.column = columns[j].name] \in Output
      <4>1. PICK name \in STRING : name = columns[j].name
        BY <3>4 DEF Column
      <4>2. [o EXCEPT !.column = name] \in Output
        BY DEF Output
      <4> QED
        BY <4>1, <4>2
    <3>6. AllOf(s, st, o) = [j \in 1..m |-> [o EXCEPT !.column = columns[j].name]]
      BY <3>3, <3>4, Zenon DEF AllOf
    <3>7. AllOf(s, st, o) \in [1..m -> Output]
      BY <3>5, <3>6
    <3> QED
      BY <2>1, <2>3, <3>7, IsSequence
  <2> QED
    BY <2>2, <2>3
<1> HIDE DEF part
<1>3. parts \in Seq(Seq(Output))
  <2>1. parts \in [1..n -> Seq(Output)]
    BY <1>1, <1>2
  <2> QED
    BY <2>1, IsSequence
<1>4. outs = FlattenSeq(parts)
  BY Zenon DEF Outputs, part
<1> HIDE DEF parts
<1>5. outs \in Seq(Output)
  BY <1>3, <1>4, Flattened
<1>6. PICK m \in Nat : DOMAIN outs = 1..m
  BY <1>5
<1> DEFINE columns == Answer(s, st).columns
<1>7. columns = [k \in 1..m |-> columns[k]]
  BY <1>6 DEF Answer
<1> HIDE DEF columns, outs
<1>8. PICK C : C = {columns[k] : k \in 1..m}
  OBVIOUS
<1>9. columns \in [1..m -> C]
  BY <1>7, <1>8
<1>10. columns \in Seq(C)
  BY <1>9, IsSequence
<1> QED
  BY <1>10 DEF columns

-----------------------------------------------------------------------------
(* How the lines of a file become queries. *)

\* The reading of a file, line by line.
ReadingIs(lines, read) ==
  read = [k \in 0..Len(lines) |-> IF k = 0 THEN Unread ELSE ReadLine(read[k - 1], lines[k])]

LEMMA ReadingExists == ASSUME NEW lines, Len(lines) \in Nat PROVE \E read : ReadingIs(lines, read)
<1> DEFINE N == Len(lines)
           Fits(f, k) == f[k] = IF k = 0 THEN Unread ELSE ReadLine(f[k - 1], lines[k])
           Upto(n) == \E f : f = [k \in 0..N |-> f[k]] /\ \A k \in 0..N : k <= n => Fits(f, k)
           Lacking == {n \in Nat : ~Upto(n)}
<1> HIDE DEF N
<1>0. N \in Nat
  BY DEF N
<1>1. Upto(0)
  <2> DEFINE f == [k \in 0..N |-> Unread]
  <2>1. f = [k \in 0..N |-> f[k]] /\ \A k \in 0..N : k <= 0 => Fits(f, k)
    BY <1>0
  <2> HIDE DEF f, Fits
  <2> QED
    BY <2>1
<1>2. ASSUME NEW n \in Nat, Upto(n) PROVE Upto(n + 1)
  <2> HIDE DEF Fits
  <2>1. PICK f : f = [k \in 0..N |-> f[k]] /\ \A k \in 0..N : k <= n => Fits(f, k)
    BY <1>2
  <2> DEFINE g == [k \in 0..N |-> IF k = n + 1 THEN ReadLine(f[n], lines[n + 1]) ELSE f[k]]
  <2>2. g = [k \in 0..N |-> g[k]]
    OBVIOUS
  <2>3. \A k \in 0..N : g[k] = IF k = n + 1 THEN ReadLine(f[n], lines[n + 1]) ELSE f[k]
    OBVIOUS
  <2> HIDE DEF g
  <2>4. ASSUME NEW k \in 0..N, k <= n + 1 PROVE Fits(g, k)
    <3>0. k <= n => Fits(f, k)
      BY <2>1
    <3>1. CASE k = 0
      <4>1. k <= n /\ k # n + 1
        BY <3>1
      <4>2. f[k] = Unread /\ g[k] = f[k]
        BY <2>3, <3>0, <3>1, <4>1 DEF Fits
      <4> QED
        BY <3>1, <4>2 DEF Fits
    <3>2. CASE k \in 1..n
      <4>1. k - 1 \in 0..N /\ k - 1 # n + 1 /\ k # n + 1 /\ k # 0
        BY <1>0, <3>2
      <4>2. g[k] = f[k] /\ g[k - 1] = f[k - 1]
        BY <2>3, <4>1
      <4>3. f[k] = ReadLine(f[k - 1], lines[k])
        BY <3>0, <3>2, <4>1 DEF Fits
      <4> QED
        BY <4>1, <4>2, <4>3 DEF Fits
    <3>3. CASE k = n + 1
      <4>1. n \in 0..N /\ n # n + 1 /\ k - 1 = n /\ k # 0
        BY <1>0, <3>3
      <4>2. g[k] = ReadLine(f[n], lines[n + 1]) /\ g[n] = f[n]
        BY <2>3, <3>3, <4>1
      <4> QED
        BY <3>3, <4>1, <4>2 DEF Fits
    <3> QED
      BY <2>4, <3>1, <3>2, <3>3
  <2> QED
    BY <2>2, <2>4
<1> HIDE DEF Upto
<1>3. Lacking = {}
  <2>1. SUFFICES ASSUME Lacking # {} PROVE FALSE
    OBVIOUS
  <2>2. PICK n \in Lacking : \A m \in Lacking : n <= m
    <3>1. Lacking \subseteq Nat
      OBVIOUS
    <3> QED
      BY <2>1, <3>1, LeastIn
  <2>3. n \in Nat /\ n # 0 /\ ~Upto(n)
    BY <1>1, <2>2
  <2>4. n - 1 \in Nat /\ n - 1 + 1 = n /\ n - 1 \notin Lacking
    BY <2>2, <2>3
  <2> QED
    BY <1>2, <2>3, <2>4
<1>4. Upto(N)
  BY <1>0, <1>3
<1>5. PICK f : f = [k \in 0..N |-> f[k]] /\ \A k \in 0..N : k <= N => Fits(f, k)
  BY <1>4 DEF Upto
<1>6. \A k \in 0..N : Fits(f, k)
  <2>1. \A k \in 0..N : k <= N
    BY <1>0
  <2> HIDE DEF Fits
  <2> QED
    BY <1>5, <2>1
<1>7. f = [k \in 0..N |-> IF k = 0 THEN Unread ELSE ReadLine(f[k - 1], lines[k])]
  <2>1. f = [k \in 0..N |-> f[k]]
    BY <1>5
  <2>2. \A k \in 0..N : f[k] = IF k = 0 THEN Unread ELSE ReadLine(f[k - 1], lines[k])
    BY <1>6
  <2> QED
    BY <2>1, <2>2, Zenon
<1> QED
  BY <1>7 DEF ReadingIs, N

LEMMA FileRead ==
  ASSUME NEW lines, Len(lines) \in Nat
  PROVE  \E read : /\ read[0] = Unread
                   /\ \A k \in 1..Len(lines) : read[k] = ReadLine(read[k - 1], lines[k])
                   /\ ParseFile(lines) = Distinctly(AtEnd(read[Len(lines)]))
<1> DEFINE read == CHOOSE r : ReadingIs(lines, r)
<1>1. ReadingIs(lines, read)
  <2>1. \E r : ReadingIs(lines, r)
    BY ReadingExists
  <2> QED
    BY <2>1, Zenon
<1>2. ParseFile(lines) = Distinctly(AtEnd(read[Len(lines)]))
  BY Zenon DEF ParseFile, ReadingIs
<1> HIDE DEF read
<1>3. \A k \in 0..Len(lines) : read[k] = IF k = 0 THEN Unread ELSE ReadLine(read[k - 1], lines[k])
  BY <1>1, Zenon DEF ReadingIs
<1>4. read[0] = Unread
  BY <1>3
<1>5. \A k \in 1..Len(lines) : read[k] = ReadLine(read[k - 1], lines[k])
  BY <1>3
<1> QED
  BY <1>2, <1>4, <1>5

LEMMA MinIs ==
  ASSUME NEW S, S \subseteq Int, NEW x \in S, \A y \in S : x <= y PROVE Min(S) = x
<1>1. \A z \in S : (\A y \in S : z <= y) => z = x
  OBVIOUS
<1> QED
  BY <1>1 DEF Min

\* The headers up to a line can be counted.
LEMMA HeadersCounted ==
  ASSUME NEW lines, NEW k \in Nat
  PROVE  IsFiniteSet(Headers(lines, k)) /\ Cardinality(Headers(lines, k)) \in Nat
<1>1. IsFiniteSet(1..k)
  BY FS_Interval
<1>2. Headers(lines, k) \subseteq 1..k
  BY DEF Headers
<1>3. IsFiniteSet(Headers(lines, k))
  BY <1>1, <1>2, FS_Subset
<1> QED
  BY <1>3, FS_CardinalityType

LEMMA NoHeaders == ASSUME NEW lines PROVE Cardinality(Headers(lines, 0)) = 0
<1>1. Headers(lines, 0) = {}
  BY DEF Headers
<1> QED
  BY <1>1, FS_EmptySet

LEMMA HeadersNext ==
  ASSUME NEW lines, NEW k \in Nat
  PROVE  Cardinality(Headers(lines, k + 1)) =
           Cardinality(Headers(lines, k)) + (IF IsHeader(lines[k + 1]) THEN 1 ELSE 0)
<1>1. CASE IsHeader(lines[k + 1])
  <2>1. Headers(lines, k + 1) = Headers(lines, k) \cup {k + 1} /\ k + 1 \notin Headers(lines, k)
    BY <1>1 DEF Headers
  <2> QED
    BY <1>1, <2>1, HeadersCounted, FS_AddElement
<1>2. CASE ~IsHeader(lines[k + 1])
  <2>1. Headers(lines, k + 1) = Headers(lines, k)
    BY <1>2 DEF Headers
  <2> QED
    BY <1>2, <2>1, HeadersCounted
<1> QED
  BY <1>1, <1>2

\* A later header has a higher number.
LEMMA HeadersGrow ==
  ASSUME NEW lines, NEW j \in Nat, NEW k \in Nat, j < k, IsHeader(lines[k])
  PROVE  Cardinality(Headers(lines, j)) < Cardinality(Headers(lines, k))
<1>1. k - 1 \in Nat /\ k - 1 + 1 = k /\ j <= k - 1
  OBVIOUS
<1>2. Headers(lines, j) \subseteq Headers(lines, k - 1)
  BY <1>1 DEF Headers
<1>3. Cardinality(Headers(lines, j)) <= Cardinality(Headers(lines, k - 1))
  BY <1>1, <1>2, HeadersCounted, FS_Subset
<1>4. Cardinality(Headers(lines, k)) = Cardinality(Headers(lines, k - 1)) + 1
  BY <1>1, HeadersNext
<1>5. Cardinality(Headers(lines, j)) \in Nat /\ Cardinality(Headers(lines, k - 1)) \in Nat
  BY <1>1, HeadersCounted
<1> QED
  BY <1>3, <1>4, <1>5

\* Line h is header n, and the lines up to e are below it.
Below(lines, n, h, e) ==
  /\ h \in 1..Len(lines) /\ IsHeader(lines[h]) /\ Cardinality(Headers(lines, h)) = n
  /\ e \in h..Len(lines) /\ \A k \in (h + 1)..e : ~IsHeader(lines[k])

\* Line f is the first with SQL below line h, or none up to line e has any.
Begins(lines, h, f, e) ==
  /\ f \in (h + 1)..(e + 1) /\ \A k \in (h + 1)..(f - 1) : ~IsSql(lines[k])
  /\ f <= e => IsSql(lines[f])

LEMMA LinesOf ==
  ASSUME NEW T, NEW lines \in Seq(T), NEW n, NEW h, NEW f, NEW e,
         Below(lines, n, h, e), e = Len(lines) \/ IsHeader(lines[e + 1]), Begins(lines, h, f, e)
  PROVE  HeaderLine(lines, n) = h /\ FirstSql(lines, n) = f
<1>0. PICK L \in Nat : L = Len(lines) /\ DOMAIN lines = 1..L
  OBVIOUS
<1>1. h \in 1..L /\ e \in h..L /\ f \in (h + 1)..(e + 1)
  BY <1>0 DEF Below, Begins
<1>2. HeaderLine(lines, n) = h
  <2>1. h \in DOMAIN lines /\ IsHeader(lines[h]) /\ Cardinality(Headers(lines, h)) = n
    BY <1>0 DEF Below
  <2>2. ASSUME NEW k \in DOMAIN lines, IsHeader(lines[k]), Cardinality(Headers(lines, k)) = n PROVE k = h
    <3>1. k \in Nat /\ h \in Nat
      BY <1>0, <1>1
    <3>2. Cardinality(Headers(lines, k)) \in Nat
      BY <3>1, HeadersCounted
    <3>3. ~(k < h)
      BY <2>1, <2>2, <3>1, <3>2, HeadersGrow
    <3>4. ~(h < k)
      BY <2>1, <2>2, <3>1, <3>2, HeadersGrow
    <3> QED
      BY <3>1, <3>3, <3>4
  <2> QED
    BY <2>1, <2>2 DEF HeaderLine
<1>3. LastLine(lines, n) = e
  <2> DEFINE S == {k \in (h + 1)..L : IsHeader(lines[k])} \cup {L + 1}
  <2>1. LastLine(lines, n) = Min(S) - 1
    BY <1>0, <1>2 DEF LastLine
  <2>2. S \subseteq Int
    OBVIOUS
  <2>3. e + 1 \in S
    BY <1>0, <1>1
  <2>4. ASSUME NEW k \in S PROVE e + 1 <= k
    <3>1. \A j \in (h + 1)..e : ~IsHeader(lines[j])
      BY DEF Below
    <3> QED
      BY <1>1, <2>4, <3>1
  <2> HIDE DEF S
  <2>5. Min(S) = e + 1
    BY <2>2, <2>3, <2>4, MinIs
  <2> QED
    BY <1>1, <2>1, <2>5
<1>4. FirstSql(lines, n) = f
  <2> DEFINE S == {k \in (h + 1)..e : IsSql(lines[k])} \cup {e + 1}
  <2>1. FirstSql(lines, n) = Min(S)
    BY <1>2, <1>3 DEF FirstSql
  <2>2. S \subseteq Int
    BY <1>1
  <2>3. f \in S
    BY <1>1 DEF Begins
  <2>4. ASSUME NEW k \in S PROVE f <= k
    <3>1. \A j \in (h + 1)..(f - 1) : ~IsSql(lines[j])
      BY DEF Begins
    <3> QED
      BY <1>1, <2>4, <3>1
  <2> HIDE DEF S
  <2> QED
    BY <2>1, <2>2, <2>3, <2>4, MinIs
<1> QED
  BY <1>2, <1>4

\* The overrides between two lines, in their order; at says where each stands.
Notes(lines) == {lines[k].override : k \in {k \in DOMAIN lines : lines[k].kind = "override"}}
Lists(lines, h, f, os, at) ==
  /\ os \in Seq(Notes(lines)) /\ at \in Seq(Nat) /\ Len(at) = Len(os)
  /\ \A i \in 1..Len(os) : /\ at[i] \in (h + 1)..(f - 1)
                           /\ lines[at[i]].kind = "override" /\ os[i] = lines[at[i]].override
  /\ \A i, j \in 1..Len(os) : i < j => at[i] < at[j]
  /\ \A k \in (h + 1)..(f - 1) : lines[k].kind = "override" => \E i \in 1..Len(os) : at[i] = k

LEMMA ListsNothing == ASSUME NEW lines, NEW h \in Nat PROVE Lists(lines, h, h + 1, <<>>, <<>>)
<1>1. \A k \in (h + 1)..(h + 1 - 1) : FALSE
  OBVIOUS
<1>2. \A S : <<>> \in Seq(S)
  OBVIOUS
<1>3. \A k \in 1..Len(<<>>) : FALSE
  OBVIOUS
<1>4. PICK os : os = <<>>
  OBVIOUS
<1>5. Lists(lines, h, h + 1, os, os)
  <2>1. os \in Seq(Notes(lines)) /\ os \in Seq(Nat)
    BY <1>2, <1>4, Zenon
  <2>2. \A k \in 1..Len(os) : FALSE
    BY <1>3, <1>4, Zenon
  <2> QED
    BY ONLY <1>1, <2>1, <2>2 DEF Lists
<1> QED
  BY <1>4, <1>5, Zenon

LEMMA ListsOther ==
  ASSUME NEW lines, NEW h \in Nat, NEW f \in Nat, h < f, NEW os, NEW at, Lists(lines, h, f, os, at),
         lines[f].kind # "override"
  PROVE  Lists(lines, h, f + 1, os, at)
<1>1. (h + 1)..(f + 1 - 1) = (h + 1)..(f - 1) \cup {f}
  OBVIOUS
<1>2. \A k \in (h + 1)..(f - 1) : k \in (h + 1)..(f + 1 - 1)
  BY <1>1, Zenon
<1>3. \A k \in (h + 1)..(f + 1 - 1) : k # f => k \in (h + 1)..(f - 1)
  BY <1>1
<1>4. os \in Seq(Notes(lines)) /\ at \in Seq(Nat) /\ Len(at) = Len(os)
  BY Zenon DEF Lists
<1>5. ASSUME NEW i \in 1..Len(os)
      PROVE  /\ at[i] \in (h + 1)..(f + 1 - 1)
             /\ lines[at[i]].kind = "override" /\ os[i] = lines[at[i]].override
  BY <1>2, Zenon DEF Lists
<1>6. \A i, j \in 1..Len(os) : i < j => at[i] < at[j]
  BY Zenon DEF Lists
<1>7. ASSUME NEW k \in (h + 1)..(f + 1 - 1), lines[k].kind = "override"
      PROVE  \E i \in 1..Len(os) : at[i] = k
  <2>1. k # f
    BY <1>7, Zenon
  <2>2. k \in (h + 1)..(f - 1)
    BY <1>3, <2>1, Zenon
  <2> QED
    BY <1>7, <2>2, Zenon DEF Lists
<1> QED
  BY ONLY <1>4, <1>5, <1>6, <1>7 DEF Lists

LEMMA ListsNext ==
  ASSUME NEW T, NEW lines \in Seq(T), NEW h \in Nat, NEW f \in 1..Len(lines), h < f, NEW os, NEW at,
         Lists(lines, h, f, os, at), lines[f].kind = "override"
  PROVE  Lists(lines, h, f + 1, Append(os, lines[f].override), Append(at, f))
<1>0. PICK n \in Nat : n = Len(os) /\ n = Len(at)
  BY DEF Lists
<1> DEFINE o == lines[f].override
           ps == Append(os, o)
           bt == Append(at, f)
<1>1. o \in Notes(lines)
  BY DEF Notes
<1>2. (h + 1)..(f + 1 - 1) = (h + 1)..(f - 1) \cup {f}
  OBVIOUS
<1>3. /\ ps \in Seq(Notes(lines)) /\ Len(ps) = n + 1
      /\ (\A i \in 1..n : ps[i] = os[i]) /\ ps[n + 1] = o
  BY <1>0, <1>1 DEF Lists
<1>4. /\ bt \in Seq(Nat) /\ Len(bt) = n + 1
      /\ (\A i \in 1..n : bt[i] = at[i]) /\ bt[n + 1] = f
  BY <1>0 DEF Lists
<1>5. /\ \A i \in 1..n : at[i] \in (h + 1)..(f - 1) /\ lines[at[i]].kind = "override" /\ os[i] = lines[at[i]].override
      /\ \A i, j \in 1..n : i < j => at[i] < at[j]
      /\ \A k \in (h + 1)..(f - 1) : lines[k].kind = "override" => \E i \in 1..n : at[i] = k
  BY <1>0 DEF Lists
<1> HIDE DEF ps, bt
<1>6. 1..(n + 1) = 1..n \cup {n + 1} /\ n + 1 \notin 1..n
  OBVIOUS
<1>7. ASSUME NEW i \in 1..(n + 1)
      PROVE  bt[i] \in (h + 1)..(f + 1 - 1) /\ lines[bt[i]].kind = "override" /\ ps[i] = lines[bt[i]].override
  <2>1. CASE i \in 1..n
    BY <1>2, <1>3, <1>4, <1>5, <2>1
  <2>2. CASE i = n + 1
    BY <1>2, <1>3, <1>4, <2>2
  <2> QED
    BY <1>6, <2>1, <2>2
<1>8. ASSUME NEW i \in 1..(n + 1), NEW j \in 1..(n + 1), i < j PROVE bt[i] < bt[j]
  <2>1. i \in 1..n
    BY <1>8
  <2>2. CASE j \in 1..n
    BY <1>4, <1>5, <1>8, <2>1, <2>2
  <2>3. CASE j = n + 1
    <3>1. at[i] \in (h + 1)..(f - 1)
      BY <1>5, <2>1
    <3> QED
      BY <1>4, <2>1, <2>3, <3>1
  <2> QED
    BY <1>6, <2>2, <2>3
<1>9. ASSUME NEW k \in (h + 1)..(f + 1 - 1), lines[k].kind = "override" PROVE \E i \in 1..(n + 1) : bt[i] = k
  <2>1. CASE k = f
    BY <1>4, <1>6, <2>1
  <2>2. CASE k \in (h + 1)..(f - 1)
    <3>1. PICK i \in 1..n : at[i] = k
      BY <1>5, <1>9, <2>2
    <3>2. i \in 1..(n + 1) /\ bt[i] = k
      BY <1>4, <1>6, <3>1
    <3> QED
      BY <3>2
  <2> QED
    BY <1>2, <1>9, <2>1, <2>2
<1> QED
  <2>1. Len(ps) = n + 1 /\ Len(bt) = n + 1 /\ ps \in Seq(Notes(lines)) /\ bt \in Seq(Nat)
    BY ONLY <1>3, <1>4, Zenon
  <2>2. Lists(lines, h, f + 1, ps, bt)
    <3>1. \A i \in 1..Len(ps) : /\ bt[i] \in (h + 1)..(f + 1 - 1)
                                /\ lines[bt[i]].kind = "override" /\ ps[i] = lines[bt[i]].override
      BY ONLY <1>7, <2>1, Zenon
    <3>2. \A i, j \in 1..Len(ps) : i < j => bt[i] < bt[j]
      BY ONLY <1>8, <2>1, Zenon
    <3>3. \A k \in (h + 1)..(f + 1 - 1) : lines[k].kind = "override" => \E i \in 1..Len(ps) : bt[i] = k
      BY ONLY <1>9, <2>1, Zenon
    <3>4. Len(bt) = Len(ps)
      BY ONLY <2>1, Zenon
    <3> QED
      BY ONLY <2>1, <3>1, <3>2, <3>3, <3>4, SMT DEF Lists
  <2> QED
    BY <2>2, Zenon DEF ps, bt, o

\* The overrides of a query are those, but for the numbers of the named ones.
Numbers(os, q) ==
  /\ DOMAIN q.overrides = DOMAIN os
  /\ \A i \in DOMAIN os :
       LET o == q.overrides[i]
       IN  /\ o.column = os[i].column /\ o.go = os[i].go /\ o.null = os[i].null
           /\ os[i].named = <<>> => o.param = os[i].param
           /\ os[i].named # <<>> => \E p \in 1..Len(q.names) : q.names[p] = os[i].named /\ o.param = p

IsQuery(q) ==
  DOMAIN q = {"name", "command", "overrides", "names", "embeds", "sql"} /\ q.command \in Commands

LEMMA ReallyQuery == ASSUME NEW q, IsQuery(q) PROVE q # NoQuery
<1>1. PICK empty : empty = ""
  BY Zenon
<1>2. empty \notin Commands
  BY <1>1, Zenon DEF Commands
<1>3. NoQuery = [name |-> <<>>, command |-> empty, overrides |-> <<>>, names |-> <<>>,
                 embeds |-> <<>>, sql |-> <<>>]
  BY <1>1, Zenon DEF NoQuery
<1>4. NoQuery.command = empty
  BY <1>3
<1> QED
  BY <1>2, <1>4 DEF IsQuery

LEMMA QueryOpened ==
  ASSUME NEW name, NEW command \in Commands,
         NEW q, q = [NoQuery EXCEPT !.name = name, !.command = command]
  PROVE  IsQuery(q) /\ q.overrides = <<>> /\ q.embeds = <<>>
<1>1. PICK empty : empty = ""
  BY Zenon
<1>2. PICK none : none = NoQuery
  OBVIOUS
<1>3. none = [name |-> <<>>, command |-> empty, overrides |-> <<>>, names |-> <<>>, embeds |-> <<>>, sql |-> <<>>]
  BY <1>1, <1>2, Zenon DEF NoQuery
<1>4. q = [none EXCEPT !.name = name, !.command = command]
  BY <1>2, Zenon
<1> QED
  BY <1>3, <1>4 DEF IsQuery

LEMMA NumberedWell ==
  ASSUME NEW q, IsQuery(q), NEW os \in Seq(OverrideNote), q.overrides = os,
         NEW rewritten, NumberedAs(q, rewritten).ok
  PROVE  Numbers(os, NumberedAs(q, rewritten).query) /\ NumberedAs(q, rewritten).query.embeds = q.embeds
<1> DEFINE names == rewritten.names
           named == {k \in DOMAIN q.overrides : q.overrides[k].named # <<>>}
           known == \A k \in named : Contains(names, q.overrides[k].named)
           numbered(k) == IF k \in named
                          THEN [q.overrides[k] EXCEPT !.named = <<>>, !.param = NumberOf(names, q.overrides, k)]
                          ELSE q.overrides[k]
           renamed == [q EXCEPT !.sql = rewritten.text, !.names = names,
                                !.overrides = [k \in DOMAIN q.overrides |-> numbered(k)]]
<1>1. NumberedAs(q, rewritten) =
        IF names = <<>> THEN [ok |-> named = {}, query |-> q]
        ELSE IF rewritten.refused \/ q.names # <<>> \/ ~known THEN [ok |-> FALSE, query |-> q]
        ELSE [ok |-> TRUE, query |-> renamed]
  BY Zenon DEF NumberedAs
<1>2. CASE names = <<>>
  <2> HIDE DEF renamed, known, named
  <2>1. NumberedAs(q, rewritten).query = q /\ named = {}
    <3>1. PICK all \in BOOLEAN : all <=> named = {}
      BY Zenon
    <3>2. NumberedAs(q, rewritten) = [ok |-> all, query |-> q]
      BY <1>1, <1>2, <3>1, Zenon
    <3> QED
      BY <3>1, <3>2
  <2>2. \A k \in DOMAIN os : os[k].named = <<>>
    BY <2>1 DEF named
  <2> QED
    BY <2>1, <2>2 DEF Numbers
<1>3. CASE names # <<>>
  <2>1. known /\ NumberedAs(q, rewritten).query = renamed
    <3> HIDE DEF renamed, known, named
    <3> QED
      BY <1>1, <1>3
  <2>2. /\ renamed.names = names /\ renamed.overrides = [k \in DOMAIN os |-> numbered(k)]
        /\ renamed.embeds = q.embeds
    <3> HIDE DEF numbered
    <3> QED
      BY DEF IsQuery
  <2>3. PICK new : new = renamed
    BY Zenon
  <2>4. new = NumberedAs(q, rewritten).query /\ new.names = names /\ new.overrides = [k \in DOMAIN os |-> numbered(k)]
    BY <2>1, <2>2, <2>3, Zenon
  <2>5. DOMAIN new.overrides = DOMAIN os /\ \A k \in DOMAIN os : new.overrides[k] = numbered(k)
    <3> HIDE DEF numbered
    <3> QED
      BY <2>4
  <2>6. ASSUME NEW k \in DOMAIN os
        PROVE  /\ new.overrides[k].column = os[k].column /\ new.overrides[k].go = os[k].go
               /\ new.overrides[k].null = os[k].null
               /\ os[k].named = <<>> => new.overrides[k].param = os[k].param
               /\ os[k].named # <<>> => \E p \in 1..Len(new.names) :
                                          new.names[p] = os[k].named /\ new.overrides[k].param = p
    <3>0. PICK o, made : o \in OverrideNote /\ o = os[k] /\ made = new.overrides[k]
      OBVIOUS
    <3>1. CASE o.named = <<>>
      <4>1. k \notin named
        BY <3>0, <3>1
      <4>2. numbered(k) = o
        BY <3>0, <4>1, Zenon
      <4>3. made = o
        BY <2>5, <3>0, <4>2, Zenon
      <4> HIDE DEF renamed, numbered, named, known
      <4> QED
        BY <3>0, <3>1, <4>3
    <3>2. CASE o.named # <<>>
      <4>1. k \in named
        BY <3>0, <3>2
      <4>2. Contains(names, o.named)
        BY <2>1, <3>0, <4>1
      <4>3. \E p \in 1..Len(names) : names[p] = o.named
        BY <4>2 DEF Contains
      <4>4. PICK p : p = NumberOf(names, os, k)
        OBVIOUS
      <4>5. p \in 1..Len(names) /\ names[p] = o.named
        BY <3>0, <4>3, <4>4 DEF NumberOf
      <4>6. numbered(k) = [o EXCEPT !.named = <<>>, !.param = p]
        BY <3>0, <4>1, <4>4, Zenon
      <4>7. made = [o EXCEPT !.named = <<>>, !.param = p]
        BY <2>5, <3>0, <4>6, Zenon
      <4>8. made.column = o.column /\ made.go = o.go /\ made.null = o.null /\ made.param = p
        BY <4>7 DEF OverrideNote
      <4>9. new.names = names
        BY <2>4, Zenon
      <4> HIDE DEF renamed, numbered, named, known
      <4> QED
        BY <3>0, <3>2, <4>5, <4>8, <4>9
    <3> QED
      BY <3>1, <3>2
  <2> HIDE DEF renamed, numbered, named, known
  <2>7. Numbers(os, new)
    BY <2>5, <2>6, Zenon DEF Numbers
  <2>8. new.embeds = q.embeds
    BY <2>2, <2>3, Zenon
  <2> QED
    BY <2>4, <2>7, <2>8, Zenon
<1> QED
  BY <1>2, <1>3

LEMMA LinesTyped ==
  ASSUME NEW lines, AreLines(lines)
  PROVE  /\ \E T : lines \in Seq(T)
         /\ Notes(lines) \subseteq OverrideNote
         /\ \A k \in DOMAIN lines : /\ lines[k].kind = "override" => Starts(Trim(lines[k].text)) = "--"
                                    /\ lines[k].kind = "embed" => lines[k].embed \in EmbedNote
<1>1. lines \in Seq(Range(lines)) /\ \A k \in DOMAIN lines : Overrides(lines[k]) /\ Embeds(lines[k])
  BY DEF AreLines, Range
<1>2. \A k \in DOMAIN lines : lines[k].kind = "override" =>
        Starts(Trim(lines[k].text)) = "--" /\ lines[k].override \in OverrideNote
  BY <1>1, Zenon DEF Overrides
<1>3. Notes(lines) \subseteq OverrideNote
  BY <1>2 DEF Notes
<1>4. \A k \in DOMAIN lines : lines[k].kind = "embed" => lines[k].embed \in EmbedNote
  BY <1>1, Zenon DEF Embeds
<1> QED
  BY <1>1, <1>2, <1>3, <1>4

\* Query n has the overrides that are written for it.
HasWritten(lines, n, q) ==
  \E h, f, os, at : /\ HeaderLine(lines, n) = h /\ FirstSql(lines, n) = f
                    /\ Lists(lines, h, f, os, at) /\ Numbers(os, q)
                    /\ q.embeds \in Seq(EmbedNote)

\* After l lines: the queries that are done have theirs, and the last one has
\* those that were read up to there, where its statement has not begun.
Opened(lines, m, l, r) ==
  /\ IsQuery(r.cur) /\ r.cur.embeds \in Seq(EmbedNote)
  /\ \E h, f, at :
       /\ Below(lines, m, h, l) /\ Begins(lines, h, f, l)
       /\ Lists(lines, h, f, r.cur.overrides, at)
       /\ r.inBody \/ f = l + 1
       /\ ~r.inBody \/ f <= l
IsRead(r) == DOMAIN r = {"queries", "cur", "inBody", "body", "failed"} /\ r.failed \in BOOLEAN
Done(lines, m, r) ==
  /\ \E Q : r.queries \in Seq(Q)
  /\ Len(r.queries) = m /\ \A n \in 1..m : HasWritten(lines, n, r.queries[n])
Standing(lines, l, r) ==
  LET m == Cardinality(Headers(lines, l))
  IN  /\ IsRead(r)
      /\ ~r.failed => \/ m = 0 /\ Done(lines, 0, r) /\ r.cur = NoQuery
                      \/ m \in Nat \ {0} /\ Done(lines, m - 1, r) /\ Opened(lines, m, l, r)

\* A query is closed with all that is written for it.
LEMMA Flushed ==
  ASSUME NEW lines, AreLines(lines), NEW m \in Nat \ {0}, NEW l, l = Len(lines) \/ IsHeader(lines[l + 1]),
         NEW r, IsRead(r), ~r.failed, Done(lines, m - 1, r), Opened(lines, m, l, r)
  PROVE  IsRead(Flush(r)) /\ (~Flush(r).failed => Done(lines, m, Flush(r)))
<1>1. PICK h, f, at : /\ Below(lines, m, h, l) /\ Begins(lines, h, f, l)
                      /\ Lists(lines, h, f, r.cur.overrides, at)
  BY DEF Opened
<1>2. HeaderLine(lines, m) = h /\ FirstSql(lines, m) = f
  <2>1. PICK T : lines \in Seq(T)
    BY LinesTyped
  <2> QED
    BY <1>1, <2>1, LinesOf
<1>3. r.cur # NoQuery
  BY ReallyQuery DEF Opened
<1>4. PICK q : q = [r.cur EXCEPT !.sql = Statement(r.body)]
  OBVIOUS
<1>5. IsQuery(q) /\ q.overrides = r.cur.overrides /\ q.embeds \in Seq(EmbedNote)
  BY <1>4 DEF Opened, IsQuery
<1>6. r.cur.overrides \in Seq(OverrideNote)
  <2>1. r.cur.overrides \in Seq(Notes(lines)) /\ Notes(lines) \subseteq OverrideNote
    BY <1>1, LinesTyped DEF Lists
  <2> QED
    BY <2>1
<1>7. PICK res : res = NumberedAs(q, RewriteNamed(q.sql))
  OBVIOUS
<1>8. Flush(r) = IF res.query.sql = <<>> \/ ~res.ok THEN [r EXCEPT !.failed = TRUE]
                 ELSE [r EXCEPT !.queries = Append(@, res.query), !.cur = NoQuery, !.body = <<>>]
  <2>1. res = ResolveNamed(q)
    BY <1>7, Zenon DEF ResolveNamed
  <2>2. Flush(r) = QueryRead(r, res)
    BY <1>3, <1>4, <2>1, Zenon DEF Flush
  <2>3. QueryRead(r, res) = IF res.query.sql = <<>> \/ ~res.ok THEN Fails(r)
                            ELSE [r EXCEPT !.queries = Append(@, res.query), !.cur = NoQuery, !.body = <<>>]
    BY Zenon DEF QueryRead
  <2> QED
    BY <2>2, <2>3, Zenon DEF Fails
<1>9. CASE res.query.sql = <<>> \/ ~res.ok
  <2>1. Flush(r) = [r EXCEPT !.failed = TRUE]
    BY <1>8, <1>9
  <2> QED
    BY <2>1 DEF IsRead
<1>10. CASE ~(res.query.sql = <<>> \/ ~res.ok)
  <2>1. PICK none : none = NoQuery
    BY Zenon
  <2>2. Flush(r) = [r EXCEPT !.queries = Append(@, res.query), !.cur = none, !.body = <<>>]
    BY <1>8, <1>10, <2>1, Zenon
  <2>3. Flush(r).queries = Append(r.queries, res.query) /\ IsRead(Flush(r))
    BY <2>2 DEF IsRead
  <2>4. HasWritten(lines, m, res.query)
    <3>1. Numbers(r.cur.overrides, res.query) /\ res.query.embeds \in Seq(EmbedNote)
      BY <1>5, <1>6, <1>7, <1>10, NumberedWell
    <3> QED
      BY <1>1, <1>2, <3>1 DEF HasWritten
  <2>5. PICK Q : r.queries \in Seq(Q) /\ Len(r.queries) = m - 1
    BY DEF Done
  <2>6. /\ Append(r.queries, res.query) \in Seq(Q \cup {res.query})
        /\ Len(Append(r.queries, res.query)) = m
        /\ \A n \in 1..(m - 1) : Append(r.queries, res.query)[n] = r.queries[n]
        /\ Append(r.queries, res.query)[m] = res.query
    BY <2>5, Appended
  <2>7. \A n \in 1..m : n \in 1..(m - 1) \/ n = m
    OBVIOUS
  <2>8. \A n \in 1..m : HasWritten(lines, n, Append(r.queries, res.query)[n])
    BY <2>4, <2>6, <2>7 DEF Done
  <2>9. Done(lines, m, Flush(r))
    BY <2>3, <2>6, <2>8 DEF Done
  <2> QED
    BY <2>3, <2>9
<1> QED
  BY <1>9, <1>10

\* A header closes the query before it and opens one.
LEMMA HeaderStands ==
  ASSUME NEW lines, AreLines(lines), NEW l \in 0..(Len(lines) - 1), NEW r, Standing(lines, l, r), ~r.failed,
         IsHeader(lines[l + 1])
  PROVE  Standing(lines, l + 1, Header(r, lines[l + 1]))
<1>0. PICK L \in Nat : L = Len(lines) /\ DOMAIN lines = 1..L
  <2>1. PICK T : lines \in Seq(T)
    BY LinesTyped
  <2> QED
    BY <2>1
<1> DEFINE m == Cardinality(Headers(lines, l))
           line == lines[l + 1]
           x == IF r.cur = NoQuery THEN r ELSE Flush(r)
           y == NewQuery(x, line)
<1>1. m \in Nat /\ Cardinality(Headers(lines, l + 1)) = m + 1
  BY HeadersNext, HeadersCounted
<1>2. IsRead(x) /\ (~x.failed => Done(lines, m, x))
  <2>1. CASE m = 0 /\ Done(lines, 0, r) /\ r.cur = NoQuery
    BY <2>1 DEF Standing
  <2>2. CASE m \in Nat \ {0} /\ Done(lines, m - 1, r) /\ Opened(lines, m, l, r)
    <3>1. r.cur # NoQuery /\ IsRead(r)
      BY <2>2, ReallyQuery DEF Opened, Standing
    <3> HIDE DEF m
    <3>2. x = Flush(r)
      BY <3>1
    <3> HIDE DEF x
    <3> QED
      BY <2>2, <3>1, <3>2, Flushed
  <2> QED
    BY <2>1, <2>2 DEF Standing
<1>3. Flush(r) = x
  BY Zenon DEF Flush
<1>4. Header(r, line) = y
  BY <1>3, Zenon DEF Header
<1> HIDE DEF x, m
<1>5. PICK opened : opened = [NoQuery EXCEPT !.name = line.name, !.command = line.command]
  OBVIOUS
<1>6. y = [x EXCEPT !.cur = opened, !.inBody = FALSE, !.failed = @ \/ line.command \notin Commands]
  BY <1>5, Zenon DEF NewQuery
<1> HIDE DEF y
<1>7. IsRead(y) /\ y.queries = x.queries /\ y.cur = opened /\ y.inBody = FALSE
      /\ (~y.failed => ~x.failed /\ line.command \in Commands)
  BY <1>2, <1>6 DEF IsRead
<1>8. ASSUME ~y.failed PROVE Done(lines, m, y) /\ Opened(lines, m + 1, l + 1, y)
  <2>1. Done(lines, m, y)
    BY <1>2, <1>7, <1>8 DEF Done
  <2>2. IsQuery(opened) /\ opened.overrides = <<>> /\ opened.embeds = <<>>
    <3>1. PICK name, command : name = line.name /\ command = line.command
      OBVIOUS
    <3>2. command \in Commands /\ opened = [NoQuery EXCEPT !.name = name, !.command = command]
      BY <1>5, <1>7, <1>8, <3>1, Zenon
    <3> QED
      BY <3>2, QueryOpened, Zenon
  <2>3. Below(lines, m + 1, l + 1, l + 1)
    BY <1>0, <1>1 DEF Below
  <2>4. Begins(lines, l + 1, l + 2, l + 1)
    BY <1>0 DEF Begins
  <2>5. Lists(lines, l + 1, l + 2, opened.overrides, <<>>)
    <3>1. l + 1 \in Nat /\ l + 1 + 1 = l + 2
      BY <1>0
    <3> QED
      BY <2>2, <3>1, ListsNothing
  <2>6. l + 2 = l + 1 + 1 /\ <<>> \in Seq(EmbedNote)
    BY <1>0
  <2> QED
    <3>1. y.cur = opened /\ ~y.inBody
      BY ONLY <1>7
    <3>2. IsQuery(y.cur) /\ y.cur.embeds \in Seq(EmbedNote)
      BY ONLY <2>2, <2>6, <3>1, Zenon
    <3>3. Lists(lines, l + 1, l + 2, y.cur.overrides, <<>>)
      BY ONLY <2>5, <3>1, Zenon
    <3>4. Opened(lines, m + 1, l + 1, y)
      BY ONLY <2>3, <2>4, <2>6, <3>1, <3>2, <3>3, Zenon DEF Opened
    <3> QED
      BY <2>1, <3>4, Zenon
<1>9. m + 1 \in Nat \ {0} /\ m + 1 - 1 = m
  BY <1>1
<1> QED
  BY <1>1, <1>4, <1>7, <1>8, <1>9 DEF Standing

\* A line below a header is an annotation, a blank one, or of the statement.
LEMMA LineStands ==
  ASSUME NEW lines, AreLines(lines), NEW l \in 0..(Len(lines) - 1), NEW r, Standing(lines, l, r), ~r.failed,
         ~IsHeader(lines[l + 1]), r.cur # NoQuery
  PROVE  Standing(lines, l + 1, ReadLine(r, lines[l + 1]))
<1>0. PICK L, T : L \in Nat /\ L = Len(lines) /\ DOMAIN lines = 1..L /\ lines \in Seq(T)
  <2>1. PICK T : lines \in Seq(T)
    BY LinesTyped
  <2>2. Len(lines) \in Nat /\ DOMAIN lines = 1..Len(lines)
    BY ONLY <2>1
  <2> QED
    BY <2>1, <2>2, Zenon
<1> DEFINE line == lines[l + 1]
           y == ReadLine(r, line)
           os == r.cur.overrides
<1> SUFFICES Standing(lines, l + 1, y)
  OBVIOUS
<1>1. PICK m \in Nat \ {0} : m = Cardinality(Headers(lines, l)) /\ m = Cardinality(Headers(lines, l + 1))
                             /\ Done(lines, m - 1, r) /\ Opened(lines, m, l, r)
  <2>1. l \in Nat
    BY <1>0
  <2>2. Cardinality(Headers(lines, l + 1)) = Cardinality(Headers(lines, l))
    BY <2>1, HeadersNext, HeadersCounted
  <2> QED
    BY <2>2 DEF Standing
<1>2. PICK h, f, at : /\ Below(lines, m, h, l) /\ Begins(lines, h, f, l) /\ Lists(lines, h, f, os, at)
                      /\ r.inBody \/ f = l + 1
                      /\ ~r.inBody \/ f <= l
  BY <1>1 DEF Opened
<1>3. l \in Nat /\ l + 1 \in 1..L /\ h \in 1..l /\ f \in (h + 1)..(l + 1) /\ f \in Nat /\ h < f
  BY <1>0, <1>2 DEF Below, Begins
<1>4. Below(lines, m, h, l + 1)
  <2>1. \A k \in (h + 1)..(l + 1) : k \in (h + 1)..l \/ k = l + 1
    BY <1>3
  <2> QED
    BY <1>0, <1>2, <1>3, <2>1 DEF Below
<1>5. IsRead(r) /\ IsQuery(r.cur) /\ r.cur.embeds \in Seq(EmbedNote)
  BY <1>1 DEF Opened, Standing
<1>6. ASSUME IsRead(y), y.failed = r.failed, y.queries = r.queries,
             IsQuery(y.cur), y.cur.embeds \in Seq(EmbedNote),
             NEW g, NEW bt, Begins(lines, h, g, l + 1), Lists(lines, h, g, y.cur.overrides, bt),
             y.inBody \/ g = l + 2, ~y.inBody \/ g <= l + 1
      PROVE  Standing(lines, l + 1, y)
  <2> HIDE DEF y, os
  <2>1. Done(lines, m - 1, y)
    BY <1>1, <1>6 DEF Done
  <2>2. l + 2 = l + 1 + 1
    BY <1>3
  <2>3. Opened(lines, m, l + 1, y)
    BY <1>4, <1>6, <2>2 DEF Opened
  <2> QED
    BY <1>1, <1>6, <2>1, <2>3 DEF Standing
<1>7. PICK text : text = Trim(line.text)
  OBVIOUS
<1>8. ~r.failed /\ line.kind # "header"
  BY DEF IsHeader
<1>9. /\ line.kind = "override" => Starts(text) = "--"
      /\ IsSql(line) <=> text # <<>> /\ Starts(text) # "--"
  BY <1>0, <1>3, <1>7, LinesTyped DEF IsSql
<1>10. (h + 1)..(l + 2 - 1) = (h + 1)..l \cup {l + 1} /\ l + 1 - 1 = l /\ l + 1 + 1 = l + 2
  BY <1>3
<1>11. CASE ~r.inBody /\ Starts(text) = "--"
  <2>1. f = l + 1 /\ Begins(lines, h, l + 2, l + 1)
    BY <1>2, <1>3, <1>9, <1>10, <1>11 DEF Begins
  <2>2. y = Annotation(r, line)
    BY <1>7, <1>8, <1>11, Zenon DEF ReadLine, Annotates
  <2>3. CASE line.kind = "override"
    <3>1. y = [r EXCEPT !.cur.overrides = Append(@, line.override)]
      BY <2>2, <2>3, Zenon DEF Annotation
    <3>2. /\ IsRead(y) /\ y.failed = r.failed /\ y.queries = r.queries /\ IsQuery(y.cur)
          /\ y.cur.overrides = Append(os, line.override) /\ y.inBody = r.inBody
          /\ y.cur.embeds \in Seq(EmbedNote)
      BY <1>5, <3>1 DEF IsRead, IsQuery
    <3>3. Lists(lines, h, l + 2, Append(os, line.override), Append(at, l + 1))
      BY <1>0, <1>2, <1>3, <1>10, <2>1, <2>3, ListsNext
    <3> HIDE DEF y, os
    <3> QED
      BY <1>6, <1>11, <2>1, <3>2, <3>3
  <2>4. CASE line.kind # "override"
    <3>1. /\ IsRead(y) /\ y.failed = r.failed /\ y.queries = r.queries /\ IsQuery(y.cur)
          /\ y.cur.overrides = os /\ y.inBody = r.inBody
          /\ y.cur.embeds \in Seq(EmbedNote)
      <4>1. CASE line.kind = "param"
        <5>1. y = [r EXCEPT !.cur.names = Append(@, line.name)]
          BY <2>2, <4>1, Zenon DEF Annotation
        <5> QED
          BY <1>5, <5>1 DEF IsRead, IsQuery
      <4>2. CASE line.kind = "embed"
        <5>1. y = [r EXCEPT !.cur.embeds = Append(@, line.embed)]
          BY <2>2, <4>2, Zenon DEF Annotation
        <5>2. line.embed \in EmbedNote
          BY <1>0, <1>3, <4>2, LinesTyped
        <5>3. Append(r.cur.embeds, line.embed) \in Seq(EmbedNote)
          BY <1>5, <5>2
        <5> QED
          BY <1>5, <5>1, <5>3 DEF IsRead, IsQuery
      <4>3. CASE line.kind # "param" /\ line.kind # "embed"
        <5>1. y = r
          BY <2>2, <2>4, <4>3, Zenon DEF Annotation
        <5> QED
          BY <1>5, <5>1
      <4> QED
        BY <4>1, <4>2, <4>3
    <3>2. Lists(lines, h, l + 2, os, at)
      BY <1>0, <1>2, <1>3, <1>10, <2>1, <2>4, ListsOther
    <3> HIDE DEF y, os
    <3> QED
      BY <1>6, <1>11, <2>1, <3>1, <3>2
  <2> QED
    BY <2>3, <2>4
<1>12. CASE ~r.inBody /\ Starts(text) # "--" /\ text = <<>>
  <2>1. f = l + 1 /\ Begins(lines, h, l + 2, l + 1)
    BY <1>2, <1>3, <1>9, <1>10, <1>12 DEF Begins
  <2>2. y = r
    BY <1>7, <1>8, <1>12, Zenon DEF ReadLine, Annotates
  <2>3. Lists(lines, h, l + 2, os, at)
    BY <1>0, <1>2, <1>3, <1>9, <1>10, <1>12, <2>1, ListsOther
  <2> QED
    BY <1>5, <1>6, <1>12, <2>1, <2>2, <2>3
<1>13. CASE r.inBody \/ (Starts(text) # "--" /\ text # <<>>)
  <2>1. y = [r EXCEPT !.inBody = TRUE, !.body = Append(@, line.text)]
    BY <1>7, <1>8, <1>13, Zenon DEF ReadLine, Annotates
  <2>2. /\ IsRead(y) /\ y.failed = r.failed /\ y.queries = r.queries /\ IsQuery(y.cur)
        /\ y.cur.overrides = os /\ y.inBody /\ y.cur.embeds \in Seq(EmbedNote)
    BY <1>5, <2>1 DEF IsRead, IsQuery
  <2>3. Begins(lines, h, f, l + 1) /\ f <= l + 1
    BY <1>2, <1>3, <1>9, <1>13 DEF Begins
  <2> HIDE DEF y, os
  <2> QED
    BY <1>2, <1>6, <2>2, <2>3
<1> QED
  BY <1>11, <1>12, <1>13

\* So every query of a file has the overrides that are written for it.
LEMMA FileHasWritten ==
  ASSUME NEW lines, AreLines(lines), ParseFile(lines).ok
  PROVE  \A n \in 1..Len(ParseFile(lines).queries) : HasWritten(lines, n, ParseFile(lines).queries[n])
<1>0. PICK L \in Nat : L = Len(lines)
  <2>1. PICK T : lines \in Seq(T)
    BY LinesTyped
  <2> QED
    BY <2>1
<1>1. PICK read : /\ read[0] = Unread
                  /\ \A k \in 1..L : read[k] = ReadLine(read[k - 1], lines[k])
                  /\ ParseFile(lines) = Distinctly(AtEnd(read[L]))
  BY <1>0, FileRead
<1>2. Standing(lines, 0, read[0])
  <2>1. PICK none : none = NoQuery
    OBVIOUS
  <2>2. PICK r : r = read[0]
    OBVIOUS
  <2>3. r = [queries |-> <<>>, cur |-> none, inBody |-> FALSE, body |-> <<>>, failed |-> FALSE]
    BY <1>1, <2>1, <2>2, Zenon DEF Unread
  <2>4. r.queries = <<>> /\ r.cur = NoQuery /\ IsRead(r)
    BY ONLY <2>1, <2>3 DEF IsRead
  <2>5. Done(lines, 0, r)
    <3>1. <<>> \in Seq({}) /\ Len(<<>>) = 0
      OBVIOUS
    <3> QED
      BY <2>4, <3>1 DEF Done
  <2> QED
    BY <2>2, <2>4, <2>5, NoHeaders DEF Standing
<1>3. ASSUME NEW l \in 0..(L - 1), Standing(lines, l, read[l]) PROVE Standing(lines, l + 1, read[l + 1])
  <2>1. PICK r, line : r = read[l] /\ line = lines[l + 1] /\ Standing(lines, l, r)
    BY <1>3
  <2>2. l + 1 \in 1..L /\ l + 1 - 1 = l /\ l \in Nat
    BY <1>0
  <2>3. read[l + 1] = ReadLine(r, line)
    BY <1>1, <2>1, <2>2
  <2>4. CASE r.failed
    <3>1. ReadLine(r, line) = r
      BY <2>4, Zenon DEF ReadLine
    <3> QED
      BY <2>1, <2>3, <2>4, <3>1 DEF Standing
  <2>5. CASE ~r.failed /\ IsHeader(line)
    <3>1. ReadLine(r, line) = Header(r, line)
      BY <2>5, Zenon DEF ReadLine, IsHeader
    <3> QED
      BY <1>0, <2>1, <2>3, <2>5, <3>1, HeaderStands
  <2>6. CASE ~r.failed /\ ~IsHeader(line) /\ r.cur = NoQuery
    <3>1. ReadLine(r, line) = r
      BY <2>6, Zenon DEF ReadLine, IsHeader
    <3>2. ~Opened(lines, Cardinality(Headers(lines, l)), l, r)
      BY <2>6, ReallyQuery DEF Opened
    <3>3. Cardinality(Headers(lines, l + 1)) = Cardinality(Headers(lines, l))
      BY <2>1, <2>2, <2>6, HeadersNext, HeadersCounted
    <3> QED
      BY <2>1, <2>3, <2>6, <3>1, <3>2, <3>3 DEF Standing
  <2>7. CASE ~r.failed /\ ~IsHeader(line) /\ r.cur # NoQuery
    BY <1>0, <2>1, <2>3, <2>7, LineStands
  <2> QED
    BY <2>4, <2>5, <2>6, <2>7
<1> DEFINE Lacking == {l \in 0..L : ~Standing(lines, l, read[l])}
<1>4. Lacking = {}
  <2>1. SUFFICES ASSUME Lacking # {} PROVE FALSE
    OBVIOUS
  <2>2. PICK l \in Lacking : \A m \in Lacking : l <= m
    <3>1. Lacking \subseteq Nat
      BY <1>0
    <3> QED
      BY <2>1, <3>1, LeastIn
  <2>3. l \in 0..L /\ l # 0 /\ ~Standing(lines, l, read[l])
    BY <1>2, <2>2
  <2>4. l - 1 \in 0..(L - 1) /\ l - 1 + 1 = l /\ l - 1 \in 0..L /\ l - 1 < l
    BY <1>0, <2>3
  <2>5. Standing(lines, l - 1, read[l - 1])
    BY <2>2, <2>3, <2>4
  <2> QED
    BY <1>3, <2>3, <2>4, <2>5
<1>5. PICK r : r = read[L] /\ Standing(lines, L, r)
  BY <1>0, <1>4
<1>6. PICK end : end = AtEnd(r)
  OBVIOUS
<1>7. ParseFile(lines).queries = end.queries /\ ~end.failed
  <2>1. PICK parsed : parsed = ParseFile(lines)
    OBVIOUS
  <2> DEFINE distinct == /\ ~end.failed /\ end.queries # <<>>
                         /\ \A i, j \in DOMAIN end.queries : i # j => end.queries[i].name # end.queries[j].name
  <2>2. PICK well \in BOOLEAN : well <=> distinct
    BY Zenon
  <2>3. parsed = [ok |-> well, queries |-> end.queries]
    BY <1>1, <1>5, <1>6, <2>1, <2>2, Zenon DEF Distinctly
  <2> HIDE DEF distinct
  <2>4. well /\ parsed.queries = end.queries
    BY <2>1, <2>3
  <2>5. distinct
    BY <2>2, <2>4
  <2>6. ~end.failed
    BY <2>5 DEF distinct
  <2> QED
    BY <2>1, <2>4, <2>6
<1>8. ~r.failed /\ end = Flush(r)
  <2>1. end = IF r.failed THEN r ELSE Flush(r)
    BY <1>6, Zenon DEF AtEnd
  <2> QED
    BY <1>7, <2>1
<1>9. CASE Done(lines, 0, r) /\ r.cur = NoQuery
  <2>1. end = r
    BY <1>8, <1>9, Zenon DEF Flush
  <2> QED
    BY <1>7, <1>9, <2>1 DEF Done
<1>10. ASSUME NEW m \in Nat \ {0}, Done(lines, m - 1, r), Opened(lines, m, L, r)
       PROVE  \A n \in 1..Len(end.queries) : HasWritten(lines, n, end.queries[n])
  <2>1. Done(lines, m, end)
    <3>1. IsRead(r)
      BY <1>5 DEF Standing
    <3> QED
      BY <1>0, <1>7, <1>8, <1>10, <3>1, Flushed
  <2> QED
    BY <2>1 DEF Done
<1> QED
  BY <1>5, <1>7, <1>8, <1>9, <1>10 DEF Standing

\* What a run has of its file and of the server, and how far it is.
WellDescribed ==
  /\ file \in Files
  /\ \A n \in 1..Len(queries) : HasWritten(file.lines, n, queries[n])
  /\ \E D : described \in Seq(D) /\ \A d \in D : \E C : d.columns \in Seq(C)
  /\ \A d \in Range(described) : d.params \in Seq(TypeIds)
  /\ phase \in {"load", "build", "built"} => Len(described) = Len(queries)
  /\ phase \in {"parse", "describe", "load"} => built = <<>>

LEMMA InitDescribed == ASSUME CompileAssumption, InitCompile PROVE WellDescribed
<1>1. <<>> \in Seq({}) /\ Len(<<>>) = 0
  OBVIOUS
<1>2. PICK D : D = {}
  OBVIOUS
<1>3. described \in Seq(D) /\ \A d \in D : \E C : d.columns \in Seq(C)
  BY <1>1, <1>2 DEF InitCompile
<1>4. \A n \in 1..Len(queries) : HasWritten(file.lines, n, queries[n])
  BY <1>1 DEF InitCompile
<1>5. Range(described) = {}
  BY DEF InitCompile, Range
<1> QED
  BY <1>3, <1>4, <1>5 DEF InitCompile, WellDescribed

LEMMA DescribeKeeps == ASSUME CompileAssumption, TablesRead, WellDescribed, Describe PROVE WellDescribed'
<1>1. /\ UNCHANGED <<file, queries, built>>
      /\ phase = "describe" /\ phase' \in {"describe", "failed"}
  BY DEF Describe
<1>2. PICK D : described \in Seq(D) /\ \A d \in D : \E C : d.columns \in Seq(C)
  BY DEF WellDescribed
<1>3. /\ \E E : described' \in Seq(E) /\ \A d \in E : \E C : d.columns \in Seq(C)
      /\ \A d \in Range(described') : d.params \in Seq(TypeIds)
  <2>1. CASE UNCHANGED described
    BY <1>2, <2>1 DEF WellDescribed
  <2>2. CASE ~UNCHANGED described
    <3> DEFINE sql == queries[Len(described) + 1].sql
    <3>1. /\ \E st \in StatementsOf(file.statements, sql) : Valid(schema, st)
          /\ described' = Append(described, Answer(schema, StatementOf(file.statements, sql)))
      BY <2>2 DEF Describe
    <3> HIDE DEF sql
    <3>2. PICK st \in StatementsOf(file.statements, sql) : Valid(schema, st)
      BY <3>1
    <3>3. file \in Files /\ schema \in Schemas
      BY DEF WellDescribed, TablesRead
    <3>4. st \in file.statements /\ StatementOf(file.statements, sql) = st
      BY <3>2, <3>3, StatementIs
    <3>5. PICK x : x = Answer(schema, st) /\ \E C : x.columns \in Seq(C)
      BY <3>2, <3>3, <3>4, AnswerLists
    <3>6. described' = Append(described, x)
      BY <3>1, <3>4, <3>5, Zenon
    <3>7. described' \in Seq(D \cup {x})
      BY <1>2, <3>6, Appended
    <3>8. \A d \in D \cup {x} : \E C : d.columns \in Seq(C)
      BY <1>2, <3>5
    <3>9. x.params \in Seq(TypeIds)
      <4>1. st.params \in Seq(TypeIds)
        BY <3>3, <3>4 DEF CompileAssumption
      <4> QED
        BY <3>5, <4>1 DEF Answer
    <3>10. \A d \in Range(described') : d \in Range(described) \/ d = x
      BY <1>2, <3>6 DEF Range
    <3> QED
      BY <3>7, <3>8, <3>9, <3>10 DEF WellDescribed
  <2> QED
    BY <2>1, <2>2
<1> QED
  BY <1>1, <1>3 DEF WellDescribed

LEMMA DescribedKeeps ==
  ASSUME CompileAssumption, TablesRead, WellDescribed, [Steps \/ SchemaChanges]_vars PROVE WellDescribed'
<1>1. CASE Parse
  <2>1. /\ UNCHANGED <<file, described, built>> /\ phase = "parse" /\ phase' \in {"describe", "failed"}
        /\ queries' = queries \/ (ParseFile(file.lines).ok /\ queries' = ParseFile(file.lines).queries)
    BY <1>1, Zenon DEF Parse
  <2>2. file \in Files
    BY DEF WellDescribed
  <2>3. ASSUME ParseFile(file.lines).ok
        PROVE  \A n \in 1..Len(ParseFile(file.lines).queries) :
                 HasWritten(file.lines, n, ParseFile(file.lines).queries[n])
    <3>1. AreLines(file.lines)
      BY <2>2, Zenon DEF CompileAssumption
    <3> QED
      BY <2>3, <3>1, FileHasWritten
  <2>4. \A n \in 1..Len(queries') : HasWritten(file.lines, n, queries'[n])
    BY <2>1, <2>3 DEF WellDescribed
  <2> QED
    BY <2>1, <2>2, <2>4 DEF WellDescribed
<1>2. CASE Describe
  BY <1>2, DescribeKeeps
<1>3. CASE AsksCatalog
  BY <1>3 DEF AsksCatalog, WellDescribed
<1>4. CASE Loading \/ SchemaChanges
  BY <1>4 DEF Loading, SchemaChanges, runVars, WellDescribed
<1>5. CASE Loaded
  BY <1>5 DEF Loaded, WellDescribed
<1>6. CASE CompileQuery
  <2>1. UNCHANGED <<file, queries, described>> /\ phase = "build" /\ phase' \in {"build", "failed"}
    BY <1>6 DEF CompileQuery
  <2> QED
    BY <2>1 DEF WellDescribed
<1>7. CASE CheckNameCollisions
  BY <1>7 DEF CheckNameCollisions, WellDescribed
<1>8. CASE UNCHANGED vars
  BY <1>8 DEF vars, runVars, WellDescribed
<1> QED
  BY <1>1, <1>2, <1>3, <1>4, <1>5, <1>6, <1>7, <1>8 DEF Steps

-----------------------------------------------------------------------------
(* And so for every query that is compiled. *)

\* A Go type has a form, and is a pointer only where pgc.json says so.
IsGo(go) == "form" \in DOMAIN go /\ (go.form # "pointer" \/ go \in Range(Mapped))

LEMMA NoneGoes == IsGo(NoGo)
<1>1. PICK empty : empty = ""
  BY Zenon
<1>2. NoGo = [expr |-> empty, form |-> "none", uses |-> {}, helper |-> <<>>]
  BY <1>1, Zenon DEF NoGo
<1> QED
  BY <1>2 DEF IsGo

LEMMA GoesAre == ASSUME CompileAssumption, NEW found PROVE IsGo(GoOf(found))
<1>1. CASE found \in DOMAIN Mapped
  <2>1. GoOf(found) = Mapped[found]
    BY <1>1, Zenon DEF GoOf, IsEnum, IsArray
  <2>2. Mapped[found] \in GoTypeIn({"value", "pointer", "slice"})
    BY <1>1, Zenon DEF CompileAssumption, IsMapped
  <2>3. "form" \in DOMAIN Mapped[found]
    BY <2>2 DEF GoTypeIn
  <2> QED
    BY <1>1, <2>1, <2>3 DEF IsGo, Range
<1>2. CASE found \notin DOMAIN Mapped /\ found \in DOMAIN PgTypes
  <2>1. GoOf(found) = PgTypes[found]
    BY <1>2, Zenon DEF GoOf, IsEnum, IsArray
  <2>2. found \in {"int4", "text", "date", "jsonb", "bytea"}
    BY <1>2 DEF PgTypes
  <2>3. "form" \in DOMAIN PgTypes[found] /\ PgTypes[found].form # "pointer"
    BY <2>2 DEF PgTypes, GoValue
  <2> QED
    BY <2>1, <2>3 DEF IsGo
<1>3. CASE found \notin DOMAIN Mapped /\ found \notin DOMAIN PgTypes
  <2>1. CASE IsEnum(found)
    <3>1. ~IsArray(found)
      BY <2>1 DEF IsEnum, IsArray
    <3>2. GoOf(found) = GoValue(found, {})
      BY <1>3, <2>1, <3>1, Zenon DEF GoOf
    <3> QED
      BY <3>2 DEF GoValue, IsGo
  <2>2. CASE ~IsEnum(found) /\ IsArray(found)
    <3>1. GoOf(found) = ArrayElems[TerminalName(types[found].elem)]
      BY <1>3, <2>2, Zenon DEF GoOf
    <3>2. PICK e : e = TerminalName(types[found].elem)
      OBVIOUS
    <3>3. e \in {"int4", "text"}
      BY <2>2, <3>2 DEF IsArray, ArrayElems
    <3>4. GoOf(found) = ArrayElems[e]
      BY <3>1, <3>2, Zenon
    <3> QED
      BY <3>3, <3>4 DEF IsGo, ArrayElems
  <2>3. CASE ~IsEnum(found) /\ ~IsArray(found)
    <3>1. GoOf(found) = NoGo
      BY <1>3, <2>3, Zenon DEF GoOf
    <3> QED
      BY <3>1, NoneGoes, Zenon
  <2> QED
    BY <2>1, <2>2, <2>3
<1> QED
  BY <1>1, <1>2, <1>3

LEMMA ValueGoes == ASSUME CompileAssumption, NEW oid PROVE IsGo(ValueGo(oid))
<1> DEFINE gos == {GoOf(found) : found \in Walk(oid)}
<1>1. CASE gos = {}
  <2>1. ValueGo(oid) = NoGo
    BY <1>1, Zenon DEF ValueGo
  <2> QED
    BY <2>1, NoneGoes, Zenon
<1>2. CASE gos # {}
  <2>1. ValueGo(oid) = CHOOSE go \in gos : TRUE
    BY <1>2, Zenon DEF ValueGo
  <2>2. \A go \in gos : IsGo(go)
    BY GoesAre
  <2> HIDE DEF gos
  <2> QED
    BY <1>2, <2>1, <2>2
<1> QED
  BY <1>1, <1>2

\* What an override asks for is what the type it is given to becomes.
LEMMA GoShaped ==
  ASSUME CompileAssumption, NEW oid, NEW notNull, NEW o PROVE Shapes(o, GoType(oid, notNull, o))
<1>1. CASE o.go # NoGo
  BY <1>1, Zenon DEF Shapes, GoType
<1>2. CASE o.go = NoGo
  <2>1. PICK go : go = ValueGo(oid) /\ IsGo(go)
    BY ValueGoes
  <2>2. CASE o.null = "notnull"
    <3>1. GoType(oid, notNull, o) = go
      BY <1>2, <2>1, <2>2 DEF GoType, WrapNull
    <3> QED
      BY <1>2, <2>1, <2>2, <3>1 DEF Shapes, IsGo
  <2>3. CASE o.null = "nullable"
    <3>1. GoType(oid, notNull, o) = IF InherentlyNullable(go) THEN go ELSE [go EXCEPT !.form = "pointer"]
      BY <1>2, <2>1, <2>3 DEF GoType, WrapNull
    <3>2. GoType(oid, notNull, o).form # "value"
      BY <2>1, <3>1 DEF IsGo, InherentlyNullable
    <3> QED
      BY <1>2, <2>3, <3>2 DEF Shapes
  <2>4. CASE o.null # "notnull" /\ o.null # "nullable"
    BY <1>2, <2>4 DEF Shapes
  <2> QED
    BY <2>2, <2>3, <2>4
<1> QED
  BY <1>1, <1>2

\* A query that is compiled fits the columns and the parameters described for
\* it, and its overrides are for some of them.
Compiles(ts, q, d, c) ==
  /\ \E gos : /\ Scanned(ts, d.columns, Wants(q, d.columns, gos), c.ret)
              /\ \A k \in DOMAIN d.columns : Shapes(OverrideForColumn(q, d.columns[k].name), gos[k])
  /\ DOMAIN c.params = DOMAIN d.params
  /\ \A m \in DOMAIN d.params : Shapes(OverrideForParam(q, m), c.params[m].go)
  /\ CheckOverrides(q, d)

LEMMA CompilesWell ==
  ASSUME TablesTyped, CompileAssumption, NEW q, NEW d, NEW C, d.columns \in Seq(C), q.embeds \in Seq(EmbedNote),
         CheckOverrides(q, d), CompileRet(q, d, GoTypes(q, d)).ok,
         NEW c, c.params = CompileParams(q, d), c.ret = CompileRet(q, d, GoTypes(q, d))
  PROVE  Compiles(tables, q, d, c)
<1>1. PICK gos : gos = GoTypes(q, d)
  OBVIOUS
<1>2. Scanned(tables, d.columns, Wants(q, d.columns, gos), c.ret)
  <2>1. PICK wants : wants = Wants(q, d.columns, gos)
    BY Zenon
  <2>2. CompileRet(q, d, gos).ok /\ c.ret = CompileRet(q, d, gos)
    BY <1>1, Zenon
  <2>3. Scanned(tables, d.columns, wants, CompileRet(q, d, gos))
    BY <2>1, <2>2, RetScanned, Zenon
  <2> QED
    BY <2>1, <2>2, <2>3, Zenon
<1>3. ASSUME NEW k \in DOMAIN d.columns PROVE Shapes(OverrideForColumn(q, d.columns[k].name), gos[k])
  <2>1. PICK type, o, notNull : o = OverrideForColumn(q, d.columns[k].name) /\ gos[k] = GoType(type, notNull, o)
    BY <1>1 DEF GoTypes, ColumnType
  <2>2. Shapes(o, GoType(type, notNull, o))
    BY GoShaped
  <2> QED
    BY <2>1, <2>2, Zenon
<1>4. /\ DOMAIN c.params = DOMAIN d.params
      /\ \A m \in DOMAIN d.params : c.params[m].go = GoType(d.params[m], TRUE, OverrideForParam(q, m))
  <2>1. PICK names : names = InferParamNames(q.sql, q.names, Len(d.params))
    OBVIOUS
  <2>2. c.params = [m \in DOMAIN d.params |->
                      [name |-> names[m], go |-> GoType(d.params[m], TRUE, OverrideForParam(q, m))]]
    BY <2>1, Zenon DEF CompileParams
  <2>3. DOMAIN c.params = DOMAIN d.params
    BY <2>2
  <2>4. \A m \in DOMAIN d.params :
          c.params[m] = [name |-> names[m], go |-> GoType(d.params[m], TRUE, OverrideForParam(q, m))]
    BY <2>2, Zenon
  <2>5. ASSUME NEW m \in DOMAIN d.params PROVE c.params[m].go = GoType(d.params[m], TRUE, OverrideForParam(q, m))
    <3>1. PICK go, param : go = GoType(d.params[m], TRUE, OverrideForParam(q, m)) /\ param = c.params[m]
      OBVIOUS
    <3>2. param = [name |-> names[m], go |-> go]
      BY <2>4, <3>1, Zenon
    <3>3. param.go = go
      BY ONLY <3>2
    <3> QED
      BY <3>1, <3>3, Zenon
  <2> QED
    BY <2>3, <2>5
<1>5. ASSUME NEW m \in DOMAIN d.params PROVE Shapes(OverrideForParam(q, m), c.params[m].go)
  <2>1. PICK type, o : type = d.params[m] /\ o = OverrideForParam(q, m)
    OBVIOUS
  <2>2. Shapes(o, GoType(type, TRUE, o))
    BY GoShaped
  <2> QED
    BY <1>4, <2>1, <2>2, Zenon
<1> QED
  BY <1>2, <1>3, <1>4, <1>5 DEF Compiles

ScansInv ==
  /\ TablesRead /\ WellDescribed
  /\ \E S : built \in Seq(S)
  /\ phase \in {"build", "built"} =>
       \A n \in DOMAIN built : n \in DOMAIN described /\ Compiles(tables, queries[n], described[n], built[n])

LEMMA CompiledScans ==
  ASSUME CompileAssumption, ScansInv, CompileQuery
  PROVE  /\ \E S : built' \in Seq(S)
         /\ \A n \in DOMAIN built' : n \in DOMAIN described' /\ Compiles(tables', queries'[n], described'[n], built'[n])
<1>1. PICK S : built \in Seq(S)
  BY DEF ScansInv
<1>2. PICK D : described \in Seq(D) /\ \A d \in D : \E C : d.columns \in Seq(C)
  BY DEF ScansInv, WellDescribed
<1>3. /\ UNCHANGED <<tables, queries, described>> /\ phase = "build" /\ Len(built) < Len(queries)
  BY DEF CompileQuery, catalogVars, loadVars
<1>4. PICK N \in Nat, M \in Nat :
        N = Len(built) /\ DOMAIN built = 1..N /\ M = Len(described) /\ DOMAIN described = 1..M /\ N < M /\ M = Len(queries)
  BY <1>1, <1>2, <1>3 DEF ScansInv, WellDescribed
<1>5. \A n \in 1..N : n \in DOMAIN described /\ Compiles(tables, queries[n], described[n], built[n])
  BY <1>3, <1>4 DEF ScansInv
<1>6. CASE UNCHANGED built
  BY <1>1, <1>3, <1>4, <1>5, <1>6
<1>7. CASE ~UNCHANGED built
  <2> DEFINE q == queries[N + 1]
             d == described[N + 1]
             Adds(params, ret) ==
               /\ CheckOverrides(q, d) /\ ret.ok /\ params = CompileParams(q, d)
               /\ ret = CompileRet(q, d, GoTypes(q, d))
               /\ built' = Append(built, [name |-> q.name, command |-> q.command, params |-> params, ret |-> ret])
  <2>1. \E n \in {Len(built) + 1} : \E q2 \in {queries[n]}, d2 \in {described[n]} :
          \E params \in {CompileParams(q2, d2)}, gos \in {GoTypes(q2, d2)} : \E ret \in {CompileRet(q2, d2, gos)} :
            /\ CheckOverrides(q2, d2) /\ ret.ok
            /\ built' = Append(built, [name |-> q2.name, command |-> q2.command, params |-> params, ret |-> ret])
    BY <1>7 DEF CompileQuery
  <2>2. PICK params, ret : Adds(params, ret)
    BY <1>4, <2>1
  <2>3. PICK x : x = [name |-> q.name, command |-> q.command, params |-> params, ret |-> ret]
    OBVIOUS
  <2>4. built' = Append(built, x) /\ x.ret = ret /\ x.params = params
    BY <2>2, <2>3
  <2>5. N + 1 \in 1..M
    BY <1>4
  <2>6. PICK C : d.columns \in Seq(C)
    <3>1. described[N + 1] \in D
      BY <1>2, <1>4, <2>5
    <3> QED
      BY <1>2, <3>1
  <2>7. q.embeds \in Seq(EmbedNote)
    BY <1>4, <2>5 DEF ScansInv, WellDescribed, HasWritten
  <2>8. TablesTyped
    BY TablesAreTyped DEF ScansInv
  <2>9. CompileRet(q, d, GoTypes(q, d)).ok /\ CheckOverrides(q, d)
    BY <2>2
  <2> HIDE DEF q, d
  <2>10. Compiles(tables, q, d, x)
    BY <2>2, <2>4, <2>6, <2>7, <2>8, <2>9, CompilesWell
  <2>11. /\ built' \in Seq(S \cup {x}) /\ Len(built') = N + 1
         /\ \A n \in 1..N : built'[n] = built[n]
         /\ built'[N + 1] = x
    BY <1>1, <1>4, <2>4, Appended
  <2>12. DOMAIN built' = 1..(N + 1)
    BY <2>11
  <2>13. ASSUME NEW n \in 1..(N + 1)
         PROVE  n \in DOMAIN described' /\ Compiles(tables', queries'[n], described'[n], built'[n])
    <3>1. CASE n \in 1..N
      BY <1>3, <1>5, <2>11, <3>1
    <3>2. CASE n = N + 1
      <4>1. n \in DOMAIN described /\ described[n] = d /\ queries[n] = q
        BY <1>4, <2>5, <3>2 DEF d, q
      <4>2. built'[n] = x
        BY <2>11, <3>2
      <4> QED
        BY <1>3, <2>10, <4>1, <4>2
    <3> QED
      BY <3>1, <3>2
  <2> QED
    BY <2>11, <2>12, <2>13
<1> QED
  BY <1>6, <1>7

LEMMA ScansKeep == ASSUME CompileAssumption, ScansInv, [Steps \/ SchemaChanges]_vars PROVE ScansInv'
<1>1. TablesRead' /\ WellDescribed'
  BY ReadsKeep, DescribedKeeps DEF ScansInv
<1>2. CASE CompileQuery
  <2>1. phase' \in {"build", "failed"}
    BY <1>2 DEF CompileQuery
  <2> QED
    BY <1>1, <1>2, <2>1, CompiledScans DEF ScansInv
<1>3. CASE Parse \/ Describe \/ AsksCatalog \/ Loading
  <2>1. built' = built /\ phase' \notin {"build", "built"}
    BY <1>3 DEF Parse, Describe, AsksCatalog, Loading, runVars
  <2> QED
    BY <1>1, <2>1 DEF ScansInv
<1>4. CASE Loaded
  <2>1. built' = built /\ built = <<>>
    BY <1>4 DEF Loaded, ScansInv, WellDescribed
  <2> QED
    BY <1>1, <2>1 DEF ScansInv
<1>5. CASE SchemaChanges
  <2>1. UNCHANGED <<built, described, queries, phase, tables>>
    BY <1>5 DEF SchemaChanges, Change, loadVars, runVars
  <2> QED
    BY <1>1, <2>1 DEF ScansInv
<1>6. CASE CheckNameCollisions
  <2>1. UNCHANGED <<built, described, queries, tables>> /\ phase = "build"
    BY <1>6 DEF CheckNameCollisions, catalogVars, loadVars
  <2> QED
    BY <1>1, <2>1 DEF ScansInv
<1>7. CASE UNCHANGED vars
  <2>1. UNCHANGED <<built, described, queries, phase, tables>>
    BY <1>7 DEF vars, runVars, catalogVars, loadVars
  <2> QED
    BY <1>1, <2>1 DEF ScansInv
<1> QED
  BY <1>2, <1>3, <1>4, <1>5, <1>6, <1>7 DEF Steps

LEMMA InitScans == ASSUME CompileAssumption, InitCompile PROVE ScansInv
<1>1. WellDescribed
  BY InitDescribed
<1>2. TablesRead
  BY DEF InitCompile, InitCatalog, Empty, TablesRead
<1>3. \E S : built \in Seq(S)
  <2>1. <<>> \in Seq({})
    OBVIOUS
  <2> QED
    BY <2>1 DEF InitCompile
<1>4. phase = "parse"
  BY DEF InitCompile
<1> QED
  BY <1>1, <1>2, <1>3, <1>4 DEF ScansInv

\* Each column is scanned where its name says, and a table's struct is filled
\* from all the columns of that table, whatever was embedded and however the
\* schema changed before the catalog was loaded.
THEOREM ScansOwn == CompileSpec => []ScansOwnColumn
<1>1. InitCompile => ScansInv
  BY InitScans, CompileAssumption
<1>2. ScansInv /\ [Steps \/ SchemaChanges]_vars => ScansInv'
  BY ScansKeep, CompileAssumption
<1>3. ScansInv => ScansOwnColumn
  <2> SUFFICES ASSUME ScansInv, NEW n \in Compiled, built[n].ret.kind # "none"
               PROVE  /\ Len(Targets(n)) = Len(described[n].columns)
                      /\ \A k \in DOMAIN described[n].columns : Targets(n)[k].name = described[n].columns[k].name
                      /\ \A s \in Structs(n) :
                           /\ {described[n].columns[k].attnum : k \in s.from..s.to} =
                                {c.attnum : c \in ToSet(tables[s.table].columns)}
                           /\ \A k \in s.from..s.to :
                                /\ described[n].columns[k].table = s.table
                                /\ \E c \in ToSet(tables[s.table].columns) :
                                     c.attnum = described[n].columns[k].attnum /\ c.name = described[n].columns[k].name
    BY Zenon DEF ScansOwnColumn
  <2>1. phase = "built" /\ n \in DOMAIN built
    BY DEF Compiled
  <2>2. n \in DOMAIN described /\ Compiles(tables, queries[n], described[n], built[n])
    BY <2>1 DEF ScansInv
  <2>3. PICK C : described[n].columns \in Seq(C)
    <3>1. PICK D : described \in Seq(D) /\ \A d \in D : \E C : d.columns \in Seq(C)
      BY DEF ScansInv, WellDescribed
    <3>2. described[n] \in D
      BY <2>2, <3>1
    <3> QED
      BY <3>1, <3>2
  <2>4. PICK gos : Scanned(tables, described[n].columns, Wants(queries[n], described[n].columns, gos), built[n].ret)
    BY <2>2, Zenon DEF Compiles
  <2>5. PICK wants : wants = Wants(queries[n], described[n].columns, gos)
    OBVIOUS
  <2>6. /\ Len(Targets(n)) = Len(described[n].columns)
        /\ \A k \in DOMAIN described[n].columns : Meets(Targets(n)[k], wants[k])
        /\ \A s \in Structs(n) : Covers(tables, described[n].columns, s.from, s.to, s.table)
    BY <2>2, <2>3, <2>4, <2>5, ScansIt
  <2>7. \A k \in DOMAIN described[n].columns : wants[k].name = described[n].columns[k].name
    BY <2>5 DEF Wants
  <2> QED
    BY <2>6, <2>7, Zenon DEF Covers, Meets
<1> QED
  BY <1>1, <1>2, <1>3, PTL DEF CompileSpec

-----------------------------------------------------------------------------
(* What an author overrides is as the override says. *)

\* Of the overrides between two lines that are for the same, the one written
\* first is the one that is found first.
LEMMA FirstIsFirst ==
  ASSUME NEW lines, NEW h, NEW f, NEW os, NEW at, Lists(lines, h, f, os, at),
         NEW k \in (h + 1)..(f - 1), lines[k].kind = "override",
         NEW S, S \subseteq DOMAIN os, \A i \in DOMAIN os : at[i] = k => i \in S, \A i \in S : k <= at[i]
  PROVE  Min(S) \in DOMAIN os /\ S # {} /\ os[Min(S)] = lines[k].override
<1>1. PICK N \in Nat : N = Len(os) /\ N = Len(at) /\ DOMAIN os = 1..N
  BY DEF Lists
<1>2. PICK i \in 1..N : at[i] = k
  BY <1>1 DEF Lists
<1>3. ASSUME NEW j \in S PROVE i <= j
  <2>1. j \in 1..N /\ k <= at[j]
    BY <1>1
  <2>2. ~(j < i)
    <3>1. j < i => at[j] < at[i]
      BY <1>1, <1>2, <2>1 DEF Lists
    <3>2. at[j] \in Nat /\ at[i] \in Nat
      BY <1>1, <1>2, <2>1 DEF Lists
    <3> QED
      BY <1>2, <2>1, <3>1, <3>2
  <2> QED
    BY <2>1, <2>2
<1>4. i \in S /\ S \subseteq Int
  BY <1>1, <1>2
<1>5. Min(S) = i
  BY <1>3, <1>4, MinIs
<1> QED
  BY <1>1, <1>2, <1>4, <1>5 DEF Lists

\* Of an override it matters what it asks for.
LEMMA ShapesSame ==
  ASSUME NEW o1, NEW o2, o1.go = o2.go, o1.null = o2.null, NEW go, Shapes(o1, go) PROVE Shapes(o2, go)
BY DEF Shapes

LEMMA NoneIsForNone == NoOverride.column = ""
<1>1. PICK empty, none : empty = "" /\ none = NoGo
  BY Zenon
<1>2. NoOverride = [column |-> empty, param |-> 0, named |-> <<>>, go |-> none, null |-> empty]
  BY <1>1, Zenon DEF NoOverride, Override
<1>3. NoOverride.column = empty
  BY ONLY <1>2
<1> QED
  BY <1>1, <1>3, Zenon

\* A compiled query has its written overrides and fits what was described.
LEMMA CompiledHas ==
  ASSUME ScansInv, NEW n \in Compiled
  PROVE  /\ n \in DOMAIN described /\ Compiles(tables, queries[n], described[n], built[n])
         /\ HasWritten(file.lines, n, queries[n])
         /\ \E C : described[n].columns \in Seq(C)
         /\ described[n].params \in Seq(TypeIds)
<1>1. phase = "built" /\ n \in DOMAIN built
  BY DEF Compiled
<1>2. n \in DOMAIN described /\ Compiles(tables, queries[n], described[n], built[n])
  BY <1>1 DEF ScansInv
<1>3. PICK D : described \in Seq(D) /\ (\A d \in D : \E C : d.columns \in Seq(C)) /\ Len(described) = Len(queries)
  BY <1>1 DEF ScansInv, WellDescribed
<1>4. described[n] \in D /\ described[n] \in Range(described) /\ n \in 1..Len(queries)
  BY <1>2, <1>3 DEF Range
<1> QED
  BY <1>2, <1>3, <1>4 DEF ScansInv, WellDescribed

LEMMA ColumnShaped ==
  ASSUME ScansInv, NEW n \in Compiled, NEW k \in Written(n), NEW o, o = WrittenOverride(k),
         o.column # NoOverride.column,
         \A j \in Written(n) : WrittenOverride(j).column = o.column => k <= j,
         NEW c \in DOMAIN described[n].columns, described[n].columns[c].name = o.column
  PROVE  Shapes(o, Targets(n)[c].go)
<1> DEFINE q == queries[n]
           d == described[n]
           cols == d.columns
<1>1. /\ Compiles(tables, q, d, built[n]) /\ HasWritten(file.lines, n, q) /\ \E C : cols \in Seq(C)
  BY CompiledHas
<1>2. PICK h, f, os, at : /\ HeaderLine(file.lines, n) = h /\ FirstSql(file.lines, n) = f
                          /\ Lists(file.lines, h, f, os, at) /\ Numbers(os, q)
  BY <1>1 DEF HasWritten
<1>3. Written(n) = {j \in (h + 1)..(f - 1) : file.lines[j].kind = "override"}
  BY <1>2 DEF Written
<1> DEFINE S == {i \in DOMAIN q.overrides : q.overrides[i].column = o.column}
<1>4. S \subseteq DOMAIN os /\ \A i \in DOMAIN os : i \in S <=> os[i].column = o.column
  BY <1>2 DEF Numbers
<1>5. \A i \in DOMAIN os : at[i] \in Written(n) /\ os[i] = WrittenOverride(at[i])
  BY <1>2, <1>3 DEF Lists, WrittenOverride
<1>6. /\ k \in (h + 1)..(f - 1) /\ file.lines[k].kind = "override"
      /\ \A i \in DOMAIN os : at[i] = k => i \in S
      /\ \A i \in S : k <= at[i]
  BY <1>3, <1>4, <1>5
<1>7. Min(S) \in DOMAIN os /\ S # {} /\ os[Min(S)] = o
  <2> HIDE DEF S
  <2> QED
    BY <1>2, <1>4, <1>6, FirstIsFirst DEF WrittenOverride
<1>8. PICK p : p = OverrideForColumn(q, o.column)
  OBVIOUS
<1>9. p = q.overrides[Min(S)]
  <2>1. p = IF S = {} THEN NoOverride ELSE q.overrides[Min(S)]
    BY <1>8, Zenon DEF OverrideForColumn, FirstOf
  <2> QED
    BY <1>7, <2>1
<1> HIDE DEF S
<1>10. p.column = o.column /\ p.go = o.go /\ p.null = o.null
  BY <1>2, <1>7, <1>9 DEF Numbers
<1>11. p # NoOverride
  BY <1>10
<1>12. PICK gos : /\ Scanned(tables, cols, Wants(q, cols, gos), built[n].ret)
                  /\ \A j \in DOMAIN cols : Shapes(OverrideForColumn(q, cols[j].name), gos[j])
  BY <1>1, Zenon DEF Compiles
<1>13. PICK wants : wants = Wants(q, cols, gos)
  OBVIOUS
<1>14. built[n].ret.kind # "none"
  <2>1. cols # <<>>
    BY <1>1
  <2> QED
    BY <1>12, <2>1 DEF Scanned
<1>15. Meets(Targets(n)[c], wants[c])
  BY <1>1, <1>12, <1>13, <1>14, ScansIt
<1>16. wants[c].spoken /\ wants[c].go = gos[c]
  <2>1. wants[c] = [name |-> cols[c].name, spoken |-> Spoken(q, cols[c].name), go |-> gos[c]]
    BY <1>1, <1>13 DEF Wants
  <2>2. Spoken(q, cols[c].name)
    BY <1>8, <1>11 DEF Spoken
  <2> QED
    BY <2>1, <2>2
<1>17. Targets(n)[c].go = gos[c]
  BY <1>15, <1>16 DEF Meets
<1>18. Shapes(p, gos[c])
  BY <1>8, <1>12
<1> QED
  BY <1>10, <1>17, <1>18, ShapesSame

\* Every override for a column reaches the result: also the one for a column
\* of a table whose struct it keeps from being shared, whatever is written
\* around it and in whatever order.
THEOREM ColumnOverrides == CompileSpec => []ColumnOverridesHonoured
<1>1. InitCompile => ScansInv
  BY InitScans, CompileAssumption
<1>2. ScansInv /\ [Steps \/ SchemaChanges]_vars => ScansInv'
  BY ScansKeep, CompileAssumption
<1>3. ScansInv => ColumnOverridesHonoured
  <2> SUFFICES ASSUME ScansInv, NEW n \in Compiled, NEW k \in Written(n), NEW o, o = WrittenOverride(k),
                      o.column # NoOverride.column,
                      \A j \in Written(n) : WrittenOverride(j).column = o.column => k <= j,
                      NEW named, named = {c \in DOMAIN described[n].columns : described[n].columns[c].name = o.column}
               PROVE  named # {} /\ \A c \in named : Shapes(o, Targets(n)[c].go)
    BY NoneIsForNone, Zenon DEF ColumnOverridesHonoured
  <2>1. \A c \in named : Shapes(o, Targets(n)[c].go)
    BY ColumnShaped
  <2>2. named # {}
    <3>1. Compiles(tables, queries[n], described[n], built[n]) /\ HasWritten(file.lines, n, queries[n])
      BY CompiledHas
    <3>2. \A p \in ToSet(queries[n].overrides) :
            p.column # NoOverride.column => \E c \in ToSet(described[n].columns) : c.name = p.column
      BY <3>1, NoneIsForNone, Zenon DEF Compiles, CheckOverrides
    <3>3. PICK h, f, os, at : /\ HeaderLine(file.lines, n) = h /\ FirstSql(file.lines, n) = f
                              /\ Lists(file.lines, h, f, os, at) /\ Numbers(os, queries[n])
      BY <3>1 DEF HasWritten
    <3>4. PICK i \in DOMAIN os : os[i] = o
      <4>1. k \in (h + 1)..(f - 1) /\ file.lines[k].kind = "override" /\ file.lines[k].override = o
        BY <3>3, Zenon DEF Written, WrittenOverride
      <4>2. PICK i \in 1..Len(os) : at[i] = k
        BY <3>3, <4>1, Zenon DEF Lists
      <4>3. os[i] = file.lines[at[i]].override
        BY <3>3, Zenon DEF Lists
      <4>4. DOMAIN os = 1..Len(os)
        BY <3>3 DEF Lists
      <4> QED
        BY <4>1, <4>2, <4>3, <4>4, Zenon
    <3>5. queries[n].overrides[i] \in ToSet(queries[n].overrides) /\ queries[n].overrides[i].column = o.column
      BY <3>3, <3>4 DEF Numbers, ToSet
    <3>6. PICK c \in ToSet(described[n].columns) : c.name = o.column
      BY <3>2, <3>5
    <3> QED
      BY <3>6 DEF ToSet
  <2> QED
    BY <2>1, <2>2
<1> QED
  BY <1>1, <1>2, <1>3, PTL DEF CompileSpec

\* The names that overrides give have the numbers they have in the statement as
\* it was written.  (rewriteNamed, which scans the statement)
NumberedAsWritten ==
  \A n \in Compiled : \A k \in Written(n) : \A p \in 1..Len(queries[n].names) :
    LET name == WrittenOverride(k).named
    IN  name # <<>> /\ queries[n].names[p] = name => p = NumberWritten(n, name)

LEMMA ParameterShaped ==
  ASSUME ScansInv, NumberedAsWritten, NEW n \in Compiled, NEW k \in Written(n), NEW o, o = WrittenOverride(k),
         NEW number, number = Number(n, o), number > 0,
         \A j \in Written(n) : Number(n, WrittenOverride(j)) = number => k <= j
  PROVE  number \in DOMAIN built[n].params /\ Shapes(o, built[n].params[number].go)
<1> DEFINE q == queries[n]
           d == described[n]
<1>1. Compiles(tables, q, d, built[n]) /\ HasWritten(file.lines, n, q) /\ d.params \in Seq(TypeIds)
  BY CompiledHas
<1>2. PICK h, f, os, at : /\ HeaderLine(file.lines, n) = h /\ FirstSql(file.lines, n) = f
                          /\ Lists(file.lines, h, f, os, at) /\ Numbers(os, q)
  BY <1>1 DEF HasWritten
<1>3. Written(n) = {j \in (h + 1)..(f - 1) : file.lines[j].kind = "override"}
  BY <1>2 DEF Written
<1>4. \A i \in DOMAIN os : at[i] \in Written(n) /\ os[i] = WrittenOverride(at[i])
  BY <1>2, <1>3 DEF Lists, WrittenOverride
<1>5. ASSUME NEW i \in DOMAIN os PROVE q.overrides[i].param = Number(n, os[i])
  <2>1. CASE os[i].named = <<>>
    BY <1>2, <2>1 DEF Numbers, Number
  <2>2. CASE os[i].named # <<>>
    <3>1. PICK p \in 1..Len(q.names) : q.names[p] = os[i].named /\ q.overrides[i].param = p
      BY <1>2, <2>2 DEF Numbers
    <3>2. p = NumberWritten(n, os[i].named)
      BY <1>4, <2>2, <3>1 DEF NumberedAsWritten
    <3> QED
      BY <2>2, <3>1, <3>2 DEF Number
  <2> QED
    BY <2>1, <2>2
<1> DEFINE S == {i \in DOMAIN q.overrides : q.overrides[i].param = number}
<1>6. S \subseteq DOMAIN os /\ \A i \in DOMAIN os : i \in S <=> Number(n, os[i]) = number
  BY <1>2, <1>5 DEF Numbers
<1>7. /\ k \in (h + 1)..(f - 1) /\ file.lines[k].kind = "override"
      /\ \A i \in DOMAIN os : at[i] = k => i \in S
      /\ \A i \in S : k <= at[i]
  BY <1>3, <1>4, <1>6
<1>8. Min(S) \in DOMAIN os /\ S # {} /\ os[Min(S)] = o
  <2> HIDE DEF S
  <2> QED
    BY <1>2, <1>6, <1>7, FirstIsFirst DEF WrittenOverride
<1>9. PICK p : p = OverrideForParam(q, number)
  OBVIOUS
<1>10. p = q.overrides[Min(S)]
  <2>1. p = IF S = {} THEN NoOverride ELSE q.overrides[Min(S)]
    BY <1>9, Zenon DEF OverrideForParam, FirstOf
  <2> QED
    BY <1>8, <2>1
<1> HIDE DEF S
<1>11. p.param = number /\ p.go = o.go /\ p.null = o.null
  BY <1>2, <1>5, <1>8, <1>10 DEF Numbers
<1>12. p.param <= Len(d.params)
  <2>1. p \in ToSet(q.overrides)
    BY <1>2, <1>8, <1>10 DEF Numbers, ToSet
  <2> QED
    BY <1>1, <2>1, Zenon DEF Compiles, CheckOverrides
<1>13. number \in Nat
  <2>1. PICK i \in DOMAIN os : os[i] = o /\ i = Min(S)
    BY <1>8
  <2>2. CASE o.named = <<>>
    <3>1. o \in Notes(file.lines) /\ file \in Files
      BY <1>2, <2>1 DEF Lists, ScansInv, WellDescribed
    <3>2. AreLines(file.lines)
      BY <3>1, CompileAssumption, Zenon DEF CompileAssumption
    <3>3. o \in OverrideNote
      BY <3>1, <3>2, LinesTyped
    <3>4. o.param \in Nat
      BY <3>3 DEF OverrideNote
    <3> QED
      BY <2>2, <3>4 DEF Number
  <2>3. CASE o.named # <<>>
    <3>1. p.param \in Int
      BY <1>2, <1>10, <2>1, <2>3 DEF Numbers
    <3> QED
      BY <1>11, <3>1
  <2> QED
    BY <2>2, <2>3
<1>14. number \in DOMAIN d.params
  BY <1>1, <1>11, <1>12, <1>13
<1>15. DOMAIN built[n].params = DOMAIN d.params /\ Shapes(p, built[n].params[number].go)
  BY <1>1, <1>9, <1>14, Zenon DEF Compiles
<1> QED
  BY <1>11, <1>14, <1>15, ShapesSame

\* Every override for a parameter reaches that parameter, whichever of the two
\* ways it is named in, as long as the statement is scanned as it was written.
THEOREM ParameterOverrides == CompileSpec => [](NumberedAsWritten => ParameterOverridesHonoured)
<1>1. InitCompile => ScansInv
  BY InitScans, CompileAssumption
<1>2. ScansInv /\ [Steps \/ SchemaChanges]_vars => ScansInv'
  BY ScansKeep, CompileAssumption
<1>3. ScansInv => (NumberedAsWritten => ParameterOverridesHonoured)
  <2> SUFFICES ASSUME ScansInv, NumberedAsWritten, NEW n \in Compiled, NEW k \in Written(n),
                      NEW o, o = WrittenOverride(k), NEW number, number = Number(n, o), number > 0,
                      \A j \in Written(n) : Number(n, WrittenOverride(j)) = number => k <= j
               PROVE  number \in DOMAIN built[n].params /\ Shapes(o, built[n].params[number].go)
    BY Zenon DEF ParameterOverridesHonoured
  <2> QED
    BY ParameterShaped, Zenon
<1> QED
  BY <1>1, <1>2, <1>3, PTL DEF CompileSpec
=============================================================================
