------------------------------ MODULE Generate ------------------------------
(***************************************************************************)
(* pgc generate, check and verify (src/main.go, src/output.go,             *)
(* src/internal/snapshot/snapshot.go): invocations that meet in the files  *)
(* they read and write - the queries, the generated package, pgc.lock.json *)
(* - and in a database whose schema others change.  One action per answer  *)
(* that may come from another schema and per write; a process may die      *)
(* between any two.  A file holds one query.                               *)
(***************************************************************************)
EXTENDS Naturals

CONSTANTS
  Procs,
  Files,         \* the generated files of the query files, numbers above 1
  Other,         \* a Go file of the output directory no query file produces
  Texts,         \* contents of a query file: one query each
  Sql(_),        \* the name and SQL of a text, without the rest of its header
  Whole,         \* texts that return a table's whole row, a model
  Schemas,
  Shape(_, _),   \* the answer to Describe of an SQL under a schema, or None
  Tables(_),     \* the tables, and
  Types(_),      \* the types and enums of the catalog under a schema
  Digests,       \* fingerprints of the migrations directory
  None, Hand, Cut, Damaged,
  Commands,      \* bound: [op, url] processes may be started with
  InitTrees,     \* [queries, schema, migrations, pkg, lock] to start from
  MaxStarts, MaxEdits  \* bounds: invocations, edits of the world

db == 0      \* db.go
models == 1  \* models.go
Names == {db, models, Other} \cup Files

\* What Describe may answer, the catalog may say, and one run may learn.
Shapes     == {Shape(Sql(t), s) : t \in Texts, s \in Schemas} \cup {None}
TablesRead == {Tables(s) : s \in Schemas} \cup {None}
TypesRead  == {Types(s) : s \in Schemas} \cup {None}
Learnt     == [shape : [Files -> Shapes], tables : TablesRead, types : TypesRead]

\* Contents of generated files, and of pgc.lock.json.
Contents == [of : SUBSET (Texts \X Shapes), cat : {<<>>} \cup (TablesRead \X TypesRead)]
Records  == [sql : [Files -> {Sql(t) : t \in Texts} \cup {None}], shape : [Files -> Shapes],
             tables : TablesRead, types : TypesRead, migrations : Digests \cup {None}]

\* What is no file is told from what is one, and a file written by hand from a
\* generated one; nobody left a file cut short before.
ASSUME GenerateAssumption ==
  /\ Files \subseteq Nat \ {db, models} /\ Other \in Nat \ ({db, models} \cup Files)
  /\ Whole \subseteq Texts
  /\ None \notin Texts
  /\ {None, Hand, Cut} \cap Contents = {} /\ Cut \notin {None, Hand}
  /\ {None, Damaged} \cap Records = {}
  /\ Commands \subseteq [op : {"generate", "check", "verify"}, url : BOOLEAN]
  /\ InitTrees \subseteq [queries : [Files -> Texts \cup {None}], schema : Schemas,
                          migrations : Digests, pkg : [Names -> Contents \cup {None, Hand}],
                          lock : Records \cup {None, Damaged}]
  /\ MaxStarts \in Nat /\ MaxEdits \in Nat

VARIABLES
  queries,     \* the query file each generated file belongs to, or None
  schema, migrations,
  pkg,         \* the output directory
  lock,        \* pgc.lock.json: a record, None, or Damaged
  proc,        \* each process: where it is and its locals
  outcome,     \* "ok", "refused", "failed", or "none" yet
  calm,        \* nobody else changed anything since it started
  had,         \* the statements of the package when it started
  starts, edits

tree  == <<queries, schema, migrations>>
vars  == <<tree, pkg, lock, proc, outcome, calm, had, starts, edits>>

Least(S)     == CHOOSE n \in S : \A m \in S : n <= m
Present(src) == {f \in Files : src[f] # None}

\* Queries refuses a directory without query files, and a query defined twice.
Accepted(src) ==
  Present(src) # {} /\ \A f, g \in Present(src) : Sql(src[f]) = Sql(src[g]) => f = g

NoAnswers    == [shape |-> [f \in Files |-> None], tables |-> None, types |-> None]
NoProc       == [pc |-> "idle", cmd |-> [op |-> "none", url |-> FALSE],
                 src |-> [f \in Files |-> None], ans |-> NoAnswers, rec |-> None,
                 digest |-> None, want |-> [n \in Names |-> None], todo |-> {},
                 stale |-> {}]

-----------------------------------------------------------------------------
\* What is written.  A generated file is what it was rendered from: the texts
\* with their answers, and the catalog.
Rendered(src, ans, fs) ==
  [of |-> {<<src[f], ans.shape[f]>> : f \in fs},
   cat |-> IF fs = {} THEN <<>> ELSE <<ans.tables, ans.types>>]

Modelled(src) == {f \in Present(src) : src[f] \in Whole}

\* The package: db.go, models.go when there are models, a file per query file.
\* pgarray.go and querier.go come and go as models.go does.
Build(src, ans) ==
  [n \in Names |->
    CASE n = db -> Rendered(src, ans, {})
      [] n = models /\ Modelled(src) # {} -> Rendered(src, ans, Modelled(src))
      [] n \in Present(src) -> Rendered(src, ans, {n})
      [] OTHER -> None]

\* The snapshot of a described run.  It knows the SQL, not the annotations.
Of(src, ans, digest) ==
  [sql |-> [f \in Files |-> IF src[f] = None THEN None ELSE Sql(src[f])],
   shape |-> ans.shape, tables |-> ans.tables, types |-> ans.types,
   migrations |-> digest]

Readable(l) == l \notin {None, Damaged}

\* Describe of a snapshot covers queries whose SQL it was taken for.
Covers(l, src) == \A f \in Present(src) : l.sql[f] = Sql(src[f])

Recorded(l, src) ==
  [shape |-> [f \in Files |-> IF src[f] = None THEN None ELSE l.shape[f]],
   tables |-> l.tables, types |-> l.types]

\* Mutant: only the queries are compared.
SameQueries(was, now) == was.sql = now.sql /\ was.shape = now.shape

\* Compare finds no difference.
Same(was, now) ==
  /\ was.sql = now.sql /\ was.shape = now.shape
  /\ was.tables = now.tables /\ was.types = now.types
  /\ was.migrations = now.migrations

\* Mutant: every Go file is taken for a generated one.
AnyGoFile(c) == c # None

Generated(c) == c \notin {None, Hand}

\* Mutant: only missing files are written.
Absent(want) == {n \in Names : want[n] # None /\ pkg[n] = None}

\* planOutput: the files to write, ...
OutOfDate(want) == {n \in Names : want[n] # None /\ pkg[n] # want[n]}

\* ... and those pgc wrote earlier that nothing produces now.
Stale(want) == {n \in Names : want[n] = None /\ Generated(pkg[n])}

ReadsOnly(c) == c.op = "check"

-----------------------------------------------------------------------------
Init ==
  /\ \E t \in InitTrees :
       /\ queries = t.queries /\ schema = t.schema /\ migrations = t.migrations
       /\ pkg = t.pkg /\ lock = t.lock
  /\ proc = [p \in Procs |-> NoProc]
  /\ outcome = [p \in Procs |-> "none"] /\ calm = [p \in Procs |-> FALSE]
  /\ had = [p \in Procs |-> {}]
  /\ starts = 0 /\ edits = 0

At(p, pc)   == proc[p].pc = pc
Go(p, locals) == proc' = [proc EXCEPT ![p] = locals]

\* It ends; what it was asked and told is kept for the properties.
Ends(p, how) ==
  /\ outcome' = [outcome EXCEPT ![p] = how]
  /\ proc' = [proc EXCEPT ![p] = [NoProc EXCEPT !.cmd = proc[p].cmd, !.ans = proc[p].ans]]

\* What a process writes disturbs the others.
Disturbs(p) == calm' = IF pkg' = pkg /\ lock' = lock THEN calm
                       ELSE [q \in Procs |-> q = p /\ calm[q]]

Reads == UNCHANGED <<tree, pkg, lock, calm, had, starts, edits>>

\* The statements of a package: the file and its SQL.
Provided(files) ==
  UNION {{<<f, Sql(e[1])>> : e \in files[f].of} :
         f \in {g \in Files : files[g] \notin {None, Hand, Cut}}}

\* The command starts: verify reads the record first, the others the queries.
Start(p, c) ==
  /\ At(p, "idle") /\ starts < MaxStarts /\ c \in Commands
  /\ starts' = starts + 1
  /\ calm' = [calm EXCEPT ![p] = TRUE]
  /\ had' = [had EXCEPT ![p] = IF c.op = "generate" THEN Provided(pkg) ELSE {}]
  /\ LET fails == IF c.op = "verify" THEN ~Readable(lock) ELSE ~Accepted(queries)
         fresh == [NoProc EXCEPT !.cmd = c]
     IN  /\ outcome' = [outcome EXCEPT ![p] = IF fails THEN "refused" ELSE "none"]
         /\ Go(p, IF fails THEN fresh
                  ELSE IF c.op = "verify" THEN [fresh EXCEPT !.pc = "dial", !.rec = lock]
                  ELSE [fresh EXCEPT !.pc = IF c.url THEN "dial" ELSE "load", !.src = queries])
  /\ UNCHANGED <<tree, pkg, lock, edits>>

\* A connection is made; verify reads the queries now.
Dial(p) ==
  /\ At(p, "dial")
  /\ LET src == IF proc[p].cmd.op = "verify" THEN queries ELSE proc[p].src
     IN  IF ~proc[p].cmd.url \/ ~Accepted(src)
         THEN Ends(p, "refused")
         ELSE /\ Go(p, [proc[p] EXCEPT !.pc = "describe", !.src = src])
              /\ UNCHANGED outcome
  /\ Reads

\* The server describes one query after the other, ...
Describe(p) ==
  /\ At(p, "describe")
  /\ LET left  == {f \in Present(proc[p].src) : proc[p].ans.shape[f] = None}
         f     == Least(left)
         shape == Shape(Sql(proc[p].src[f]), schema)
     IN  IF shape = None
         THEN Ends(p, "refused")
         ELSE /\ Go(p, [proc[p] EXCEPT !.ans.shape[f] = shape,
                                       !.pc = IF left = {f} THEN "tables" ELSE "describe"])
              /\ UNCHANGED outcome
  /\ Reads

\* ... then the catalog is read: the tables of the answers, ...
LoadTables(p) ==
  /\ At(p, "tables")
  /\ Go(p, [proc[p] EXCEPT !.ans.tables = Tables(schema), !.pc = "types"])
  /\ UNCHANGED outcome /\ Reads

\* ... their types and enums.
LoadTypes(p) ==
  /\ At(p, "types")
  /\ Go(p, [proc[p] EXCEPT !.ans.types = Types(schema), !.pc = "snapshot"])
  /\ UNCHANGED outcome /\ Reads

\* The run is recorded, with the fingerprint of the migrations; verify compares.
Snapshot(p) ==
  /\ At(p, "snapshot")
  /\ IF proc[p].cmd.op = "verify"
     THEN Ends(p, IF Same(proc[p].rec, Of(proc[p].src, proc[p].ans, migrations))
                  THEN "ok" ELSE "refused")
     ELSE /\ Go(p, [proc[p] EXCEPT !.digest = migrations, !.pc = "build"])
          /\ UNCHANGED outcome
  /\ Reads

\* Without a database the record answers, while it covers the queries.
LoadLock(p) ==
  /\ At(p, "load")
  /\ IF ~Readable(lock) \/ ~Covers(lock, proc[p].src)
     THEN Ends(p, "refused")
     ELSE /\ Go(p, [proc[p] EXCEPT !.ans = Recorded(lock, proc[p].src), !.pc = "build"])
          /\ UNCHANGED outcome
  /\ Reads

\* The package is rendered and compared with the directory; check ends here.
Plan(p) ==
  /\ At(p, "build")
  /\ LET want == Build(proc[p].src, proc[p].ans)
         plan == [proc[p] EXCEPT !.want = want, !.todo = OutOfDate(want),
                                 !.stale = Stale(want)]
     IN  IF ReadsOnly(proc[p].cmd)
         THEN Ends(p, IF plan.todo \cup plan.stale = {} THEN "ok" ELSE "refused")
         ELSE Go(p, [plan EXCEPT !.pc = "apply"]) /\ UNCHANGED outcome
  /\ Reads

\* Mutant: the file itself is opened for writing.
WriteInPlace(p) ==
  /\ At(p, "apply") /\ proc[p].todo # {}
  /\ pkg' = [pkg EXCEPT ![Least(proc[p].todo)] = Cut]
  /\ Go(p, [proc[p] EXCEPT !.pc = "rename"])
  /\ UNCHANGED <<tree, lock, outcome, had, starts, edits>>
  /\ Disturbs(p)

\* Each file is written beside its destination, in the order of Render, ...
WriteTemp(p) ==
  /\ At(p, "apply") /\ proc[p].todo # {}
  /\ Go(p, [proc[p] EXCEPT !.pc = "rename"])
  /\ UNCHANGED outcome /\ Reads

\* ... and renamed over it.
Rename(p) ==
  /\ At(p, "rename")
  /\ LET n == Least(proc[p].todo)
     IN  /\ pkg' = [pkg EXCEPT ![n] = proc[p].want[n]]
         /\ Go(p, [proc[p] EXCEPT !.pc = "apply", !.todo = @ \ {n}])
  /\ UNCHANGED <<tree, lock, outcome, had, starts, edits>>
  /\ Disturbs(p)

\* Mutant: the stale files go first.
RemoveFirst(p) ==
  /\ At(p, "apply") /\ proc[p].stale # {}
  /\ LET n == Least(proc[p].stale)
     IN  /\ pkg' = [pkg EXCEPT ![n] = None]
         /\ Go(p, [proc[p] EXCEPT !.stale = @ \ {n}]) /\ UNCHANGED outcome
  /\ UNCHANGED <<tree, lock, had, starts, edits>>
  /\ Disturbs(p)

\* Stale files go last; one that is gone already is an error.
RemoveStale(p) ==
  /\ At(p, "apply") /\ proc[p].todo = {} /\ proc[p].stale # {}
  /\ LET n == Least(proc[p].stale)
     IN  /\ pkg' = [pkg EXCEPT ![n] = None]
         /\ IF pkg[n] = None
            THEN Ends(p, "refused")
            ELSE Go(p, [proc[p] EXCEPT !.stale = @ \ {n}]) /\ UNCHANGED outcome
  /\ UNCHANGED <<tree, lock, had, starts, edits>>
  /\ Disturbs(p)

\* Mutant: nothing to write, nothing to save.
AppliedChanges(p) ==
  /\ At(p, "apply") /\ proc[p].todo \cup proc[p].stale = {}
  /\ IF proc[p].cmd.url /\ pkg # proc[p].want
     THEN Go(p, [proc[p] EXCEPT !.pc = "save"]) /\ UNCHANGED outcome
     ELSE Ends(p, "ok")
  /\ Reads

\* The package is up to date.  What a server said is saved, ...
Applied(p) ==
  /\ At(p, "apply") /\ proc[p].todo \cup proc[p].stale = {}
  /\ IF proc[p].cmd.url
     THEN Go(p, [proc[p] EXCEPT !.pc = "save"]) /\ UNCHANGED outcome
     ELSE Ends(p, "ok")
  /\ Reads

\* ... in one rename again.
Save(p) ==
  /\ At(p, "save")
  /\ lock' = Of(proc[p].src, proc[p].ans, proc[p].digest)
  /\ Ends(p, "ok") /\ UNCHANGED pkg /\ Disturbs(p)
  /\ UNCHANGED <<tree, had, starts, edits>>

\* A connection, a request, the build, a read or a write fails, and so does the
\* command; or the process dies.  A temporary file, removed or left behind, is
\* nothing that anybody reads.
Fails(p) ==
  /\ ~At(p, "idle")
  /\ Ends(p, "failed") /\ Reads

Step(p) ==
  \/ Dial(p) \/ Describe(p) \/ LoadTables(p) \/ LoadTypes(p) \/ Snapshot(p)
  \/ LoadLock(p) \/ Plan(p) \/ WriteTemp(p) \/ Rename(p) \/ RemoveStale(p)
  \/ Applied(p) \/ Save(p)

-----------------------------------------------------------------------------
\* The world around: queries and migrations are edited, the schema migrated,
\* generated files deleted or replaced by hand, the record lost or damaged.
Edited ==
  /\ edits < MaxEdits /\ edits' = edits + 1
  /\ calm' = [p \in Procs |-> FALSE]
  /\ UNCHANGED <<proc, outcome, had, starts>>

EditQueries ==
  /\ Edited
  /\ \E f \in Files, t \in Texts \cup {None} : queries' = [queries EXCEPT ![f] = t]
  /\ UNCHANGED <<schema, migrations, pkg, lock>>

EditMigrations ==
  /\ Edited /\ migrations' \in Digests
  /\ UNCHANGED <<queries, schema, pkg, lock>>

ChangeSchema ==
  /\ Edited /\ schema' \in Schemas
  /\ UNCHANGED <<queries, migrations, pkg, lock>>

EditPackage ==
  /\ Edited
  /\ \E n \in Names, c \in {None, Hand} : pkg' = [pkg EXCEPT ![n] = c]
  /\ UNCHANGED <<tree, lock>>

LoseLock ==
  /\ Edited /\ lock' \in {None, Damaged}
  /\ UNCHANGED <<tree, pkg>>

World == EditQueries \/ EditMigrations \/ ChangeSchema \/ EditPackage \/ LoseLock

Terminated ==
  starts = MaxStarts /\ (\A p \in Procs : At(p, "idle")) /\ UNCHANGED vars

Next ==
  \/ \E p \in Procs : Step(p) \/ Fails(p) \/ \E c \in Commands : Start(p, c)
  \/ World \/ Terminated

Spec == Init /\ [][Next]_vars

-----------------------------------------------------------------------------
Succeeded(p, op) == proc[p].cmd.op = op /\ outcome[p] = "ok"

\* What generate with a database would write now, of one schema.
Current ==
  [shape |-> [f \in Files |-> IF queries[f] = None THEN None
                              ELSE Shape(Sql(queries[f]), schema)],
   tables |-> Tables(schema), types |-> Types(schema)]

\* The directory holds exactly the package of these answers: every file of it,
\* and no other file pgc wrote.
IsPackage(ans) ==
  LET want == Build(queries, ans)
  IN  \A n \in Names : want[n] # None \/ Generated(pkg[n]) => pkg[n] = want[n]

\* Whatever dies when, every file is as somebody wrote it, never cut short (the
\* comments of outputPlan.apply and of snapshot's writeFileAtomic).
NeverCut == \A n \in Names : pkg[n] # Cut

\* When generate or check succeeds and nobody interferes, the package is what
\* the queries produce, whatever earlier runs left: nothing of another
\* generation, no file of a query file that is gone.
UpToDate ==
  \A p \in Procs :
    calm[p] /\ (Succeeded(p, "generate") \/ Succeeded(p, "check")) => IsPackage(proc[p].ans)

\* After a generate that read the schema the record alone reproduces the
\* package (DOC.md: the output is identical either way).
Reproducible ==
  \A p \in Procs :
    calm[p] /\ Succeeded(p, "generate") =>
      Readable(lock) /\ Covers(lock, queries) /\ IsPackage(Recorded(lock, queries))

\* The CI recipe of DOC.md: where check without a database and verify with one
\* both succeed on the same tree, the package is what the schema, the queries
\* and the server produce together - though neither of the two looked at both.
CheckedAndVerified ==
  \A p, q \in Procs :
    calm[p] /\ Succeeded(p, "check") /\ calm[q] /\ Succeeded(q, "verify") => IsPackage(Current)

\* A statement whose query file was renamed stays in the package while generate
\* moves it, also when generate fails or dies (apply: stale files go last, once
\* everything that replaces them is in place).
NothingMissing ==
  \A p \in Procs :
    calm[p] /\ proc[p].cmd.op = "generate" =>
      \A e \in had[p] :
        /\ queries[e[1]] = None \/ Sql(queries[e[1]]) = e[2]
        /\ \E f \in Present(queries) : Sql(queries[f]) = e[2]
        => \E f \in Files : <<f, e[2]>> \in Provided(pkg)

\* A hand-written file pgc does not rewrite or remove (the comment of
\* generatedHeader), unless it has the name of a file it produces or took the
\* place of a generated one since it looked.
HandWrittenSurvives ==
  [][\A n \in Names : pkg[n] = Hand /\ edits' = edits /\ pkg'[n] # Hand =>
       \E p \in Procs : proc'[p] # proc[p] /\ (~calm[p] \/ proc[p].want[n] # None)]_vars

\* The comment of generatedHeader, word for word: only a file with the header
\* is ever rewritten or removed.
HandWrittenKept ==
  [][\A n \in Names : pkg[n] = Hand /\ edits' = edits => pkg'[n] = Hand]_vars
=============================================================================
