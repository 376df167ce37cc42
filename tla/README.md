# A TLA+ model of pgc

`pgc` compiles annotated SQL queries into Go and applies SQL migrations to a
PostgreSQL database. This directory holds its specification: TLA+ modules
translated from the Go sources, TLC configurations that check them on small
instances, and proofs that TLAPS checks for every instance.

    tlc -workers 2 -config UpFaults.cfg MCMigrate     # one run
    tlapm MigrateProofs.tla                           # the proofs

## Inventory of the system

| Component | Source | State | Operations | What is hard |
|---|---|---|---|---|
| migrate | `internal/migrate/migrate.go` | history table, advisory lock, a transaction, the directory as read | Run, Status, Resolve, Baseline | several invocations, crashes in every gap, lost connections, files that end the transaction or drop the lock, history read before it is used |
| statement splitter | `internal/migrate/split.go` | none | splitStatements, transactionControl | literals, comments, dollar quotes, BEGIN ATOMIC bodies |
| migrate command | `main.go` migrateCmd, cancelOnDone, migrateStatus | one connection, one cancel goroutine | dispatch, cancel on signal or `-timeout`, deferred Close | a cancel at any moment, finish racing the signal |
| wire protocol | `internal/pgwire/{conn,query,describe,messages}.go` | socket, `broken`, `txStatus`, deadline | Query, Exec, Describe, Close, Cancel | replies left behind by a timeout, several statements in one request, errors in the middle of an answer |
| startup | `internal/pgwire/{conn,scram}.go` | handshake state | Dial, negotiateTLS, startup, SCRAM | message orders of an arbitrary server |
| wire configuration | `internal/pgwire/{config,saslprep}.go` | none | ParseURL, saslprep | conversions |
| generate, check, verify | `main.go`, `output.go`, `internal/snapshot/` | generated package, `pgc.lock.json`, queries, migrations | planOutput, apply, Save, Load, Compare | a crash or an error between two writes; stale records |
| catalog | `internal/catalog/catalog.go` | types, tables and enums by OID | Load, loadTypes, Snapshot | the closure of dependent types, in bounded rounds, while the schema changes between the queries |
| compile | `internal/compile/` | models, enums and warnings collected over the queries | Describe, Build, compileRet, neverNull, checkNameCollisions | which struct a query returns; NULL read off a text without a parser; overrides against shared structs; name collisions |
| queryfile | `internal/queryfile/` | the query being read | ParseFile, resolveNamed, InferParamNames, SelectList | where SQL is literal; parameter numbering and naming |
| gen | `internal/gen/` | none | emitQuery, paramNames, rendering | one identifier hiding another; the rest is formatting |
| config | `internal/config/` | none | reading of `pgc.json` | formatting only |

What makes each correct:

* **migrate** - a file is applied exactly once, in name order; the history says
  truthfully what each file did; runs do not overlap; a half-finished file
  blocks until a person resolves it; applied rows never change; a baseline
  only starts an empty history; every invocation ends.
* **migrate command** - an interrupt stops the run; the session, and the lock
  with it, never outlives the command for ever.
* **wire protocol** - a reply is read by the request that caused it; after
  anything that leaves the stream in doubt no request is sent; `TxStatus` is
  that of the last request.
* **generate** - a package on disk is at every moment made of whole files,
  hand-written files survive, and check says "up to date" only of a package the
  queries produce; verify notices a record that no longer matches.
* **catalog** - a catalog that loads has every type reachable from a query.
* **compile, queryfile, gen** - Scan puts each column where its name says; a
  value that cannot hold NULL gets none, or somebody was warned; an override
  shapes what it names; a parameter is numbered and named for what it stands
  for; every identifier of a generated method means what the template meant.
* **splitter** - a statement is cut only at a top-level semicolon, and no
  top-level transaction control escapes `checkFile`.

Components interact through calls, except in two places: the processes of
`pgc migrate` meet in the database (history table and advisory lock), and
`generate`, `check` and `verify` meet in the files they write and read.

## Modules

| Module | Role |
|---|---|
| `Postgres` | the server: history table, advisory lock, one session per invocation that executes one request at a time |
| `Migrate` | the client side of migrate, the command around it, faults, edits of the directory; `Spec`, `FairSpec`, properties |
| `Ledger` | the abstract specification: what the history promises, without processes, requests or locks |
| `Wire` | one pgwire connection, the two streams and the backend behind it |
| `Session` | the abstract specification of a connection: each request answered truthfully or lost |
| `Startup` | Dial: TLS negotiation, authentication, the deadline and the callback of its context |
| `Interrupt` | extends `Startup` and `Wire` with the goroutines of `migrateCmd`: the command, `cancelOnDone` and the cancel request |
| `Generate` | the invocations of generate, check and verify, the files and the schema they meet in |
| `Split` | splitStatements as a state machine, and what `checkFile` makes of its result |
| `Lexer` | how PostgreSQL reads a script, the reference for `Split` |
| `Catalog` | Load, query by query, against a schema that changes |
| `Named` | where SQL is literal, and how @names become numbers |
| `NotNull` | SelectList and neverNull: what is read off the output list |
| `QueryFile` | ParseFile: lines, annotations, the numbers of overrides |
| `Params` | the names of parameters nobody named |
| `Emit` | the identifiers of a generated method, and Go's scopes |
| `Statements` | the server's side of a description, the reference for `Compile` |
| `Compile` | composes the seven above into one run of the compiler; their properties |
| `MCMigrate`, `MCWire`, `MCInterrupt`, `MCGenerate`, `MCSplit`, `MCCompile` | instances for TLC |
| `MigrateProofs` | type correctness and mutual exclusion of `Migrate`, proved; the history is truthful, `Migrate` implements `Ledger`, applied rows are for ever, what a run reports and in which order it works, what a baseline vouches for, what is read |
| `SplitProofs` | scripts are cut where the server would cut them, and no transaction command is hidden from `checkFile` |
| `LedgerProofs`, `SessionProofs` | the two abstract specifications keep their promises |
| `WireProofs` | a connection reads its own answers, stays in step, returns every row and implements `Session` |
| `InterruptProofs` | what Dial returns; what an interrupt can do to a command and to its connection |
| `GenerateProofs` | generated files are never cut, up to date, reproducible, checked and verified |
| `CompileProofs` | the catalog of a run is closed and complete, the package declares nothing twice, rows are scanned where their names say, overrides are honoured |

### Postgres and Migrate

A process is one `pgc migrate` invocation. Its control point is the request it
sent last (`req[p]`) and where that request is (`wire[p]`: `sent`, or answered
`ok` or `err`); each action of `Migrate` is the code between an answer and the
next request, deferred calls included. `Start` reads the directory (`files[p]`)
and checks it before any request, as `Run` does. `TimeoutSet` ...
`TimeoutReset` are `lock`, `Prepared` is `ensureTable` and `readHistory`,
`RunDecides`, `StatusDecides`, `ResolveDecides` and `BaselineDecides` are the
decisions taken on the history, `NextFile` is the loop of `Run`, `FileReset`
... `Applied` are `apply`, `Stepped` ... `MarkedFailed` are `applyNoTx`,
`Unlocked` ends the deferred unlock, `Leave` is the deferred `conn.Close`.
`Aborted` gathers every error that is simply returned.

Requests execute one at a time, each in one server action (`Serve`), with
PostgreSQL's rules the code relies on: `tx[p]` is the transaction status of
ReadyForQuery, an error fails the open transaction, only COMMIT and ROLLBACK
are accepted in a failed one, the primary key makes a second INSERT of a name
wait for the first and then fail, locks and the open transaction go with the
backend. A session whose client is gone is an `orphan`: a request that was
already sent may still be executed before the server notices (`EndBackend`).

A file's content is a model value that stands for its text and its hash; what
matters of it is which set it is in: `NoTx` (no-transaction marker), `Control`
(what `checkFile` refuses), `EndsTx` (ends the transaction in a way `checkFile`
cannot see), `LeavesOpen` (leaves a transaction open), `DropsLock` (releases
advisory locks), `Concurrent` (waits for other snapshots, as CREATE INDEX
CONCURRENTLY does). `effects[f]` is the sequence of statements of file `f` that took
permanent effect, what the database itself does not know and the history is
about. `settled` holds the names a person vouched for (baseline, resolve
applied, rows by hand), `spilled` those whose script ended pgc's transaction
itself: of these nothing can be promised, and the code says so in its error.

### Ledger

`Ledger` has four variables and says what one step may do to a name: apply at
once; begin, next statement, finish or fail; complete or retry by a person;
declare (baseline); spill. `Migrate` implements it: `ImplementsLedger` is
`Ledger`'s specification with history and effects taken from the database,
spilled names left out. The runs up_faults and drop_lock check it; with `resolve`,
whose steps are its complete and retry, it is the theorem `Implements` that says so.

### Wire, Session, Startup and Interrupt

`Migrate` treats a request as one step of the server. `Wire` is what makes
that right: `simpleQuery` and `Describe` with one action per message of the
answer (`Ignore`, `DataRow`, `ServerError`, `CopyIn`, `Ready`, `Unexpected`),
`SendFails` and `ReadFails` for the transport, and `Fail` for `fail`. The
variables `srvErr`, `tooLarge` and `kept` are the locals of `simpleQuery`, one
row for as many bytes as `maxResult` is a budget of. A timeout may come at any
message, a reset may lose any part of what was on its way, a notice may come
between any two messages. The backend executes one message at a time; after an
error in Parse or Describe it ignores everything up to Sync; a COPY FROM STDIN
waits for its client. Each message carries, for the properties only, the number
of the request it belongs to.

`Session` knows neither streams nor messages: a request is asked, the server
executes it at some time, the caller is told what happened, or the answer is
lost and the connection with it. `ImplementsSession` maps `open` to `~broken`
and `status` to `txStatus`; the rest has the same name.

`Startup` is `Dial`: `dial` is how far it is, `loc` its locals (`scramStep`,
`authDone`, what TLS showed of the peer), `key` whether a BackendKeyData came. The
server is arbitrary: any message may come at any time, those the code refuses end
in `Fails`, those it accepts are actions with the code's conditions. The socket's
`deadline`, the context (`expiry`) and the callback that `context.AfterFunc` runs on
a goroutine of its own (`alarm`) are apart, because their order at the end of `Dial` is
what `if !stop()` is about. Deferred calls (`Leaves`) run in reverse: the callback is
stopped before the context is ended. Of certificates only matters what they can be
checked for: signed by somebody trusted (`chain`), and for this host (`host`).

`Interrupt` adds `main`, the command and its deferred calls in their order
(`close(finished)`, `stop`, `conn.Close`, exit), `watcher`, the goroutine of
`cancelOnDone` with its select, its second look and its call as three steps,
and `cancel`, the CancelRequest on a connection of its own, which arrives
whenever it likes, also after the command is over.

### Generate

`queries`, `schema`, `migrations`, `pkg` and `lock` are what the invocations
share: the query files (by the generated file each is compiled to), the schema
of the database, the migrations directory, the output directory and
`pgc.lock.json`. `proc[p]` is one invocation: `pc` is the next thing it does,
the rest are its locals, with the names of what they hold: `src` the queries as
parsed, `ans` the answers of the server or of the record, `rec` the record
verify loaded, `want` the rendered package, `todo` and `stale` the plan.
`Start`, `Dial`, `Describe`, `LoadTables`, `LoadTypes`, `Snapshot`, `LoadLock`,
`Plan` follow `generateCmd` and `verifyCmd` in their order; `WriteTemp`,
`Rename`, `RemoveStale` are `apply`, `Applied` and `Save` the end of generate.

A generated file is what it was rendered from - the texts with their answers,
and the catalog - so two files differ exactly when one of these does. A text of
a query has an `Sql`, what is fingerprinted, and annotations, which change the
generated code but not the SQL: two texts may share an SQL. A schema has a
`Shape` for each SQL (parameters and columns), `Tables` and `Types`, so it can
move in a way no query describes differently for. A hand-written file is `Hand`.

`World` edits everything that is shared, at any time. `Fails` ends an invocation
anywhere between two steps and stands for an error as well as for its death: a
temporary file left behind is read by nobody. `calm[p]` says that nobody else
changed anything since `p` started; `had[p]` is the set of statements the
package had then. Both are there for the properties only.

Abstractions: the directory is compared in one step; a query file holds one
query; types and enums of the catalog are one read; `Warnings` only prints.
Renames are durable: losing power is not modelled.

### Split and Lexer

`Split` is the scan of `splitStatements`, one action per case of its switch
(`Quote`, `Comment`, `DollarQuote`, `Semicolon`, `Word`, `Other`, `Finish`), with
its locals as variables; `LeadingWords` and `TransactionControl` are what
`checkFile` asks of each statement. `Lexer` reads the same text as PostgreSQL does,
one atom at a time with a start condition, as `scan.l` and `psqlscan.l` do, and
looks at no code of pgc; `Server(text)` is what it finds. A text is a sequence of
atoms: keywords, `--`, `/*` and `*/` are one atom each, everything else one byte;
`function` stands for `procedure` too, and all is lower case.

`SplitsAsServer` leaves out (`apart`) the five kinds of text in which the two do differ,
see Disagreements. Outside the alphabets, and neither checked nor proved: letters beyond
ASCII, digits (`TextsAssumption`), and an escape string continued on the next line (`E'a'` line break `'b\''`), whose second
part the code reads as a plain string and the server does not.

### The compiler: Catalog to Compile

`Compile` is one run: `phase` goes from `parse` over `describe`, `load` and
`build` to `built` or `failed`. `Parse` is `ParseFile`, `Describe` asks the server
about one statement, `AsksCatalog`, `Loading` and `Loaded` are the call of
`catalog.Load`, whose queries are the actions of `Catalog`, `CompileQuery` is
`compileQuery` for one query, and `CheckNameCollisions` ends `Build`. Until the
catalog is loaded, the schema may change (`SchemaChanges`); after that nothing is read
from the database. The loop over the columns of a projection is `RowFields`, one
turn of it `RowFrom`: a row is a function of the column and the embed it has come to.
`described`, `built`, `models`, `enumTypes` and `warnings` are
what the code collects under the same names.

`Catalog` has the state of `Load`: `tables`, `types`, `enums`, the `pending` types of
the next round and the `round`. A type has its `elem` and `base`; a table that is
dropped between the two queries of `loadTables` is left without columns.
`FirstRound` is the argument of `loadTypes`, `TooDeep` its error.

Texts are sequences of atoms, as for `Split`: a word, a number, `::`, `[]` and `$1`
are one atom each. `Named` has `literalRun` and what it calls, and
`RewriteNamed`; its `Expected` says the same from `Lexer`, PostgreSQL's own reading.
`NotNull` is `selectlist.go` and `notnull.go` function by function, `Params` is
`params.go` with its tokenizer, which knows less than `literalRun` does,
`QueryFile` folds `ReadLine` over the lines. An annotation's own syntax is not
modelled: a line says what it says. Words of identifiers are atoms too, so
`CamelCase` is the constant `Words`, and initialisms are left out.

`Emit` is the generated method as the sequence of its declarations and uses, with
what each use is to stand for; `Resolves` applies Go's scopes to it. Exported
names cannot be hidden and are left out.

`Statements` is the reference and looks at no code of pgc: a statement carries what its
text does not tell a pattern - which tables it reads and through which join, which
column each parameter belongs to (`means`), whether an expression can be NULL - and
`Answer`, `Valid` and `CanBeNull` are what a server would make of it.

The properties compare the two. `ScansOwnColumn` is about positions: as many
targets as columns, each of its column, and every row of a struct of a table
filled once, from that table, and from the columns that have the names of its fields: a
column that was given its neighbour's name (`SELECT id AS data`) has the table and the
number of one and the name of the other. `ColumnOverridesHonoured`
and `ParameterOverridesHonoured` read the overrides from the file as they were
written, between the header of a query and the first line of its statement, and the
number of an `@name` from that statement; `$2` and the `@name` that is second are
overrides for the same parameter. `NullFits` says that a NULL only reaches a value
where the author spoke or was warned; it leaves out (`Apart`) statements written
in a way the patterns do not see, each of which is listed under
Disagreements. `NamedForColumn`, `DeclaresOnce` and `NamesResolve` are about names, the
last two with exceptions (`Unclaimed`, `KeptApart`) that are listed there too.
`Declarations` are the exported names at the top of a package; the unexported ones, the
constants with the statements and the array adapters, are left out of it.

## Runs

Two processes and two files, so that a run and its rival each have a file
before and after the one in hand. `MaxStarts` bounds invocations,
`MaxEdits` edits of what they read, `MaxRequests` and the scripts of `MCWire` what a
connection is asked.

| Run | Faults | Bounds | Shows |
|---|---|---|---|
| up_faults | error, crash, cancel, timeout, loss | 2 starts | `Faithful`, `OneAtATime`, `SuccessMeansApplied`, `InOrder`, `ImplementsLedger` over transactional, no-transaction, left-open, spilling and refused files; `BaselineStartsHistory` and `HistoryReadIsTrue` with baselines on absent, legacy and hand-made histories |
| up_resolve | crash | 3 starts, 1 edit | `HalfFinishedBlocks`, `AppliedForever`, `TypeOK` with `resolve`, `-allow-drift` and edits |
| drop_lock | error, crash | 2 starts | files that release the lock: the primary key alone keeps the history truthful (`VouchedNeverRan`, `ImplementsLedger`); `EverySessionEnds` under `FairSpec` |
| wire | error, timeout, reset, garbage | 3 requests, 1 notice | `ReadsOwnAnswer`, `InStep`, `EveryRow`, `ImplementsSession` for queries, scripts, Parse/Describe/Sync and both COPYs |
| interrupt | error, the cancel, any server in Dial | 5 configurations, 3 requests | `AsAsked`, `DeadlineLifted`, `DialReturns`; `OnlyInterruptsCancel`, `CancelKeepsUsable`; `RequestsReturn` under `InterruptSpec` |
| generate | failure or death anywhere | 3 starts, 1 edit | `NeverCut`, `UpToDate`, `Reproducible`, `CheckedAndVerified`, `NothingMissing`, `HandWrittenSurvives` |
| split | none | texts of up to 6 atoms, 5 with parentheses or transaction commands, after a CREATE FUNCTION head too | `SplitsAsServer`, `NoHiddenControl`, `NumbersAsNamed` |
| compile | a schema that changes | some 8000 files, 1 change, 2 rounds | `Closed`, `ScansOwnColumn`, `ColumnOverridesHonoured`, `ParameterOverridesHonoured`, `NullFits`, `NamedForColumn`, `DeclaresOnce`, `NamesResolve` |

`up_faults` has two halves that share their properties and not their
initial states: runs under every fault from a complete directory and no table (those
over the spilling file also with a lock_timeout), and (`AdoptDirs` in `MCMigrate`)
baselines and runs from the histories a database may come with: a table of an older
pgc, one written by hand and none.

The files of `compile` come in families, one to a question, each the product of
what it depends on: expressions up to two calls deep with every kind of cast and
alias; lists with DISTINCT, stars, set operations; one and two joins of each kind;
all orders of a table's columns with every override; embeds; a column of every
kind of type, of a domain of a domain and of an array of a domain, with the schema
changing to any other between any two queries of the catalog; named and numbered
parameters; the words a generated method uses as names of parameters; conditions and
inserts with comments, strings and casts between their parts; collisions. Two
rounds instead of eight put a chain of three types on the boundary of
`TooDeep` and one of four beyond it.

Two invocations reach every overlap: one holds or has just lost the lock while
the other waits, reads or writes. The third start, where there is one, is the
invocation after a crash that meets what the first two left behind. Two
statements in a no-transaction file give a prefix that is neither empty nor
whole. Three requests on a connection are the one that goes wrong, the one that
could read its answer and one more; a budget of one row is exceeded by `bulk`,
which returns two, and met by `select`. Three invocations of `generate`'s instance are
a generate, a check and a verify; two generated files are one that a query file
moves from and one it moves to; its trees are a new one, one up to date, one with
a renamed query file and a moved schema, and one with a changed annotation and
an enum that gained a label. Six atoms of a text hold an escape string with an
escaped quote and a semicolon behind it, two nested comments, or BEGIN, CASE and
two ENDs. A state in which every invocation is over and no start is left is the
instance's end (`Terminated`, `Exited`); every other deadlock is an error, and none is found.

### Disagreements with the documentation

Four runs end in a violation; each checks one sentence of the documentation.

* `cancel_missed`: `-timeout` and signals send one cancel request. One that
  reaches the server between two requests cancels nothing, and the run goes on
  (`main.go:360`; DOC.md, "Interruptible").
* `hand_written`: a file written by hand that has the name of a produced one
  is replaced, because the header is looked for only in the other files
  (`output.go:42`; the comment at 15-17). `HandWrittenSurvives`, checked by the
  run generate, is what does hold.
* `null_in_value`: the type of a cast is judged by its first word, so
  `'x'::text || data` counts as a constant and its NULL arrives in a string
  (`notnull.go:187`; the comment at 9-18).
* `shadowed_parameter`: a parameter called `yield` of an `:iter` query is hidden by
  the iterator's own, and the callback goes to the driver in its place
  (`naming.go:188`; the comment at 178-186).

Two disagreements of migrate are visible in `Migrate` and no run is about them. A started
mark whose file is gone counts as drift, so `-allow-drift` walks past it
(`migrate.go:363`; DOC.md, "Either mark blocks later runs"): `HalfFinishedBlocks`
says what does hold. And a run waiting in `pg_advisory_lock` holds the snapshot that
CREATE INDEX CONCURRENTLY of the running one waits for, so the server fails one
of them (`DeadlockVictim`; DOC.md, "Concurrent runs queue"). There it is one more
error of a statement or of the lock: `EverySessionEnds` says that the invocations end
after it, not that it does not happen.

In the compiler these are visible, and the properties name them as their
exceptions:

* A set operation in parentheses passes `SelectList`, whose commas and keywords are
  those outside parentheses; a LEFT JOIN of a derived table, a parenthesis or
  a comment between LEFT and JOIN are not seen by `outerTables`; ROLLUP makes NULLs that
  no pattern looks for (`Apart`, by `plain`).
* The expression `' as x'` leaves `stripAlias` with a lone quote, and `isLiteral`
  slices from 1 to 0: a panic (`notnull.go:140`).
* `rewriteNamed` takes the `@` of an operator (`a <@b`) for a placeholder, as it
  does one right after a word (`limit@n` becomes `limit$1`), and a `$` inside an
  identifier (`a$b$`) for a dollar quote (`ReadApart`).
* A line that looks like a comment or a header inside a string of several lines is
  taken for one by `ParseFile` and `dropTrailingComments`.
* A whole-table SELECT with a column of an unsupported type fails even where an
  override gives that column a type, because the shared struct is built first
  (`compile.go:386`).
* Of two overrides for the same column the second is ignored (DOC.md says one
  always shapes the result); `types` of `pgc.json` do not reach a domain in a projection, which
  the server describes by its base type (DOC.md:441).
* The accumulator of a `:many` may take a name its loop needs (`ListAppend`), a query
  `Zero` finds its constant hidden in an iterator, four parameters of the same name give a
  struct with a field twice, adapters that only a field uses are not reserved
  (`KeptApart`).
* `checkNameCollisions` knows neither the function `New`, which every package declares
  (`gen.go:243`), nor the constants of an enum's labels (`types.go:305`): a table or an
  enum called `new` gives a type `New` beside it, an enum `state` with a label `row` a
  constant `StateRow` beside the struct of that name, and the package does not compile
  (`compile.go:162`; CHANGELOG.md:434 has every collision of generated names reported).
  `DeclaresOnce` speaks of the other declarations (`Unclaimed`); the collisions of the run
  compile have such packages among them.
* `InferParamNames` names the parameter of `id::text = $1` text, that of
  `a + b = $1` b, and those of an INSERT ... SELECT ... FROM (VALUES ...) by the columns
  of the INSERT (`Misread`); a comment glued to an operator (`=--`) is one operator
  to it, and its comments do not nest.

`Split` shows more, which no run is about; they are the texts that are `apart`.
`isEString` takes the `e` of an
identifier that ends in `$e` for a standalone prefix (`split.go:199`; the comment
above it: not "the tail of an identifier"), because `$` is no `isIdentByte`:
`a$e'\'; ...` is cut elsewhere than by the server. A semicolon inside parentheses cuts
(`split.go:46`), where psql waits for the parenthesis to close: `CREATE RULE ... DO ALSO
(INSERT ...; DELETE ...)` is one statement for the server and, in a no-transaction file,
two broken ones here; "never splits" (`split.go:7`) names strings and comments only. The
rest is no SQL: the nesting counts a CASE before any BEGIN, which psql does not
(`split.go:64`; "the test psql uses"), and they part only at a semicolon inside such a
CASE; an END in parentheses which nothing there opened closes a BEGIN here and not
there; and the `e` of an escape string counts as one of the first words of a statement,
so that `CREATE E'' FUNCTION` creates a routine for the server's count alone.

`ROLLBACK WORK TO` a savepoint
is refused by `checkFile` although savepoints are allowed; `NoHiddenControl` says
only that nothing escapes it.

Three more windows are visible in the models and no run is about them. `status`
reads the state column and the rows in two requests without the lock (so
`HistoryReadIsTrue` is checked for the commands that take it). A stale file that a person
replaces by one of their own between the plan and its removal is removed (so
`HandWrittenSurvives` exempts an invocation that was disturbed). And
`cancelOnDone` may call `cancel` after the command closed `finished`
behind its second look; the request then names a backend of a connection that
is closing and `CancelKeepsUsable` is not affected.

### Fairness

`FairSpec` assumes weak fairness of three things: the server executes a request
it can execute (`Server`), it eventually notices a client that is gone (`Ends`,
TCP keepalive), and a process runs on (`Client`). Nothing obliges anybody to
start, crash, cancel or edit. Statements end: a migration that runs for ever is
not modelled. Waiting for the lock is not assumed to be fair: that nobody waits
for ever is what `EverySessionEnds` shows, from the fact that starts are bounded.

`InterruptSpec` assumes that time passes (`Passes`, `Expires`) and that Dial runs
on (`TimesOut`, `Stops`, `Returns`) - nothing of the server it talks to -, and, once
there is a connection, that the backend executes what it has (`Executes`) and
that the client reads what has arrived (`Reading`), whatever the goroutines do.
After Dial neither a deadline nor a failure is assumed to happen, so `RequestsReturn` says that
no request, a COPY FROM STDIN included, leaves both sides waiting.

## Proofs

TLC checks small instances; the theorems below hold for every value of the
constants that satisfies the assumptions their modules state. Each rests on an
inductive invariant, which TLC found no counterexample to before it was proved.

### Migrate

`MigrateProofs` proves, for any number
of processes, names, contents, statements and faults:

* `TypeCorrect`: `Spec => []TypeOK`.
* `MutualExclusion`: `Spec => []OneAtATime`. `OneAtATime` is not inductive:
  that two processes are not both past the lock depends on each of them holding
  it, and a process is past the lock also in its orphan's last request. `LockInv`
  says that whoever is `Working` is the `holder`; every action keeps it, one
  lemma each for the requests of the server, the steps of the client and the rest.
* `Truthful`: `Spec => []Faithful`. The strengthening `HistoryInv` says, for
  the process past the lock, how far it is: `AtFile` ties its control point to
  the row, the effects and the transaction of the file in hand, `AtDatabase`
  says that the history it read is the history there is, but for what it wrote
  itself, and `SettledApplied` that what a person vouched for is recorded as
  applied. It needs `LockInv`, because only the lock makes what a process
  read stay true while it decides.
* `Implements`: `Spec => ImplementsLedger`, step by step: every action is one
  action of `Ledger` or leaves history and effects as they are.
* `Forever`: `Spec => AppliedForever`.
* `Success`, `Ordered` and `Blocked`: `SuccessMeansApplied`, `InOrder` and
  `HalfFinishedBlocks`. `HistoryInv` does not tell what a run has behind it, so
  `RunInv` adds it: of the files the process read, those before the one in hand
  are recorded as applied, that one and those after it have no row but what this
  run wrote, and what it will report follows from where it is (`Reports`).
  A row behind the run stays because of `Forever`; a row cannot appear ahead of it
  because of the lock.
* `BaselineFirst` and `Vouched`: `BaselineStartsHistory` and `VouchedNeverRan`.
  Both assume that nobody resolves a half-finished file as applied
  (`NobodyVouches`): a person may do that on top of any history. `Vouched` assumes
  `EndsTx = {}` as well: a script that ends pgc's transaction has taken effect
  although its row was never written, and a baseline finds no row then.
* `ReadsTrue`: `HistoryReadIsTrue`. `hasState` and `readHistory` are two requests;
  under the lock nothing comes between them, but `status` takes no lock, and with
  a table from before the state column TLC finds it reading a started mark as
  applied. So the theorem assumes that there is no such table or no `status`.

All but `TypeCorrect` assume that no content releases advisory locks
(`DropsLock = {}`); without it `MutualExclusion` is false, and what remains true
is checked by the run drop_lock.

`LedgerProofs` proves `LedgerTruthful`, `Spec => []LedgerFaithful` for `Ledger`, whose
constants it assumes to satisfy `LedgerConstants`;
the strengthening says that an unfinished row never belongs to a transactional
file. The module has no run of its own: the runs with `ImplementsLedger` check, and
`Implements` proves, that `Migrate` implements it.

### The connection

`SessionProofs` proves `Truth`, `Spec => []TellsTheTruth` for `Session`;
the strengthening counts: at most one request is unanswered, and no more than
were asked are executed.

`WireProofs` proves `OwnAnswers`, `StaysInStep`, `AllRows` and `Implementation`
(`ReadsOwnAnswer`, `InStep`, `EveryRow` and `ImplementsSession`), for any scripts of
statements, any number of requests, every fault and every order of late
messages. Their common invariant `WireInv` says where the messages of the request
under way are. Either it is `Underway`, at a `Stage`: so many of its messages have
arrived, the rest is in `up`, and what the backend still has to do ends in
ReadyForQuery; or it is `Served` and the backend is `Settled`. Of what is
in `down` it says that it belongs to this request (`OwnAnswer`), that a ReadyForQuery
is its last message (`ZLast`), that an error the client has not read is there to be read
(`ErrorSeen`), that nothing was sent back while nothing was executed (`Untouched`), and that
the rows read and those on their way are those told (`RowsSeen`). Between requests all
of this is over (`Rests`). The last part is what makes it inductive: a client that
gave an answer up never reads again. `TellsTheTruth` then follows from `SessionProofs`
through the refinement mapping (`TellsTheTruth` in `WireProofs`).

`InterruptProofs` proves, of Dial by itself, `Lifted` and `Authenticated`
(`DeadlineLifted` and `AsAsked`): the invariant says what TLS has established
(`Identified`), how the methods gone through tie to `scramStep` (`Conversed`) and that
nobody who could set a deadline is left once the callback is stopped (`Quieted`).
`DialedAsAsked` says the same of a command, in which the connection is used and closed
while Dial's callback may still run. `OnTheWire` proves `InterruptSpec => Spec`: a command
with its goroutines is a connection of `Wire`, because a cancel request is nothing
but an error of whatever statement it hits; hence it assumes
`"error" \in Faults`, and with it every theorem of `WireProofs` holds of interrupted
connections. `NoStrayCancel` is `OnlyInterruptsCancel` (the invariant `Signalled`
follows `finished` through both of its tests in `cancelOnDone`), and `StaysUsable` is
`CancelKeepsUsable` where nothing but statements fails: what is on its way
is then always something the client understands (`Sane`, `Understood`), so that it never
breaks the connection itself.

### Generate, check and verify

`GenerateProofs` proves `NothingCut`, `PackageUpToDate`, `RecordReproduces`,
`RecipeSound`, `StatementsStay` and `HandWrittenStays`, for any number of processes,
files, texts and schemas. `GenerateInv` has a part per process that holds as long
as it is undisturbed (`calm`): it sees the files that are there (`Sees`), it
compares what is in the record (`Compares`), what it was told is what the server would
say now or what the record says (`Learns`, `Recalls`), the files already replaced are
the wanted ones and the others what they were (`Moves`, `Keeps`, `Kept`), and what it
leaves at the end (`Ended`). The work lies in that the processes share the files: a
write of one is either its own next step or ends the calm of the others. `RecipeSound`
combines the ends of two processes that ran at different times.

### The compiler

`CompileProofs` proves:

* `CatalogClosed`, for a catalog asked for anything, and `RunClosed`, for the
  catalog of a run. `Closed` only speaks of the end; the invariant says that in
  every round the types loaded and those pending cover what was asked for and what
  the loaded ones refer to (`Progress`), so that an empty `pending` means there is
  nothing left.
* `KnowsDescribed`: while queries are compiled every type and table they were
  described with is in the catalog, whatever happened to the schema meanwhile.
* `DeclaredOnce`: `DeclaresOnce`, that is for all but `New` and the constants of labels
  (`Unclaimed`). `checkNameCollisions` compares claims, the files hold declarations: each
  of the other declarations is a claim (`Claimed`), and the row structs are called what they
  were claimed to be called (`Named`).
* `ScansOwn`: `ScansOwnColumn`. A row is laid out field after field, an embedded
  model taking as many columns as its table has. `Laid` says that fields lie over
  the columns from one on: the flattened fields have the names of the columns, and each
  struct covers its table (`Covers`), each of whose columns stands under its own name. A field put before laid fields is laid again
  (`LaidBefore`). That a run with as many different attribute numbers as the table has
  columns has all of them is the pigeonhole principle (`RunCovers`). The
  invariant then carries `Scanned` from the query that is compiled to the end.
* `ColumnOverrides`: `ColumnOverridesHonoured`, in two halves. That a query has the
  overrides of its lines is an induction over the file (`Standing`): each query that is
  closed has exactly those written for it, in their order (`HasWritten`), and the
  open one those up to the line read (`Lists`), as long as its statement has not
  begun (`Begins`). That an override reaches the result is carried by
  `Laid` and `Scanned` with the positions: a field has the Go type of its column wherever
  an override speaks of that column (`Meets`), because `overridesFit` keeps a struct
  of a table from standing there otherwise. `GoShaped` adds that this type is what the
  override asks for.
* `ParameterOverrides`: `ParameterOverridesHonoured` wherever `NumberedAsWritten` holds, that
  is wherever the names have the numbers they have in the statement as
  written. Whether they do is a question about `rewriteNamed` and its scan alone,
  and is left to TLC: `NumbersAsNamed` asks it of every short text, the run compile as
  a part of `ParameterOverridesHonoured`.

### The splitter

`SplitProofs` proves `MigrationsAreCutAsTheServerCutsThem` and `NoControlIsHidden`
(`SplitsAsServer` and `NoHiddenControl`), for every text over the modelled atoms
(`TextsAssumption`), of any length.
The splitter leaps: one action passes a whole string, comment or word. The server reads
one atom at a time. `InStep` therefore compares them only where the splitter stands: there
the reader is `Poised` - at a `Free` place, behind a word it has read and not yet counted,
or in something `Unfinished` at the end of the text -, and, once that word is counted
(`Pending`), both have the same statements, the same beginning of the open one and the
same depth (`Agrees`). The words each has collected need not be the same, because the
splitter counts the `e` of an escape string: `SameWords` says why that does not matter.
The `*Stretch` lemmas show what the reader makes of the atoms that one leap passes, with
the recursive functions of `Split` unfolded position by position; the `*Step` lemmas, one per
action, put the pieces together.

`InSight` adds what `checkFile` will read. `LeadingWords` looks at a statement when it has been
cut, from its start; the reader collects tokens as they come. `Opening` says that the tokens
so far are the leading words so far, whatever the end of the statement will be; `Led` that two
tokens have come or a token that is no word, and the leading words are settled and fit them
(an escape string leaves `e` as a word and a token that is none; no command is told by that).
`Ample` ties the number of tokens to that of words, so that a semicolon inside the body of a
routine finds its tokens complete. At a cut, `SeenAt` concludes that a command among the tokens is
one to `TransactionControl`.

### Recursion

What these need of data that is built recursively - `FlattenSeq` puts the first part
first, the rows of a projection exist and are laid, the reading of a file exists and
each of its lines leaves it standing - is proved by the least
counterexample in the natural numbers (`LeastIn`, from the well-foundedness of `<`), not
by the library's induction theorems, which take an operator as a parameter. Where a
function calls itself further on in a text (`SkipQuoted`, `LeadingWords`), `Descent` gives
its existence from a rank that falls, and `Alone` its uniqueness.

### Assumptions

The assumptions are those the modules state about their constants
(`NamesAssumption`, `ContentsAssumption`, `ValuesAssumption`,
`ClientAssumption`, `StartupAssumption`, `WireAssumption`, `GenerateAssumption`,
`CatalogAssumption`, `CompileAssumption`, `TextsAssumption`), which TLC evaluates in every run of these modules.
`CompileAssumption` is about what is read: the entries of `types` are Go types, a
statement is known by its text, `*` belongs to a table, and a line of a query file that is
an override stands in a comment and is for a column or for a parameter, which is what
`parseOverride` accepts.

### Only model-checked

* Everything with `DropsLock` non-empty (run drop_lock).
* `NumbersAsNamed`: what `rewriteNamed` and the server make of one text, which would
  need the argument of `SplitProofs` once more, for another scanner.
* Of the compiler: `NullFits`, `NamedForColumn` and `NamesResolve`, which are about
  recursive readings of a text, and the condition of `ParameterOverrides`.
* Liveness under fairness, which is out of this prover's reach.

## Plan

1. Done: `Postgres`, `Migrate`, `Ledger`; every safety property of `Migrate` but those
   of drop_lock proved.
2. Done: `Wire`, `Session`, `Startup`, `Interrupt`, and the proofs of all their safety
   properties.
3. Done: `Generate` and its proofs.
4. Done: `Split`, `Lexer`; `Catalog`, `Named`, `NotNull`, `QueryFile`,
   `Params`, `Emit` and `Compile`; of the compiler's properties `Closed`,
   `DeclaresOnce`, `ScansOwnColumn` and both about overrides proved, and both of the
   splitter's.
5. Left to prove: what holds of `Migrate` when a content releases the lock;
   `NumbersAsNamed`, and with it `NumberedAsWritten`.

## Not modelled, and why

* SQL itself: a statement has an effect or an error. Statement semantics belong
  to the server.
* Formatting, printing, flags, exit codes, the text of the generated files: no
  state. So are the initialisms of `CamelCase`, imports and their selectors, JSON
  tags, `"nullable": "sqlnull"` (the pointer stands for both), the array adapters and
  the interface of `gen`, and `pgc.json` itself.
* The syntax of annotations, URLs and Unicode tables (`parseOverride`,
  `ParseURL`, `saslprep`): conversions of characters.
* The time of day: timeouts are choices that may happen at any moment.
* `os.ReadDir` racing an edit: the directory is read in one step.
* Cryptography (SHA-256, SCRAM): a content is its own hash, no collisions.
