------------------------------ MODULE Postgres ------------------------------
(***************************************************************************)
(* The PostgreSQL server, as pgc migrate (src/internal/migrate/migrate.go) *)
(* uses it: the history table public.pgc_migrations, the advisory lock     *)
(* 7366499, and one session per pgc invocation that executes one request   *)
(* at a time.  It is code outside the repository, modelled from the SQL    *)
(* the package sends and from what it relies on in the answers: statements *)
(* outside a transaction take effect on their own, a session's locks and   *)
(* open transaction go with its backend, an error fails the transaction,   *)
(* a primary key makes the second INSERT of a name wait for the first.     *)
(*                                                                         *)
(* A backend outlives its client: a request sent before the client died    *)
(* may still be executed before the server notices (session "orphan").     *)
(***************************************************************************)
EXTENDS Naturals, Sequences, FiniteSets

CONSTANTS
  Procs,        \* the pgc processes; each has one session
  NoProc,       \* nobody holds the lock
  Names,        \* migration file names; their order is the name order
  Contents,     \* file contents; a content stands for its SHA-256 too
  NoFile,       \* the directory has no file of that name
  NoRow,        \* the history has no row of that name
  AdoptedHash,  \* the hash of a row recorded by hand (adoptedHash)
  NoTx,         \* contents that begin with the no-transaction marker
  EndsTx,       \* contents that end pgc's transaction unseen by checkFile
  LeavesOpen,   \* no-transaction contents whose last statement opens one
  DropsLock,    \* contents that release the session's advisory locks
  Concurrent,   \* no-transaction contents that wait for older snapshots
  Stmts,        \* how many statements a no-transaction content has
  Faults        \* what may go wrong in this instance

ASSUME NamesAssumption == Names \subseteq Nat \ {0}

ASSUME ContentsAssumption ==
  /\ AdoptedHash \notin Contents
  /\ NoFile \notin Contents
  /\ NoTx \subseteq Contents
  /\ EndsTx \subseteq Contents \ NoTx
  /\ LeavesOpen \subseteq NoTx
  /\ DropsLock \subseteq Contents
  /\ Concurrent \subseteq NoTx
  /\ Stmts \in [NoTx -> Nat]

ASSUME ValuesAssumption ==
  /\ NoProc \notin Procs
  /\ NoRow \notin [state : {"applied", "started", "failed"},
                   hash : Contents \cup {AdoptedHash}]
  /\ Faults \subseteq {"error", "crash", "loss", "cancel", "timeout"}

VARIABLES
  table,     \* the history table: "absent", "legacy" (no state column), "current"
  history,   \* its committed rows, by name
  holder,    \* the session that holds the advisory lock
  effects,   \* what the file of a name did to the schema since its last retry
  settled,   \* names a person, not a run, has vouched for
  spilled,   \* names whose script ended pgc's transaction itself
  files,     \* the directory as each process read it: the text it will send
  req,       \* the request each session executes, or last answered
  wire,      \* where that request is: "idle", "sent", "ok" or "err"
  session,   \* "none", "open", "orphan" (its client is gone) or "closed"
  tx,        \* ReadyForQuery's status: "I" idle, "T" in a block, "E" failed
  work,      \* the open transaction's own work: "none", "ran", "recorded"
  found,     \* the boolean a lookup returned
  seen       \* the history rows a lookup returned

dbVars      == <<table, history, holder, effects, settled, spilled>>
linkVars    == <<files, req, session>>
txVars      == <<tx, work>>
resultVars  == <<found, seen>>
serverVars  == <<dbVars, linkVars, txVars, resultVars, wire>>

States == {"applied", "started", "failed"}
Rows   == [state : States, hash : Contents \cup {AdoptedHash}]
Ops    == {"none", "setTimeout", "lock", "resetTimeout", "reset", "create",
           "hasState", "alter", "exists", "columns", "history", "fileReset",
           "begin", "script", "record", "commit", "rollback", "started",
           "statement", "markApplied", "markFailed", "settle", "forget",
           "baseline", "unlock"}

\* How many requests content c is sent in: a transactional file goes as one
\* script, a no-transaction file statement by statement.
Length(c) == IF c \in NoTx THEN Stmts[c] ELSE 1

\* What the first k of them do, in order.
Script(c, k) == [i \in 1..k |-> <<c, i>>]

RecordOf(s, c) == [state |-> s, hash |-> c]

-----------------------------------------------------------------------------
\* The server has p's request of kind o before it, and its transaction status
\* lets it execute: in a failed block only COMMIT and ROLLBACK are accepted.
Serving(p, o) ==
  /\ session[p] \in {"open", "orphan"}
  /\ wire[p] = "sent"
  /\ req[p].op = o
  /\ tx[p] = "E" => o \in {"commit", "rollback"}

Reply(p, answer) == wire' = [wire EXCEPT ![p] = answer]

\* SET, RESET and RESET ROLE: nothing this model keeps depends on them.
Settings(p) ==
  /\ \E o \in {"setTimeout", "resetTimeout", "reset", "fileReset"} : Serving(p, o)
  /\ Reply(p, "ok")
  /\ UNCHANGED <<dbVars, linkVars, txVars, resultVars>>

\* pg_advisory_lock returns once nobody holds the lock; until then it blocks.
GrantLock(p) ==
  /\ Serving(p, "lock")
  /\ holder = NoProc
  /\ holder' = p
  /\ Reply(p, "ok")
  /\ UNCHANGED <<table, history, effects, settled, spilled,
                 linkVars, txVars, resultVars>>

\* pg_advisory_unlock answers whether the session held the lock; both are "ok".
ReleaseLock(p) ==
  /\ Serving(p, "unlock")
  /\ holder' = IF holder = p THEN NoProc ELSE holder
  /\ Reply(p, "ok")
  /\ UNCHANGED <<table, history, effects, settled, spilled,
                 linkVars, txVars, resultVars>>

\* CREATE TABLE IF NOT EXISTS.
CreateTable(p) ==
  /\ Serving(p, "create")
  /\ table' = IF table = "absent" THEN "current" ELSE table
  /\ Reply(p, "ok")
  /\ UNCHANGED <<history, holder, effects, settled, spilled,
                 linkVars, txVars, resultVars>>

\* ALTER TABLE ... ADD COLUMN state ... DEFAULT 'applied'.  (A second one would
\* fail; under the lock there is none, and a run that met one would be stuck.)
AddStateColumn(p) ==
  /\ Serving(p, "alter")
  /\ table = "legacy"
  /\ table' = "current"
  /\ Reply(p, "ok")
  /\ UNCHANGED <<history, holder, effects, settled, spilled,
                 linkVars, txVars, resultVars>>

\* to_regclass, and the count of columns named state.
Lookup(p) ==
  /\ \/ /\ Serving(p, "exists")
        /\ found' = [found EXCEPT ![p] = (table # "absent")]
     \/ /\ \E o \in {"hasState", "columns"} : Serving(p, o)
        /\ found' = [found EXCEPT ![p] = (table = "current")]
  /\ Reply(p, "ok")
  /\ UNCHANGED <<dbVars, linkVars, txVars, seen>>

\* SELECT name, hash, state - or, when the last lookup found no state column,
\* the constant 'applied' in its place.
\* (Mutant: the state column is never read.)
AllApplied(p) == [f \in Names |-> IF history[f] = NoRow THEN NoRow
                                  ELSE RecordOf("applied", history[f].hash)]

SelectedRows(p) == IF found[p] THEN history ELSE AllApplied(p)

SelectHistory(p) ==
  /\ Serving(p, "history")
  /\ seen' = [seen EXCEPT ![p] = SelectedRows(p)]
  /\ Reply(p, "ok")
  /\ UNCHANGED <<dbVars, linkVars, txVars, found>>

-----------------------------------------------------------------------------
\* The transaction of an ordinary file.

Begin(p) ==
  /\ Serving(p, "begin")
  /\ tx' = [tx EXCEPT ![p] = "T"]
  /\ Reply(p, "ok")
  /\ UNCHANGED <<dbVars, linkVars, work, resultVars>>

DroppedBy(p, c) == IF c \in DropsLock /\ holder = p THEN NoProc ELSE holder

\* The file's text.  Its changes wait for COMMIT, unless the text ends the
\* transaction itself: then they are permanent at once.
RunScript(p) ==
  LET f == req[p].file
      c == files[p][f]
  IN  /\ Serving(p, "script")
      /\ \/ /\ c \notin EndsTx
            /\ work' = [work EXCEPT ![p] = "ran"]
            /\ UNCHANGED <<tx, effects, spilled>>
         \/ /\ c \in EndsTx
            /\ tx' = [tx EXCEPT ![p] = "I"]
            /\ effects' = [effects EXCEPT ![f] = @ \o Script(c, 1)]
            /\ spilled' = spilled \cup {f}
            /\ UNCHANGED work
      /\ holder' = DroppedBy(p, c)
      /\ Reply(p, "ok")
      /\ UNCHANGED <<table, history, settled, linkVars, resultVars>>

\* Another open transaction has inserted a row of name f.
InsertedByOther(p, f) ==
  \E q \in Procs \ {p} : work[q] = "recorded" /\ req[q].file = f

\* Mutant: INSERT ... ON CONFLICT DO UPDATE.
UpsertRecord(p) ==
  /\ Serving(p, "record")
  /\ work' = [work EXCEPT ![p] = "recorded"]
  /\ Reply(p, "ok")
  /\ UNCHANGED <<dbVars, linkVars, tx, resultVars>>

\* INSERT inside the transaction; the primary key makes it wait for another
\* transaction's insert of the same name.
InsertRecord(p) ==
  LET f == req[p].file
  IN  /\ Serving(p, "record")
      /\ history[f] = NoRow
      /\ ~InsertedByOther(p, f)
      /\ work' = [work EXCEPT ![p] = "recorded"]
      /\ Reply(p, "ok")
      /\ UNCHANGED <<dbVars, linkVars, tx, resultVars>>

\* COMMIT publishes the script's changes and the history row together.
Commit(p) ==
  LET f == req[p].file
      c == files[p][f]
  IN  /\ Serving(p, "commit")
      /\ work[p] = "recorded"
      /\ history' = [history EXCEPT ![f] = RecordOf("applied", c)]
      /\ effects' = [effects EXCEPT ![f] = @ \o Script(c, 1)]
      /\ tx' = [tx EXCEPT ![p] = "I"]
      /\ work' = [work EXCEPT ![p] = "none"]
      /\ Reply(p, "ok")
      /\ UNCHANGED <<table, holder, settled, spilled, linkVars, resultVars>>

Rollback(p) ==
  /\ Serving(p, "rollback")
  /\ tx' = [tx EXCEPT ![p] = "I"]
  /\ work' = [work EXCEPT ![p] = "none"]
  /\ Reply(p, "ok")
  /\ UNCHANGED <<dbVars, linkVars, resultVars>>

-----------------------------------------------------------------------------
\* The statements of a no-transaction file and its marks: each stands alone.

InsertStarted(p) ==
  LET f == req[p].file
  IN  /\ Serving(p, "started")
      /\ history[f] = NoRow
      /\ ~InsertedByOther(p, f)
      /\ history' = [history EXCEPT ![f] = RecordOf("started", files[p][f])]
      /\ Reply(p, "ok")
      /\ UNCHANGED <<table, holder, effects, settled, spilled,
                     linkVars, txVars, resultVars>>

\* One statement.  The last one of a LeavesOpen content only opens a block.
RunStatement(p) ==
  LET f == req[p].file
      c == files[p][f]
      k == req[p].stmt
  IN  /\ Serving(p, "statement")
      /\ \/ /\ c \in LeavesOpen /\ k = Length(c)
            /\ tx' = [tx EXCEPT ![p] = "T"]
            /\ UNCHANGED effects
         \/ /\ ~(c \in LeavesOpen /\ k = Length(c))
            /\ effects' = [effects EXCEPT ![f] = Append(@, <<c, k>>)]
            /\ UNCHANGED tx
      /\ holder' = DroppedBy(p, c)
      /\ Reply(p, "ok")
      /\ UNCHANGED <<table, history, settled, spilled, linkVars, work, resultVars>>

\* UPDATE ... SET state: no row, no update.
UpdateState(p) ==
  LET f == req[p].file
      s == IF req[p].op = "markApplied" THEN "applied" ELSE "failed"
  IN  /\ \E o \in {"markApplied", "markFailed"} : Serving(p, o)
      /\ history' = [history EXCEPT ![f] =
                       IF @ = NoRow THEN NoRow ELSE RecordOf(s, @.hash)]
      /\ Reply(p, "ok")
      /\ UNCHANGED <<table, holder, effects, settled, spilled,
                     linkVars, txVars, resultVars>>

-----------------------------------------------------------------------------
\* What resolve and baseline write.

UpdateSettled(p) ==
  LET f == req[p].file
  IN  /\ Serving(p, "settle")
      /\ history' = [history EXCEPT ![f] =
                       IF @ = NoRow THEN NoRow ELSE RecordOf("applied", files[p][f])]
      /\ settled' = settled \cup {f}
      /\ Reply(p, "ok")
      /\ UNCHANGED <<table, holder, effects, spilled, linkVars, txVars, resultVars>>

\* The row goes, and with it what the name is held to have done.
DeleteRow(p) ==
  LET f == req[p].file
  IN  /\ Serving(p, "forget")
      /\ history' = [history EXCEPT ![f] = NoRow]
      /\ effects' = [effects EXCEPT ![f] = <<>>]
      /\ Reply(p, "ok")
      /\ UNCHANGED <<table, holder, settled, spilled, linkVars, txVars, resultVars>>

\* One INSERT of every file up to and including req[p].file.
Baselined(p) == {f \in Names : f <= req[p].file /\ files[p][f] # NoFile}

InsertBaseline(p) ==
  /\ Serving(p, "baseline")
  /\ \A f \in Baselined(p) : history[f] = NoRow /\ ~InsertedByOther(p, f)
  /\ history' = [f \in Names |-> IF f \in Baselined(p)
                                 THEN RecordOf("applied", files[p][f])
                                 ELSE history[f]]
  /\ settled' = settled \cup Baselined(p)
  /\ Reply(p, "ok")
  /\ UNCHANGED <<table, holder, effects, spilled, linkVars, txVars, resultVars>>

-----------------------------------------------------------------------------
\* Errors.

InFlight(p) == session[p] \in {"open", "orphan"} /\ wire[p] = "sent"

\* An error reply: an open transaction fails and its work is lost.  A COMMIT
\* that fails ends the block; one cancelled before it started leaves it failed.
Errs(p) ==
  /\ Reply(p, "err")
  /\ \E s \in {"I", "E"} :
       /\ tx[p] = "I" => s = "I"
       /\ s = "I" => tx[p] = "I" \/ req[p].op = "commit"
       /\ tx' = [tx EXCEPT ![p] = s]
  /\ work' = [work EXCEPT ![p] = "none"]
  /\ UNCHANGED <<dbVars, linkVars, resultVars>>

\* A request in a failed block is refused; with "error" any request may be.
Refuse(p) ==
  /\ InFlight(p)
  /\ \/ "error" \in Faults
     \/ tx[p] = "E" /\ req[p].op \notin {"commit", "rollback"}
  /\ Errs(p)

\* The statement cannot be executed: the name is taken.
Conflict(p) ==
  /\ InFlight(p)
  /\ \/ req[p].op \in {"record", "started"} /\ history[req[p].file] # NoRow
     \/ req[p].op = "baseline" /\ \E f \in Baselined(p) : history[f] # NoRow
  /\ Errs(p)

\* lock_timeout, for a session that set it: another one holds the lock.
LockTimeout(p) ==
  /\ "timeout" \in Faults
  /\ Serving(p, "lock")
  /\ holder \notin {NoProc, p}
  /\ Errs(p)

\* The statement in flight waits for the snapshot of a session that waits for
\* the lock it holds; the deadlock detector fails one of the two.
DeadlockVictim(p) ==
  /\ holder # NoProc
  /\ Serving(holder, "statement")
  /\ files[holder][req[holder].file] \in Concurrent
  /\ \E w \in Procs \ {holder} : Serving(w, "lock") /\ p \in {holder, w}
  /\ Errs(p)

\* The client is gone.  Its transaction is rolled back and its lock released.
EndBackend(p) ==
  /\ session[p] = "orphan"
  /\ session' = [session EXCEPT ![p] = "closed"]
  /\ wire' = [wire EXCEPT ![p] = "idle"]
  /\ tx' = [tx EXCEPT ![p] = "I"]
  /\ work' = [work EXCEPT ![p] = "none"]
  /\ holder' = IF holder = p THEN NoProc ELSE holder
  /\ UNCHANGED <<table, history, effects, settled, spilled, files, req, resultVars>>

\* What the server does with p's request, faults aside.
Serve(p) ==
  \/ Settings(p) \/ GrantLock(p) \/ ReleaseLock(p) \/ CreateTable(p)
  \/ AddStateColumn(p) \/ Lookup(p) \/ SelectHistory(p)
  \/ Begin(p) \/ RunScript(p) \/ InsertRecord(p) \/ Commit(p) \/ Rollback(p)
  \/ InsertStarted(p) \/ RunStatement(p) \/ UpdateState(p)
  \/ UpdateSettled(p) \/ DeleteRow(p) \/ InsertBaseline(p)
  \/ Refuse(p) \/ Conflict(p) \/ DeadlockVictim(p)
=============================================================================
