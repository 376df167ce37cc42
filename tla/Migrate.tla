------------------------------- MODULE Migrate -------------------------------
(***************************************************************************)
(* pgc migrate: the client side of src/internal/migrate/migrate.go (Run,   *)
(* Status, Resolve, Baseline) together with what main.go runs around it    *)
(* (one connection per invocation, a cancel sent on a signal or -timeout). *)
(*                                                                         *)
(* A process is one invocation; its control point is the request it sent   *)
(* last, req[p], and the answer it got, wire[p].  Every action below is    *)
(* the code between an answer and the next request.  Postgres.tla is the   *)
(* server that executes the requests.                                      *)
(***************************************************************************)
EXTENDS Postgres

CONSTANTS
  Commands,   \* the invocations of this instance, a subset of AllCommands
  Control,    \* contents checkFile refuses: transaction control
  InitDirs,   \* directories the run may start from
  InitTables, \* states of the history table it may start from
  Adopted,    \* names the initial history records by hand, if it has a table
  MaxStarts,  \* bound: invocations in all
  MaxEdits    \* bound: edits of the directory in all

AllCommands ==
  [op : {"up", "status", "resolve", "baseline"},
   drift : BOOLEAN,                   \* -allow-drift
   timed : BOOLEAN,                   \* -lock-timeout is not 0
   name : Names \cup {0},             \* of resolve and baseline
   to : {"none", "applied", "retry"}] \* of resolve

ASSUME ClientAssumption ==
  /\ Commands \subseteq AllCommands
  /\ \A c \in Commands : c.op \in {"resolve", "baseline"} => c.name \in Names
  /\ Control \subseteq Contents \ NoTx
  /\ InitDirs \subseteq [Names -> Contents \cup {NoFile}]
  /\ InitTables \subseteq {"absent", "legacy", "current"}
  /\ Adopted \subseteq Names
  /\ MaxStarts \in Nat /\ MaxEdits \in Nat

VARIABLES
  dir,      \* the migrations directory
  edits,    \* edits made to it (bounded by MaxEdits)
  starts,   \* invocations so far (bounded by MaxStarts)
  cmd,      \* the command line of each process
  fail,     \* the process will return an error
  outcome,  \* what the invocation reported: "none", "ok" or "failed"
  cancel    \* its only cancel request: "armed", "sent", "hit", "missed"

clientVars == <<dir, edits, starts, cmd, fail, outcome, cancel>>
vars == <<serverVars, clientVars>>

NoRequest == [op |-> "none", file |-> 0, stmt |-> 0]
NoCommand == [op |-> "up", drift |-> FALSE, timed |-> FALSE,
              name |-> 0, to |-> "none"]
NoFiles   == [f \in Names |-> NoFile]
NoRows    == [f \in Names |-> NoRow]

Init ==
  /\ table \in InitTables
  /\ history = [f \in Names |-> IF table # "absent" /\ f \in Adopted
                                THEN RecordOf("applied", AdoptedHash) ELSE NoRow]
  /\ settled = {f \in Names : history[f] # NoRow}
  /\ holder = NoProc
  /\ effects = [f \in Names |-> <<>>]
  /\ spilled = {}
  /\ files = [p \in Procs |-> NoFiles]
  /\ req = [p \in Procs |-> NoRequest]
  /\ wire = [p \in Procs |-> "idle"]
  /\ session = [p \in Procs |-> "none"]
  /\ tx = [p \in Procs |-> "I"]
  /\ work = [p \in Procs |-> "none"]
  /\ found = [p \in Procs |-> FALSE]
  /\ seen = [p \in Procs |-> NoRows]
  /\ dir \in InitDirs
  /\ edits = 0
  /\ starts = 0
  /\ cmd = [p \in Procs |-> NoCommand]
  /\ fail = [p \in Procs |-> FALSE]
  /\ outcome = [p \in Procs |-> "none"]
  /\ cancel = [p \in Procs |-> "armed"]

-----------------------------------------------------------------------------
\* Steps between requests.

\* p has the answer to its last request, which was of kind o.
Got(p, o, answer) ==
  session[p] = "open" /\ wire[p] = answer /\ req[p].op = o

Answered(p, o) == Got(p, o, "ok") \/ Got(p, o, "err")

\* p sends a request of kind o about file f (statement k of it).
Send(p, o, f, k) ==
  /\ req' = [req EXCEPT ![p] = [op |-> o, file |-> f, stmt |-> k]]
  /\ wire' = [wire EXCEPT ![p] = "sent"]
  /\ UNCHANGED session

\* Mutant: the deferred conn.Close is missing.
LeaveOpen(p, failed) ==
  /\ outcome' = [outcome EXCEPT ![p] = IF failed THEN "failed" ELSE "ok"]
  /\ wire' = [wire EXCEPT ![p] = "idle"]
  /\ UNCHANGED <<req, session>>

\* The command returns, and its deferred conn.Close ends the session.
Leave(p, failed) ==
  /\ outcome' = [outcome EXCEPT ![p] = IF failed THEN "failed" ELSE "ok"]
  /\ session' = [session EXCEPT ![p] = "orphan"]
  /\ wire' = [wire EXCEPT ![p] = "idle"]
  /\ UNCHANGED req

\* The command returns with an error: the deferred unlock comes first.
Fails(p)  == fail' = [fail EXCEPT ![p] = TRUE]
Unlock(p) == Send(p, "unlock", 0, 0)
GiveUp(p) == Fails(p) /\ Unlock(p) /\ UNCHANGED outcome

Proceed(p, o, f, k) == Send(p, o, f, k) /\ UNCHANGED <<fail, outcome>>

\* What a step of p's own code leaves alone.
Quiet == UNCHANGED <<dbVars, txVars, resultVars, dir, edits, starts, cmd, cancel>>

-----------------------------------------------------------------------------
\* Starting: the directory is read and checked before any request is sent.

Present(d) == {f \in Names : d[f] # NoFile}

\* readDir and checkFile, and baseline's check that its file exists.
Readable(c, d) ==
  /\ c.op = "up" => \A f \in Present(d) : d[f] \notin Control
  /\ c.op = "baseline" => d[c.name] # NoFile

FirstRequest(c) ==
  IF c.op = "status" THEN "exists" ELSE IF c.timed THEN "setTimeout" ELSE "lock"

Start(p) ==
  /\ session[p] \in {"none", "closed"}
  /\ starts < MaxStarts
  /\ starts' = starts + 1
  /\ \E c \in Commands :
       /\ cmd' = [cmd EXCEPT ![p] = c]
       /\ files' = [files EXCEPT ![p] = IF c.op = "resolve" THEN NoFiles ELSE dir]
       /\ \/ /\ Readable(c, dir)
             /\ session' = [session EXCEPT ![p] = "open"]
             /\ wire' = [wire EXCEPT ![p] = "sent"]
             /\ req' = [req EXCEPT ![p] =
                          [NoRequest EXCEPT !.op = FirstRequest(c)]]
             /\ outcome' = [outcome EXCEPT ![p] = "none"]
          \/ /\ ~Readable(c, dir)
             /\ session' = [session EXCEPT ![p] = "orphan"]
             /\ wire' = [wire EXCEPT ![p] = "idle"]
             /\ req' = [req EXCEPT ![p] = NoRequest]
             /\ outcome' = [outcome EXCEPT ![p] = "failed"]
  /\ fail' = [fail EXCEPT ![p] = FALSE]
  /\ cancel' = [cancel EXCEPT ![p] = "armed"]
  /\ found' = [found EXCEPT ![p] = FALSE]
  /\ seen' = [seen EXCEPT ![p] = NoRows]
  /\ UNCHANGED <<dbVars, txVars, dir, edits>>

-----------------------------------------------------------------------------
\* lock: SET lock_timeout, pg_advisory_lock, RESET lock_timeout.

TimeoutSet(p) ==
  /\ \/ Got(p, "setTimeout", "ok") /\ Proceed(p, "lock", 0, 0)
     \/ Got(p, "setTimeout", "err") /\ Leave(p, TRUE) /\ UNCHANGED fail
  /\ Quiet /\ UNCHANGED files

\* After the lock, Run starts from a clean session; the others do not.
AfterLock(p) == IF cmd[p].op = "up" THEN "reset" ELSE "create"

Locked(p) ==
  /\ Got(p, "lock", "ok")
  /\ Proceed(p, IF cmd[p].timed THEN "resetTimeout" ELSE AfterLock(p), 0, 0)
  /\ Quiet /\ UNCHANGED files

\* lock returns an error; the deferred RESET runs first where there is one.
LockFailed(p) ==
  /\ Got(p, "lock", "err")
  /\ \/ cmd[p].timed /\ Fails(p) /\ Send(p, "resetTimeout", 0, 0) /\ UNCHANGED outcome
     \/ ~cmd[p].timed /\ Leave(p, TRUE) /\ UNCHANGED fail
  /\ Quiet /\ UNCHANGED files

\* Mutant: the error of the lock itself is dropped as well.
LockErrorDropped(p) ==
  /\ Answered(p, "resetTimeout")
  /\ Proceed(p, AfterLock(p), 0, 0)
  /\ Quiet /\ UNCHANGED files

\* The error of the deferred RESET lock_timeout is dropped.
TimeoutReset(p) ==
  /\ Answered(p, "resetTimeout")
  /\ \/ fail[p] /\ Leave(p, TRUE) /\ UNCHANGED fail
     \/ ~fail[p] /\ Proceed(p, AfterLock(p), 0, 0)
  /\ Quiet /\ UNCHANGED files

-----------------------------------------------------------------------------
\* ensureTable, tableExists and readHistory.

Prepared(p) ==
  /\ \/ Got(p, "reset", "ok") /\ Proceed(p, "create", 0, 0)
     \/ Got(p, "create", "ok") /\ Proceed(p, "hasState", 0, 0)
     \/ Got(p, "hasState", "ok") /\ Proceed(p, IF found[p] THEN "columns" ELSE "alter", 0, 0)
     \/ Got(p, "alter", "ok") /\ Proceed(p, "columns", 0, 0)
     \/ Got(p, "columns", "ok") /\ Proceed(p, "history", 0, 0)
     \/ Got(p, "exists", "ok") /\ found[p] /\ Proceed(p, "columns", 0, 0)
  /\ Quiet /\ UNCHANGED files

\* An error anywhere in the preparation, or in a request whose error is
\* simply returned: BEGIN, COMMIT, the started mark, the applied mark, the
\* writes of resolve and baseline.
Aborted(p) ==
  /\ \E o \in {"reset", "create", "hasState", "alter", "exists", "columns",
               "history", "fileReset", "begin", "commit", "started",
               "markApplied", "settle", "forget", "baseline"} : Got(p, o, "err")
  /\ \/ cmd[p].op = "status" /\ Leave(p, TRUE) /\ UNCHANGED fail
     \/ cmd[p].op # "status" /\ GiveUp(p)
  /\ Quiet /\ UNCHANGED files

-----------------------------------------------------------------------------
\* compare: the directory p read beside the history it read.

Recorded(p) == {f \in Names : seen[p][f] # NoRow}
Missing(p)  == Recorded(p) \ Present(files[p])

HalfFinished(p) ==
  {f \in Recorded(p) \cap Present(files[p]) : seen[p][f].state # "applied"}

Changed(p) ==
  {f \in (Recorded(p) \cap Present(files[p])) \ HalfFinished(p) :
     seen[p][f].hash \notin {files[p][f], AdoptedHash}}

\* The files a run has left to apply after file f, in name order.
Pending(p, f) == {g \in Present(files[p]) \ Recorded(p) : f < g}

\* Mutant: the directory is not sorted by name.
AnyNextFile(p, f) ==
  \/ /\ Pending(p, 0) = {}
     /\ Unlock(p)
  \/ \E g \in Pending(p, 0) : g # f /\ Send(p, "fileReset", g, 0)

\* The loop of Run: the next pending file, from a clean session, or the end.
NextFile(p, f) ==
  \/ /\ Pending(p, f) = {}
     /\ Unlock(p)
  \/ \E g \in Pending(p, f) :
       /\ \A h \in Pending(p, f) : g <= h
       /\ Send(p, "fileReset", g, 0)

\* Mutant: a half-finished file is walked past.
RefusesDriftOnly(p) == Changed(p) \cup Missing(p) # {} /\ ~cmd[p].drift

Refuses(p) ==
  \/ HalfFinished(p) # {}
  \/ Changed(p) \cup Missing(p) # {} /\ ~cmd[p].drift

\* Run, with the history read under the lock.
RunDecides(p) ==
  /\ Got(p, "history", "ok") /\ cmd[p].op = "up"
  /\ \/ Refuses(p) /\ GiveUp(p)
     \/ ~Refuses(p) /\ NextFile(p, 0) /\ UNCHANGED <<fail, outcome>>
  /\ Quiet /\ UNCHANGED files

\* Status prints the list and fails when a file needs attention.
StatusDecides(p) ==
  /\ cmd[p].op = "status"
  /\ \/ Got(p, "history", "ok")
     \/ Got(p, "exists", "ok") /\ ~found[p]
  /\ Leave(p, HalfFinished(p) \cup Changed(p) \cup Missing(p) # {})
  /\ Quiet /\ UNCHANGED <<files, fail>>

\* Mutants: any row may be resolved; the error of reading the file is lost.
ResolvableIfRecorded(p, f) == f \in Recorded(p)
AlwaysReadable(f) == TRUE

Resolvable(p, f) == f \in Recorded(p) /\ seen[p][f].state # "applied"
Exists(f) == dir[f] # NoFile

\* Resolve reads the file only now.
ResolveDecides(p) ==
  LET f == cmd[p].name
      refused == ~Resolvable(p, f) \/ (cmd[p].to = "applied" /\ ~Exists(f))
  IN  /\ Got(p, "history", "ok") /\ cmd[p].op = "resolve"
      /\ \/ refused /\ GiveUp(p) /\ UNCHANGED files
         \/ /\ ~refused /\ cmd[p].to = "retry"
            /\ Proceed(p, "forget", f, 0) /\ UNCHANGED files
         \/ /\ ~refused /\ cmd[p].to = "applied"
            /\ files' = [files EXCEPT ![p][f] = dir[f]]
            /\ Proceed(p, "settle", f, 0)
      /\ Quiet

\* Mutant: a baseline on top of any history.
AnyHistory(p) == TRUE

HistoryEmpty(p) == Recorded(p) = {}

\* Baseline writes to an empty history only.
BaselineDecides(p) ==
  /\ Got(p, "history", "ok") /\ cmd[p].op = "baseline"
  /\ \/ ~HistoryEmpty(p) /\ GiveUp(p)
     \/ HistoryEmpty(p) /\ Proceed(p, "baseline", cmd[p].name, 0)
  /\ Quiet /\ UNCHANGED files

Written(p) ==
  /\ \E o \in {"settle", "forget", "baseline"} : Got(p, o, "ok")
  /\ Unlock(p)
  /\ Quiet /\ UNCHANGED <<files, fail, outcome>>

-----------------------------------------------------------------------------
\* apply: a transactional file.

FileReset(p) ==
  LET f == req[p].file
  IN  /\ Got(p, "fileReset", "ok")
      /\ Proceed(p, IF files[p][f] \in NoTx THEN "started" ELSE "begin", f, 0)
      /\ Quiet /\ UNCHANGED files

Begun(p) ==
  /\ Got(p, "begin", "ok")
  /\ Proceed(p, "script", req[p].file, 0)
  /\ Quiet /\ UNCHANGED files

\* Mutant: TxStatus is not looked at.
ScriptSucceeded(p) == Got(p, "script", "ok")

KeptOpen(p) == Got(p, "script", "ok") /\ tx[p] = "T"

\* A script that failed, or that did not leave pgc's transaction open, is
\* rolled back and not recorded.
Scripted(p) ==
  LET f == req[p].file
      kept == KeptOpen(p)
  IN  /\ Answered(p, "script")
      /\ \/ kept /\ Proceed(p, "record", f, 0)
         \/ ~kept /\ Fails(p) /\ Send(p, "rollback", f, 0) /\ UNCHANGED outcome
      /\ Quiet /\ UNCHANGED files

\* Mutant: the error of the record is dropped, and the run goes on.
InsertErrorDropped(p) ==
  LET f == req[p].file
  IN  /\ \/ Got(p, "record", "ok") /\ Proceed(p, "commit", f, 0)
         \/ Got(p, "record", "err") /\ Proceed(p, "rollback", f, 0)
      /\ Quiet /\ UNCHANGED files

Inserted(p) ==
  LET f == req[p].file
  IN  /\ \/ Got(p, "record", "ok") /\ Proceed(p, "commit", f, 0)
         \/ Got(p, "record", "err") /\ Fails(p) /\ Send(p, "rollback", f, 0)
            /\ UNCHANGED outcome
      /\ Quiet /\ UNCHANGED files

\* The file is applied; the run goes on to the next one.
Applied(p) ==
  /\ Got(p, "commit", "ok") \/ Got(p, "markApplied", "ok")
  /\ NextFile(p, req[p].file)
  /\ Quiet /\ UNCHANGED <<files, fail, outcome>>

\* The error of ROLLBACK is dropped.  A no-transaction file is then marked.
RolledBack(p) ==
  LET f == req[p].file
  IN  /\ Answered(p, "rollback")
      /\ \/ files[p][f] \in NoTx /\ Send(p, "markFailed", f, 0)
         \/ files[p][f] \notin NoTx /\ Unlock(p)
      /\ Quiet /\ UNCHANGED <<files, fail, outcome>>

-----------------------------------------------------------------------------
\* applyNoTx: statement by statement.

\* Mutant: the last statement is left out.
AfterStatementShort(p, f, k) ==
  \/ k + 1 < Length(files[p][f]) /\ Proceed(p, "statement", f, k + 1)
  \/ k + 1 >= Length(files[p][f]) /\ Proceed(p, "markApplied", f, 0)

\* After k statements: the next one, or the end of the file.
AfterStatement(p, f, k) ==
  \/ k < Length(files[p][f]) /\ Proceed(p, "statement", f, k + 1)
  \/ k = Length(files[p][f]) /\ tx[p] = "I" /\ Proceed(p, "markApplied", f, 0)
  \/ /\ k = Length(files[p][f]) /\ tx[p] # "I"
     /\ Fails(p) /\ Send(p, "rollback", f, 0) /\ UNCHANGED outcome

Stepped(p) ==
  /\ Got(p, "started", "ok") \/ Got(p, "statement", "ok")
  /\ AfterStatement(p, req[p].file, req[p].stmt)
  /\ Quiet /\ UNCHANGED files

StatementFailed(p) ==
  /\ Got(p, "statement", "err")
  /\ Fails(p)
  /\ Send(p, IF tx[p] # "I" THEN "rollback" ELSE "markFailed", req[p].file, 0)
  /\ Quiet /\ UNCHANGED <<files, outcome>>

\* Whether the failed mark was written is not looked at.
MarkedFailed(p) ==
  /\ Answered(p, "markFailed")
  /\ Unlock(p)
  /\ Quiet /\ UNCHANGED <<files, fail, outcome>>

\* An unlock that failed, or that found the lock gone, is only a warning.
Unlocked(p) ==
  /\ Answered(p, "unlock")
  /\ Leave(p, fail[p])
  /\ Quiet /\ UNCHANGED <<files, fail>>

Client(p) ==
  \/ TimeoutSet(p) \/ Locked(p) \/ LockFailed(p) \/ TimeoutReset(p)
  \/ Prepared(p) \/ Aborted(p)
  \/ RunDecides(p) \/ StatusDecides(p) \/ ResolveDecides(p) \/ BaselineDecides(p)
  \/ Written(p)
  \/ FileReset(p) \/ Begun(p) \/ Scripted(p) \/ Inserted(p) \/ Applied(p)
  \/ RolledBack(p) \/ Stepped(p) \/ StatementFailed(p) \/ MarkedFailed(p)
  \/ Unlocked(p)

-----------------------------------------------------------------------------
\* What surrounds the processes.

\* The process dies, or the connection is lost under it.  A request already
\* sent may still reach the server.
Gone(p) ==
  /\ session[p] = "open"
  /\ session' = [session EXCEPT ![p] = "orphan"]
  /\ wire' = [wire EXCEPT ![p] = IF @ = "sent" THEN "sent" ELSE "idle"]
  /\ UNCHANGED <<dbVars, txVars, resultVars, files, req,
                 dir, edits, starts, cmd, fail, cancel>>

Crash(p) ==
  /\ "crash" \in Faults
  /\ Gone(p)
  /\ outcome' = [outcome EXCEPT ![p] = "failed"]

\* Every later request fails at once; only the unlock's error is a warning.
Lose(p) ==
  /\ "loss" \in Faults
  /\ wire[p] = "sent"
  /\ Gone(p)
  /\ outcome' = [outcome EXCEPT ![p] =
                   IF req[p].op = "unlock" /\ ~fail[p] THEN "ok" ELSE "failed"]

\* cancelOnDone: a signal or -timeout while the command has not finished.
\* It sends one cancel request, over a connection of its own.
Interrupt(p) ==
  /\ "cancel" \in Faults
  /\ session[p] = "open" /\ cancel[p] = "armed"
  /\ cancel' = [cancel EXCEPT ![p] = "sent"]
  /\ UNCHANGED <<serverVars, dir, edits, starts, cmd, fail, outcome>>

\* The cancel finds a request in flight, or it finds none.
CancelHits(p) ==
  /\ cancel[p] = "sent" /\ InFlight(p)
  /\ Errs(p)
  /\ cancel' = [cancel EXCEPT ![p] = "hit"]
  /\ UNCHANGED <<dir, edits, starts, cmd, fail, outcome>>

CancelMisses(p) ==
  /\ cancel[p] = "sent"
  /\ cancel' = [cancel EXCEPT ![p] = "missed"]
  /\ UNCHANGED <<serverVars, dir, edits, starts, cmd, fail, outcome>>

\* A person adds, edits or deletes a migration file.
Edit ==
  /\ edits < MaxEdits
  /\ edits' = edits + 1
  /\ \E f \in Names, c \in Contents \cup {NoFile} :
       dir[f] # c /\ dir' = [dir EXCEPT ![f] = c]
  /\ UNCHANGED <<serverVars, starts, cmd, fail, outcome, cancel>>

\* The server executes p's request.  lock_timeout bounds only the wait for
\* the lock, of a process that set it.
Server(p) ==
  /\ \/ Serve(p)
     \/ cmd[p].timed /\ LockTimeout(p)
  /\ UNCHANGED clientVars

Ends(p) == EndBackend(p) /\ UNCHANGED clientVars

\* Every invocation is over and no further one is allowed (MaxStarts).
Terminated ==
  /\ starts = MaxStarts
  /\ \A p \in Procs : session[p] \in {"none", "closed"}
  /\ UNCHANGED vars

Next ==
  \/ \E p \in Procs : \/ Start(p) \/ Client(p) \/ Server(p) \/ Ends(p)
                      \/ Crash(p) \/ Lose(p)
                      \/ Interrupt(p) \/ CancelHits(p) \/ CancelMisses(p)
  \/ Edit
  \/ Terminated

Spec == Init /\ [][Next]_vars

\* The server executes what it can and notices a client that is gone; a
\* process runs on.  Nothing obliges anybody to start, crash or cancel.
Fairness == \A p \in Procs :
  WF_vars(Server(p)) /\ WF_vars(Ends(p)) /\ WF_vars(Client(p))

FairSpec == Spec /\ Fairness

-----------------------------------------------------------------------------
\* What the database amounts to, names that spilled left out: the ledger.

LedgerHistory == [f \in Names |-> IF f \in spilled THEN NoRow ELSE history[f]]
LedgerEffects == [f \in Names |-> IF f \in spilled THEN <<>> ELSE effects[f]]

L == INSTANCE Ledger WITH history <- LedgerHistory, effects <- LedgerEffects,
                          settled <- settled \ spilled

\* Every run, resolve and baseline implements the ledger: whatever happens at
\* the level of requests is one of its steps or none.
ImplementsLedger == L!Spec

-----------------------------------------------------------------------------
\* Properties.

\* Every variable stays in its domain: the control points and answers of
\* migrate.go's request sequence, and the rows the history table can hold.
TypeOK ==
  /\ table \in {"absent", "legacy", "current"}
  /\ history \in [Names -> Rows \cup {NoRow}]
  /\ holder \in Procs \cup {NoProc}
  /\ effects \in [Names -> Seq(Contents \X Nat)]
  /\ settled \subseteq Names /\ spilled \subseteq Names
  /\ files \in [Procs -> [Names -> Contents \cup {NoFile}]]
  /\ req \in [Procs -> [op : Ops, file : Names \cup {0}, stmt : Nat]]
  /\ wire \in [Procs -> {"idle", "sent", "ok", "err"}]
  /\ session \in [Procs -> {"none", "open", "orphan", "closed"}]
  /\ tx \in [Procs -> {"I", "T", "E"}]
  /\ work \in [Procs -> {"none", "ran", "recorded"}]
  /\ found \in [Procs -> BOOLEAN]
  /\ seen \in [Procs -> [Names -> Rows \cup {NoRow}]]
  /\ dir \in [Names -> Contents \cup {NoFile}]
  /\ edits \in 0..MaxEdits
  /\ starts \in 0..MaxStarts
  /\ cmd \in [Procs -> AllCommands]
  /\ fail \in [Procs -> BOOLEAN]
  /\ outcome \in [Procs -> {"none", "ok", "failed"}]
  /\ cancel \in [Procs -> {"armed", "sent", "hit", "missed"}]

\* The history tells the truth about the schema (Run: "exactly once", apply
\* and applyNoTx).  A script that ends pgc's transaction is never recorded.  A
\* name without a row did nothing; an applied row stands for exactly one
\* complete execution of the content whose hash it carries; a started or
\* failed row for a prefix of it.  Excepted are names a person vouched for;
\* of names whose script has ended the transaction only the first is promised.
Faithful ==
  \A f \in Names \ settled :
    LET r == history[f]
    IN  /\ r # NoRow => r.hash \notin EndsTx
        /\ f \notin spilled =>
             /\ r = NoRow => effects[f] = <<>>
             /\ r # NoRow =>
                  \E k \in 0..Length(r.hash) :
                    /\ effects[f] = Script(r.hash, k)
                    /\ r.state = "applied" => k = Length(r.hash)

\* p's backend is past the lock: it may read or write the history and run
\* files until the unlock is executed.
Working(p) ==
  /\ session[p] \in {"open", "orphan"}
  /\ cmd[p].op # "status"
  /\ \/ req[p].op \notin {"none", "setTimeout", "lock", "resetTimeout", "unlock"}
     \/ req[p].op = "lock" /\ wire[p] = "ok"
     \/ req[p].op = "resetTimeout" /\ ~fail[p]
     \/ req[p].op = "unlock" /\ wire[p] = "sent"

\* Run, Resolve and Baseline never overlap, whatever has died in between: the
\* lock goes with the backend, not with the client (lock, unlock).
OneAtATime ==
  \A p, q \in Procs : Working(p) /\ Working(q) => p = q

\* An applied row never changes or disappears (Resolve touches only started
\* and failed rows; Baseline only an empty history).
AppliedForever ==
  [][\A f \in Names : history[f] # NoRow /\ history[f].state = "applied"
                        => history'[f] = history[f]]_vars

\* A run that reports success leaves every file it read recorded as applied.
SuccessMeansApplied ==
  \A p \in Procs : outcome[p] = "ok" /\ cmd[p].op = "up" =>
    \A f \in Present(files[p]) : history[f] # NoRow /\ history[f].state = "applied"

\* A name recorded without being run - by baseline, or by hand - is never run
\* (Baseline writes to an empty history only, Run skips recorded names).
VouchedNeverRan == \A f \in settled : effects[f] = <<>>

\* A baseline only starts a history: when it writes, no row is there, though
\* it looked some requests earlier (Baseline; for instances without resolve).
BaselineStartsHistory == [][settled' # settled => history = NoRows]_vars

\* p begins a file.
Begins(p) == req[p].op # "fileReset" /\ req'[p].op = "fileReset"

\* A file begins only when every earlier file of the directory the run read
\* is recorded (Run's loop, in name order, stopping at the first error).
InOrder ==
  [][\A p \in Procs : Begins(p) =>
       \A g \in Present(files[p]) : g < req'[p].file => history[g] # NoRow]_vars

\* No file begins while the history holds a started or failed mark for a file
\* of the run's directory - read under the lock, it is still so at each file.
HalfFinishedBlocks ==
  [][\A p \in Procs : Begins(p) =>
       \A g \in Present(files[p]) :
         history[g] # NoRow => history[g].state = "applied"]_vars

\* -timeout and signals cancel the run: once the server has had the cancel
\* request, the run begins no further file.
CancelStopsRun ==
  [][\A p \in Procs : Begins(p) => cancel[p] \notin {"hit", "missed"}]_vars

\* Reading the history yields the rows as they are (readHistory).
HistoryReadIsTrue ==
  [][\A p \in Procs : seen'[p] # seen[p] => seen'[p] \in {history, NoRows}]_vars

\* Every invocation ends, and its session with it: whatever fails or dies,
\* nobody waits for the lock for ever (the deferred unlock, conn.Close).
EverySessionEnds ==
  \A p \in Procs : session[p] \in {"open", "orphan"} ~> session[p] = "closed"
=============================================================================
