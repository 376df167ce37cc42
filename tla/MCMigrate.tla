------------------------------ MODULE MCMigrate ------------------------------
(* Instances of Migrate for TLC: two files, a few contents. *)
EXTENDS Migrate, TLC

CONSTANTS p1, p2,
  tx1, tx2,    \* transactional files
  commits,     \* a transactional file with a COMMIT that checkFile sees
  spill,       \* one that ends pgc's transaction unseen
  drop,        \* one that releases the advisory locks
  ntx,         \* a no-transaction file
  nopen,       \* one that leaves a transaction open
  ndrop,       \* one that releases the advisory locks
  cic          \* one with a CREATE INDEX CONCURRENTLY

Symmetry == Permutations(Procs)

Up       == [op |-> "up", drift |-> FALSE, timed |-> FALSE, name |-> 0, to |-> "none"]
UpTimed  == [Up EXCEPT !.timed = TRUE]
UpDrift  == [Up EXCEPT !.drift = TRUE]
Status   == [Up EXCEPT !.op = "status"]
Resolve(f, to) == [Up EXCEPT !.op = "resolve", !.name = f, !.to = to]
Baseline(f)    == [Up EXCEPT !.op = "baseline", !.name = f]

StmtsOf == [c \in NoTx |-> IF c = cic THEN 1 ELSE 2]

Dir(a, b) == [f \in Names |-> IF f = 1 THEN a ELSE b]

\* Runs only, every fault.
UpCommands == {Up, UpTimed}
UpDirs == {Dir(tx1, ntx), Dir(nopen, tx1), Dir(spill, tx1), Dir(commits, tx1)}

\* Half-finished files, the way out of them, and edits behind pgc's back.
ResolveCommands == {Up, UpDrift, Resolve(1, "retry"), Resolve(1, "applied")}
ResolveDirs == {Dir(ntx, tx1)}

\* Ways onto pgc migrate for an existing database.
AdoptCommands == {Up, Baseline(2)}
AdoptDirs == {Dir(tx1, tx1), Dir(NoFile, tx1)}

\* Every fault meets both kinds of commands: runs over every kind of file, on
\* a new database, one kind with a lock_timeout, and adoptions of a database
\* with the history of an older pgc, one written by hand or none.
FaultDirs == UpDirs \cup AdoptDirs
FaultCommands == UpCommands \cup AdoptCommands
CommandsFor == IF dir \in AdoptDirs THEN AdoptCommands ELSE IF dir = Dir(spill, tx1) THEN UpCommands ELSE {Up}
TablesFor ==
  IF dir = Dir(tx1, tx1) THEN {"legacy"} ELSE IF dir \in AdoptDirs THEN {"absent", "current"} ELSE {"absent"}

FaultInit == Init /\ table \in TablesFor
FaultNext ==
  \/ \E p \in Procs : \/ Start(p) /\ cmd'[p] \in CommandsFor
                      \/ Client(p) \/ Server(p) \/ Ends(p)
                      \/ Crash(p) \/ Lose(p)
                      \/ Interrupt(p) \/ CancelHits(p) \/ CancelMisses(p)
  \/ Terminated
FaultSpec == FaultInit /\ [][FaultNext]_vars

\* Files that release the advisory lock in mid-run, where the primary key alone
\* must do, and files that deadlock with whoever waits for it.
DropCommands == {Up, Status, Baseline(1)}
DropDirs == {Dir(drop, ntx), Dir(ndrop, nopen), Dir(cic, tx1)}

\* The instances of the disagreements with the documentation.
OneUp == {Up}
TwoFiles == {Dir(tx1, tx2)}
=============================================================================
