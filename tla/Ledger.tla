------------------------------- MODULE Ledger -------------------------------
(***************************************************************************)
(* What pgc migrate promises, whoever runs it and whatever fails: every    *)
(* file is applied exactly once, and the history says truthfully what each *)
(* file did (the package comment of src/internal/migrate/migrate.go, and   *)
(* the comments of its three states).  There are no processes, requests or *)
(* locks here; Migrate.tla is shown to implement this module.              *)
(***************************************************************************)
EXTENDS Naturals, Sequences

CONSTANTS Names, Contents, NoRow, NoTx, EndsTx, AdoptedHash, Stmts, Adopted

\* What the constants are.
LedgerConstants ==
  /\ NoTx \subseteq Contents /\ EndsTx \subseteq Contents \ NoTx
  /\ Stmts \in [NoTx -> Nat]
  /\ AdoptedHash \notin Contents
  /\ Adopted \subseteq Names
  /\ NoRow \notin [state : {"applied", "started", "failed"},
                   hash : Contents \cup {AdoptedHash}]

VARIABLES
  history,  \* the recorded rows
  effects,  \* what each name did to the schema since its last retry
  settled,  \* names a person vouched for
  spilled   \* names whose script made changes permanent by itself

ledger == <<history, effects, settled, spilled>>

Length(c)      == IF c \in NoTx THEN Stmts[c] ELSE 1
Script(c, k)   == [i \in 1..k |-> <<c, i>>]
RecordOf(s, c) == [state |-> s, hash |-> c]

Unfinished(f) == history[f] # NoRow /\ history[f].state # "applied"

Init ==
  /\ history \in {[f \in Names |-> NoRow],
                  [f \in Names |-> IF f \in Adopted
                                   THEN RecordOf("applied", AdoptedHash) ELSE NoRow]}
  /\ effects = [f \in Names |-> <<>>]
  /\ settled = {f \in Names : history[f] # NoRow}
  /\ spilled = {}

\* A transactional file takes effect and is recorded in one step.
ApplyAtOnce(f, c) ==
  /\ c \in Contents \ (NoTx \cup EndsTx)
  /\ f \notin spilled /\ history[f] = NoRow
  /\ history' = [history EXCEPT ![f] = RecordOf("applied", c)]
  /\ effects' = [effects EXCEPT ![f] = Script(c, 1)]
  /\ UNCHANGED <<settled, spilled>>

\* A no-transaction file is marked before its first statement, ...
BeginFile(f, c) ==
  /\ c \in NoTx
  /\ f \notin spilled /\ history[f] = NoRow
  /\ history' = [history EXCEPT ![f] = RecordOf("started", c)]
  /\ UNCHANGED <<effects, settled, spilled>>

\* ... executes its next statement, ...
NextStatement(f) ==
  /\ Unfinished(f)
  /\ Len(effects[f]) < Length(history[f].hash)
  /\ effects' = [effects EXCEPT ![f] =
                   Append(@, <<history[f].hash, Len(@) + 1>>)]
  /\ UNCHANGED <<history, settled, spilled>>

\* ... and is applied once all of them have.
FinishFile(f) ==
  /\ Unfinished(f)
  /\ Len(effects[f]) = Length(history[f].hash)
  /\ history' = [history EXCEPT ![f] = RecordOf("applied", @.hash)]
  /\ UNCHANGED <<effects, settled, spilled>>

\* One that stopped is marked.
FailFile(f) ==
  /\ Unfinished(f)
  /\ history' = [history EXCEPT ![f] = RecordOf("failed", @.hash)]
  /\ UNCHANGED <<effects, settled, spilled>>

\* A person declares an unfinished file complete, or has it start again.
Complete(f, c) ==
  /\ Unfinished(f)
  /\ history' = [history EXCEPT ![f] = RecordOf("applied", c)]
  /\ settled' = settled \cup {f}
  /\ UNCHANGED <<effects, spilled>>

Retry(f) ==
  /\ Unfinished(f)
  /\ history' = [history EXCEPT ![f] = NoRow]
  /\ effects' = [effects EXCEPT ![f] = <<>>]
  /\ UNCHANGED <<settled, spilled>>

\* A person declares the files of a database without a history applied.
Declare(rows) ==
  /\ DOMAIN rows \cap spilled = {}
  /\ \A f \in Names : history[f] = NoRow
  /\ history' = [f \in Names |-> IF f \in DOMAIN rows
                                 THEN RecordOf("applied", rows[f]) ELSE NoRow]
  /\ settled' = settled \cup DOMAIN rows
  /\ UNCHANGED <<effects, spilled>>

\* A script that ends pgc's transaction itself may make changes permanent
\* without a record.  From then on the ledger no longer speaks of its name.
Spill(f) ==
  /\ f \notin spilled
  /\ history' = [history EXCEPT ![f] = NoRow]
  /\ effects' = [effects EXCEPT ![f] = <<>>]
  /\ settled' = settled \ {f}
  /\ spilled' = spilled \cup {f}

Next ==
  \/ \E f \in Names : NextStatement(f) \/ FinishFile(f) \/ FailFile(f)
                      \/ Retry(f) \/ Spill(f)
  \/ \E f \in Names, c \in Contents :
       ApplyAtOnce(f, c) \/ BeginFile(f, c) \/ Complete(f, c)
  \/ \E S \in SUBSET Names : \E rows \in [S -> Contents] : Declare(rows)

Spec == Init /\ [][Next]_ledger

-----------------------------------------------------------------------------
\* The domains of the four variables.
LedgerTypeOK ==
  /\ history \in [Names -> [state : {"applied", "started", "failed"},
                            hash : Contents \cup {AdoptedHash}] \cup {NoRow}]
  /\ effects \in [Names -> Seq(Contents \X Nat)]
  /\ settled \subseteq Names /\ spilled \subseteq Names

\* The history is truthful: no row, no effect; a started or failed row, a
\* prefix of the content's statements; an applied row, exactly all of them.
LedgerFaithful ==
  \A f \in Names \ (settled \cup spilled) :
    LET r == history[f]
    IN  /\ r = NoRow => effects[f] = <<>>
        /\ r # NoRow =>
             \E k \in 0..Length(r.hash) :
               /\ effects[f] = Script(r.hash, k)
               /\ r.state = "applied" => k = Length(r.hash) /\ r.hash \notin EndsTx
=============================================================================
