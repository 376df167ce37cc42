---------------------------- MODULE LedgerProofs ----------------------------
(***************************************************************************)
(* The abstract specification keeps its own promise: in every instance of  *)
(* Ledger the history is truthful about every name nobody vouched for.     *)
(***************************************************************************)
EXTENDS Ledger, TLAPS

Rows == [state : {"applied", "started", "failed"}, hash : Contents \cup {AdoptedHash}]

\* The names the ledger speaks of.
Told == Names \ (settled \cup spilled)

\* Only a no-transaction file is ever begun.  FinishFile needs it: it turns an
\* unfinished row into an applied one, of a content that must not end the
\* transaction.
UnfinishedNoTx == \A f \in Names : Unfinished(f) => history[f].hash \in NoTx

\* A row and the effects of its name agree, as LedgerFaithful has it.
Agree(r, e) ==
  /\ r = NoRow => e = <<>>
  /\ r # NoRow => \E k \in 0..Length(r.hash) :
                    /\ e = Script(r.hash, k)
                    /\ r.state = "applied" => k = Length(r.hash) /\ r.hash \notin EndsTx

LedgerInv == LedgerTypeOK /\ UnfinishedNoTx /\ LedgerFaithful

LEMMA LengthType == ASSUME LedgerConstants, NEW c PROVE Length(c) \in Nat
  BY DEF LedgerConstants, Length

LEMMA ScriptType ==
  ASSUME NEW c \in Contents, NEW k \in Nat
  PROVE  Script(c, k) \in Seq(Contents \X Nat) /\ Len(Script(c, k)) = k
  BY DEF Script

\* One statement more of a prefix is the next prefix.
LEMMA ScriptGrows ==
  ASSUME NEW c \in Contents, NEW k \in Nat
  PROVE  Append(Script(c, k), <<c, k + 1>>) = Script(c, k + 1)
  BY DEF Script

LEMMA EmptyScript == ASSUME NEW c PROVE Script(c, 0) = <<>>
  BY DEF Script

LEMMA RecordType ==
  ASSUME LedgerConstants, NEW c \in Contents \cup {AdoptedHash}, NEW s \in {"applied", "started", "failed"}
  PROVE  /\ RecordOf(s, c) \in Rows /\ RecordOf(s, c) # NoRow
         /\ RecordOf(s, c).state = s /\ RecordOf(s, c).hash = c
  BY DEF LedgerConstants, RecordOf, Rows

LEMMA LedgerInvInit == ASSUME LedgerConstants PROVE Init => LedgerInv
  <1> SUFFICES ASSUME Init PROVE LedgerInv
    OBVIOUS
  <1>1. history \in [Names -> Rows \cup {NoRow}]
    BY RecordType DEF Init
  <1>2. effects \in [Names -> Seq(Contents \X Nat)]
    BY DEF Init
  <1>3. \A f \in Told : history[f] = NoRow /\ effects[f] = <<>>
    BY DEF Init, Told
  <1>4. \A f \in Names : history[f] # NoRow => history[f].state = "applied"
    BY RecordType DEF Init
  <1> QED
    BY <1>1, <1>2, <1>3, <1>4
       DEF LedgerInv, LedgerTypeOK, UnfinishedNoTx, Unfinished, LedgerFaithful, Init, Rows, Told

\* A step that changes at most the name f, and leaves f in agreement or no
\* longer told, keeps the invariant.
LEMMA OneName ==
  ASSUME LedgerInv, LedgerTypeOK', NEW f \in Names,
         \A g \in Names \ {f} : history'[g] = history[g] /\ effects'[g] = effects[g],
         Told' \subseteq Told,
         history'[f] # NoRow /\ history'[f].state # "applied" => history'[f].hash \in NoTx,
         f \in Told' => Agree(history'[f], effects'[f])
  PROVE  LedgerInv'
  <1>1. UnfinishedNoTx'
    BY DEF LedgerInv, UnfinishedNoTx, Unfinished
  <1>2. ASSUME NEW g \in Told' PROVE Agree(history'[g], effects'[g])
    BY <1>2 DEF LedgerInv, LedgerFaithful, Agree, Told
  <1>3. LedgerFaithful'
    BY <1>2 DEF LedgerFaithful, Agree, Told
  <1> QED
    BY <1>1, <1>3 DEF LedgerInv

LEMMA LedgerInvNext ==
  ASSUME LedgerConstants PROVE LedgerInv /\ [Next]_ledger => LedgerInv'
  <1> SUFFICES ASSUME LedgerInv, [Next]_ledger PROVE LedgerInv'
    OBVIOUS
  <1>t. /\ history \in [Names -> Rows \cup {NoRow}]
        /\ effects \in [Names -> Seq(Contents \X Nat)]
        /\ settled \subseteq Names /\ spilled \subseteq Names
    BY DEF LedgerInv, LedgerTypeOK, Rows
  <1>n. ASSUME NEW f \in Names, Unfinished(f)
        PROVE  /\ history[f] \in Rows /\ history[f].hash \in NoTx
               /\ history[f].hash \in Contents \ EndsTx
    BY <1>t, <1>n DEF LedgerConstants, LedgerInv, UnfinishedNoTx, Unfinished
  <1>a. ASSUME NEW f \in Told, Unfinished(f)
        PROVE  \E k \in 0..Length(history[f].hash) : effects[f] = Script(history[f].hash, k)
    BY <1>a DEF LedgerInv, LedgerFaithful, Told, Unfinished
  <1>1. ASSUME NEW f \in Names, NextStatement(f) PROVE LedgerInv'
    <2> DEFINE c == history[f].hash
    <2>1. Unfinished(f) /\ c \in Contents /\ c \in NoTx
      BY <1>1, <1>n DEF NextStatement
    <2>2. effects[f] \in Seq(Contents \X Nat) /\ Len(effects[f]) + 1 \in Nat
      BY <1>t
    <2>3. Append(effects[f], <<c, Len(effects[f]) + 1>>) \in Seq(Contents \X Nat)
      BY <2>1, <2>2
    <2>4. LedgerTypeOK'
      BY <1>1, <1>t, <2>3 DEF NextStatement, LedgerTypeOK, Rows
    <2>5. ASSUME f \in Told' PROVE Agree(history'[f], effects'[f])
      <3>1. f \in Told
        BY <1>1, <2>5 DEF NextStatement, Told
      <3>2. PICK k \in 0..Length(c) : effects[f] = Script(c, k)
        BY <1>a, <2>1, <3>1
      <3>3. k \in Nat /\ Len(effects[f]) = k
        BY <2>1, <3>2, ScriptType, LengthType
      <3>4. k + 1 \in 0..Length(c)
        BY <1>1, <3>2, <3>3, LengthType DEF NextStatement
      <3>5. effects'[f] = Script(c, k + 1)
        BY <1>1, <1>t, <2>1, <3>2, <3>3, ScriptGrows DEF NextStatement
      <3> QED
        BY <1>1, <2>1, <3>4, <3>5 DEF NextStatement, Agree, Unfinished
    <2> QED
      BY <1>1, <1>t, <2>1, <2>4, <2>5, OneName DEF NextStatement, Told
  <1>2. ASSUME NEW f \in Names, FinishFile(f) PROVE LedgerInv'
    <2> DEFINE c == history[f].hash
    <2>1. Unfinished(f) /\ c \in Contents \ EndsTx /\ c \in NoTx
      BY <1>2, <1>n DEF FinishFile
    <2>2. history' = [history EXCEPT ![f] = RecordOf("applied", c)]
      BY <1>2 DEF FinishFile
    <2>3. LedgerTypeOK'
      BY <1>2, <1>t, <2>1, <2>2, RecordType DEF FinishFile, LedgerTypeOK, Rows
    <2>4. /\ history'[f] # NoRow
          /\ history'[f].state = "applied" /\ history'[f].hash = c
      BY <1>t, <2>1, <2>2, RecordType
    <2>5. ASSUME f \in Told' PROVE Agree(history'[f], effects'[f])
      <3>1. PICK k \in 0..Length(c) : effects[f] = Script(c, k)
        BY <1>2, <1>a, <2>1, <2>5 DEF FinishFile, Told
      <3>2. k = Length(c)
        BY <1>2, <2>1, <3>1, ScriptType, LengthType DEF FinishFile
      <3> QED
        BY <1>2, <2>1, <2>4, <3>1, <3>2 DEF FinishFile, Agree
    <2> QED
      BY <1>2, <1>t, <2>1, <2>2, <2>3, <2>4, <2>5, OneName DEF FinishFile, Told
  <1>3. ASSUME NEW f \in Names, FailFile(f) PROVE LedgerInv'
    <2> DEFINE c == history[f].hash
    <2>1. Unfinished(f) /\ c \in Contents \ EndsTx /\ c \in NoTx
      BY <1>3, <1>n DEF FailFile
    <2>2. history' = [history EXCEPT ![f] = RecordOf("failed", c)]
      BY <1>3 DEF FailFile
    <2>3. LedgerTypeOK'
      BY <1>3, <1>t, <2>1, <2>2, RecordType DEF FailFile, LedgerTypeOK, Rows
    <2>4. /\ history'[f] # NoRow
          /\ history'[f].state = "failed" /\ history'[f].hash = c
      BY <1>t, <2>1, <2>2, RecordType
    <2>5. ASSUME f \in Told' PROVE Agree(history'[f], effects'[f])
      <3>1. PICK k \in 0..Length(c) : effects[f] = Script(c, k)
        BY <1>3, <1>a, <2>1, <2>5 DEF FailFile, Told
      <3> QED
        BY <1>3, <2>4, <3>1 DEF FailFile, Agree
    <2> QED
      BY <1>3, <1>t, <2>1, <2>2, <2>3, <2>4, <2>5, OneName DEF FailFile, Told
  <1>4. ASSUME NEW f \in Names, Retry(f) PROVE LedgerInv'
    <2>1. LedgerTypeOK'
      BY <1>4, <1>t DEF Retry, LedgerTypeOK, Rows
    <2>2. history'[f] = NoRow /\ effects'[f] = <<>>
      BY <1>4, <1>t DEF Retry
    <2> QED
      BY <1>4, <1>t, <2>1, <2>2, OneName DEF Retry, Told, Agree
  <1>5. ASSUME NEW f \in Names, Spill(f) PROVE LedgerInv'
    <2>1. LedgerTypeOK'
      BY <1>5, <1>t DEF Spill, LedgerTypeOK, Rows
    <2>2. history'[f] = NoRow /\ f \notin Told' /\ Told' \subseteq Told
      BY <1>5, <1>t DEF Spill, Told
    <2> QED
      BY <1>5, <1>t, <2>1, <2>2, OneName DEF Spill
  <1>6. ASSUME NEW f \in Names, NEW c \in Contents, ApplyAtOnce(f, c) PROVE LedgerInv'
    <2>1. Length(c) = 1 /\ c \notin EndsTx
      BY <1>6 DEF ApplyAtOnce, Length
    <2>2. LedgerTypeOK'
      BY <1>6, <1>t, RecordType, ScriptType DEF ApplyAtOnce, LedgerTypeOK, Rows
    <2>3. /\ history'[f] # NoRow
          /\ history'[f].state = "applied" /\ history'[f].hash = c
          /\ effects'[f] = Script(c, 1)
      BY <1>6, <1>t, RecordType DEF ApplyAtOnce
    <2>4. Agree(history'[f], effects'[f])
      BY <2>1, <2>3 DEF Agree
    <2> QED
      BY <1>6, <1>t, <2>2, <2>3, <2>4, OneName DEF ApplyAtOnce, Told
  <1>7. ASSUME NEW f \in Names, NEW c \in Contents, BeginFile(f, c) PROVE LedgerInv'
    <2>1. LedgerTypeOK'
      BY <1>7, <1>t, RecordType DEF BeginFile, LedgerTypeOK, Rows
    <2>2. /\ history'[f] # NoRow
          /\ history'[f].state = "started" /\ history'[f].hash = c /\ c \in NoTx
      BY <1>7, <1>t, RecordType DEF BeginFile
    <2>3. ASSUME f \in Told' PROVE Agree(history'[f], effects'[f])
      <3>1. effects'[f] = <<>>
        BY <1>7, <2>3 DEF BeginFile, LedgerInv, LedgerFaithful, Told
      <3> QED
        BY <2>2, <3>1, EmptyScript, LengthType DEF Agree
    <2> QED
      BY <1>7, <1>t, <2>1, <2>2, <2>3, OneName DEF BeginFile, Told
  <1>8. ASSUME NEW f \in Names, NEW c \in Contents, Complete(f, c) PROVE LedgerInv'
    <2>1. LedgerTypeOK'
      BY <1>8, <1>t, RecordType DEF Complete, LedgerTypeOK, Rows
    <2>2. history'[f].state = "applied" /\ f \notin Told' /\ Told' \subseteq Told
      BY <1>8, <1>t, RecordType DEF Complete, Told
    <2> QED
      BY <1>8, <1>t, <2>1, <2>2, OneName DEF Complete
  <1>9. ASSUME NEW S \in SUBSET Names, NEW rows \in [S -> Contents], Declare(rows)
        PROVE  LedgerInv'
    <2>1. DOMAIN rows = S /\ \A f \in S : rows[f] \in Contents
      OBVIOUS
    <2>2. LedgerTypeOK'
      BY <1>9, <1>t, <2>1, RecordType DEF Declare, LedgerTypeOK, Rows
    <2>3. \A f \in Names : history'[f] = NoRow \/ history'[f].state = "applied"
      BY <1>9, <2>1, RecordType DEF Declare
    <2>4. \A f \in Told' : history'[f] = history[f] /\ effects'[f] = effects[f] /\ f \in Told
      BY <1>9, <2>1 DEF Declare, Told
    <2>5. LedgerFaithful'
      BY <2>4 DEF LedgerInv, LedgerFaithful, Told
    <2> QED
      BY <2>2, <2>3, <2>5 DEF LedgerInv, UnfinishedNoTx, Unfinished
  <1>10. CASE UNCHANGED ledger
    BY <1>10 DEF ledger, LedgerInv, LedgerTypeOK, UnfinishedNoTx, Unfinished, LedgerFaithful
  <1> QED
    BY <1>1, <1>2, <1>3, <1>4, <1>5, <1>6, <1>7, <1>8, <1>9, <1>10 DEF Next

\* Every reachable state of every instance of the ledger has its variables in
\* their domains.
THEOREM LedgerTyped == ASSUME LedgerConstants PROVE Spec => []LedgerTypeOK
  <1>1. LedgerInv => LedgerTypeOK
    BY DEF LedgerInv
  <1>2. (Init => LedgerInv) /\ (LedgerInv /\ [Next]_ledger => LedgerInv')
    BY LedgerInvInit, LedgerInvNext
  <1> QED
    BY <1>1, <1>2, PTL DEF Spec

\* The promise of the package comment of migrate.go, for every instance: a
\* name without a row had no effect, a started or failed one a prefix of its
\* statements, an applied one exactly all of them.
THEOREM LedgerTruthful == ASSUME LedgerConstants PROVE Spec => []LedgerFaithful
  <1>1. LedgerInv => LedgerFaithful
    BY DEF LedgerInv
  <1>2. (Init => LedgerInv) /\ (LedgerInv /\ [Next]_ledger => LedgerInv')
    BY LedgerInvInit, LedgerInvNext
  <1> QED
    BY <1>1, <1>2, PTL DEF Spec
=============================================================================
