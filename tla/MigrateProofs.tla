---------------------------- MODULE MigrateProofs ----------------------------
(***************************************************************************)
(* Proofs about Migrate, for any number of processes, files, contents and  *)
(* invocations and for every fault.                                        *)
(***************************************************************************)
EXTENDS Migrate, TLAPS

\* Requests about one file of the directory p read.
FileOps == {"fileReset", "begin", "script", "record", "commit", "rollback",
            "started", "statement", "markApplied", "markFailed", "settle"}

\* What a request is about exists: TypeOK alone is not inductive, because the
\* rows that COMMIT and the marks write take their hash from files.
RequestOK ==
  \A p \in Procs :
    /\ req[p].op \in FileOps =>
         req[p].file \in Names /\ files[p][req[p].file] \in Contents
    /\ req[p].op \in {"forget", "baseline"} => req[p].file \in Names
    /\ cmd[p].op \in {"resolve", "baseline"} => cmd[p].name \in Names

TypeInv == TypeOK /\ RequestOK

LEMMA LengthType ==
  ASSUME NEW c \in Contents
  PROVE  Length(c) \in Nat
  BY ContentsAssumption DEF Length

LEMMA ScriptType ==
  ASSUME NEW c \in Contents, NEW k \in Nat
  PROVE  /\ Script(c, k) \in Seq(Contents \X Nat)
         /\ Len(Script(c, k)) = k
  BY DEF Script

LEMMA ConcatType ==
  ASSUME NEW c \in Contents, NEW k \in Nat, NEW s \in Seq(Contents \X Nat)
  PROVE  s \o Script(c, k) \in Seq(Contents \X Nat)
  BY ScriptType

LEMMA AppendType ==
  ASSUME NEW c \in Contents, NEW k \in Nat, NEW s \in Seq(Contents \X Nat)
  PROVE  Append(s, <<c, k>>) \in Seq(Contents \X Nat)
  OBVIOUS

LEMMA UpdateType ==
  ASSUME NEW D, NEW S, NEW g \in [D -> S], NEW f \in D, NEW v \in S
  PROVE  [g EXCEPT ![f] = v] \in [D -> S]
  OBVIOUS

LEMMA RowType ==
  ASSUME NEW s \in States, NEW h \in Contents \cup {AdoptedHash}
  PROVE  RecordOf(s, h) \in Rows
  BY DEF RecordOf, Rows

LEMMA HashType == ASSUME NEW r \in Rows PROVE r.hash \in Contents \cup {AdoptedHash}
  BY DEF Rows

LEMMA InitTypeInv == Init => TypeInv
<1> SUFFICES ASSUME Init PROVE TypeInv
  OBVIOUS
<1> USE ContentsAssumption, ClientAssumption DEF Init
<1>1. history \in [Names -> Rows \cup {NoRow}]
  BY DEF Rows, States, RecordOf
<1>2. effects \in [Names -> Seq(Contents \X Nat)]
  OBVIOUS
<1>3. cmd \in [Procs -> AllCommands] /\ \A p \in Procs : cmd[p].op = "up"
  BY DEF AllCommands, NoCommand
<1>4. /\ req \in [Procs -> [op : Ops, file : Names \cup {0}, stmt : Nat]]
      /\ \A p \in Procs : req[p].op = "none"
  BY DEF Ops, NoRequest
<1>5. /\ files \in [Procs -> [Names -> Contents \cup {NoFile}]]
      /\ seen \in [Procs -> [Names -> Rows \cup {NoRow}]]
  BY DEF NoFiles, NoRows
<1>6. TypeOK
  BY <1>1, <1>2, <1>3, <1>4, <1>5 DEF TypeOK
<1>7. RequestOK
  BY <1>3, <1>4 DEF RequestOK, FileOps
<1> QED
  BY <1>6, <1>7 DEF TypeInv

LEMMA RunScriptType ==
  ASSUME TypeInv, NEW p \in Procs, RunScript(p), UNCHANGED clientVars
  PROVE  TypeInv'
<1> USE DEF TypeInv, TypeOK, Serving
<1> DEFINE f == req[p].file
           c == files[p][f]
<1>1. f \in Names /\ c \in Contents
  BY DEF RunScript, RequestOK, FileOps
<1>2. [effects EXCEPT ![f] = effects[f] \o Script(c, 1)] \in [Names -> Seq(Contents \X Nat)]
  <2>1. effects[f] \in Seq(Contents \X Nat)
    BY <1>1
  <2>2. effects[f] \o Script(c, 1) \in Seq(Contents \X Nat)
    BY <1>1, <2>1, ConcatType
  <2> QED
    BY <1>1, <2>2, UpdateType
<1>3. /\ \/ work' = [work EXCEPT ![p] = "ran"] /\ UNCHANGED <<tx, effects, spilled>>
         \/ /\ tx' = [tx EXCEPT ![p] = "I"]
            /\ effects' = [effects EXCEPT ![f] = effects[f] \o Script(c, 1)]
            /\ spilled' = spilled \cup {f}
            /\ work' = work
      /\ wire' = [wire EXCEPT ![p] = "ok"]
      /\ UNCHANGED <<table, history, settled, files, req, session, found, seen>>
  BY DEF RunScript, Reply, linkVars, resultVars
<1>4. holder' \in Procs \cup {NoProc}
  BY DEF RunScript, DroppedBy
<1>5. UNCHANGED <<dir, edits, starts, cmd, fail, outcome, cancel>>
  BY DEF clientVars
<1>6. TypeOK'
  <2>1. /\ work' \in [Procs -> {"none", "ran", "recorded"}] /\ tx' \in [Procs -> {"I", "T", "E"}]
        /\ wire' \in [Procs -> {"idle", "sent", "ok", "err"}]
    BY <1>3
  <2>2. effects \in [Names -> Seq(Contents \X Nat)] /\ spilled \subseteq Names
    OBVIOUS
  <2> HIDE DEF f, c, Serving
  <2>3. effects' \in [Names -> Seq(Contents \X Nat)]
    BY <1>2, <1>3, <2>2, Zenon
  <2>4. spilled' \subseteq Names
    BY ONLY <1>1, <1>3, <2>2
  <2> QED
    BY <1>3, <1>4, <1>5, <2>1, <2>3, <2>4, Zenon
<1>7. RequestOK'
  BY <1>3, <1>5 DEF RequestOK
<1> QED
  BY <1>6, <1>7

LEMMA ServerTypeInv ==
  ASSUME TypeInv, NEW p \in Procs, Server(p)
  PROVE  TypeInv'
<1> USE NamesAssumption, ContentsAssumption, ValuesAssumption
<1> USE DEF TypeInv, TypeOK, RequestOK, FileOps, Rows, States, Ops, RecordOf,
      dbVars, linkVars, txVars, resultVars, Reply, Serving, InFlight
<1>0. UNCHANGED clientVars
  BY DEF Server
<1> USE <1>0 DEF clientVars
<1>1. CASE Settings(p)
  BY <1>1 DEF Settings
<1>2. CASE GrantLock(p)
  BY <1>2 DEF GrantLock
<1>3. CASE ReleaseLock(p)
  BY <1>3 DEF ReleaseLock
<1>4. CASE CreateTable(p)
  BY <1>4 DEF CreateTable
<1>5. CASE AddStateColumn(p)
  BY <1>5 DEF AddStateColumn
<1>6. CASE Lookup(p)
  <2>1. PICK v \in BOOLEAN : found' = [found EXCEPT ![p] = v]
    BY ONLY <1>6 DEF Lookup
  <2>2. wire' = [wire EXCEPT ![p] = "ok"] /\ UNCHANGED <<dbVars, linkVars, txVars, seen>>
    BY ONLY <1>6, Zenon DEF Lookup, Reply
  <2> QED
    BY <2>1, <2>2
<1>7. CASE SelectHistory(p)
  BY <1>7 DEF SelectHistory, SelectedRows, AllApplied
<1>8. CASE Begin(p)
  BY <1>8 DEF Begin
<1>9. CASE RunScript(p)
  BY <1>9, <1>0, RunScriptType
<1>10. CASE InsertRecord(p)
  BY <1>10 DEF InsertRecord
<1>11. CASE Commit(p)
  <2> DEFINE f == req[p].file
             c == files[p][f]
  <2>1. f \in Names /\ c \in Contents /\ effects[f] \in Seq(Contents \X Nat)
    BY <1>11 DEF Commit
  <2>2. effects[f] \o Script(c, 1) \in Seq(Contents \X Nat)
    BY <2>1, ConcatType
  <2>3. effects' \in [Names -> Seq(Contents \X Nat)]
    BY <1>11, <2>1, <2>2 DEF Commit
  <2> QED
    BY <1>11, <2>3 DEF Commit
<1>12. CASE Rollback(p)
  BY <1>12 DEF Rollback
<1>13. CASE InsertStarted(p)
  BY <1>13 DEF InsertStarted
<1>14. CASE RunStatement(p)
  <2> DEFINE f == req[p].file
             c == files[p][f]
             k == req[p].stmt
  <2>1. f \in Names /\ c \in Contents /\ k \in Nat /\ effects[f] \in Seq(Contents \X Nat)
    BY <1>14 DEF RunStatement
  <2>2. [effects EXCEPT ![f] = Append(effects[f], <<c, k>>)]
          \in [Names -> Seq(Contents \X Nat)]
    BY <2>1, AppendType, UpdateType
  <2>3. effects' = effects \/ effects' = [effects EXCEPT ![f] = Append(effects[f], <<c, k>>)]
    BY <1>14 DEF RunStatement
  <2>4. /\ holder' \in Procs \cup {NoProc}
        /\ tx' \in [Procs -> {"I", "T", "E"}]
        /\ wire' \in [Procs -> {"idle", "sent", "ok", "err"}]
        /\ UNCHANGED <<table, history, settled, spilled, linkVars, work, resultVars>>
    <3>1. /\ wire' = [wire EXCEPT ![p] = "ok"] /\ holder' = DroppedBy(p, c)
          /\ UNCHANGED <<table, history, settled, spilled, linkVars, work, resultVars>>
      BY ONLY <1>14, Zenon DEF RunStatement, Reply
    <3>2. tx' = tx \/ tx' = [tx EXCEPT ![p] = "T"]
      BY ONLY <1>14, Zenon DEF RunStatement
    <3>3. /\ holder \in Procs \cup {NoProc} /\ tx \in [Procs -> {"I", "T", "E"}]
          /\ wire \in [Procs -> {"idle", "sent", "ok", "err"}]
      BY Zenon
    <3>4. holder' \in Procs \cup {NoProc}
      BY ONLY <3>1, <3>3, Zenon DEF DroppedBy
    <3>5. tx' \in [Procs -> {"I", "T", "E"}] /\ wire' \in [Procs -> {"idle", "sent", "ok", "err"}]
      BY ONLY <3>1, <3>2, <3>3
    <3> QED
      BY ONLY <3>1, <3>4, <3>5, Zenon
  <2>5. effects' \in [Names -> Seq(Contents \X Nat)]
    BY <2>2, <2>3
  <2> QED
    BY <2>4, <2>5
<1>15. CASE UpdateState(p)
  <2> DEFINE f == req[p].file
             s == IF req[p].op = "markApplied" THEN "applied" ELSE "failed"
  <2>1. f \in Names
    BY <1>15 DEF UpdateState
  <2>2. history' = [history EXCEPT ![f] = IF history[f] = NoRow THEN NoRow
                                          ELSE RecordOf(s, history[f].hash)]
    BY ONLY <1>15, TypeOK DEF UpdateState, TypeOK
  <2>3. history' \in [Names -> Rows \cup {NoRow}]
    <3> DEFINE row == IF history[f] = NoRow THEN NoRow ELSE RecordOf(s, history[f].hash)
    <3>1. history \in [Names -> Rows \cup {NoRow}] /\ s \in States
      BY Zenon
    <3>2. history[f] \in Rows \cup {NoRow}
      BY ONLY <2>1, <3>1
    <3>3. row \in Rows \cup {NoRow}
      BY ONLY <3>1, <3>2, HashType, RowType, Zenon
    <3> QED
      BY ONLY <2>1, <2>2, <3>1, <3>3, UpdateType, Zenon
  <2>4. wire' = [wire EXCEPT ![p] = "ok"]
        /\ UNCHANGED <<table, holder, effects, settled, spilled, linkVars, txVars, resultVars>>
    BY ONLY <1>15, Zenon DEF UpdateState, Reply
  <2> QED
    BY <2>3, <2>4
<1>16. CASE UpdateSettled(p)
  <2> DEFINE f == req[p].file
  <2>1. f \in Names /\ files[p][f] \in Contents
    BY <1>16 DEF UpdateSettled
  <2>2. history' = [history EXCEPT ![f] = IF history[f] = NoRow THEN NoRow
                                          ELSE RecordOf("applied", files[p][f])]
    BY ONLY <1>16, TypeOK DEF UpdateSettled, TypeOK
  <2>3. history' \in [Names -> Rows \cup {NoRow}] /\ settled \cup {f} \subseteq Names
    <3> DEFINE row == IF history[f] = NoRow THEN NoRow ELSE RecordOf("applied", files[p][f])
    <3>1. history \in [Names -> Rows \cup {NoRow}] /\ settled \subseteq Names /\ "applied" \in States
      BY Zenon
    <3>2. row \in Rows \cup {NoRow}
      BY ONLY <2>1, <3>1, RowType, Zenon
    <3>3. history' \in [Names -> Rows \cup {NoRow}]
      BY ONLY <2>1, <2>2, <3>1, <3>2, UpdateType, Zenon
    <3> QED
      BY ONLY <2>1, <3>1, <3>3
  <2>4. wire' = [wire EXCEPT ![p] = "ok"] /\ settled' = settled \cup {f}
        /\ UNCHANGED <<table, holder, effects, spilled, linkVars, txVars, resultVars>>
    BY ONLY <1>16, Zenon DEF UpdateSettled, Reply
  <2> QED
    BY <2>3, <2>4
<1>17. CASE DeleteRow(p)
  BY <1>17 DEF DeleteRow
<1>18. CASE InsertBaseline(p)
  <2>1. \A f \in Baselined(p) : RecordOf("applied", files[p][f]) \in Rows
    BY DEF Baselined
  <2>2. history' \in [Names -> Rows \cup {NoRow}]
    <3>1. history' = [f \in Names |-> IF f \in Baselined(p)
                                      THEN RecordOf("applied", files[p][f])
                                      ELSE history[f]]
      BY <1>18 DEF InsertBaseline
    <3>2. history \in [Names -> Rows \cup {NoRow}]
      OBVIOUS
    <3> QED
      BY <2>1, <3>1, <3>2 DEF TypeInv
  <2>3. settled' \subseteq Names
    BY <1>18 DEF InsertBaseline, Baselined
  <2> QED
    BY <1>18, <2>2, <2>3 DEF InsertBaseline
<1>19. CASE Errs(p)
  BY <1>19 DEF Errs
<1> QED
  BY <1>1, <1>2, <1>3, <1>4, <1>5, <1>6, <1>7, <1>8, <1>9, <1>10, <1>11, <1>12,
     <1>13, <1>14, <1>15, <1>16, <1>17, <1>18, <1>19
  DEF Server, Serve, Refuse, Conflict, DeadlockVictim, LockTimeout

\* What the file of a request is, under TypeInv.
LEMMA FileFacts ==
  ASSUME TypeInv, NEW p \in Procs
  PROVE  /\ req[p].stmt \in Nat
         /\ req[p].op \in FileOps =>
              req[p].file \in Names /\ files[p][req[p].file] \in Contents
         /\ cmd[p].op \in {"resolve", "baseline"} => cmd[p].name \in Names
  BY DEF TypeInv, TypeOK, RequestOK

\* Requests that are about no particular file, and those that are.
PlainOps == Ops \ (FileOps \cup {"forget", "baseline"})

LEMMA SendType ==
  ASSUME TypeInv, NEW p \in Procs, NEW o \in Ops, NEW f \in Names \cup {0},
         NEW k \in Nat,
         Send(p, o, f, k), Quiet, UNCHANGED files,
         fail' \in [Procs -> BOOLEAN],
         outcome' \in [Procs -> {"none", "ok", "failed"}],
         \/ o \in PlainOps
         \/ o \in FileOps /\ f \in Names /\ files[p][f] \in Contents
         \/ o \in {"forget", "baseline"} /\ f \in Names
  PROVE  TypeInv'
<1>1. TypeOK'
  BY DEF TypeInv, TypeOK, Send, Quiet, dbVars, txVars, resultVars
<1>2. RequestOK'
  BY DEF TypeInv, TypeOK, RequestOK, Send, Quiet, FileOps, PlainOps
<1> QED
  BY <1>1, <1>2 DEF TypeInv

LEMMA ProceedType ==
  ASSUME TypeInv, NEW p \in Procs, NEW o \in Ops, NEW f \in Names \cup {0},
         NEW k \in Nat,
         \/ Proceed(p, o, f, k)
         \/ Send(p, o, f, k) /\ Fails(p) /\ UNCHANGED outcome
         \/ Send(p, o, f, k) /\ UNCHANGED <<fail, outcome>>,
         Quiet, UNCHANGED files,
         \/ o \in PlainOps
         \/ o \in FileOps /\ f \in Names /\ files[p][f] \in Contents
         \/ o \in {"forget", "baseline"} /\ f \in Names
  PROVE  TypeInv'
<1>1. Send(p, o, f, k)
  BY DEF Proceed
<1>2. /\ fail' \in [Procs -> BOOLEAN]
      /\ outcome' \in [Procs -> {"none", "ok", "failed"}]
  BY DEF Proceed, Fails, TypeInv, TypeOK
<1> QED
  BY <1>1, <1>2, SendType

LEMMA UnlockType ==
  ASSUME TypeInv, NEW p \in Procs,
         \/ GiveUp(p)
         \/ Unlock(p) /\ UNCHANGED <<fail, outcome>>,
         Quiet, UNCHANGED files
  PROVE  TypeInv'
<1>1. "unlock" \in PlainOps /\ "unlock" \in Ops
  BY DEF PlainOps, Ops, FileOps
<1> QED
  BY <1>1, ProceedType DEF GiveUp, Unlock

LEMMA LeaveType ==
  ASSUME TypeInv, NEW p \in Procs, NEW b, Leave(p, b), Quiet,
         UNCHANGED <<files, fail>>
  PROVE  TypeInv'
  BY DEF TypeInv, TypeOK, RequestOK, Leave, Quiet, dbVars, txVars, resultVars

LEMMA NextFileType ==
  ASSUME TypeInv, NEW p \in Procs, NEW f \in Names \cup {0}, NextFile(p, f), Quiet,
         UNCHANGED <<files, fail, outcome>>
  PROVE  TypeInv'
<1>1. CASE Unlock(p)
  BY <1>1, UnlockType
<1>2. CASE \E g \in Pending(p, f) : Send(p, "fileReset", g, 0)
  <2>1. PICK g \in Pending(p, f) : Send(p, "fileReset", g, 0)
    BY <1>2
  <2>2. g \in Names /\ files[p][g] \in Contents
    BY DEF Pending, Present, TypeInv, TypeOK
  <2>3. "fileReset" \in Ops /\ "fileReset" \in FileOps
    BY DEF Ops, FileOps
  <2> QED
    BY <2>1, <2>2, <2>3, ProceedType
<1> QED
  BY <1>1, <1>2 DEF NextFile

LEMMA ClientTypeInv ==
  ASSUME TypeInv, NEW p \in Procs, Client(p)
  PROVE  TypeInv'
<1> USE FileFacts, ProceedType, LeaveType, UnlockType, NextFileType
    DEF PlainOps, FileOps, Ops, Got, Answered
<1>1. CASE TimeoutSet(p)
  <2>1. CASE Proceed(p, "lock", 0, 0)
    BY <1>1, <2>1 DEF TimeoutSet
  <2>2. CASE Leave(p, TRUE) /\ UNCHANGED fail
    BY <1>1, <2>2 DEF TimeoutSet
  <2> QED
    BY <1>1, <2>1, <2>2 DEF TimeoutSet
<1>2. CASE Locked(p)
  BY <1>2 DEF Locked, AfterLock
<1>3. CASE LockFailed(p)
  <2>1. CASE Fails(p) /\ Send(p, "resetTimeout", 0, 0) /\ UNCHANGED outcome
    BY <1>3, <2>1 DEF LockFailed
  <2>2. CASE Leave(p, TRUE) /\ UNCHANGED fail
    BY <1>3, <2>2 DEF LockFailed
  <2> QED
    BY <1>3, <2>1, <2>2 DEF LockFailed
<1>4. CASE TimeoutReset(p)
  <2>1. CASE Proceed(p, AfterLock(p), 0, 0)
    BY <1>4, <2>1 DEF TimeoutReset, AfterLock
  <2>2. CASE Leave(p, TRUE) /\ UNCHANGED fail
    BY <1>4, <2>2 DEF TimeoutReset
  <2> QED
    BY <1>4, <2>1, <2>2 DEF TimeoutReset
<1>5. CASE Prepared(p)
  BY <1>5 DEF Prepared
<1>6. CASE Aborted(p)
  BY <1>6 DEF Aborted
<1>7. CASE RunDecides(p)
  BY <1>7 DEF RunDecides
<1>8. CASE StatusDecides(p)
  BY <1>8 DEF StatusDecides
<1>9. CASE ResolveDecides(p)
  <2> DEFINE f == cmd[p].name
  <2>1. CASE GiveUp(p) /\ UNCHANGED files
    BY <1>9, <2>1 DEF ResolveDecides
  <2>3. CASE Proceed(p, "forget", f, 0) /\ UNCHANGED files /\ cmd[p].op = "resolve"
    BY <1>9, <2>3 DEF ResolveDecides
  <2>2. CASE /\ files' = [files EXCEPT ![p][f] = dir[f]]
             /\ Exists(f)
             /\ Proceed(p, "settle", f, 0)
    <3>0. cmd[p].op = "resolve" /\ UNCHANGED cmd
      BY ONLY <1>9, Zenon DEF ResolveDecides, Quiet
    <3>1. f \in Names /\ dir[f] \in Contents
      <4>1. f \in Names
        BY <3>0, Zenon DEF TypeInv, RequestOK
      <4>2. dir \in [Names -> Contents \cup {NoFile}]
        BY Zenon DEF TypeInv, TypeOK
      <4>3. dir[f] # NoFile
        BY ONLY <2>2, Zenon DEF Exists
      <4> QED
        BY ONLY <4>1, <4>2, <4>3
    <3>2. TypeOK'
      BY <1>9, <2>2, <3>1 DEF ResolveDecides, Proceed, Send, Quiet, TypeInv, TypeOK,
         dbVars, txVars, resultVars
    <3>3. RequestOK'
      <4>1. /\ req' = [req EXCEPT ![p] = [op |-> "settle", file |-> f, stmt |-> 0]]
            /\ files' = [files EXCEPT ![p][f] = dir[f]]
        BY ONLY <2>2, Zenon DEF Proceed, Send
      <4>2. /\ req \in [Procs -> [op : Ops, file : Names \cup {0}, stmt : Nat]]
            /\ files \in [Procs -> [Names -> Contents \cup {NoFile}]]
            /\ RequestOK
        BY Zenon DEF TypeInv, TypeOK
      <4>3. /\ req'[p].op = "settle" /\ req'[p].file = f /\ files'[p][f] = dir[f]
            /\ \A q \in Procs \ {p} : req'[q] = req[q] /\ files'[q] = files[q]
        BY ONLY <3>1, <4>1, <4>2, p \in Procs
      <4>4. ASSUME NEW q \in Procs
            PROVE  /\ req'[q].op \in FileOps => req'[q].file \in Names /\ files'[q][req'[q].file] \in Contents
                   /\ req'[q].op \in {"forget", "baseline"} => req'[q].file \in Names
        <5>1. CASE q = p
          BY ONLY <3>1, <4>3, <5>1
        <5>2. CASE q # p
          BY ONLY <4>2, <4>3, <5>2, q \in Procs DEF RequestOK
        <5> QED
          BY <5>1, <5>2
      <4> QED
        BY ONLY <3>0, <4>2, <4>4, Zenon DEF RequestOK
    <3> QED
      BY <3>2, <3>3 DEF TypeInv
  <2> QED
    BY <1>9, <2>1, <2>2, <2>3 DEF ResolveDecides
<1>10. CASE BaselineDecides(p)
  BY <1>10 DEF BaselineDecides
<1>11. CASE Written(p)
  BY <1>11 DEF Written
<1>12. CASE FileReset(p)
  BY <1>12 DEF FileReset
<1>13. CASE Begun(p)
  BY <1>13 DEF Begun
<1>14. CASE Scripted(p)
  BY <1>14 DEF Scripted
<1>15. CASE Inserted(p)
  BY <1>15 DEF Inserted
<1>16. CASE Applied(p)
  BY <1>16 DEF Applied
<1>17. CASE RolledBack(p)
  BY <1>17 DEF RolledBack
<1>18. CASE Stepped(p)
  BY <1>18 DEF Stepped, AfterStatement
<1>19. CASE StatementFailed(p)
  BY <1>19 DEF StatementFailed
<1>20. CASE MarkedFailed(p)
  BY <1>20 DEF MarkedFailed
<1>21. CASE Unlocked(p)
  BY <1>21 DEF Unlocked
<1> QED
  BY <1>1, <1>2, <1>3, <1>4, <1>5, <1>6, <1>7, <1>8, <1>9, <1>10, <1>11, <1>12,
     <1>13, <1>14, <1>15, <1>16, <1>17, <1>18, <1>19, <1>20, <1>21
  DEF Client

LEMMA StartTypeInv ==
  ASSUME TypeInv, NEW p \in Procs, Start(p)
  PROVE  TypeInv'
<1>1. PICK c \in Commands :
        /\ cmd' = [cmd EXCEPT ![p] = c]
        /\ files' = [files EXCEPT ![p] = IF c.op = "resolve" THEN NoFiles ELSE dir]
        /\ req' = [req EXCEPT ![p] = NoRequest]
           \/ req' = [req EXCEPT ![p] = [NoRequest EXCEPT !.op = FirstRequest(c)]]
        /\ session' = [session EXCEPT ![p] = "open"]
           \/ session' = [session EXCEPT ![p] = "orphan"]
        /\ wire' = [wire EXCEPT ![p] = "sent"] \/ wire' = [wire EXCEPT ![p] = "idle"]
        /\ outcome' = [outcome EXCEPT ![p] = "none"]
           \/ outcome' = [outcome EXCEPT ![p] = "failed"]
  BY DEF Start
<1>2. /\ c \in AllCommands
      /\ c.op \in {"resolve", "baseline"} => c.name \in Names
  BY ClientAssumption
<1>3. /\ req' \in [Procs -> [op : Ops, file : Names \cup {0}, stmt : Nat]]
      /\ req'[p].op \in {"none", "exists", "setTimeout", "lock"}
      /\ \A q \in Procs \ {p} : req'[q] = req[q]
  <2>1. PICK o \in {"none", "exists", "setTimeout", "lock"} :
          req' = [req EXCEPT ![p] = [op |-> o, file |-> 0, stmt |-> 0]]
    BY <1>1 DEF NoRequest, FirstRequest
  <2> QED
    BY <2>1 DEF TypeInv, TypeOK, Ops
<1>4. starts' \in 0..MaxStarts
  BY ClientAssumption DEF Start, TypeInv, TypeOK
<1>5. TypeOK'
  <2>1. /\ cmd' \in [Procs -> AllCommands]
        /\ files' \in [Procs -> [Names -> Contents \cup {NoFile}]]
    <3>1. /\ cmd \in [Procs -> AllCommands]
          /\ files \in [Procs -> [Names -> Contents \cup {NoFile}]]
          /\ dir \in [Names -> Contents \cup {NoFile}]
      BY Zenon DEF TypeInv, TypeOK
    <3>2. NoFiles \in [Names -> Contents \cup {NoFile}]
      BY DEF NoFiles
    <3>3. (IF c.op = "resolve" THEN NoFiles ELSE dir) \in [Names -> Contents \cup {NoFile}]
      BY ONLY <3>1, <3>2
    <3>4. files' \in [Procs -> [Names -> Contents \cup {NoFile}]]
      BY <1>1, <3>1, <3>3, UpdateType, Zenon
    <3>5. cmd' \in [Procs -> AllCommands]
      BY <1>1, <1>2, <3>1, UpdateType, Zenon
    <3> QED
      BY <3>4, <3>5
  <2>2. /\ session' \in [Procs -> {"none", "open", "orphan", "closed"}]
        /\ wire' \in [Procs -> {"idle", "sent", "ok", "err"}]
        /\ outcome' \in [Procs -> {"none", "ok", "failed"}]
    <3>1. /\ session \in [Procs -> {"none", "open", "orphan", "closed"}]
          /\ wire \in [Procs -> {"idle", "sent", "ok", "err"}]
          /\ outcome \in [Procs -> {"none", "ok", "failed"}]
      BY Zenon DEF TypeInv, TypeOK
    <3>2. session' \in [Procs -> {"none", "open", "orphan", "closed"}]
      BY ONLY <1>1, <3>1
    <3>3. wire' \in [Procs -> {"idle", "sent", "ok", "err"}]
      BY ONLY <1>1, <3>1
    <3>4. outcome' \in [Procs -> {"none", "ok", "failed"}]
      BY ONLY <1>1, <3>1
    <3> QED
      BY <3>2, <3>3, <3>4
  <2>3. /\ fail' \in [Procs -> BOOLEAN]
        /\ found' \in [Procs -> BOOLEAN]
        /\ cancel' \in [Procs -> {"armed", "sent", "hit", "missed"}]
        /\ seen' \in [Procs -> [Names -> Rows \cup {NoRow}]]
    <3>1. /\ fail' = [fail EXCEPT ![p] = FALSE] /\ cancel' = [cancel EXCEPT ![p] = "armed"]
          /\ found' = [found EXCEPT ![p] = FALSE] /\ seen' = [seen EXCEPT ![p] = NoRows]
      BY Zenon DEF Start
    <3>2. NoRows \in [Names -> Rows \cup {NoRow}]
      BY DEF NoRows
    <3>3. /\ fail \in [Procs -> BOOLEAN] /\ cancel \in [Procs -> {"armed", "sent", "hit", "missed"}]
          /\ found \in [Procs -> BOOLEAN] /\ seen \in [Procs -> [Names -> Rows \cup {NoRow}]]
      BY Zenon DEF TypeInv, TypeOK
    <3> QED
      BY ONLY <3>1, <3>2, <3>3, p \in Procs
  <2>4. UNCHANGED <<table, history, holder, effects, settled, spilled, tx, work, dir, edits>>
    BY DEF Start, dbVars, txVars
  <2> QED
    BY <1>3, <1>4, <2>1, <2>2, <2>3, <2>4 DEF TypeInv, TypeOK
<1>6. RequestOK'
  BY <1>1, <1>2, <1>3 DEF TypeInv, TypeOK, RequestOK, FileOps
<1> QED
  BY <1>5, <1>6 DEF TypeInv

\* The steps that are neither the server's nor a process's own.
LEMMA OtherTypeInv ==
  ASSUME TypeInv,
         NEW p \in Procs,
         \/ Ends(p) \/ Crash(p) \/ Lose(p)
         \/ Interrupt(p) \/ CancelHits(p) \/ CancelMisses(p)
  PROVE  TypeInv'
<1> USE NamesAssumption, ContentsAssumption, ValuesAssumption, ClientAssumption
<1> USE DEF TypeInv, TypeOK, RequestOK, serverVars, clientVars, dbVars, linkVars,
      txVars, resultVars
<1>1. CASE Ends(p)
  BY <1>1 DEF Ends, EndBackend
<1>2. CASE Crash(p)
  BY <1>2 DEF Crash, Gone
<1>3. CASE Lose(p)
  BY <1>3 DEF Lose, Gone
<1>4. CASE Interrupt(p)
  BY <1>4 DEF Interrupt
<1>5. CASE CancelHits(p)
  BY <1>5 DEF CancelHits, Errs, Reply
<1>6. CASE CancelMisses(p)
  BY <1>6 DEF CancelMisses
<1> QED
  BY <1>1, <1>2, <1>3, <1>4, <1>5, <1>6

LEMMA EditTypeInv == TypeInv /\ (Edit \/ UNCHANGED vars) => TypeInv'
<1> USE DEF TypeInv, TypeOK, RequestOK, serverVars, clientVars, dbVars, linkVars,
      txVars, resultVars
<1>1. ASSUME TypeInv, Edit PROVE TypeInv'
  BY <1>1, ClientAssumption DEF Edit
<1>2. ASSUME TypeInv, UNCHANGED vars PROVE TypeInv'
  BY <1>2 DEF vars
<1> QED
  BY <1>1, <1>2

\* Every step keeps the types.
LEMMA NextTypeInv == TypeInv /\ [Next]_vars => TypeInv'
  BY ServerTypeInv, ClientTypeInv, StartTypeInv, OtherTypeInv, EditTypeInv
  DEF Next, Terminated

\* Type correctness, in every instance: each variable stays in its domain and
\* each request about a file is about one p has read.
THEOREM TypeCorrect == Spec => []TypeOK
<1>1. Spec => []TypeInv
  BY InitTypeInv, NextTypeInv, PTL DEF Spec
<1>2. TypeInv => TypeOK
  BY DEF TypeInv
<1> QED
  BY <1>1, <1>2, PTL

-----------------------------------------------------------------------------
(***************************************************************************)
(* Mutual exclusion.  It needs that no migration releases the advisory     *)
(* lock itself (DropsLock = {}); the run DropLock shows what is left       *)
(* without that.  OneAtATime says nothing of the lock, so it is not        *)
(* inductive: LockInv adds that whoever works holds it, and which requests *)
(* a status command, which never takes it, can have in flight.             *)
(***************************************************************************)
LockInv ==
  \A p \in Procs :
    /\ Working(p) => holder = p
    /\ cmd[p].op = "status" => req[p].op \in {"none", "exists", "columns", "history"}
    /\ req[p].op = "exists" => cmd[p].op = "status"

LEMMA SendLock ==
  ASSUME TypeInv, LockInv, NEW p \in Procs, NEW o, NEW f, NEW k,
         Send(p, o, f, k), UNCHANGED <<holder, cmd>>,
         fail' = fail \/ Fails(p),
         session[p] = "open", o # "exists",
         \/ Working(p)
         \/ o = "lock" /\ cmd[p].op # "status"
         \/ o = "resetTimeout" /\ Fails(p) /\ cmd[p].op # "status"
         \/ cmd[p].op = "status" /\ o \in {"columns", "history"}
  PROVE  LockInv'
  BY DEF TypeInv, TypeOK, LockInv, Working, Send, Fails

\* A step that makes nobody work and sends nothing.
LEMMA FrameLock ==
  ASSUME LockInv, UNCHANGED <<holder, cmd, req>>,
         \A q \in Procs : Working(q)' => Working(q)
  PROVE  LockInv'
  BY DEF LockInv

LEMMA LeaveLock ==
  ASSUME TypeInv, LockInv, NEW p \in Procs, NEW b, Leave(p, b),
         session[p] = "open", UNCHANGED <<holder, cmd, fail>>
  PROVE  LockInv'
<1>1. \A q \in Procs : Working(q)' => Working(q)
  BY DEF TypeInv, TypeOK, Working, Leave
<1>2. UNCHANGED req
  BY DEF Leave
<1> QED
  BY <1>1, <1>2, FrameLock

LEMMA ReplyLock ==
  ASSUME TypeInv, LockInv, NEW p \in Procs, NEW a, Reply(p, a),
         wire[p] = "sent", req[p].op # "lock" \/ a # "ok", a # "sent",
         UNCHANGED <<holder, cmd, req, session, fail>>
  PROVE  LockInv'
<1>1. \A q \in Procs : Working(q)' => Working(q)
  BY DEF TypeInv, TypeOK, Working, Reply
<1> QED
  BY <1>1, FrameLock

LEMMA ServerLock ==
  ASSUME TypeInv, LockInv, NEW p \in Procs, Server(p), DropsLock = {}
  PROVE  LockInv'
<1>0. UNCHANGED <<cmd, fail>>
  BY DEF Server, clientVars
<1> USE <1>0, ReplyLock DEF Serving, InFlight, dbVars, linkVars
<1>1. CASE Settings(p)
  BY <1>1 DEF Settings
<1>2. CASE GrantLock(p)
  BY <1>2, ValuesAssumption
  DEF GrantLock, LockInv, Working, Reply, TypeInv, TypeOK
<1>3. CASE ReleaseLock(p)
  BY <1>3 DEF ReleaseLock, LockInv, Working, Reply, TypeInv, TypeOK
<1>4. CASE CreateTable(p)
  BY <1>4 DEF CreateTable
<1>5. CASE AddStateColumn(p)
  BY <1>5 DEF AddStateColumn
<1>6. CASE Lookup(p)
  BY <1>6 DEF Lookup
<1>7. CASE SelectHistory(p)
  BY <1>7 DEF SelectHistory
<1>8. CASE Begin(p)
  BY <1>8 DEF Begin
<1>9. CASE RunScript(p)
  BY <1>9 DEF RunScript, DroppedBy
<1>10. CASE InsertRecord(p)
  BY <1>10 DEF InsertRecord
<1>11. CASE Commit(p)
  BY <1>11 DEF Commit
<1>12. CASE Rollback(p)
  BY <1>12 DEF Rollback
<1>13. CASE InsertStarted(p)
  BY <1>13 DEF InsertStarted
<1>14. CASE RunStatement(p)
  BY <1>14 DEF RunStatement, DroppedBy
<1>15. CASE UpdateState(p)
  BY <1>15 DEF UpdateState
<1>16. CASE UpdateSettled(p)
  BY <1>16 DEF UpdateSettled
<1>17. CASE DeleteRow(p)
  BY <1>17 DEF DeleteRow
<1>18. CASE InsertBaseline(p)
  BY <1>18 DEF InsertBaseline
<1>19. CASE Errs(p) /\ wire[p] = "sent"
  BY <1>19 DEF Errs
<1> QED
  BY <1>1, <1>2, <1>3, <1>4, <1>5, <1>6, <1>7, <1>8, <1>9, <1>10, <1>11, <1>12,
     <1>13, <1>14, <1>15, <1>16, <1>17, <1>18, <1>19
  DEF Server, Serve, Refuse, Conflict, DeadlockVictim, LockTimeout

LEMMA ClientLock ==
  ASSUME TypeInv, LockInv, NEW p \in Procs, Client(p)
  PROVE  LockInv'
<1>0. /\ session[p] = "open"
      /\ UNCHANGED <<holder, cmd>>
  BY DEF Client, TimeoutSet, Locked, LockFailed, TimeoutReset, Prepared, Aborted,
     RunDecides, StatusDecides, ResolveDecides, BaselineDecides, Written, FileReset,
     Begun, Scripted, KeptOpen, Inserted, Applied, RolledBack, Stepped,
     StatementFailed, MarkedFailed, Unlocked, Got, Answered, Quiet, dbVars
<1>1. /\ cmd[p].op = "status" => req[p].op \in {"none", "exists", "columns", "history"}
      /\ req[p].op = "exists" => cmd[p].op = "status"
  BY DEF LockInv
<1>2. req[p].op \notin {"none", "setTimeout", "lock", "resetTimeout", "unlock"}
        /\ cmd[p].op # "status" => Working(p)
  BY <1>0 DEF Working
<1> USE <1>0, <1>1, <1>2, SendLock, LeaveLock
    DEF Got, Answered, Proceed, GiveUp, Unlock, NextFile
<1>3. CASE TimeoutSet(p)
  <2>1. CASE Proceed(p, "lock", 0, 0)
    BY <1>3, <2>1 DEF TimeoutSet
  <2>2. CASE Leave(p, TRUE) /\ UNCHANGED fail
    BY <2>2
  <2> QED
    BY <1>3, <2>1, <2>2 DEF TimeoutSet
<1>4. CASE Locked(p)
  BY <1>4 DEF Locked, AfterLock, Working
<1>5. CASE LockFailed(p)
  <2>1. CASE Fails(p) /\ Send(p, "resetTimeout", 0, 0) /\ UNCHANGED outcome
    BY <1>5, <2>1 DEF LockFailed
  <2>2. CASE Leave(p, TRUE) /\ UNCHANGED fail
    BY <2>2
  <2> QED
    BY <1>5, <2>1, <2>2 DEF LockFailed
<1>6. CASE TimeoutReset(p)
  <2>1. CASE Proceed(p, AfterLock(p), 0, 0) /\ ~fail[p]
    BY <1>6, <2>1 DEF TimeoutReset, AfterLock, Working
  <2>2. CASE Leave(p, TRUE) /\ UNCHANGED fail
    BY <2>2
  <2> QED
    BY <1>6, <2>1, <2>2 DEF TimeoutReset
<1>7. CASE Prepared(p)
  BY <1>7 DEF Prepared
<1>8. CASE Aborted(p)
  BY <1>8 DEF Aborted
<1>9. CASE RunDecides(p)
  BY <1>9 DEF RunDecides
<1>10. CASE StatusDecides(p)
  BY <1>10 DEF StatusDecides
<1>11. CASE ResolveDecides(p)
  BY <1>11 DEF ResolveDecides
<1>12. CASE BaselineDecides(p)
  BY <1>12 DEF BaselineDecides
<1>13. CASE Written(p)
  BY <1>13 DEF Written
<1>14. CASE FileReset(p)
  BY <1>14 DEF FileReset
<1>15. CASE Begun(p)
  BY <1>15 DEF Begun
<1>16. CASE Scripted(p)
  BY <1>16 DEF Scripted
<1>17. CASE Inserted(p)
  BY <1>17 DEF Inserted
<1>18. CASE Applied(p)
  BY <1>18 DEF Applied
<1>19. CASE RolledBack(p)
  BY <1>19 DEF RolledBack
<1>20. CASE Stepped(p)
  BY <1>20 DEF Stepped, AfterStatement
<1>21. CASE StatementFailed(p)
  BY <1>21 DEF StatementFailed
<1>22. CASE MarkedFailed(p)
  BY <1>22 DEF MarkedFailed
<1>23. CASE Unlocked(p)
  BY <1>23 DEF Unlocked
<1> QED
  BY <1>3, <1>4, <1>5, <1>6, <1>7, <1>8, <1>9, <1>10, <1>11, <1>12, <1>13, <1>14,
     <1>15, <1>16, <1>17, <1>18, <1>19, <1>20, <1>21, <1>22, <1>23
  DEF Client

LEMMA StartLock ==
  ASSUME TypeInv, LockInv, NEW p \in Procs, Start(p)
  PROVE  LockInv'
<1>1. PICK c \in Commands, o \in {"none", "exists", "setTimeout", "lock"} :
        /\ cmd' = [cmd EXCEPT ![p] = c]
        /\ req' = [req EXCEPT ![p] = [op |-> o, file |-> 0, stmt |-> 0]]
        /\ c.op = "status" <=> o = "exists"
        /\ \A q \in Procs \ {p} : session'[q] = session[q] /\ wire'[q] = wire[q]
        /\ wire'[p] # "ok"
  <2>1. PICK c \in Commands :
          /\ cmd' = [cmd EXCEPT ![p] = c]
          /\ \/ /\ req' = [req EXCEPT ![p] = [NoRequest EXCEPT !.op = FirstRequest(c)]]
                /\ session' = [session EXCEPT ![p] = "open"]
                /\ wire' = [wire EXCEPT ![p] = "sent"]
             \/ /\ req' = [req EXCEPT ![p] = NoRequest]
                /\ c.op # "status"
                /\ session' = [session EXCEPT ![p] = "orphan"]
                /\ wire' = [wire EXCEPT ![p] = "idle"]
    BY DEF Start, Readable
  <2>2. PICK o \in {"none", "exists", "setTimeout", "lock"} :
          /\ req' = [req EXCEPT ![p] = [op |-> o, file |-> 0, stmt |-> 0]]
          /\ c.op = "status" <=> o = "exists"
    BY <2>1 DEF FirstRequest, NoRequest
  <2>3. /\ \A q \in Procs \ {p} : session'[q] = session[q] /\ wire'[q] = wire[q]
        /\ wire'[p] # "ok"
    BY <2>1 DEF TypeInv, TypeOK
  <2> QED
    BY <2>1, <2>2, <2>3
<1> QED
  BY <1>1 DEF Start, LockInv, Working, TypeInv, TypeOK, dbVars

LEMMA OtherLock ==
  ASSUME TypeInv, LockInv, NEW p \in Procs,
         \/ Ends(p) \/ Crash(p) \/ Lose(p)
         \/ Interrupt(p) \/ CancelHits(p) \/ CancelMisses(p)
  PROVE  LockInv'
<1> USE DEF serverVars, clientVars, dbVars, linkVars
<1>1. CASE Ends(p)
  BY <1>1 DEF Ends, EndBackend, LockInv, Working, TypeInv, TypeOK
<1>2. CASE Gone(p)
  <2>1. \A q \in Procs : Working(q)' => Working(q)
    BY <1>2 DEF Gone, Working, TypeInv, TypeOK
  <2> QED
    BY <1>2, <2>1, FrameLock DEF Gone
<1>3. CASE CancelHits(p)
  BY <1>3, ReplyLock DEF CancelHits, Errs, InFlight
<1>4. CASE UNCHANGED <<serverVars, cmd, fail>>
  <2>1. \A q \in Procs : Working(q)' => Working(q)
    BY <1>4 DEF Working
  <2> QED
    BY <1>4, <2>1, FrameLock
<1> QED
  BY <1>1, <1>2, <1>3, <1>4 DEF Crash, Lose, Interrupt, CancelMisses

LEMMA NextLock ==
  ASSUME TypeInv, LockInv, [Next]_vars, DropsLock = {}
  PROVE  LockInv'
<1>1. CASE Edit \/ UNCHANGED vars
  <2>1. UNCHANGED <<serverVars, cmd, fail>>
    BY <1>1 DEF Edit, vars, clientVars
  <2>2. UNCHANGED <<holder, req>> /\ \A q \in Procs : Working(q)' => Working(q)
    BY <2>1 DEF Working, serverVars, dbVars, linkVars
  <2> QED
    BY <2>1, <2>2, FrameLock
<1> QED
  BY <1>1, ServerLock, ClientLock, StartLock, OtherLock DEF Next, Terminated

\* However many runs, resolves and baselines there are, and whichever of their
\* clients or connections die: at most one backend is past the lock, provided
\* no migration releases advisory locks.
THEOREM MutualExclusion ==
  ASSUME DropsLock = {}
  PROVE  Spec => []OneAtATime
<1>1. Init => TypeInv /\ LockInv
  BY InitTypeInv DEF Init, LockInv, Working, NoRequest, NoCommand
<1>2. TypeInv /\ LockInv /\ [Next]_vars => (TypeInv /\ LockInv)'
  BY NextTypeInv, NextLock
<1>3. LockInv => OneAtATime
  BY DEF LockInv, OneAtATime
<1> QED
  BY <1>1, <1>2, <1>3, PTL DEF Spec

-----------------------------------------------------------------------------
(***************************************************************************)
(* The history is truthful, Migrate implements Ledger, and applied rows    *)
(* are for ever: for every instance in which no migration releases         *)
(* advisory locks.                                                         *)
(***************************************************************************)

Live(p)    == session[p] \in {"open", "orphan"}
Text(p)    == files[p][req[p].file]
Sent(p, o) == req[p].op = o /\ wire[p] = "sent"
Done(p, o) == req[p].op = o /\ wire[p] = "ok"

\* File f is being run with content c, and k of its statements took effect.
Marked(f, c)     == history[f] = RecordOf("started", c)
Running(f, c, k) == Marked(f, c) /\ (f \notin spilled => effects[f] = Script(c, k))

\* What p's control point says of the file it is at, whatever the database.
AtFile(p) ==
  /\ Live(p) =>
       /\ req[p].op \in {"begin", "script", "record", "commit"} => Text(p) \notin NoTx
       /\ req[p].op \in {"started", "statement", "markApplied", "markFailed"} =>
            Text(p) \in NoTx
       /\ Done(p, "script") /\ tx[p] = "T" => Text(p) \notin EndsTx
       /\ req[p].op \in {"record", "commit"} => Text(p) \notin EndsTx
       /\ req[p].op = "started" => req[p].stmt = 0
       /\ req[p].op = "statement" => req[p].stmt \in 1..Length(Text(p))
  /\ work[p] = "recorded" =>
       /\ Live(p)
       /\ \/ Sent(p, "commit") \/ Done(p, "record")
          \/ session[p] = "orphan" /\ req[p].op \in {"record", "commit"}

\* What it says of the database, as long as p is past the lock.
AtDatabase(p) ==
  Working(p) =>
    LET f == req[p].file
        c == Text(p)
        k == req[p].stmt
    IN  /\ req[p].op \in {"columns", "history"} => table = "current"
        /\ Done(p, "alter") => table = "current"
        /\ Done(p, "hasState") /\ found[p] => table = "current"
        /\ Done(p, "columns") => found[p]
        /\ req[p].op = "history" => found[p]
        /\ Done(p, "history") => seen[p] = history
        /\ work[p] = "recorded" => history[f] = NoRow
        /\ Done(p, "started") => Running(f, c, 0)
        /\ Sent(p, "statement") => Running(f, c, k - 1)
        /\ Done(p, "statement") =>
             \/ c \in LeavesOpen /\ k = Length(c) /\ tx[p] = "T" /\ Marked(f, c)
             \/ Running(f, c, k)
        /\ req[p].op = "statement" => Marked(f, c)
        /\ req[p].op = "rollback" /\ c \in NoTx => Marked(f, c)
        /\ Sent(p, "markFailed") => Marked(f, c)
        /\ Sent(p, "markApplied") => Running(f, c, Length(c))
        /\ Sent(p, "settle") \/ Sent(p, "forget") =>
             history[f] # NoRow /\ history[f].state # "applied"
        /\ Sent(p, "baseline") => history = NoRows

SettledApplied == \A f \in settled : history[f] # NoRow /\ history[f].state = "applied"

HistoryInv ==
  /\ \A p \in Procs : AtFile(p) /\ AtDatabase(p)
  /\ SettledApplied
  /\ Faithful

Inv == TypeInv /\ LockInv /\ HistoryInv

database == <<table, history, effects, settled, spilled>>

\* What is q's own: no other process touches it.
Own(q) == <<req[q], files[q], wire[q], session[q], tx[q], work[q], found[q], seen[q],
            cmd[q], fail[q]>>

LEMMA InitHistory == Init => HistoryInv
<1> SUFFICES ASSUME Init PROVE HistoryInv
  OBVIOUS
<1>1. SettledApplied
  BY DEF Init, SettledApplied, RecordOf
<1>2. Faithful
  BY DEF Init, Faithful
<1>3. ASSUME NEW p \in Procs PROVE AtFile(p) /\ AtDatabase(p)
  BY DEF Init, AtFile, AtDatabase, Live, Working
<1> QED
  BY <1>1, <1>2, <1>3 DEF HistoryInv

-----------------------------------------------------------------------------
\* Whoever is not past the lock leaves the database alone, and whoever is, is
\* alone.

\* What p says holds on when its own part does and either it is not past the
\* lock or the database is as it was.
LEMMA StandStill ==
  ASSUME NEW q \in Procs, AtFile(q), AtDatabase(q), Own(q)' = Own(q),
         Working(q) => UNCHANGED database
  PROVE  AtFile(q)' /\ AtDatabase(q)'
<1>1. /\ req'[q] = req[q] /\ files'[q] = files[q] /\ wire'[q] = wire[q]
      /\ session'[q] = session[q] /\ tx'[q] = tx[q] /\ work'[q] = work[q]
      /\ found'[q] = found[q] /\ seen'[q] = seen[q]
      /\ cmd'[q] = cmd[q] /\ fail'[q] = fail[q]
  BY DEF Own
<1>2. AtFile(q)'
  BY <1>1 DEF AtFile, Live, Sent, Done, Text
<1>3. Working(q)' <=> Working(q)
  BY <1>1 DEF Working
<1>4. ASSUME Working(q) PROVE UNCHANGED <<table, history, effects, settled, spilled>>
  BY <1>4 DEF database
<1>5. AtDatabase(q)'
  BY <1>1, <1>3, <1>4 DEF AtDatabase, Sent, Done, Text, Running, Marked
<1> QED
  BY <1>2, <1>5

LEMMA ServerOwn ==
  ASSUME TypeInv, NEW p \in Procs, Server(p), NEW q \in Procs \ {p}
  PROVE  Own(q)' = Own(q)
<1>0. UNCHANGED <<cmd, fail>>
  BY DEF Server, clientVars
<1> USE DEF Own, Reply, linkVars, txVars, resultVars, TypeInv, TypeOK
<1>1. CASE Settings(p)
  BY <1>0, <1>1 DEF Settings
<1>2. CASE GrantLock(p)
  BY <1>0, <1>2 DEF GrantLock
<1>3. CASE ReleaseLock(p)
  BY <1>0, <1>3 DEF ReleaseLock
<1>4. CASE CreateTable(p)
  BY <1>0, <1>4 DEF CreateTable
<1>5. CASE AddStateColumn(p)
  BY <1>0, <1>5 DEF AddStateColumn
<1>6. CASE Lookup(p)
  BY <1>0, <1>6 DEF Lookup
<1>7. CASE SelectHistory(p)
  BY <1>0, <1>7 DEF SelectHistory
<1>8. CASE Begin(p)
  BY <1>0, <1>8 DEF Begin
<1>9. CASE RunScript(p)
  <2>1. wire' = [wire EXCEPT ![p] = "ok"] /\ UNCHANGED <<linkVars, resultVars>>
    BY ONLY <1>9, Zenon DEF RunScript, Reply
  <2>2. work' = work \/ work' = [work EXCEPT ![p] = "ran"]
    BY ONLY <1>9, Zenon DEF RunScript
  <2>3. tx' = tx \/ tx' = [tx EXCEPT ![p] = "I"]
    BY ONLY <1>9, Zenon DEF RunScript
  <2> QED
    BY <1>0, <2>1, <2>2, <2>3
<1>10. CASE InsertRecord(p)
  BY <1>0, <1>10 DEF InsertRecord
<1>11. CASE Commit(p)
  BY <1>0, <1>11 DEF Commit
<1>12. CASE Rollback(p)
  BY <1>0, <1>12 DEF Rollback
<1>13. CASE InsertStarted(p)
  BY <1>0, <1>13 DEF InsertStarted
<1>14. CASE RunStatement(p)
  BY <1>0, <1>14 DEF RunStatement
<1>15. CASE UpdateState(p)
  BY <1>0, <1>15 DEF UpdateState
<1>16. CASE UpdateSettled(p)
  BY <1>0, <1>16 DEF UpdateSettled
<1>17. CASE DeleteRow(p)
  BY <1>0, <1>17 DEF DeleteRow
<1>18. CASE InsertBaseline(p)
  BY <1>0, <1>18 DEF InsertBaseline
<1>19. CASE Errs(p)
  BY <1>0, <1>19 DEF Errs
<1> QED
  BY <1>1, <1>2, <1>3, <1>4, <1>5, <1>6, <1>7, <1>8, <1>9, <1>10, <1>11, <1>12,
     <1>13, <1>14, <1>15, <1>16, <1>17, <1>18, <1>19
  DEF Server, Serve, Refuse, Conflict, DeadlockVictim, LockTimeout

\* Only a backend past the lock writes to the database.
LEMMA WritersWork ==
  ASSUME TypeInv, LockInv, NEW p \in Procs, Server(p), ~Working(p)
  PROVE  UNCHANGED database
<1>1. session[p] \in {"open", "orphan"} =>
        req[p].op \in {"none", "setTimeout", "lock", "resetTimeout", "unlock",
                       "exists", "columns", "history"}
  BY DEF Working, LockInv
<1> USE <1>1 DEF Serving, InFlight, database, dbVars
<1>2. CASE Settings(p) \/ GrantLock(p) \/ ReleaseLock(p) \/ Lookup(p)
           \/ SelectHistory(p) \/ Begin(p) \/ InsertRecord(p) \/ Rollback(p) \/ Errs(p)
  BY <1>2 DEF Settings, GrantLock, ReleaseLock, Lookup, SelectHistory, Begin,
     InsertRecord, Rollback, Errs
<1>3. CASE CreateTable(p) \/ AddStateColumn(p) \/ RunScript(p) \/ Commit(p)
           \/ InsertStarted(p) \/ RunStatement(p) \/ UpdateState(p)
           \/ UpdateSettled(p) \/ DeleteRow(p) \/ InsertBaseline(p)
  BY <1>3 DEF CreateTable, AddStateColumn, RunScript, Commit, InsertStarted,
     RunStatement, UpdateState, UpdateSettled, DeleteRow, InsertBaseline
<1> QED
  BY <1>2, <1>3 DEF Server, Serve, Refuse, Conflict, DeadlockVictim, LockTimeout

LEMMA ServerOthers ==
  ASSUME Inv, NEW p \in Procs, Server(p), NEW q \in Procs \ {p}
  PROVE  AtFile(q)' /\ AtDatabase(q)'
<1>1. Own(q)' = Own(q)
  BY ServerOwn DEF Inv
<1>2. ASSUME Working(q) PROVE UNCHANGED database
  <2>1. ~Working(p)
    BY <1>2 DEF Inv, LockInv
  <2> QED
    BY <2>1, WritersWork DEF Inv
<1> QED
  BY <1>1, <1>2, StandStill DEF Inv, HistoryInv

-----------------------------------------------------------------------------
\* The backend's own steps.

\* Truth(f): what Faithful says of one name.
Truth(f) ==
  f \notin settled =>
    /\ history[f] # NoRow => history[f].hash \notin EndsTx
    /\ f \notin spilled =>
         /\ history[f] = NoRow => effects[f] = <<>>
         /\ history[f] # NoRow =>
              \E k \in 0..Length(history[f].hash) :
                /\ effects[f] = Script(history[f].hash, k)
                /\ history[f].state = "applied" => k = Length(history[f].hash)

LEMMA FaithfulTruth == Faithful <=> \A f \in Names : Truth(f)
  BY DEF Faithful, Truth

\* A step about one file keeps the truth of the others.
LEMMA OneFile ==
  ASSUME TypeInv, Faithful, SettledApplied, NEW f \in Names, Truth(f)',
         \A g \in Names \ {f} : history'[g] = history[g] /\ effects'[g] = effects[g],
         \A g : g # f => (g \in settled <=> g \in settled')
                         /\ (g \in spilled <=> g \in spilled'),
         settled' \subseteq Names,
         f \in settled' => history'[f] # NoRow /\ history'[f].state = "applied"
  PROVE  Faithful' /\ SettledApplied'
<1>1. ASSUME NEW g \in Names \ {f} PROVE Truth(g)'
  <2>1. Truth(g)
    BY FaithfulTruth
  <2>2. /\ history'[g] = history[g] /\ effects'[g] = effects[g]
        /\ g \in settled' <=> g \in settled
        /\ g \in spilled' <=> g \in spilled
    OBVIOUS
  <2> QED
    BY <2>1, <2>2 DEF Truth
<1>2. \A g \in Names : Truth(g)'
  BY <1>1
<1>3. Faithful'
  BY <1>2 DEF Truth, Faithful
<1>4. SettledApplied'
  BY DEF SettledApplied
<1> QED
  BY <1>3, <1>4

LEMMA Unwritten ==
  ASSUME Faithful, SettledApplied, UNCHANGED <<history, effects, settled, spilled>>
  PROVE  Faithful' /\ SettledApplied'
  BY DEF Faithful, SettledApplied

LEMMA RowFields ==
  ASSUME NEW s, NEW c
  PROVE  /\ RecordOf(s, c).state = s /\ RecordOf(s, c).hash = c
         /\ s \in States /\ c \in Contents => RecordOf(s, c) # NoRow
  BY ValuesAssumption DEF RecordOf, States

\* The file a request is about.
LEMMA RequestFile ==
  ASSUME TypeInv, NEW p \in Procs, req[p].op \in FileOps
  PROVE  /\ req[p].file \in Names /\ Text(p) \in Contents
         /\ Length(Text(p)) \in Nat
         /\ effects[req[p].file] \in Seq(Contents \X Nat)
  BY LengthType DEF TypeInv, TypeOK, RequestOK, Text

LEMMA CommitKeeps ==
  ASSUME Inv, NEW p \in Procs, Commit(p)
  PROVE  Faithful' /\ SettledApplied'
<1>0. PICK f \in Names, c \in Contents : f = req[p].file /\ c = Text(p)
  BY RequestFile DEF Inv, Commit, Serving, FileOps
<1>1. /\ Live(p) /\ work[p] = "recorded" /\ Working(p)
      /\ c \notin NoTx /\ c \notin EndsTx
  BY <1>0 DEF Inv, Commit, Serving, Live, HistoryInv, AtFile, Working, LockInv
<1>2. history[f] = NoRow
  BY <1>0, <1>1 DEF Inv, HistoryInv, AtDatabase
<1>3. f \notin settled
  BY <1>2 DEF Inv, HistoryInv, SettledApplied
<1>4. /\ history' = [history EXCEPT ![f] = RecordOf("applied", c)]
      /\ effects' = [effects EXCEPT ![f] = effects[f] \o Script(c, 1)]
      /\ UNCHANGED <<settled, spilled>>
  BY <1>0 DEF Commit, Text
<1>5. /\ history'[f] = RecordOf("applied", c)
      /\ effects'[f] = effects[f] \o Script(c, 1)
      /\ \A g \in Names \ {f} : history'[g] = history[g] /\ effects'[g] = effects[g]
  BY <1>4 DEF Inv, TypeInv, TypeOK
<1>6. f \notin spilled => effects'[f] = Script(c, 1)
  <2>1. f \notin spilled => effects[f] = <<>>
    BY <1>2, <1>3 DEF Inv, HistoryInv, Faithful
  <2>2. Script(c, 1) \in Seq(Contents \X Nat)
    BY ScriptType
  <2>3. <<>> \o Script(c, 1) = Script(c, 1)
    BY <2>2
  <2> QED
    BY <1>5, <2>1, <2>3
<1>7. Length(c) = 1
  BY <1>1 DEF Length
<1>8. history'[f] # NoRow /\ history'[f].hash = c
  BY <1>5, RowFields DEF States
<1>9. Truth(f)'
  <2>1. 1 \in 0..Length(c)
    BY <1>7
  <2> QED
    BY <1>1, <1>4, <1>6, <1>7, <1>8, <2>1 DEF Truth
<1> QED
  BY <1>3, <1>4, <1>5, <1>9, OneFile DEF Inv, HistoryInv, TypeInv, TypeOK

LEMMA RunScriptKeeps ==
  ASSUME Inv, NEW p \in Procs, RunScript(p)
  PROVE  Faithful' /\ SettledApplied'
<1>0. PICK f \in Names, c \in Contents : f = req[p].file /\ c = Text(p)
  BY RequestFile DEF Inv, RunScript, Serving, FileOps
<1>1. UNCHANGED <<history, settled>>
  BY DEF RunScript
<1>2. CASE UNCHANGED <<effects, spilled>>
  BY <1>1, <1>2, Unwritten DEF Inv, HistoryInv
<1>3. CASE /\ effects' = [effects EXCEPT ![f] = effects[f] \o Script(c, 1)]
           /\ spilled' = spilled \cup {f}
  <2>1. Truth(f)'
    BY <1>1, <1>3, FaithfulTruth DEF Truth, Inv, HistoryInv
  <2>2. \A g \in Names \ {f} : history'[g] = history[g] /\ effects'[g] = effects[g]
    BY <1>1, <1>3 DEF Inv, TypeInv, TypeOK
  <2>3. f \in settled' => history'[f] # NoRow /\ history'[f].state = "applied"
    BY <1>1 DEF Inv, HistoryInv, SettledApplied
  <2> QED
    BY <1>1, <1>3, <2>1, <2>2, <2>3, OneFile DEF Inv, HistoryInv, TypeInv, TypeOK
<1> QED
  BY <1>0, <1>2, <1>3 DEF RunScript, Text

LEMMA InsertStartedKeeps ==
  ASSUME Inv, NEW p \in Procs, InsertStarted(p)
  PROVE  /\ Faithful' /\ SettledApplied'
         /\ Running(req[p].file, Text(p), 0)'
<1>0. PICK f \in Names, c \in Contents : f = req[p].file /\ c = Text(p)
  BY RequestFile DEF Inv, InsertStarted, Serving, FileOps
<1>1. history[f] = NoRow /\ f \notin settled
  BY <1>0 DEF Inv, HistoryInv, SettledApplied, InsertStarted
<1>2. /\ history' = [history EXCEPT ![f] = RecordOf("started", c)]
      /\ UNCHANGED <<effects, settled, spilled, req, files>>
  BY <1>0 DEF InsertStarted, Text, linkVars
<1>3. /\ history'[f] = RecordOf("started", c)
      /\ \A g \in Names \ {f} : history'[g] = history[g] /\ effects'[g] = effects[g]
  BY <1>2 DEF Inv, TypeInv, TypeOK
<1>4. f \notin spilled => effects[f] = Script(c, 0)
  <2>1. f \notin spilled => effects[f] = <<>>
    BY <1>1 DEF Inv, HistoryInv, Faithful
  <2>2. Script(c, 0) = <<>>
    BY DEF Script
  <2> QED
    BY <2>1, <2>2
<1>5. 0 \in 0..Length(c) /\ c \notin EndsTx
  BY <1>0, LengthType, ContentsAssumption
  DEF Inv, HistoryInv, AtFile, Live, InsertStarted, Serving
<1>6. Truth(f)'
  BY <1>2, <1>3, <1>4, <1>5, RowFields DEF Truth, States
<1>7. Running(f, c, 0)'
  BY <1>2, <1>3, <1>4 DEF Running, Marked
<1>8. Running(req[p].file, Text(p), 0)'
  BY <1>0, <1>2, <1>7 DEF Text, Running, Marked
<1>9. Faithful' /\ SettledApplied'
  BY <1>1, <1>2, <1>3, <1>6, OneFile DEF Inv, HistoryInv, TypeInv, TypeOK
<1> QED
  BY <1>8, <1>9

LEMMA StatementKeeps ==
  ASSUME Inv, NEW p \in Procs, RunStatement(p)
  PROVE  /\ Faithful' /\ SettledApplied'
         /\ \/ /\ Text(p) \in LeavesOpen /\ req[p].stmt = Length(Text(p))
               /\ tx'[p] = "T"
               /\ Marked(req[p].file, Text(p))'
            \/ Running(req[p].file, Text(p), req[p].stmt)'
<1>0. PICK f \in Names, c \in Contents : f = req[p].file /\ c = Text(p)
  BY RequestFile DEF Inv, RunStatement, Serving, FileOps
<1> DEFINE k == req[p].stmt
<1>1. /\ Working(p) /\ Live(p) /\ Sent(p, "statement")
      /\ Running(f, c, k - 1) /\ k \in 1..Length(c) /\ c \in NoTx
  BY <1>0 DEF Inv, HistoryInv, AtFile, AtDatabase, Live, Sent, RunStatement, Serving,
     Working, LockInv
<1>2. /\ UNCHANGED <<history, settled, spilled, req, files>>
      /\ history[f] = RecordOf("started", c)
  BY <1>1 DEF RunStatement, linkVars, Running, Marked
<1>3. CASE c \in LeavesOpen /\ k = Length(c)
  <2>1. tx' = [tx EXCEPT ![p] = "T"] /\ effects' = effects
    BY <1>0, <1>3 DEF RunStatement, Text
  <2>2. Faithful' /\ SettledApplied'
    BY <1>2, <2>1, Unwritten DEF Inv, HistoryInv
  <2> QED
    BY <1>0, <1>2, <1>3, <2>1, <2>2 DEF Marked, Text, Inv, TypeInv, TypeOK
<1>4. CASE ~(c \in LeavesOpen /\ k = Length(c))
  <2>1. effects' = [effects EXCEPT ![f] = Append(effects[f], <<c, k>>)]
    BY <1>0, <1>4 DEF RunStatement, Text
  <2>2. /\ effects'[f] = Append(effects[f], <<c, k>>)
        /\ \A g \in Names \ {f} : history'[g] = history[g] /\ effects'[g] = effects[g]
    BY <1>2, <2>1 DEF Inv, TypeInv, TypeOK
  <2>3. f \notin spilled => effects'[f] = Script(c, k)
    <3>1. k \in Nat /\ k - 1 \in Nat
      BY <1>1, LengthType
    <3>2. Append(Script(c, k - 1), <<c, k>>) = Script(c, k)
      BY <3>1 DEF Script
    <3> QED
      BY <1>1, <2>2, <3>2 DEF Running
  <2>4. Truth(f)'
    <3>1. k \in 0..Length(c) /\ c \notin EndsTx
      BY <1>1, LengthType, ContentsAssumption
    <3>2. history'[f] # NoRow /\ history'[f].hash = c /\ history'[f].state # "applied"
      BY <1>2, RowFields DEF States
    <3> QED
      BY <1>2, <2>3, <3>1, <3>2 DEF Truth
  <2>5. f \notin settled
    BY <1>2, RowFields DEF Inv, HistoryInv, SettledApplied
  <2>6. Running(f, c, k)'
    BY <1>2, <2>3 DEF Running, Marked
  <2>7. Faithful' /\ SettledApplied'
    BY <1>2, <2>2, <2>4, <2>5, OneFile DEF Inv, HistoryInv, TypeInv, TypeOK
  <2> QED
    BY <1>0, <1>2, <2>6, <2>7 DEF Text, Running, Marked
<1> QED
  BY <1>3, <1>4

LEMMA UpdateStateKeeps ==
  ASSUME Inv, NEW p \in Procs, UpdateState(p)
  PROVE  Faithful' /\ SettledApplied'
<1>0. PICK f \in Names, c \in Contents : f = req[p].file /\ c = Text(p)
  BY RequestFile DEF Inv, UpdateState, Serving, FileOps
<1> DEFINE s == IF req[p].op = "markApplied" THEN "applied" ELSE "failed"
<1>1. /\ Working(p) /\ Live(p) /\ c \in NoTx /\ history[f] = RecordOf("started", c)
      /\ req[p].op = "markApplied" => Running(f, c, Length(c))
  BY <1>0 DEF Inv, HistoryInv, AtFile, AtDatabase, Live, Sent, UpdateState, Serving,
     Working, LockInv, Running, Marked
<1>2. history[f] # NoRow /\ history[f].hash = c /\ history[f].state = "started"
  BY <1>1, RowFields DEF States
<1>3. /\ history' = [history EXCEPT ![f] = RecordOf(s, c)]
      /\ UNCHANGED <<effects, settled, spilled>>
  BY <1>0, <1>2 DEF UpdateState
<1>4. /\ history'[f] = RecordOf(s, c)
      /\ \A g \in Names \ {f} : history'[g] = history[g] /\ effects'[g] = effects[g]
  BY <1>3 DEF Inv, TypeInv, TypeOK
<1>5. f \notin settled
  BY <1>2 DEF Inv, HistoryInv, SettledApplied
<1>6. f \notin spilled => \E k \in 0..Length(c) : effects[f] = Script(c, k)
  BY <1>2, <1>5 DEF Inv, HistoryInv, Faithful
<1>7. Truth(f)'
  <2>1. c \notin EndsTx
    BY <1>1, ContentsAssumption
  <2>2. CASE req[p].op = "markApplied"
    <3>1. Length(c) \in 0..Length(c)
      BY LengthType
    <3> QED
      BY <1>1, <1>3, <1>4, <2>1, <2>2, <3>1, RowFields DEF Truth, States, Running
  <2>3. CASE req[p].op # "markApplied"
    BY <1>3, <1>4, <1>6, <2>1, <2>3, RowFields DEF Truth, States
  <2> QED
    BY <2>2, <2>3
<1> QED
  BY <1>3, <1>4, <1>5, <1>7, OneFile DEF Inv, HistoryInv, TypeInv, TypeOK

LEMMA SettlingKeeps ==
  ASSUME Inv, NEW p \in Procs, UpdateSettled(p) \/ DeleteRow(p)
  PROVE  Faithful' /\ SettledApplied'
<1>0. PICK f \in Names : f = req[p].file
  BY DEF Inv, TypeInv, RequestOK, UpdateSettled, DeleteRow, Serving, FileOps
<1>1. history[f] # NoRow /\ history[f].state # "applied"
  BY <1>0 DEF Inv, HistoryInv, AtDatabase, Sent, UpdateSettled, DeleteRow, Serving,
     Working, LockInv
<1>2. f \notin settled
  BY <1>1 DEF Inv, HistoryInv, SettledApplied
<1>3. CASE UpdateSettled(p)
  <2>1. Text(p) \in Contents
    BY <1>3, RequestFile DEF Inv, UpdateSettled, Serving, FileOps
  <2>2. /\ history' = [history EXCEPT ![f] = RecordOf("applied", Text(p))]
        /\ settled' = settled \cup {f}
        /\ UNCHANGED <<effects, spilled>>
    BY <1>0, <1>1, <1>3 DEF UpdateSettled, Text
  <2>3. /\ history'[f] = RecordOf("applied", Text(p))
        /\ \A g \in Names \ {f} : history'[g] = history[g] /\ effects'[g] = effects[g]
    BY <2>2 DEF Inv, TypeInv, TypeOK
  <2>4. Truth(f)'
    BY <2>2 DEF Truth
  <2>5. history'[f] # NoRow /\ history'[f].state = "applied"
    BY <2>1, <2>3, RowFields DEF States
  <2>6. settled' \subseteq Names
    BY <2>2 DEF Inv, TypeInv, TypeOK
  <2> QED
    BY <2>2, <2>3, <2>4, <2>5, <2>6, OneFile DEF Inv, HistoryInv
<1>4. CASE DeleteRow(p)
  <2>1. /\ history' = [history EXCEPT ![f] = NoRow]
        /\ effects' = [effects EXCEPT ![f] = <<>>]
        /\ UNCHANGED <<settled, spilled>>
    BY <1>0, <1>4 DEF DeleteRow
  <2>2. /\ history'[f] = NoRow /\ effects'[f] = <<>>
        /\ \A g \in Names \ {f} : history'[g] = history[g] /\ effects'[g] = effects[g]
    BY <2>1 DEF Inv, TypeInv, TypeOK
  <2>3. Truth(f)'
    BY <2>2 DEF Truth
  <2> QED
    BY <1>2, <2>1, <2>2, <2>3, OneFile DEF Inv, HistoryInv, TypeInv, TypeOK
<1> QED
  BY <1>3, <1>4

LEMMA InsertBaselineKeeps ==
  ASSUME Inv, NEW p \in Procs, InsertBaseline(p)
  PROVE  Faithful' /\ SettledApplied'
<1>1. history = NoRows
  BY DEF Inv, HistoryInv, AtDatabase, Sent, InsertBaseline, Serving, Working, LockInv
<1>2. settled = {}
  BY <1>1 DEF Inv, HistoryInv, SettledApplied, NoRows, TypeInv, TypeOK
<1>3. Baselined(p) \subseteq Names /\ \A f \in Baselined(p) : files[p][f] \in Contents
  BY DEF Baselined, Inv, TypeInv, TypeOK
<1>4. /\ history' = [f \in Names |-> IF f \in Baselined(p)
                                     THEN RecordOf("applied", files[p][f]) ELSE history[f]]
      /\ settled' = Baselined(p)
      /\ UNCHANGED <<effects, spilled>>
  BY <1>2 DEF InsertBaseline
<1>5. SettledApplied'
  BY <1>3, <1>4, RowFields DEF SettledApplied, States
<1>6. ASSUME NEW f \in Names PROVE Truth(f)'
  <2>1. CASE f \in Baselined(p)
    BY <1>4, <2>1 DEF Truth
  <2>2. CASE f \notin Baselined(p)
    <3>1. Truth(f)
      BY FaithfulTruth DEF Inv, HistoryInv
    <3>2. history'[f] = history[f] /\ effects' = effects /\ spilled' = spilled
      BY <1>4, <2>2
    <3> QED
      BY <1>2, <3>1, <3>2 DEF Truth
  <2> QED
    BY <2>1, <2>2
<1>7. Faithful'
  BY <1>6 DEF Truth, Faithful
<1> QED
  BY <1>5, <1>7

\* Every request keeps the history truthful.
LEMMA ServerKeeps ==
  ASSUME Inv, NEW p \in Procs, Server(p)
  PROVE  Faithful' /\ SettledApplied'
<1>1. CASE UNCHANGED <<history, effects, settled, spilled>>
  BY <1>1, Unwritten DEF Inv, HistoryInv
<1>2. CASE \/ Commit(p) \/ RunScript(p) \/ InsertStarted(p) \/ RunStatement(p)
           \/ UpdateState(p) \/ UpdateSettled(p) \/ DeleteRow(p) \/ InsertBaseline(p)
  BY <1>2, CommitKeeps, RunScriptKeeps, InsertStartedKeeps, StatementKeeps,
     UpdateStateKeeps, SettlingKeeps, InsertBaselineKeeps
<1>3. CASE Settings(p) \/ GrantLock(p) \/ ReleaseLock(p) \/ CreateTable(p)
           \/ AddStateColumn(p) \/ Lookup(p) \/ SelectHistory(p) \/ Begin(p)
           \/ InsertRecord(p) \/ Rollback(p) \/ Errs(p)
  BY <1>1, <1>3 DEF Settings, GrantLock, ReleaseLock, CreateTable, AddStateColumn,
     Lookup, SelectHistory, Begin, InsertRecord, Rollback, Errs, dbVars
<1> QED
  BY <1>2, <1>3 DEF Server, Serve, Refuse, Conflict, DeadlockVictim, LockTimeout

-----------------------------------------------------------------------------
\* What p's control point says, after the server has answered it.

\* An error: what p said of the database it still says.
LEMMA ErrsSelf ==
  ASSUME Inv, NEW p \in Procs, Errs(p), Live(p), wire[p] = "sent", UNCHANGED <<cmd, fail>>
  PROVE  AtFile(p)' /\ AtDatabase(p)'
<1>1. /\ wire'[p] = "err" /\ work'[p] = "none"
      /\ UNCHANGED <<req, files, session, found, seen, cmd, fail>>
      /\ UNCHANGED <<table, history, effects, settled, spilled>>
  BY DEF Errs, Reply, dbVars, linkVars, resultVars, Inv, TypeInv, TypeOK
<1>2. AtFile(p) /\ AtDatabase(p)
  BY DEF Inv, HistoryInv
<1>3. AtFile(p)'
  BY <1>1, <1>2 DEF AtFile, Live, Sent, Done, Text
<1>4. Working(p)' => Working(p)
  BY <1>1 DEF Working
<1>5. AtDatabase(p)'
  BY <1>1, <1>2, <1>4 DEF AtDatabase, Sent, Done, Text, Running, Marked
<1> QED
  BY <1>3, <1>5

\* A success: what the request was sent for has come about.
LEMMA ReplySelf ==
  ASSUME Inv, NEW p \in Procs, Reply(p, "ok"), Live(p), wire[p] = "sent",
         UNCHANGED <<req, files, session, cmd, fail>>,
         work'[p] = "recorded" => req[p].op = "record",
         req[p].op = "script" /\ tx'[p] = "T" => Text(p) \notin EndsTx,
         Working(p) =>
           /\ req[p].op \in {"alter", "columns", "history"} => table' = "current"
           /\ req[p].op = "hasState" /\ found'[p] => table' = "current"
           /\ req[p].op \in {"columns", "history"} => found'[p]
           /\ req[p].op = "history" => seen'[p] = history'
           /\ work'[p] = "recorded" => history'[req[p].file] = NoRow
           /\ req[p].op = "started" => Running(req[p].file, Text(p), 0)'
           /\ req[p].op = "statement" =>
                \/ /\ Text(p) \in LeavesOpen /\ req[p].stmt = Length(Text(p))
                   /\ tx'[p] = "T"
                   /\ Marked(req[p].file, Text(p))'
                \/ Running(req[p].file, Text(p), req[p].stmt)'
           /\ req[p].op = "rollback" /\ Text(p) \in NoTx => Marked(req[p].file, Text(p))'
  PROVE  AtFile(p)' /\ AtDatabase(p)'
<1>1. wire'[p] = "ok" /\ UNCHANGED <<req, files, session, cmd, fail>>
  BY DEF Reply, Inv, TypeInv, TypeOK
<1>2. AtFile(p) /\ AtDatabase(p)
  BY DEF Inv, HistoryInv
<1>3. AtFile(p)'
  BY <1>1, <1>2 DEF AtFile, Live, Sent, Done, Text
<1>4. ASSUME Working(p) PROVE AtDatabase(p)'
  BY <1>1, <1>2, <1>4 DEF AtDatabase, Sent, Done, Text, Running, Marked
<1>5. ASSUME ~Working(p), Working(p)' PROVE AtDatabase(p)'
  <2>1. req[p].op = "lock"
    BY <1>1, <1>5 DEF Working
  <2>2. work'[p] # "recorded"
    BY <2>1
  <2> QED
    BY <1>1, <2>1, <2>2 DEF AtDatabase, Sent, Done
<1>6. ASSUME ~Working(p)' PROVE AtDatabase(p)'
  BY <1>6 DEF AtDatabase
<1> QED
  BY <1>3, <1>4, <1>5, <1>6

LEMMA ServerSelf ==
  ASSUME Inv, NEW p \in Procs, Server(p)
  PROVE  AtFile(p)' /\ AtDatabase(p)'
<1>0. UNCHANGED <<cmd, fail>>
  BY DEF Server, clientVars
<1>1. /\ AtFile(p) /\ AtDatabase(p)
      /\ work[p] = "recorded" /\ wire[p] = "sent" => req[p].op \in {"record", "commit"}
  BY DEF Inv, HistoryInv, AtFile, Sent, Done
<1> USE DEF Serving, Live, dbVars, linkVars, txVars, resultVars
<1>2. CASE Settings(p)
  BY <1>0, <1>1, <1>2, ReplySelf DEF Settings
<1>3. CASE GrantLock(p)
  BY <1>0, <1>1, <1>3, ReplySelf DEF GrantLock
<1>4. CASE ReleaseLock(p)
  BY <1>0, <1>1, <1>4, ReplySelf DEF ReleaseLock
<1>5. CASE CreateTable(p)
  BY <1>0, <1>1, <1>5, ReplySelf DEF CreateTable
<1>6. CASE AddStateColumn(p)
  BY <1>0, <1>1, <1>6, ReplySelf DEF AddStateColumn
<1>7. CASE Lookup(p)
  <2>1. Working(p) => req[p].op # "exists"
    BY DEF Working, Inv, LockInv
  <2>2. Working(p) /\ req[p].op = "columns" => table = "current"
    BY <1>1 DEF AtDatabase
  <2>3. req[p].op \in {"hasState", "columns"} => found'[p] = (table = "current")
    BY <1>7 DEF Lookup, Inv, TypeInv, TypeOK
  <2> QED
    BY <1>0, <1>1, <1>7, <2>1, <2>2, <2>3, ReplySelf DEF Lookup
<1>8. CASE SelectHistory(p)
  <2>1. Working(p) => found[p] /\ table = "current"
    BY <1>1, <1>8 DEF AtDatabase, SelectHistory
  <2>2. Working(p) => seen'[p] = history
    BY <1>8, <2>1 DEF SelectHistory, SelectedRows, Inv, TypeInv, TypeOK
  <2> QED
    BY <1>0, <1>1, <1>8, <2>1, <2>2, ReplySelf DEF SelectHistory
<1>9. CASE Begin(p)
  BY <1>0, <1>1, <1>9, ReplySelf DEF Begin
<1>10. CASE RunScript(p)
  <2>1. tx'[p] = "T" => Text(p) \notin EndsTx
    BY <1>10 DEF RunScript, Text, Inv, TypeInv, TypeOK
  <2>2. work'[p] # "recorded"
    BY <1>1, <1>10 DEF RunScript, Inv, TypeInv, TypeOK
  <2> QED
    BY <1>0, <1>10, <2>1, <2>2, ReplySelf DEF RunScript
<1>11. CASE InsertRecord(p)
  BY <1>0, <1>1, <1>11, ReplySelf DEF InsertRecord
<1>12. CASE Commit(p)
  <2>1. work'[p] # "recorded"
    BY <1>12 DEF Commit, Inv, TypeInv, TypeOK
  <2> QED
    BY <1>0, <1>1, <1>12, <2>1, ReplySelf DEF Commit
<1>13. CASE Rollback(p)
  <2>1. work'[p] # "recorded"
    BY <1>13 DEF Rollback, Inv, TypeInv, TypeOK
  <2>2. Working(p) /\ Text(p) \in NoTx => Marked(req[p].file, Text(p))'
    BY <1>1, <1>13 DEF Rollback, AtDatabase, Marked, Text
  <2> QED
    BY <1>0, <1>13, <2>1, <2>2, ReplySelf DEF Rollback
<1>14. CASE InsertStarted(p)
  BY <1>0, <1>1, <1>14, ReplySelf, InsertStartedKeeps DEF InsertStarted
<1>15. CASE RunStatement(p)
  BY <1>0, <1>1, <1>15, ReplySelf, StatementKeeps DEF RunStatement
<1>16. CASE UpdateState(p)
  BY <1>0, <1>1, <1>16, ReplySelf DEF UpdateState
<1>17. CASE UpdateSettled(p)
  BY <1>0, <1>1, <1>17, ReplySelf DEF UpdateSettled
<1>18. CASE DeleteRow(p)
  BY <1>0, <1>1, <1>18, ReplySelf DEF DeleteRow
<1>19. CASE InsertBaseline(p)
  BY <1>0, <1>1, <1>19, ReplySelf DEF InsertBaseline
<1>20. CASE Errs(p) /\ Live(p) /\ wire[p] = "sent"
  BY <1>0, <1>20, ErrsSelf
<1> QED
  BY <1>2, <1>3, <1>4, <1>5, <1>6, <1>7, <1>8, <1>9, <1>10, <1>11, <1>12,
     <1>13, <1>14, <1>15, <1>16, <1>17, <1>18, <1>19, <1>20
  DEF Server, Serve, Refuse, Conflict, DeadlockVictim, LockTimeout, InFlight

\* What the server does keeps everything.
LEMMA ServerHistory ==
  ASSUME Inv, NEW p \in Procs, Server(p)
  PROVE  HistoryInv'
  BY ServerKeeps, ServerSelf, ServerOthers DEF HistoryInv

-----------------------------------------------------------------------------
\* The client's steps: each sends a request or leaves, and writes nothing.

LEMMA ClientOwn ==
  ASSUME TypeInv, NEW p \in Procs, NEW q \in Procs \ {p}, UNCHANGED <<cmd, txVars, resultVars>>,
         \/ \E o, f, k : Send(p, o, f, k)
         \/ \E b : Leave(p, b),
         fail' = fail \/ Fails(p),
         files' = files \/ \E f, c : files' = [files EXCEPT ![p][f] = c]
  PROVE  Own(q)' = Own(q)
<1>1. req'[q] = req[q] /\ wire'[q] = wire[q] /\ session'[q] = session[q]
  BY DEF Send, Leave, TypeInv, TypeOK
<1>2. fail'[q] = fail[q] /\ files'[q] = files[q]
  BY DEF Fails, TypeInv, TypeOK
<1> QED
  BY <1>1, <1>2 DEF Own, txVars, resultVars

\* Leaving, p says less than before.
LEMMA LeaveSelf ==
  ASSUME Inv, NEW p \in Procs, NEW b, Leave(p, b), session[p] = "open",
         UNCHANGED <<database, files, txVars, resultVars, cmd, fail>>
  PROVE  AtFile(p)' /\ AtDatabase(p)'
<1>1. /\ wire'[p] = "idle" /\ session'[p] = "orphan" /\ req' = req
      /\ UNCHANGED <<table, history, effects, settled, spilled>>
      /\ UNCHANGED <<files, tx, work, found, seen, cmd, fail>>
  BY DEF Leave, Inv, TypeInv, TypeOK, database, txVars, resultVars
<1>2. AtFile(p) /\ AtDatabase(p)
  BY DEF Inv, HistoryInv
<1>3. AtFile(p)'
  BY <1>1, <1>2 DEF AtFile, Live, Sent, Done, Text
<1>4. Working(p)' => Working(p)
  BY <1>1 DEF Working
<1>5. AtDatabase(p)'
  BY <1>1, <1>2, <1>4 DEF AtDatabase, Sent, Done, Text, Running, Marked
<1> QED
  BY <1>3, <1>5

\* What must be so when p sends a request of kind o about file f.
Fit(p, o, f, k) ==
  LET c == files'[p][f]
  IN  /\ o \in {"begin", "script", "record", "commit"} => c \notin NoTx
      /\ o \in {"started", "statement", "markApplied", "markFailed"} => c \in NoTx
      /\ o \in {"record", "commit"} => c \notin EndsTx
      /\ o = "started" => k = 0
      /\ o = "statement" => k \in 1..Length(c)
      /\ work[p] = "recorded" => o = "commit"
      /\ cmd[p].op # "status" =>
           /\ o \in {"columns", "history"} => table = "current"
           /\ o = "history" => found[p]
           /\ work[p] = "recorded" => history[f] = NoRow
           /\ o = "statement" => Marked(f, c) /\ Running(f, c, k - 1)
           /\ o = "rollback" /\ c \in NoTx => Marked(f, c)
           /\ o = "markFailed" => Marked(f, c)
           /\ o = "markApplied" => Running(f, c, Length(c))
           /\ o \in {"settle", "forget"} => history[f] # NoRow /\ history[f].state # "applied"
           /\ o = "baseline" => history = NoRows

LEMMA SendSelf ==
  ASSUME Inv, NEW p \in Procs, NEW o, NEW f, NEW k, Send(p, o, f, k), Fit(p, o, f, k),
         session[p] = "open", UNCHANGED <<database, txVars, resultVars, cmd>>
  PROVE  AtFile(p)' /\ AtDatabase(p)'
<1>1. /\ wire'[p] = "sent" /\ session'[p] = "open"
      /\ req'[p].op = o /\ req'[p].file = f /\ req'[p].stmt = k
      /\ UNCHANGED <<table, history, effects, settled, spilled>>
      /\ UNCHANGED <<tx, work, found, seen, cmd>>
  BY DEF Send, Inv, TypeInv, TypeOK, database, txVars, resultVars
<1>2. Text(p)' = files'[p][f]
  BY <1>1 DEF Text
<1>3. AtFile(p)'
  BY <1>1, <1>2 DEF AtFile, Live, Sent, Done, Fit
<1>4. cmd[p].op = "status" => ~Working(p)'
  BY <1>1 DEF Working
<1>5. AtDatabase(p)'
  BY <1>1, <1>2, <1>4 DEF AtDatabase, Sent, Done, Running, Marked, Fit
<1> QED
  BY <1>3, <1>5

\* Every step of a client is of this form.
Moves(p) ==
  /\ session[p] = "open" /\ wire[p] \in {"ok", "err"}
  /\ UNCHANGED <<database, txVars, resultVars, cmd>>
  /\ \/ (\E o, f, k : Send(p, o, f, k)) /\ UNCHANGED outcome
     \/ \E b : Leave(p, b)
  /\ fail' = fail \/ Fails(p)
  /\ files' = files \/ \E f, c : files' = [files EXCEPT ![p][f] = c]

LEMMA ClientMoves ==
  ASSUME NEW p \in Procs, Client(p)
  PROVE  Moves(p)
<1> USE DEF Moves, Got, Answered, Proceed, GiveUp, Unlock, Quiet, database, dbVars
<1>1. CASE TimeoutSet(p)
  BY <1>1 DEF TimeoutSet
<1>2. CASE Locked(p)
  BY <1>2 DEF Locked
<1>3. CASE LockFailed(p)
  BY <1>3 DEF LockFailed
<1>4. CASE TimeoutReset(p)
  BY <1>4 DEF TimeoutReset
<1>5. CASE Prepared(p)
  BY <1>5 DEF Prepared
<1>6. CASE Aborted(p)
  BY <1>6 DEF Aborted
<1>7. CASE RunDecides(p)
  BY <1>7 DEF RunDecides, NextFile
<1>8. CASE StatusDecides(p)
  BY <1>8 DEF StatusDecides
<1>9. CASE ResolveDecides(p)
  BY <1>9 DEF ResolveDecides
<1>10. CASE BaselineDecides(p)
  BY <1>10 DEF BaselineDecides
<1>11. CASE Written(p)
  BY <1>11 DEF Written
<1>12. CASE FileReset(p)
  BY <1>12 DEF FileReset
<1>13. CASE Begun(p)
  BY <1>13 DEF Begun
<1>14. CASE Scripted(p)
  BY <1>14 DEF Scripted
<1>15. CASE Inserted(p)
  BY <1>15 DEF Inserted
<1>16. CASE Applied(p)
  BY <1>16 DEF Applied, NextFile
<1>17. CASE RolledBack(p)
  BY <1>17 DEF RolledBack
<1>18. CASE Stepped(p)
  BY <1>18 DEF Stepped, AfterStatement
<1>19. CASE StatementFailed(p)
  BY <1>19 DEF StatementFailed
<1>20. CASE MarkedFailed(p)
  BY <1>20 DEF MarkedFailed
<1>21. CASE Unlocked(p)
  BY <1>21 DEF Unlocked
<1> QED
  BY <1>1, <1>2, <1>3, <1>4, <1>5, <1>6, <1>7, <1>8, <1>9, <1>10, <1>11, <1>12,
     <1>13, <1>14, <1>15, <1>16, <1>17, <1>18, <1>19, <1>20, <1>21 DEF Client

LEMMA MoveSelf ==
  ASSUME Inv, NEW p \in Procs, Moves(p),
         \/ \E o, f, k : Send(p, o, f, k) /\ Fit(p, o, f, k)
         \/ (\E b : Leave(p, b)) /\ UNCHANGED <<files, fail>>
  PROVE  AtFile(p)' /\ AtDatabase(p)'
<1>1. CASE \E o, f, k : Send(p, o, f, k) /\ Fit(p, o, f, k)
  BY <1>1, SendSelf DEF Moves
<1>2. CASE (\E b : Leave(p, b)) /\ UNCHANGED <<files, fail>>
  BY <1>2, LeaveSelf DEF Moves
<1> QED
  BY <1>1, <1>2

\* A request that nothing depends on.
LEMMA PlainSelf ==
  ASSUME Inv, NEW p \in Procs, Moves(p), work[p] # "recorded",
         \/ Send(p, "lock", 0, 0) \/ Send(p, "resetTimeout", 0, 0)
         \/ Send(p, "reset", 0, 0) \/ Send(p, "create", 0, 0) \/ Send(p, "unlock", 0, 0)
         \/ Leave(p, TRUE) /\ UNCHANGED <<files, fail>>
  PROVE  AtFile(p)' /\ AtDatabase(p)'
<1>1. ASSUME NEW o \in {"lock", "resetTimeout", "reset", "create", "unlock"}
      PROVE  Fit(p, o, 0, 0)
  BY DEF Fit
<1> QED
  BY <1>1, MoveSelf

LEMMA ClientSelf ==
  ASSUME Inv, NEW p \in Procs, Client(p)
  PROVE  AtFile(p)' /\ AtDatabase(p)'
<1>1. Moves(p) /\ session[p] = "open" /\ wire[p] \in {"ok", "err"} /\ Live(p)
  BY ClientMoves DEF Moves, Live
<1>2. AtFile(p) /\ AtDatabase(p)
  BY DEF Inv, HistoryInv
<1>3. work[p] = "recorded" => req[p].op = "record" /\ wire[p] = "ok"
  BY <1>1, <1>2 DEF AtFile, Sent, Done
<1>4. cmd[p].op # "status"
        /\ req[p].op \notin {"none", "setTimeout", "lock", "resetTimeout", "unlock"}
        => Working(p)
  BY <1>1 DEF Working
<1>5. req[p].op = "exists" => cmd[p].op = "status"
  BY DEF Inv, LockInv
<1> USE <1>1, <1>3, <1>4, <1>5, MoveSelf
    DEF Got, Answered, Proceed, GiveUp, Unlock, Fit, Done
<1>6. CASE TimeoutSet(p)
  BY <1>6, PlainSelf DEF TimeoutSet
<1>7. CASE Locked(p)
  BY <1>7 DEF Locked, AfterLock
<1>8. CASE LockFailed(p)
  BY <1>8, PlainSelf DEF LockFailed
<1>9. CASE TimeoutReset(p)
  BY <1>9, PlainSelf DEF TimeoutReset, AfterLock
<1>10. CASE Prepared(p)
  BY <1>10, <1>2 DEF Prepared, AtDatabase
<1>11. CASE Aborted(p)
  BY <1>11, PlainSelf DEF Aborted
<1>12. CASE RunDecides(p)
  BY <1>12 DEF RunDecides, NextFile
<1>13. CASE StatusDecides(p)
  BY <1>13 DEF StatusDecides
<1>14. CASE ResolveDecides(p)
  <2>1. seen[p] = history
    BY <1>2, <1>14 DEF ResolveDecides, AtDatabase
  <2>2. Resolvable(p, cmd[p].name) =>
          history[cmd[p].name] # NoRow /\ history[cmd[p].name].state # "applied"
    BY <2>1 DEF Resolvable, Recorded
  <2> QED
    BY <1>14, <2>2 DEF ResolveDecides
<1>15. CASE BaselineDecides(p)
  <2>1. seen[p] = history
    BY <1>2, <1>15 DEF BaselineDecides, AtDatabase
  <2>2. HistoryEmpty(p) => history = NoRows
    BY <2>1 DEF HistoryEmpty, Recorded, NoRows, Inv, TypeInv, TypeOK
  <2> QED
    BY <1>15, <2>2 DEF BaselineDecides
<1>16. CASE Written(p)
  BY <1>16 DEF Written
<1>17. CASE FileReset(p)
  BY <1>17 DEF FileReset
<1>18. CASE Begun(p)
  BY <1>18, <1>2 DEF Begun, AtFile, Text
<1>19. CASE Scripted(p)
  BY <1>19, <1>2 DEF Scripted, KeptOpen, AtFile, Text
<1>20. CASE Inserted(p)
  BY <1>20, <1>2 DEF Inserted, AtFile, AtDatabase, Text
<1>21. CASE Applied(p)
  BY <1>21 DEF Applied, NextFile
<1>22. CASE RolledBack(p)
  BY <1>22, <1>2 DEF RolledBack, AtDatabase, Text
<1>23. CASE Stepped(p)
  <2> DEFINE f == req[p].file
             c == files[p][f]
             k == req[p].stmt
  <2>1. /\ c \in NoTx /\ k \in 0..Length(c) /\ cmd[p].op # "status"
        /\ files' = files /\ Marked(f, c) /\ work[p] # "recorded"
        /\ tx[p] = "I" \/ k < Length(c) => Running(f, c, k)
    <3>1. cmd[p].op # "status"
      BY <1>23 DEF Stepped, Inv, LockInv
    <3>2. Text(p) \in NoTx /\ Text(p) = c /\ Length(c) \in Nat
      BY <1>2, <1>23, RequestFile DEF Stepped, AtFile, Text, Inv, FileOps
    <3>3. CASE req[p].op = "started"
      BY <1>2, <1>23, <3>1, <3>2, <3>3 DEF Stepped, AtFile, AtDatabase, Running
    <3>4. CASE req[p].op = "statement"
      BY <1>2, <1>23, <3>1, <3>2, <3>4 DEF Stepped, AtFile, AtDatabase, Running
    <3> QED
      BY <1>23, <3>1, <3>2, <3>3, <3>4 DEF Stepped
  <2>2. CASE k < Length(c) /\ Send(p, "statement", f, k + 1)
    <3>1. Fit(p, "statement", f, k + 1)
      BY <2>1, <2>2, LengthType, ContentsAssumption
    <3> QED
      BY <2>2, <3>1
  <2>3. CASE k = Length(c) /\ tx[p] = "I" /\ Send(p, "markApplied", f, 0)
    <3>1. Fit(p, "markApplied", f, 0)
      BY <2>1, <2>3
    <3> QED
      BY <2>3, <3>1
  <2>4. CASE Send(p, "rollback", f, 0)
    <3>1. Fit(p, "rollback", f, 0)
      BY <2>1, <2>4
    <3> QED
      BY <2>4, <3>1
  <2> QED
    BY <1>23, <2>2, <2>3, <2>4 DEF Stepped, AfterStatement
<1>24. CASE StatementFailed(p)
  BY <1>24, <1>2 DEF StatementFailed, AtFile, AtDatabase, Text
<1>25. CASE MarkedFailed(p)
  BY <1>25 DEF MarkedFailed
<1>26. CASE Unlocked(p)
  BY <1>26 DEF Unlocked
<1> QED
  BY <1>6, <1>7, <1>8, <1>9, <1>10, <1>11, <1>12, <1>13, <1>14, <1>15, <1>16, <1>17,
     <1>18, <1>19, <1>20, <1>21, <1>22, <1>23, <1>24, <1>25, <1>26 DEF Client

LEMMA ClientHistory ==
  ASSUME Inv, NEW p \in Procs, Client(p)
  PROVE  HistoryInv'
<1>1. Moves(p)
  BY ClientMoves
<1>2. ASSUME NEW q \in Procs \ {p} PROVE AtFile(q)' /\ AtDatabase(q)'
  BY <1>1, ClientOwn, StandStill DEF Moves, Inv, HistoryInv
<1>3. Faithful' /\ SettledApplied'
  BY <1>1, Unwritten DEF Moves, database, Inv, HistoryInv
<1> QED
  BY <1>2, <1>3, ClientSelf DEF HistoryInv

-----------------------------------------------------------------------------
\* Everything else.

\* A step that leaves the database and everybody but p alone.
LEMMA ApartFrom ==
  ASSUME Inv, NEW p \in Procs, UNCHANGED database, AtFile(p)' /\ AtDatabase(p)',
         \A q \in Procs \ {p} : Own(q)' = Own(q)
  PROVE  HistoryInv'
<1>1. ASSUME NEW q \in Procs \ {p} PROVE AtFile(q)' /\ AtDatabase(q)'
  BY StandStill DEF Inv, HistoryInv
<1>2. Faithful' /\ SettledApplied'
  BY Unwritten DEF database, Inv, HistoryInv
<1> QED
  BY <1>1, <1>2 DEF HistoryInv

LEMMA StartHistory ==
  ASSUME Inv, NEW p \in Procs, Start(p)
  PROVE  HistoryInv'
<1>1. PICK c \in Commands, o \in {"none", "exists", "setTimeout", "lock"} :
        /\ cmd' = [cmd EXCEPT ![p] = c]
        /\ req' = [req EXCEPT ![p] = [op |-> o, file |-> 0, stmt |-> 0]]
        /\ o = "exists" => c.op = "status"
        /\ \A q \in Procs \ {p} : session'[q] = session[q] /\ wire'[q] = wire[q]
        /\ wire'[p] # "ok"
  <2>1. PICK c \in Commands :
          /\ cmd' = [cmd EXCEPT ![p] = c]
          /\ \/ /\ req' = [req EXCEPT ![p] = [NoRequest EXCEPT !.op = FirstRequest(c)]]
                /\ session' = [session EXCEPT ![p] = "open"]
                /\ wire' = [wire EXCEPT ![p] = "sent"]
             \/ /\ req' = [req EXCEPT ![p] = NoRequest]
                /\ session' = [session EXCEPT ![p] = "orphan"]
                /\ wire' = [wire EXCEPT ![p] = "idle"]
    BY DEF Start
  <2>2. PICK o \in {"none", "exists", "setTimeout", "lock"} :
          /\ req' = [req EXCEPT ![p] = [op |-> o, file |-> 0, stmt |-> 0]]
          /\ o = "exists" => c.op = "status"
    BY <2>1 DEF FirstRequest, NoRequest
  <2>3. /\ \A q \in Procs \ {p} : session'[q] = session[q] /\ wire'[q] = wire[q]
        /\ wire'[p] # "ok"
    BY <2>1 DEF Inv, TypeInv, TypeOK
  <2> QED
    BY <2>1, <2>2, <2>3
<1>2. UNCHANGED database /\ UNCHANGED <<tx, work>>
  BY DEF Start, database, dbVars, txVars
<1>3. req'[p].op = o /\ cmd'[p] = c
  BY <1>1 DEF Inv, TypeInv, TypeOK
<1>4. work'[p] # "recorded"
  BY <1>2 DEF Start, Inv, HistoryInv, AtFile, Live
<1>5. AtFile(p)'
  BY <1>1, <1>3, <1>4 DEF AtFile, Live, Done
<1>6. ~Working(p)'
  BY <1>1, <1>3 DEF Working
<1>7. AtDatabase(p)'
  BY <1>6 DEF AtDatabase
<1>8. ASSUME NEW q \in Procs \ {p} PROVE Own(q)' = Own(q)
  <2>1. req'[q] = req[q] /\ cmd'[q] = cmd[q]
    BY <1>1 DEF Inv, TypeInv, TypeOK
  <2>2. /\ files'[q] = files[q] /\ found'[q] = found[q] /\ seen'[q] = seen[q]
        /\ fail'[q] = fail[q]
    BY DEF Start, Inv, TypeInv, TypeOK
  <2> QED
    BY <1>1, <1>2, <2>1, <2>2 DEF Own
<1> QED
  BY <1>2, <1>5, <1>7, <1>8, ApartFrom

LEMMA GoneHistory ==
  ASSUME Inv, NEW p \in Procs, Gone(p)
  PROVE  HistoryInv'
<1>1. /\ UNCHANGED database
      /\ UNCHANGED <<files, req, tx, work, found, seen, cmd, fail>>
      /\ session' = [session EXCEPT ![p] = "orphan"]
      /\ wire' = [wire EXCEPT ![p] = IF @ = "sent" THEN "sent" ELSE "idle"]
      /\ session[p] = "open"
  BY DEF Gone, database, dbVars, txVars, resultVars
<1>2. ASSUME NEW q \in Procs \ {p} PROVE Own(q)' = Own(q)
  BY <1>1 DEF Own, Inv, TypeInv, TypeOK
<1>3. /\ session'[p] = "orphan"
      /\ wire'[p] = IF wire[p] = "sent" THEN "sent" ELSE "idle"
  BY <1>1 DEF Inv, TypeInv, TypeOK
<1>4. AtFile(p) /\ AtDatabase(p)
  BY DEF Inv, HistoryInv
<1>5. AtFile(p)'
  BY <1>1, <1>3, <1>4 DEF AtFile, Live, Sent, Done, Text
<1>6. Working(p)' => Working(p)
  BY <1>1, <1>3 DEF Working
<1>7. AtDatabase(p)'
  BY <1>1, <1>3, <1>4, <1>6
  DEF AtDatabase, Sent, Done, Text, Running, Marked, database
<1> QED
  BY <1>1, <1>2, <1>5, <1>7, ApartFrom

LEMMA EndsHistory ==
  ASSUME Inv, NEW p \in Procs, Ends(p)
  PROVE  HistoryInv'
<1>1. /\ UNCHANGED database
      /\ UNCHANGED <<files, req, found, seen, cmd, fail>>
      /\ session' = [session EXCEPT ![p] = "closed"]
      /\ wire' = [wire EXCEPT ![p] = "idle"]
      /\ tx' = [tx EXCEPT ![p] = "I"]
      /\ work' = [work EXCEPT ![p] = "none"]
  BY DEF Ends, EndBackend, database, resultVars, clientVars
<1>2. ASSUME NEW q \in Procs \ {p} PROVE Own(q)' = Own(q)
  BY <1>1 DEF Own, Inv, TypeInv, TypeOK
<1>3. session'[p] = "closed" /\ work'[p] = "none"
  BY <1>1 DEF Inv, TypeInv, TypeOK
<1>4. AtFile(p)' /\ AtDatabase(p)'
  BY <1>3 DEF AtFile, AtDatabase, Live, Working
<1> QED
  BY <1>1, <1>2, <1>4, ApartFrom

LEMMA CancelHistory ==
  ASSUME Inv, NEW p \in Procs, CancelHits(p)
  PROVE  HistoryInv'
<1>1. /\ UNCHANGED database /\ UNCHANGED <<req, files, session, found, seen, cmd, fail>>
      /\ Live(p) /\ wire[p] = "sent" /\ Errs(p)
  BY DEF CancelHits, Errs, InFlight, Live, database, dbVars, linkVars, resultVars
<1>2. ASSUME NEW q \in Procs \ {p} PROVE Own(q)' = Own(q)
  BY <1>1 DEF Errs, Reply, Own, Inv, TypeInv, TypeOK
<1> QED
  BY <1>1, <1>2, ErrsSelf, ApartFrom

\* Every step keeps the invariant.
LEMMA NextHistory ==
  ASSUME Inv, [Next]_vars, DropsLock = {}
  PROVE  Inv'
<1>1. ASSUME UNCHANGED <<serverVars, cmd, fail>> PROVE HistoryInv'
  <2>1. UNCHANGED database /\ \A q \in Procs : Own(q)' = Own(q)
    BY <1>1 DEF serverVars, dbVars, linkVars, txVars, resultVars, database, Own
  <2>2. \A q \in Procs : AtFile(q)' /\ AtDatabase(q)'
    BY <2>1, StandStill DEF Inv, HistoryInv
  <2>3. Faithful' /\ SettledApplied'
    BY <2>1, Unwritten DEF database, Inv, HistoryInv
  <2> QED
    BY <2>2, <2>3 DEF HistoryInv
<1>2. ASSUME NEW p \in Procs, Interrupt(p) \/ CancelMisses(p) PROVE HistoryInv'
  <2>1. UNCHANGED serverVars /\ UNCHANGED <<cmd, fail>>
    BY <1>2 DEF Interrupt, CancelMisses
  <2> QED
    BY <1>1, <2>1
<1>3. ASSUME Edit \/ UNCHANGED vars PROVE HistoryInv'
  <2>1. UNCHANGED serverVars /\ UNCHANGED <<cmd, fail>>
    BY <1>3 DEF Edit, vars, clientVars
  <2> QED
    BY <1>1, <2>1
<1>4. HistoryInv'
  BY <1>2, <1>3, ServerHistory, ClientHistory, StartHistory, GoneHistory, EndsHistory,
     CancelHistory
  DEF Next, Terminated, Crash, Lose
<1> QED
  BY <1>4, NextTypeInv, NextLock DEF Inv

LEMMA InvHolds ==
  ASSUME DropsLock = {}
  PROVE  Spec => []Inv
<1>1. Init => Inv
  BY InitTypeInv, InitHistory DEF Inv, Init, LockInv, Working, NoRequest, NoCommand
<1>2. Inv /\ [Next]_vars => Inv'
  BY NextHistory
<1> QED
  BY <1>1, <1>2, PTL DEF Spec

\* The history is truthful: whatever fails, dies, is cancelled or races, an
\* applied row stands for exactly one complete execution of its file, a mark
\* for a prefix, no row for nothing (apply, applyNoTx), provided no migration
\* releases advisory locks.
THEOREM Truthful ==
  ASSUME DropsLock = {}
  PROVE  Spec => []Faithful
<1>1. Inv => Faithful
  BY DEF Inv, HistoryInv
<1> QED
  BY <1>1, InvHolds, PTL

-----------------------------------------------------------------------------
\* The ledger sees neither the writes to a spilled name ...
LEMMA HiddenWrite ==
  ASSUME TypeInv, NEW f \in spilled, UNCHANGED spilled,
         \A g \in Names \ {f} : history'[g] = history[g] /\ effects'[g] = effects[g],
         settled' \ {f} = settled \ {f}
  PROVE  UNCHANGED L!ledger
<1>1. LedgerHistory' = LedgerHistory /\ LedgerEffects' = LedgerEffects
  BY DEF LedgerHistory, LedgerEffects
<1>2. settled' \ spilled' = settled \ spilled
  OBVIOUS
<1> QED
  BY <1>1, <1>2 DEF L!ledger

\* ... nor steps that do not write; the others it sees as they are.
LEMMA NoWrite ==
  ASSUME UNCHANGED <<history, effects, settled, spilled>>
  PROVE  UNCHANGED L!ledger
  BY DEF L!ledger, LedgerHistory, LedgerEffects

LEMMA SeenWrite ==
  ASSUME TypeInv, NEW f \in Names \ spilled, UNCHANGED spilled
  PROVE  /\ LedgerHistory[f] = history[f] /\ LedgerEffects[f] = effects[f]
         /\ \A v : history' = [history EXCEPT ![f] = v]
                     => LedgerHistory' = [LedgerHistory EXCEPT ![f] = v]
         /\ \A v : effects' = [effects EXCEPT ![f] = v]
                     => LedgerEffects' = [LedgerEffects EXCEPT ![f] = v]
         /\ history' = history => LedgerHistory' = LedgerHistory
         /\ effects' = effects => LedgerEffects' = LedgerEffects
         /\ settled' = settled => settled' \ spilled' = settled \ spilled
         /\ settled' = settled \cup {f} =>
              settled' \ spilled' = (settled \ spilled) \cup {f}
<1> USE DEF TypeInv, TypeOK
<1>1. LedgerHistory[f] = history[f] /\ LedgerEffects[f] = effects[f]
  BY DEF LedgerHistory, LedgerEffects
<1>2. ASSUME NEW v, history' = [history EXCEPT ![f] = v]
      PROVE  LedgerHistory' = [LedgerHistory EXCEPT ![f] = v]
  BY <1>2 DEF LedgerHistory
<1>3. ASSUME NEW v, effects' = [effects EXCEPT ![f] = v]
      PROVE  LedgerEffects' = [LedgerEffects EXCEPT ![f] = v]
  BY <1>3 DEF LedgerEffects
<1>4. /\ history' = history => LedgerHistory' = LedgerHistory
      /\ effects' = effects => LedgerEffects' = LedgerEffects
  BY DEF LedgerHistory, LedgerEffects
<1>5. settled' = settled \cup {f} => settled' \ spilled' = (settled \ spilled) \cup {f}
  OBVIOUS
<1> QED
  BY <1>1, <1>2, <1>3, <1>4, <1>5

LEMMA SameOperators ==
  /\ \A c : L!Length(c) = Length(c)
  /\ \A c, k : L!Script(c, k) = Script(c, k)
  /\ \A s, c : L!RecordOf(s, c) = RecordOf(s, c)
  BY DEF L!Length, Length, L!Script, Script, L!RecordOf, RecordOf

\* COMMIT is ApplyAtOnce.
LEMMA CommitLedger ==
  ASSUME Inv, NEW p \in Procs, Commit(p)
  PROVE  [L!Next]_(L!ledger)
<1>0. PICK f \in Names, c \in Contents : f = req[p].file /\ c = Text(p)
  BY RequestFile DEF Inv, Commit, Serving, FileOps
<1>1. /\ history[f] = NoRow /\ c \notin NoTx /\ c \notin EndsTx
      /\ history' = [history EXCEPT ![f] = RecordOf("applied", c)]
      /\ effects' = [effects EXCEPT ![f] = effects[f] \o Script(c, 1)]
      /\ UNCHANGED <<settled, spilled>>
  BY <1>0 DEF Inv, Commit, Serving, Live, HistoryInv, AtFile, AtDatabase, Working,
     LockInv, Text
<1>2. CASE f \in spilled
  BY <1>1, <1>2, HiddenWrite DEF Inv, TypeInv, TypeOK
<1>3. CASE f \notin spilled
  <2>1. effects[f] \o Script(c, 1) = Script(c, 1)
    <3>1. effects[f] = <<>>
      BY <1>1, <1>3 DEF Inv, HistoryInv, Faithful, SettledApplied
    <3>2. Script(c, 1) \in Seq(Contents \X Nat)
      BY ScriptType
    <3> QED
      BY <3>1, <3>2
  <2>2. L!ApplyAtOnce(f, c)
    BY <1>1, <1>3, <2>1, SeenWrite, SameOperators DEF L!ApplyAtOnce, Inv
  <2> QED
    BY <2>2 DEF L!Next
<1> QED
  BY <1>2, <1>3

\* A script that ends the transaction is Spill, once; any other writes nothing.
LEMMA RunScriptLedger ==
  ASSUME Inv, NEW p \in Procs, RunScript(p)
  PROVE  [L!Next]_(L!ledger)
<1>0. PICK f \in Names, c \in Contents : f = req[p].file /\ c = Text(p)
  BY RequestFile DEF Inv, RunScript, Serving, FileOps
<1>1. UNCHANGED <<history, settled>>
  BY DEF RunScript
<1>2. CASE UNCHANGED <<effects, spilled>>
  BY <1>1, <1>2, NoWrite
<1>3. CASE /\ effects' = [effects EXCEPT ![f] = effects[f] \o Script(c, 1)]
           /\ spilled' = spilled \cup {f}
  <2>1. CASE f \in spilled
    <3>1. UNCHANGED spilled
      BY ONLY <1>3, <2>1
    <3>2. \A g \in Names \ {f} : history'[g] = history[g] /\ effects'[g] = effects[g]
      BY <1>1, <1>3 DEF Inv, TypeInv, TypeOK
    <3> QED
      BY <1>1, <2>1, <3>1, <3>2, HiddenWrite DEF Inv
  <2>2. CASE f \notin spilled
    <3>1. LedgerHistory' = [LedgerHistory EXCEPT ![f] = NoRow]
      BY <1>1, <1>3 DEF LedgerHistory
    <3>2. LedgerEffects' = [LedgerEffects EXCEPT ![f] = <<>>]
      BY <1>3 DEF LedgerEffects, Inv, TypeInv, TypeOK
    <3>3. settled' \ spilled' = (settled \ spilled) \ {f}
      BY <1>1, <1>3
    <3>4. L!Spill(f)
      BY <1>3, <2>2, <3>1, <3>2, <3>3 DEF L!Spill
    <3> QED
      BY <3>4 DEF L!Next
  <2> QED
    BY <2>1, <2>2
<1> QED
  BY <1>0, <1>2, <1>3 DEF RunScript, Text

\* The started mark is BeginFile.
LEMMA InsertStartedLedger ==
  ASSUME Inv, NEW p \in Procs, InsertStarted(p)
  PROVE  [L!Next]_(L!ledger)
<1>0. PICK f \in Names, c \in Contents : f = req[p].file /\ c = Text(p)
  BY RequestFile DEF Inv, InsertStarted, Serving, FileOps
<1>1. /\ history[f] = NoRow /\ c \in NoTx
      /\ history' = [history EXCEPT ![f] = RecordOf("started", c)]
      /\ UNCHANGED <<effects, settled, spilled>>
  BY <1>0 DEF InsertStarted, Serving, Text, Inv, HistoryInv, AtFile, Live
<1>2. CASE f \in spilled
  BY <1>1, <1>2, HiddenWrite DEF Inv, TypeInv, TypeOK
<1>3. CASE f \notin spilled
  <2>1. L!BeginFile(f, c)
    BY <1>1, <1>3, SeenWrite, SameOperators DEF L!BeginFile, Inv
  <2> QED
    BY <2>1 DEF L!Next
<1> QED
  BY <1>2, <1>3

\* A statement is NextStatement.
LEMMA StatementLedger ==
  ASSUME Inv, NEW p \in Procs, RunStatement(p)
  PROVE  [L!Next]_(L!ledger)
<1>0. PICK f \in Names, c \in Contents : f = req[p].file /\ c = Text(p)
  BY RequestFile DEF Inv, RunStatement, Serving, FileOps
<1> DEFINE k == req[p].stmt
<1>1. Running(f, c, k - 1) /\ k \in 1..Length(c)
  BY <1>0 DEF Inv, HistoryInv, AtFile, AtDatabase, Live, Sent, RunStatement, Serving,
     Working, LockInv
<1>2. UNCHANGED <<history, settled, spilled>> /\ history[f] = RecordOf("started", c)
  BY <1>1 DEF RunStatement, Running, Marked
<1>3. CASE effects' = effects
  BY <1>2, <1>3, NoWrite
<1>4. CASE effects' = [effects EXCEPT ![f] = Append(effects[f], <<c, k>>)]
  <2>1. CASE f \in spilled
    BY <1>2, <1>4, <2>1, HiddenWrite DEF Inv, TypeInv, TypeOK
  <2>2. CASE f \notin spilled
    <3>1. Len(effects[f]) = k - 1 /\ Len(effects[f]) + 1 = k /\ k - 1 < Length(c)
      <4>1. k \in Nat /\ k - 1 \in Nat /\ k - 1 < Length(c)
        BY <1>1, LengthType
      <4>2. Len(Script(c, k - 1)) = k - 1
        BY <4>1, ScriptType
      <4> QED
        BY <1>1, <2>2, <4>1, <4>2 DEF Running
    <3>2. history[f] # NoRow /\ history[f].state # "applied" /\ history[f].hash = c
      BY <1>2, RowFields DEF States
    <3>3. L!NextStatement(f)
      BY <1>2, <1>4, <2>2, <3>1, <3>2, SeenWrite, SameOperators
      DEF L!NextStatement, L!Unfinished, Inv
    <3> QED
      BY <3>3 DEF L!Next
  <2> QED
    BY <2>1, <2>2
<1> QED
  BY <1>0, <1>3, <1>4 DEF RunStatement, Text

\* The applied and failed marks are FinishFile and FailFile.
LEMMA UpdateStateLedger ==
  ASSUME Inv, NEW p \in Procs, UpdateState(p)
  PROVE  [L!Next]_(L!ledger)
<1>0. PICK f \in Names, c \in Contents : f = req[p].file /\ c = Text(p)
  BY RequestFile DEF Inv, UpdateState, Serving, FileOps
<1> DEFINE s == IF req[p].op = "markApplied" THEN "applied" ELSE "failed"
<1>1. /\ history[f] = RecordOf("started", c)
      /\ req[p].op = "markApplied" => Running(f, c, Length(c))
  BY <1>0 DEF Inv, HistoryInv, AtFile, AtDatabase, Live, Sent, UpdateState, Serving,
     Working, LockInv, Running, Marked
<1>2. history[f] # NoRow /\ history[f].hash = c /\ history[f].state = "started"
  BY <1>1, RowFields DEF States
<1>3. /\ history' = [history EXCEPT ![f] = RecordOf(s, c)]
      /\ UNCHANGED <<effects, settled, spilled>>
  BY <1>0, <1>2 DEF UpdateState
<1>4. CASE f \in spilled
  BY <1>3, <1>4, HiddenWrite DEF Inv, TypeInv, TypeOK
<1>5. CASE f \notin spilled /\ req[p].op = "markApplied"
  <2>1. Len(effects[f]) = Length(c)
    BY <1>1, <1>5, LengthType, ScriptType DEF Running
  <2>2. L!FinishFile(f)
    BY <1>2, <1>3, <1>5, <2>1, SeenWrite, SameOperators
    DEF L!FinishFile, L!Unfinished, Inv
  <2> QED
    BY <2>2 DEF L!Next
<1>6. CASE f \notin spilled /\ req[p].op # "markApplied"
  <2>1. L!FailFile(f)
    BY <1>2, <1>3, <1>6, SeenWrite, SameOperators DEF L!FailFile, L!Unfinished, Inv
  <2> QED
    BY <2>1 DEF L!Next
<1> QED
  BY <1>4, <1>5, <1>6

\* resolve applied is Complete, resolve retry is Retry.
LEMMA SettlingLedger ==
  ASSUME Inv, NEW p \in Procs, UpdateSettled(p) \/ DeleteRow(p)
  PROVE  [L!Next]_(L!ledger)
<1>0. PICK f \in Names : f = req[p].file
  BY DEF Inv, TypeInv, RequestOK, UpdateSettled, DeleteRow, Serving, FileOps
<1>1. history[f] # NoRow /\ history[f].state # "applied"
  BY <1>0 DEF Inv, HistoryInv, AtDatabase, Sent, UpdateSettled, DeleteRow, Serving,
     Working, LockInv
<1>2. CASE UpdateSettled(p)
  <2>1. PICK c \in Contents : c = Text(p)
    BY <1>2, RequestFile DEF Inv, UpdateSettled, Serving, FileOps
  <2>2. /\ history' = [history EXCEPT ![f] = RecordOf("applied", c)]
        /\ settled' = settled \cup {f}
        /\ UNCHANGED <<effects, spilled>>
    BY <1>0, <1>1, <1>2, <2>1 DEF UpdateSettled, Text
  <2>3. CASE f \in spilled
    BY <2>2, <2>3, HiddenWrite DEF Inv, TypeInv, TypeOK
  <2>4. CASE f \notin spilled
    <3>1. L!Complete(f, c)
      BY <1>1, <2>2, <2>4, SeenWrite, SameOperators DEF L!Complete, L!Unfinished, Inv
    <3> QED
      BY <3>1 DEF L!Next
  <2> QED
    BY <2>3, <2>4
<1>3. CASE DeleteRow(p)
  <2>1. /\ history' = [history EXCEPT ![f] = NoRow]
        /\ effects' = [effects EXCEPT ![f] = <<>>]
        /\ UNCHANGED <<settled, spilled>>
    BY <1>0, <1>3 DEF DeleteRow
  <2>2. CASE f \in spilled
    BY <2>1, <2>2, HiddenWrite DEF Inv, TypeInv, TypeOK
  <2>3. CASE f \notin spilled
    <3>1. L!Retry(f)
      BY <1>1, <2>1, <2>3, SeenWrite DEF L!Retry, L!Unfinished, Inv
    <3> QED
      BY <3>1 DEF L!Next
  <2> QED
    BY <2>2, <2>3
<1> QED
  BY <1>2, <1>3

\* baseline is Declare.
LEMMA BaselineLedger ==
  ASSUME Inv, NEW p \in Procs, InsertBaseline(p)
  PROVE  [L!Next]_(L!ledger)
<1> DEFINE S == Baselined(p) \ spilled
           rows == [f \in S |-> files[p][f]]
<1>1. history = NoRows
  BY DEF Inv, HistoryInv, AtDatabase, Sent, InsertBaseline, Serving, Working, LockInv
<1>2. S \in SUBSET Names /\ rows \in [S -> Contents] /\ DOMAIN rows = S
  BY DEF Baselined, Inv, TypeInv, TypeOK
<1>3. /\ history' = [f \in Names |-> IF f \in Baselined(p)
                                     THEN RecordOf("applied", files[p][f]) ELSE history[f]]
      /\ settled' = settled \cup Baselined(p)
      /\ UNCHANGED <<effects, spilled>>
  BY DEF InsertBaseline
<1>4. \A f \in Names : LedgerHistory[f] = NoRow
  BY <1>1 DEF LedgerHistory, NoRows
<1>5. LedgerHistory' = [f \in Names |-> IF f \in S
                                        THEN RecordOf("applied", rows[f]) ELSE NoRow]
  BY <1>1, <1>3 DEF LedgerHistory, NoRows
<1>6. LedgerEffects' = LedgerEffects /\ settled' \ spilled' = (settled \ spilled) \cup S
  BY <1>3 DEF LedgerEffects
<1>7. L!Declare(rows)
  BY <1>2, <1>3, <1>4, <1>5, <1>6, SameOperators DEF L!Declare
<1> QED
  BY <1>2, <1>7 DEF L!Next

\* Every step is one of the ledger's, or none.
LEMMA NextLedger ==
  ASSUME Inv, [Next]_vars
  PROVE  [L!Next]_(L!ledger)
<1>1. ASSUME UNCHANGED database PROVE UNCHANGED L!ledger
  BY <1>1, NoWrite DEF database
<1>2. ASSUME NEW p \in Procs, Server(p) PROVE [L!Next]_(L!ledger)
  <2>1. CASE Settings(p) \/ GrantLock(p) \/ ReleaseLock(p) \/ CreateTable(p)
             \/ AddStateColumn(p) \/ Lookup(p) \/ SelectHistory(p) \/ Begin(p)
             \/ InsertRecord(p) \/ Rollback(p) \/ Errs(p)
    BY <2>1, NoWrite DEF Settings, GrantLock, ReleaseLock, CreateTable, AddStateColumn,
       Lookup, SelectHistory, Begin, InsertRecord, Rollback, Errs, dbVars
  <2> QED
    BY <1>2, <2>1, CommitLedger, RunScriptLedger, InsertStartedLedger, StatementLedger,
       UpdateStateLedger, SettlingLedger, BaselineLedger
    DEF Server, Serve, Refuse, Conflict, DeadlockVictim, LockTimeout
<1>3. ASSUME NEW p \in Procs, Client(p) PROVE UNCHANGED L!ledger
  BY <1>1, <1>3, ClientMoves DEF Moves
<1>4. ASSUME NEW p \in Procs,
             \/ Start(p) \/ Ends(p) \/ Crash(p) \/ Lose(p)
             \/ Interrupt(p) \/ CancelHits(p) \/ CancelMisses(p)
      PROVE  UNCHANGED L!ledger
  BY <1>4, NoWrite DEF Start, Ends, EndBackend, Crash, Lose, Gone, Interrupt, CancelHits,
     Errs, CancelMisses, serverVars, dbVars
<1>5. ASSUME Edit \/ UNCHANGED vars PROVE UNCHANGED L!ledger
  BY <1>5, NoWrite DEF Edit, vars, serverVars, dbVars
<1> QED
  BY <1>2, <1>3, <1>4, <1>5 DEF Next, Terminated

LEMMA InitLedger == Init => L!Init
<1> SUFFICES ASSUME Init PROVE L!Init
  OBVIOUS
<1>1. LedgerHistory = history /\ LedgerEffects = effects /\ settled \ spilled = settled
  BY DEF Init, LedgerHistory, LedgerEffects
<1>2. history \in {[f \in Names |-> NoRow],
                   [f \in Names |-> IF f \in Adopted THEN RecordOf("applied", AdoptedHash)
                                    ELSE NoRow]}
  <2>1. CASE table = "absent"
    BY <2>1 DEF Init
  <2>2. CASE table # "absent"
    BY <2>2 DEF Init
  <2> QED
    BY <2>1, <2>2
<1> QED
  BY <1>1, <1>2, SameOperators DEF Init, L!Init

\* Whatever the requests, failures and races of any number of invocations, the
\* database moves as the ledger says: each file is applied at once, or begun,
\* continued and finished or failed, completed or retried by a person, or
\* declared applied on an empty history - provided no migration releases
\* advisory locks.
THEOREM Implements ==
  ASSUME DropsLock = {}
  PROVE  Spec => ImplementsLedger
<1>1. Inv /\ [Next]_vars => [L!Next]_(L!ledger)
  BY NextLedger
<1> QED
  BY InitLedger, <1>1, InvHolds, PTL DEF Spec, ImplementsLedger, L!Spec

-----------------------------------------------------------------------------
\* No request touches an applied row.
LEMMA ServerForever ==
  ASSUME Inv, NEW p \in Procs, Server(p), NEW g \in Names,
         history[g] # NoRow, history[g].state = "applied"
  PROVE  history'[g] = history[g]
<1>1. history[req[p].file] = NoRow \/ history[req[p].file].state # "applied"
        => req[p].file # g
  OBVIOUS
<1>2. AtFile(p) /\ AtDatabase(p) /\ history \in [Names -> Rows \cup {NoRow}]
  BY DEF Inv, HistoryInv, TypeInv, TypeOK
<1>3. ASSUME NEW o \in {"commit", "markApplied", "markFailed", "settle", "forget",
                        "baseline"}, Serving(p, o)
      PROVE  Working(p) /\ Live(p) /\ Sent(p, o)
  BY <1>3 DEF Serving, Live, Sent, Working, Inv, LockInv
<1> USE <1>1, <1>2
<1>4. CASE Commit(p)
  BY <1>3, <1>4 DEF Commit, AtDatabase
<1>5. CASE InsertStarted(p)
  BY <1>5 DEF InsertStarted
<1>6. CASE UpdateState(p)
  <2>1. history[req[p].file].state = "started"
    BY <1>3, <1>6, RowFields
    DEF UpdateState, AtDatabase, Sent, Running, Marked, States
  <2> QED
    BY <1>6, <2>1 DEF UpdateState
<1>7. CASE UpdateSettled(p)
  BY <1>3, <1>7 DEF UpdateSettled, AtDatabase
<1>8. CASE DeleteRow(p)
  BY <1>3, <1>8 DEF DeleteRow, AtDatabase
<1>9. CASE InsertBaseline(p)
  BY <1>3, <1>9 DEF InsertBaseline, AtDatabase, NoRows
<1>10. CASE UNCHANGED history
  BY <1>10
<1> QED
  BY <1>4, <1>5, <1>6, <1>7, <1>8, <1>9, <1>10
  DEF Server, Serve, Refuse, Conflict, DeadlockVictim, LockTimeout, Errs,
      Settings, GrantLock, ReleaseLock, CreateTable, AddStateColumn, Lookup,
      SelectHistory, Begin, RunScript, InsertRecord, Rollback, RunStatement, dbVars

LEMMA NextForever ==
  ASSUME Inv, [Next]_vars, NEW g \in Names, history[g] # NoRow, history[g].state = "applied"
  PROVE  history'[g] = history[g]
<1>1. ASSUME NEW p \in Procs, Server(p) PROVE history'[g] = history[g]
  BY <1>1, ServerForever
<1>2. ASSUME NEW p \in Procs, Client(p) PROVE UNCHANGED history
  BY <1>2, ClientMoves DEF Moves, database
<1>3. ASSUME NEW p \in Procs,
             \/ Start(p) \/ Ends(p) \/ Crash(p) \/ Lose(p)
             \/ Interrupt(p) \/ CancelHits(p) \/ CancelMisses(p)
      PROVE  UNCHANGED history
  BY <1>3 DEF Start, Ends, EndBackend, Crash, Lose, Gone, Interrupt, CancelHits,
     Errs, CancelMisses, serverVars, dbVars
<1>4. ASSUME Edit \/ UNCHANGED vars PROVE UNCHANGED history
  BY <1>4 DEF Edit, vars, serverVars, dbVars
<1> QED
  BY <1>1, <1>2, <1>3, <1>4 DEF Next, Terminated

\* A row once applied is never changed or removed (resolve, baseline and the
\* marks of a run write where they read, some requests earlier, that they may).
THEOREM Forever ==
  ASSUME DropsLock = {}
  PROVE  Spec => AppliedForever
<1> DEFINE Keeps == \A f \in Names :
             history[f] # NoRow /\ history[f].state = "applied" => history'[f] = history[f]
<1>1. Inv /\ [Next]_vars => [Keeps]_vars
  BY NextForever
<1> QED
  BY <1>1, InvHolds, PTL DEF Spec, AppliedForever

-----------------------------------------------------------------------------
(***************************************************************************)
(* What a run reports, and in which order it works.  HistoryInv does not   *)
(* look beyond the file in hand; RunInv adds the rest of the directory:    *)
(* what is behind that file is applied, what is ahead has no row.          *)
(***************************************************************************)
\* The requests of a run about one file.
RunOps == FileOps \ {"settle"}

IsApplied(f) == history[f] # NoRow /\ history[f].state = "applied"
Finished(p)  == \A g \in Present(files[p]) : IsApplied(g)

\* At file f, whatever p's directory has before f and whatever p found recorded
\* is applied, and what is left to do after f has no row.
Behind(p, f) == \A g \in Present(files[p]) : g < f \/ g \in Recorded(p) => IsApplied(g)
Ahead(p, f)  == \A g \in Pending(p, f) : history[g] = NoRow

\* The file in hand has no row before its mark or its COMMIT is executed.
Unrecorded(p) ==
  \/ req[p].op \in {"fileReset", "begin", "script", "record"}
  \/ Sent(p, "commit")
  \/ Sent(p, "started")

\* How far p's run is, while its request is about a file.
InRun(p) ==
  LET f == req[p].file
  IN  req[p].op \in RunOps =>
        /\ cmd[p].op = "up"
        /\ f \in Pending(p, 0)
        /\ Behind(p, f) /\ Ahead(p, f)
        /\ req[p].op \in {"rollback", "markFailed"} => fail[p]
        /\ Unrecorded(p) => history[f] = NoRow
        /\ Done(p, "commit") \/ Done(p, "markApplied") => IsApplied(f)

\* Only its own command sends a request that writes for a person.
AsCommanded(p) ==
  /\ req[p].op \in {"settle", "forget"} => cmd[p].op = "resolve"
  /\ req[p].op = "settle" => cmd[p].to = "applied"
  /\ req[p].op = "baseline" => cmd[p].op = "baseline"

\* What p is about to report, and what it has reported.
Reports(p) ==
  cmd[p].op = "up" =>
    /\ Live(p) /\ req[p].op = "unlock" /\ ~fail[p] => Finished(p)
    /\ outcome[p] = "ok" => Finished(p)

AtRun(p) ==
  /\ cmd[p].op # "up" => cmd[p] \in Commands
  /\ Live(p) => InRun(p) /\ AsCommanded(p)
  /\ Reports(p)

RunInv == \A p \in Procs : AtRun(p)

\* Rows that are applied stay so.
Stays == \A g \in Names : IsApplied(g) => IsApplied(g)'

LEMMA NextStays ==
  ASSUME Inv, [Next]_vars
  PROVE  Stays
  BY NextForever DEF Stays, IsApplied

LEMMA FinishedStays ==
  ASSUME Stays, NEW p \in Procs, files'[p] = files[p], Finished(p)
  PROVE  Finished(p)'
  BY DEF Stays, Finished, Present

LEMMA BehindStays ==
  ASSUME Stays, NEW p \in Procs, NEW f, files'[p] = files[p], seen'[p] = seen[p], Behind(p, f)
  PROVE  Behind(p, f)'
  BY DEF Stays, Behind, Present, Recorded

\* What p says stays true as long as nobody but p works.
LEMMA RunStandsStill ==
  ASSUME Inv, RunInv, Stays, NEW q \in Procs, Own(q)' = Own(q), outcome'[q] = outcome[q],
         Working(q) => UNCHANGED database
  PROVE  AtRun(q)'
<1>1. /\ req'[q] = req[q] /\ files'[q] = files[q] /\ wire'[q] = wire[q]
      /\ session'[q] = session[q] /\ seen'[q] = seen[q]
      /\ cmd'[q] = cmd[q] /\ fail'[q] = fail[q]
  BY DEF Own
<1>2. AtRun(q)
  BY DEF RunInv
<1>3. Live(q)' <=> Live(q)
  BY <1>1 DEF Live
<1>4. ASSUME Live(q) PROVE InRun(q)'
  <2>1. InRun(q)
    BY <1>2, <1>4 DEF AtRun
  <2>2. req[q].op \in RunOps => Working(q)
    BY <1>4, <2>1 DEF InRun, Working, Live, RunOps, FileOps
  <2>3. req[q].op \in RunOps => history' = history
    BY <2>2 DEF database
  <2> QED
    BY <1>1, <2>1, <2>3, BehindStays
    DEF InRun, Ahead, Pending, Present, Recorded, Unrecorded, Sent, Done, IsApplied
<1>5. AsCommanded(q) => AsCommanded(q)'
  BY <1>1 DEF AsCommanded
<1>6. Reports(q)'
  BY <1>1, <1>2, <1>3, FinishedStays DEF AtRun, Reports
<1> QED
  BY <1>1, <1>2, <1>3, <1>4, <1>5, <1>6 DEF AtRun

\* What a reply changes besides what it is the reply to.
LEMMA ServerFrame ==
  ASSUME Inv, NEW p \in Procs, Server(p)
  PROVE  /\ Live(p) /\ wire[p] = "sent" /\ wire'[p] \in {"ok", "err"}
         /\ UNCHANGED <<req, files, session, cmd, fail, outcome>>
<1> USE DEF Serving, Reply, linkVars, InFlight, Live, Inv, TypeInv, TypeOK
<1>1. UNCHANGED <<cmd, fail, outcome>>
  BY DEF Server, clientVars
<1>2. CASE Errs(p) /\ InFlight(p)
  BY <1>1, <1>2 DEF Errs
<1>3. CASE Settings(p) \/ GrantLock(p) \/ ReleaseLock(p) \/ CreateTable(p)
           \/ AddStateColumn(p) \/ Lookup(p) \/ SelectHistory(p) \/ Begin(p)
  BY <1>1, <1>3 DEF Settings, GrantLock, ReleaseLock, CreateTable, AddStateColumn, Lookup,
     SelectHistory, Begin
<1>4. CASE InsertRecord(p) \/ Commit(p) \/ Rollback(p) \/ InsertStarted(p)
  BY <1>1, <1>4 DEF InsertRecord, Commit, Rollback, InsertStarted
<1>5. CASE RunScript(p) \/ RunStatement(p)
  BY <1>1, <1>5 DEF RunScript, RunStatement
<1>6. CASE UpdateState(p) \/ UpdateSettled(p) \/ DeleteRow(p) \/ InsertBaseline(p)
  BY <1>1, <1>6 DEF UpdateState, UpdateSettled, DeleteRow, InsertBaseline
<1> QED
  BY <1>2, <1>3, <1>4, <1>5, <1>6
  DEF Server, Serve, Refuse, Conflict, DeadlockVictim, LockTimeout

\* A request of a run touches the row of its own file at most.
LEMMA ServerRows ==
  ASSUME Inv, NEW p \in Procs, Server(p), Live(p), req[p].op \in RunOps
  PROVE  /\ UNCHANGED seen
         /\ \A g \in Names \ {req[p].file} : history'[g] = history[g]
         /\ req[p].op \in {"fileReset", "begin", "script", "record"} => UNCHANGED history
         /\ req[p].op \in {"commit", "markApplied"} /\ wire'[p] = "ok" =>
              IsApplied(req[p].file)'
<1>1. PICK f \in Names, c \in Contents : f = req[p].file /\ c = Text(p)
  BY RequestFile DEF Inv, RunOps
<1>0. UNCHANGED req
  BY ServerFrame
<1> USE DEF Serving, RunOps, FileOps, dbVars, resultVars
<1>2. CASE Settings(p) \/ Begin(p) \/ Rollback(p) \/ RunScript(p) \/ InsertRecord(p)
           \/ RunStatement(p)
  BY <1>2 DEF Settings, Begin, Rollback, RunScript, InsertRecord, RunStatement
<1>3. CASE Commit(p)
  <2>1. history' = [history EXCEPT ![f] = RecordOf("applied", c)]
    BY <1>1, <1>3 DEF Commit, Text
  <2>2. history'[f] = RecordOf("applied", c)
    BY <1>1, <2>1 DEF Inv, TypeInv, TypeOK
  <2>3. history'[f] # NoRow /\ history'[f].state = "applied"
    BY <2>2, RowFields DEF States
  <2>4. \A g \in Names \ {f} : history'[g] = history[g]
    BY <2>1 DEF Inv, TypeInv, TypeOK
  <2>5. IsApplied(f)'
    BY <2>3 DEF IsApplied
  <2>6. req[p].op = "commit" /\ UNCHANGED seen
    BY <1>3 DEF Commit
  <2> QED
    BY <1>0, <1>1, <2>4, <2>5, <2>6
<1>4. CASE InsertStarted(p)
  BY <1>1, <1>4 DEF InsertStarted, Inv, TypeInv, TypeOK
<1>5. CASE UpdateState(p)
  <2>1. PICK s \in States : history' = [history EXCEPT ![f] = RecordOf(s, c)]
                            /\ (req[p].op = "markApplied" => s = "applied")
    <3>1. history[f] = RecordOf("started", c)
      BY <1>1, <1>5 DEF Inv, HistoryInv, AtFile, AtDatabase, Live, Sent, UpdateState,
         Working, LockInv, Running, Marked
    <3>2. history[f] # NoRow /\ history[f].hash = c
      BY <3>1, RowFields DEF States
    <3> QED
      BY <1>1, <1>5, <3>2 DEF UpdateState, States
  <2>2. history'[f] = RecordOf(s, c)
    BY <1>1, <2>1 DEF Inv, TypeInv, TypeOK
  <2>3. s = "applied" => IsApplied(f)'
    BY <2>2, RowFields DEF States, IsApplied
  <2>4. \A g \in Names \ {f} : history'[g] = history[g]
    BY <2>1 DEF Inv, TypeInv, TypeOK
  <2>5. req[p].op \in {"markApplied", "markFailed"} /\ UNCHANGED seen
    BY <1>5 DEF UpdateState
  <2> QED
    BY <1>0, <1>1, <2>1, <2>3, <2>4, <2>5
<1>6. CASE Errs(p)
  BY <1>6 DEF Errs, Reply, Inv, TypeInv, TypeOK
<1> QED
  BY <1>2, <1>3, <1>4, <1>5, <1>6
  DEF Server, Serve, Refuse, Conflict, DeadlockVictim, LockTimeout, GrantLock, ReleaseLock,
      CreateTable, AddStateColumn, Lookup, SelectHistory, UpdateSettled, DeleteRow,
      InsertBaseline

LEMMA ServerRun ==
  ASSUME Inv, RunInv, Stays, NEW p \in Procs, Server(p)
  PROVE  AtRun(p)'
<1>1. /\ Live(p) /\ wire[p] = "sent" /\ wire'[p] \in {"ok", "err"}
      /\ UNCHANGED <<req, files, session, cmd, fail, outcome>>
  BY ServerFrame
<1>2. AtRun(p) /\ InRun(p) /\ AsCommanded(p)
  BY <1>1 DEF RunInv, AtRun
<1>3. Live(p)' <=> Live(p)
  BY <1>1 DEF Live
<1>4. ASSUME req[p].op \in RunOps PROVE InRun(p)'
  <2> DEFINE f == req[p].file
  <2>1. /\ UNCHANGED seen
        /\ \A g \in Names \ {f} : history'[g] = history[g]
        /\ req[p].op \in {"fileReset", "begin", "script", "record"} => UNCHANGED history
        /\ req[p].op \in {"commit", "markApplied"} /\ wire'[p] = "ok" => IsApplied(f)'
    BY <1>1, <1>4, ServerRows
  <2>2. /\ cmd[p].op = "up" /\ f \in Pending(p, 0) /\ Behind(p, f) /\ Ahead(p, f)
        /\ req[p].op \in {"rollback", "markFailed"} => fail[p]
        /\ Unrecorded(p) => history[f] = NoRow
    BY <1>2, <1>4 DEF InRun
  <2>3. Pending(p, 0)' = Pending(p, 0) /\ Pending(p, f)' = Pending(p, f)
    BY <1>1, <2>1 DEF Pending, Present, Recorded
  <2>4. f \in Names /\ f \notin Pending(p, f) /\ Pending(p, f) \subseteq Names
    <3>1. f \in Names /\ Pending(p, f) \subseteq Names
      BY <2>2 DEF Pending, Present
    <3>2. \A n \in Names : ~(n < n)
      BY NamesAssumption
    <3> QED
      BY <3>1, <3>2 DEF Pending
  <2>5. Ahead(p, f)'
    BY <1>1, <2>1, <2>2, <2>3, <2>4 DEF Ahead
  <2>6. Behind(p, f)'
    BY <1>1, <2>1, <2>2, BehindStays
  <2>7. Unrecorded(p)' => (history[f] = NoRow)'
    BY <1>1, <2>1, <2>2 DEF Unrecorded, Sent
  <2>8. Done(p, "commit")' \/ Done(p, "markApplied")' => IsApplied(f)'
    BY <1>1, <2>1 DEF Done
  <2> QED
    BY <1>1, <2>2, <2>3, <2>5, <2>6, <2>7, <2>8 DEF InRun
<1>5. ASSUME req[p].op \notin RunOps PROVE InRun(p)'
  BY <1>1, <1>5 DEF InRun
<1>6. AsCommanded(p)'
  BY <1>1, <1>2 DEF AsCommanded
<1>7. Reports(p)'
  BY <1>1, <1>2, <1>3, FinishedStays DEF AtRun, Reports
<1> QED
  BY <1>1, <1>2, <1>4, <1>5, <1>6, <1>7 DEF AtRun

\* What must be so when p sends a request of kind o about file f.
Due(p, o, f) ==
  /\ o \in RunOps =>
       /\ cmd[p].op = "up" /\ f \in Pending(p, 0) /\ Behind(p, f) /\ Ahead(p, f)
       /\ o \in {"rollback", "markFailed"} => fail'[p]
       /\ o \in {"fileReset", "begin", "script", "record", "commit", "started"} =>
            history[f] = NoRow
  /\ o \in {"settle", "forget"} => cmd[p].op = "resolve"
  /\ o = "settle" => cmd[p].to = "applied"
  /\ o = "baseline" => cmd[p].op = "baseline"
  /\ o = "unlock" /\ cmd[p].op = "up" /\ ~fail'[p] => Finished(p)

LEMMA SendRun ==
  ASSUME Inv, RunInv, NEW p \in Procs, Moves(p), NEW o, NEW f, NEW k, Send(p, o, f, k),
         Due(p, o, f), UNCHANGED outcome, files' = files \/ cmd[p].op = "resolve"
  PROVE  AtRun(p)'
<1>1. /\ wire'[p] = "sent" /\ req'[p].op = o /\ req'[p].file = f
      /\ UNCHANGED <<history, seen, cmd, outcome>>
  BY DEF Send, Moves, database, resultVars, Inv, TypeInv, TypeOK
<1>2. AtRun(p)
  BY DEF RunInv
<1>3. ASSUME o \in RunOps PROVE InRun(p)'
  <2>1. UNCHANGED files
    BY <1>3 DEF Due
  <2> QED
    BY <1>1, <1>3, <2>1
    DEF Due, InRun, Pending, Present, Recorded, Behind, Ahead, IsApplied, Unrecorded, Sent, Done
<1>4. o \notin RunOps => InRun(p)'
  BY <1>1 DEF InRun
<1>5. AsCommanded(p)'
  BY <1>1 DEF AsCommanded, Due
<1>6. Reports(p)'
  <2>1. cmd[p].op = "up" => files' = files
    OBVIOUS
  <2> QED
    BY <1>1, <1>2, <2>1 DEF Due, AtRun, Reports, Finished, Present, IsApplied
<1> QED
  BY <1>1, <1>2, <1>3, <1>4, <1>5, <1>6 DEF AtRun

LEMMA LeaveRun ==
  ASSUME Inv, RunInv, NEW p \in Procs, Moves(p), NEW b, Leave(p, b), UNCHANGED <<files, fail>>,
         ~b /\ cmd[p].op = "up" => Finished(p)
  PROVE  AtRun(p)'
<1>1. /\ wire'[p] = "idle" /\ session'[p] = "orphan"
      /\ outcome'[p] = IF b THEN "failed" ELSE "ok"
      /\ UNCHANGED <<history, seen, cmd, files, req, fail>>
  BY DEF Leave, Moves, database, resultVars, Inv, TypeInv, TypeOK
<1>2. AtRun(p) /\ Live(p)
  BY DEF RunInv, Moves, Live
<1>3. InRun(p)'
  BY <1>1, <1>2
  DEF AtRun, InRun, Pending, Present, Recorded, Behind, Ahead, IsApplied, Unrecorded, Sent, Done
<1>4. AsCommanded(p)'
  BY <1>1, <1>2 DEF AtRun, AsCommanded
<1>5. Reports(p)'
  BY <1>1, <1>2 DEF AtRun, Reports, Finished, Present, IsApplied
<1> QED
  BY <1>1, <1>2, <1>3, <1>4, <1>5 DEF AtRun

\* A request that is about no file, or the end of a command that failed.
LEMMA PlainRun ==
  ASSUME Inv, RunInv, NEW p \in Procs, Moves(p),
         \/ /\ \E o \in PlainOps \ {"unlock"} : Send(p, o, 0, 0)
            /\ UNCHANGED <<files, outcome>>
         \/ Fails(p) /\ Send(p, "unlock", 0, 0) /\ UNCHANGED <<files, outcome>>
         \/ Leave(p, TRUE) /\ UNCHANGED <<files, fail>>
  PROVE  AtRun(p)'
<1>1. ASSUME NEW o \in PlainOps \ {"unlock"} PROVE Due(p, o, 0)
  BY DEF Due, PlainOps, RunOps, FileOps
<1>2. Fails(p) => Due(p, "unlock", 0)
  BY DEF Due, Fails, RunOps, FileOps, Inv, TypeInv, TypeOK
<1> QED
  BY <1>1, <1>2, SendRun, LeaveRun

\* What is so when p's run begins a file.
InTurn(p) ==
  req'[p].op = "fileReset" =>
    \A g \in Present(files[p]) :
      /\ g < req'[p].file => IsApplied(g)
      /\ history[g] # NoRow => IsApplied(g)

\* Where the run goes on to, after all up to file f is applied.
LEMMA NextFileRun ==
  ASSUME Inv, RunInv, NEW p \in Procs, Moves(p), NEW f \in Names \cup {0}, NextFile(p, f),
         UNCHANGED <<files, fail, outcome>>, cmd[p].op = "up",
         \A g \in Present(files[p]) : g <= f \/ g \in Recorded(p) => IsApplied(g),
         Ahead(p, f)
  PROVE  AtRun(p)' /\ InTurn(p)
<1>1. /\ \A n \in Names \cup {0} : n \in Nat
      /\ \A n \in Names : 0 < n
      /\ \A g \in Present(files[p]) : g \in Names
  <2>1. \A n \in Names : n \in Nat /\ 0 < n
    BY NamesAssumption
  <2> QED
    BY <2>1 DEF Present
<1>2. ASSUME NEW g \in Present(files[p]) PROVE IsApplied(g) \/ g \in Pending(p, f)
  <2>1. g <= f \/ f < g
    BY <1>1
  <2> QED
    BY <2>1 DEF Pending
<1>3. \A g \in Present(files[p]) : history[g] # NoRow => IsApplied(g)
  BY <1>2 DEF Ahead
<1>4. CASE Pending(p, f) = {} /\ Unlock(p)
  <2>1. Due(p, "unlock", 0)
    BY <1>2, <1>4 DEF Due, Finished, RunOps, FileOps
  <2>2. req'[p].op = "unlock"
    BY <1>4 DEF Unlock, Send, Inv, TypeInv, TypeOK
  <2> QED
    BY <1>4, <2>1, <2>2, SendRun DEF Unlock, InTurn
<1>5. CASE \E g \in Pending(p, f) :
             /\ \A h \in Pending(p, f) : g <= h
             /\ Send(p, "fileReset", g, 0)
  <2>1. PICK g \in Pending(p, f) :
               /\ \A h \in Pending(p, f) : g <= h
               /\ Send(p, "fileReset", g, 0)
    BY <1>5
  <2>2. g \in Present(files[p]) \ Recorded(p) /\ f < g /\ g \in Nat
    BY <1>1 DEF Pending
  <2>3. Behind(p, g)
    <3>1. ASSUME NEW h \in Present(files[p]), h < g PROVE h \notin Pending(p, f)
      BY <1>1, <2>1, <2>2, <3>1
    <3> QED
      BY <1>2, <3>1 DEF Behind
  <2>4. Ahead(p, g) /\ history[g] = NoRow
    <3>1. ASSUME NEW h \in Pending(p, g) PROVE h \in Pending(p, f)
      <4>1. h \in Present(files[p]) \ Recorded(p) /\ g < h
        BY DEF Pending
      <4>2. f < h
        BY <1>1, <2>2, <4>1
      <4> QED
        BY <4>1, <4>2 DEF Pending
    <3> QED
      BY <3>1 DEF Ahead
  <2>5. g \in Pending(p, 0)
    BY <1>1, <2>2 DEF Pending
  <2>6. Due(p, "fileReset", g)
    BY <2>3, <2>4, <2>5 DEF Due
  <2>7. req'[p].file = g
    BY <2>1 DEF Send, Inv, TypeInv, TypeOK
  <2>8. \A h \in Present(files[p]) : h < g => IsApplied(h)
    BY <2>3 DEF Behind
  <2> QED
    BY <1>3, <2>1, <2>6, <2>7, <2>8, SendRun DEF InTurn
<1> QED
  BY <1>4, <1>5 DEF NextFile

\* The run after the history is read: what it found is applied.
LEMMA RunDecidesRun ==
  ASSUME Inv, RunInv, NEW p \in Procs, RunDecides(p), Moves(p)
  PROVE  AtRun(p)' /\ InTurn(p)
<1>1. session[p] = "open" /\ Done(p, "history") /\ cmd[p].op = "up" /\ UNCHANGED files
  BY DEF RunDecides, Got, Done
<1>2. seen[p] = history
  BY <1>1 DEF Inv, HistoryInv, AtDatabase, Working, Done
<1>3. CASE GiveUp(p)
  <2>1. Fails(p) /\ Send(p, "unlock", 0, 0) /\ UNCHANGED <<files, outcome>>
    BY <1>1, <1>3 DEF GiveUp, Unlock
  <2>2. req'[p].op = "unlock"
    BY <2>1 DEF Send, Inv, TypeInv, TypeOK
  <2> QED
    BY <2>1, <2>2, PlainRun DEF InTurn
<1>4. CASE ~Refuses(p) /\ NextFile(p, 0) /\ UNCHANGED <<fail, outcome>>
  <2>1. \A g \in Present(files[p]) \cap Recorded(p) : IsApplied(g)
    BY <1>2, <1>4 DEF Refuses, HalfFinished, Recorded, IsApplied
  <2>2. \A g \in Present(files[p]) : ~(g <= 0)
    <3>1. \A n \in Names : ~(n <= 0)
      BY NamesAssumption
    <3> QED
      BY <3>1 DEF Present
  <2>3. Ahead(p, 0)
    BY <1>2 DEF Ahead, Pending, Recorded, Present
  <2> QED
    BY <1>1, <1>4, <2>1, <2>2, <2>3, NextFileRun
<1> QED
  BY <1>3, <1>4 DEF RunDecides

\* The run after a file is applied.
LEMMA AppliedRun ==
  ASSUME Inv, RunInv, NEW p \in Procs, Applied(p), Moves(p)
  PROVE  AtRun(p)' /\ InTurn(p)
<1> DEFINE f == req[p].file
<1>1. /\ Live(p) /\ (Done(p, "commit") \/ Done(p, "markApplied"))
      /\ NextFile(p, f) /\ UNCHANGED <<files, fail, outcome>>
  BY DEF Applied, Got, Done, Live
<1>2. InRun(p) /\ req[p].op \in RunOps
  BY <1>1 DEF RunInv, AtRun, Done, RunOps, FileOps
<1>3. /\ cmd[p].op = "up" /\ f \in Pending(p, 0) /\ Behind(p, f) /\ Ahead(p, f)
      /\ IsApplied(f)
  BY <1>1, <1>2 DEF InRun
<1>4. f \in Names
  BY <1>3 DEF Pending, Present
<1>5. ASSUME NEW g \in Present(files[p]), g <= f \/ g \in Recorded(p) PROVE IsApplied(g)
  <2>1. \A m, n \in Names : m <= n => m < n \/ m = n
    BY NamesAssumption
  <2>2. g \in Names
    BY DEF Present
  <2>3. g < f \/ g = f \/ g \in Recorded(p)
    BY <1>4, <1>5, <2>1, <2>2
  <2> QED
    BY <1>3, <2>3 DEF Behind
<1> QED
  BY <1>1, <1>3, <1>4, <1>5, NextFileRun

\* Within a file, p sends its next request about the same file.
LEMMA SameFileRun ==
  ASSUME Inv, RunInv, NEW p \in Procs, Moves(p), req[p].op \in RunOps,
         NEW o \in {"begin", "script", "record", "commit", "started", "statement",
                    "markApplied", "rollback", "markFailed"},
         NEW k, Send(p, o, req[p].file, k), UNCHANGED <<files, outcome>>,
         o \in {"rollback", "markFailed"} => fail'[p],
         o \in {"begin", "script", "record", "commit", "started"} => Unrecorded(p)
  PROVE  AtRun(p)'
<1>1. InRun(p)
  BY DEF Moves, RunInv, AtRun, Live
<1>2. Due(p, o, req[p].file)
  BY <1>1 DEF Due, InRun, RunOps, FileOps
<1> QED
  BY <1>2, SendRun

LEMMA ClientRun ==
  ASSUME Inv, RunInv, NEW p \in Procs, Client(p)
  PROVE  AtRun(p)' /\ (Begins(p) => InTurn(p))
<1>1. /\ Moves(p) /\ Live(p) /\ AtRun(p) /\ InRun(p) /\ AsCommanded(p)
      /\ fail' = fail \/ Fails(p)
  BY ClientMoves DEF Moves, RunInv, AtRun, Live
<1>2. Fails(p) => fail'[p]
  BY DEF Fails, Inv, TypeInv, TypeOK
<1>3. ASSUME NEW o, NEW f, NEW k, Send(p, o, f, k), o # "fileReset" PROVE ~Begins(p)
  BY <1>3 DEF Send, Begins, Inv, TypeInv, TypeOK
<1>4. ASSUME NEW b, Leave(p, b) PROVE ~Begins(p)
  BY <1>4 DEF Leave, Begins
<1> USE <1>1, <1>2, <1>3, <1>4 DEF Got, Answered, Proceed, GiveUp, Unlock
<1>5. CASE TimeoutSet(p) \/ Locked(p) \/ LockFailed(p) \/ TimeoutReset(p)
  <2>1. \/ /\ \E o \in {"lock", "resetTimeout", "reset", "create"} : Send(p, o, 0, 0)
           /\ UNCHANGED <<files, outcome>>
        \/ Leave(p, TRUE) /\ UNCHANGED <<files, fail>>
    BY <1>5 DEF TimeoutSet, Locked, LockFailed, TimeoutReset, AfterLock
  <2>2. {"lock", "resetTimeout", "reset", "create"} \subseteq PlainOps \ {"unlock"}
    BY DEF PlainOps, Ops, FileOps
  <2> QED
    BY <2>1, <2>2, PlainRun
<1>6. CASE Prepared(p)
  <2>1. /\ \E o \in {"create", "hasState", "columns", "alter", "history"} : Send(p, o, 0, 0)
        /\ UNCHANGED <<files, outcome>>
    BY <1>6 DEF Prepared
  <2>2. {"create", "hasState", "columns", "alter", "history"} \subseteq PlainOps \ {"unlock"}
    BY DEF PlainOps, Ops, FileOps
  <2> QED
    BY <2>1, <2>2, PlainRun
<1>7. CASE Aborted(p)
  BY <1>7, PlainRun DEF Aborted
<1>8. CASE RunDecides(p)
  BY <1>8, RunDecidesRun
<1>9. CASE StatusDecides(p)
  BY <1>9, LeaveRun DEF StatusDecides
<1>10. CASE ResolveDecides(p)
  <2> DEFINE f == cmd[p].name
  <2>1. cmd[p].op = "resolve" /\ UNCHANGED outcome
    BY <1>10 DEF ResolveDecides
  <2>2. CASE GiveUp(p) /\ UNCHANGED files
    BY <2>1, <2>2, PlainRun
  <2>3. CASE Send(p, "forget", f, 0)
    <3>1. Due(p, "forget", f)
      BY <2>1 DEF Due, RunOps, FileOps
    <3> QED
      BY <2>1, <2>3, <3>1, SendRun
  <2>4. CASE Send(p, "settle", f, 0) /\ cmd[p].to = "applied"
    <3>1. Due(p, "settle", f)
      BY <2>1, <2>4 DEF Due, RunOps, FileOps
    <3> QED
      BY <2>1, <2>4, <3>1, SendRun
  <2> QED
    BY <1>10, <2>2, <2>3, <2>4 DEF ResolveDecides
<1>11. CASE BaselineDecides(p)
  <2>1. cmd[p].op = "baseline" /\ UNCHANGED <<files, outcome>>
    BY <1>11 DEF BaselineDecides
  <2>2. CASE GiveUp(p)
    BY <2>1, <2>2, PlainRun
  <2>3. CASE Send(p, "baseline", cmd[p].name, 0)
    <3>1. Due(p, "baseline", cmd[p].name)
      BY <2>1 DEF Due, RunOps, FileOps
    <3> QED
      BY <2>1, <2>3, <3>1, SendRun
  <2> QED
    BY <1>11, <2>2, <2>3 DEF BaselineDecides
<1>12. CASE Written(p)
  <2>1. Due(p, "unlock", 0)
    BY <1>12 DEF Written, AsCommanded, Due, RunOps, FileOps
  <2> QED
    BY <1>12, <2>1, SendRun DEF Written
<1>13. CASE FileReset(p) \/ Begun(p)
  <2>1. /\ req[p].op \in RunOps /\ Unrecorded(p) /\ UNCHANGED <<files, outcome>>
        /\ \E o \in {"begin", "started", "script"} : Send(p, o, req[p].file, 0)
    BY <1>13 DEF FileReset, Begun, Unrecorded, RunOps, FileOps
  <2> QED
    BY <2>1, SameFileRun
<1>14. CASE Scripted(p) \/ Inserted(p)
  <2>1. /\ req[p].op \in RunOps /\ Unrecorded(p) /\ UNCHANGED <<files, outcome>>
        /\ \/ \E o \in {"record", "commit"} : Send(p, o, req[p].file, 0)
           \/ Fails(p) /\ Send(p, "rollback", req[p].file, 0)
    BY <1>14 DEF Scripted, Inserted, Unrecorded, RunOps, FileOps
  <2> QED
    BY <2>1, SameFileRun
<1>15. CASE Applied(p)
  BY <1>15, AppliedRun
<1>16. CASE RolledBack(p) \/ MarkedFailed(p)
  <2>1. /\ req[p].op \in {"rollback", "markFailed"} /\ UNCHANGED <<files, fail, outcome>>
        /\ Send(p, "markFailed", req[p].file, 0) \/ Send(p, "unlock", 0, 0)
    BY <1>16 DEF RolledBack, MarkedFailed
  <2>2. req[p].op \in RunOps /\ fail'[p]
    BY <2>1 DEF InRun, RunOps, FileOps
  <2>3. Due(p, "unlock", 0)
    BY <2>2 DEF Due, RunOps, FileOps
  <2> QED
    BY <2>1, <2>2, <2>3, SameFileRun, SendRun
<1>17. CASE Stepped(p) \/ StatementFailed(p)
  <2>1. /\ req[p].op \in RunOps /\ UNCHANGED <<files, outcome>>
        /\ \/ \E o \in {"statement", "markApplied"} : \E k : Send(p, o, req[p].file, k)
           \/ \E o \in {"rollback", "markFailed"} : Fails(p) /\ Send(p, o, req[p].file, 0)
    BY <1>17 DEF Stepped, StatementFailed, AfterStatement, RunOps, FileOps
  <2> QED
    BY <2>1, SameFileRun
<1>18. CASE Unlocked(p)
  <2>1. ~fail[p] /\ cmd[p].op = "up" => Finished(p)
    BY <1>18 DEF Unlocked, AtRun, Reports
  <2> QED
    BY <1>18, <2>1, LeaveRun DEF Unlocked
<1> QED
  BY <1>5, <1>6, <1>7, <1>8, <1>9, <1>10, <1>11, <1>12, <1>13, <1>14, <1>15, <1>16, <1>17,
     <1>18 DEF Client

\* A process's own part changes by its own steps only.
LEMMA OthersOwn ==
  ASSUME Inv, NEW p \in Procs, NEW q \in Procs \ {p},
         \/ Server(p) \/ Client(p) \/ Start(p) \/ Ends(p)
         \/ Crash(p) \/ Lose(p) \/ CancelHits(p)
  PROVE  Own(q)' = Own(q) /\ outcome'[q] = outcome[q]
<1>1. CASE Server(p)
  BY <1>1, ServerOwn, ServerFrame DEF Inv
<1>2. CASE Client(p)
  <2>1. Moves(p)
    BY <1>2, ClientMoves
  <2>2. Own(q)' = Own(q)
    BY <2>1, ClientOwn DEF Moves, Inv
  <2>3. outcome' = outcome \/ \E o : outcome' = [outcome EXCEPT ![p] = o]
    BY <2>1 DEF Moves, Leave
  <2> QED
    BY <2>2, <2>3 DEF Inv, TypeInv, TypeOK
<1>3. CASE Start(p)
  BY <1>3 DEF Start, Own, txVars, Inv, TypeInv, TypeOK
<1>4. CASE Ends(p)
  BY <1>4 DEF Ends, EndBackend, Own, resultVars, clientVars, Inv, TypeInv, TypeOK
<1>5. CASE Crash(p) \/ Lose(p)
  <2>1. Gone(p) /\ \E o : outcome' = [outcome EXCEPT ![p] = o]
    BY <1>5 DEF Crash, Lose
  <2> QED
    BY <2>1 DEF Gone, Own, txVars, resultVars, Inv, TypeInv, TypeOK
<1>6. CASE CancelHits(p)
  BY <1>6 DEF CancelHits, Errs, Reply, linkVars, resultVars, Own, Inv, TypeInv, TypeOK
<1> QED
  BY <1>1, <1>2, <1>3, <1>4, <1>5, <1>6

\* A step of p keeps what the others say when nobody else works on the database.
LEMMA RunApartFrom ==
  ASSUME Inv, RunInv, Stays, NEW p \in Procs, AtRun(p)',
         \/ Server(p) \/ Client(p) \/ Start(p) \/ Ends(p)
         \/ Crash(p) \/ Lose(p) \/ CancelHits(p),
         \A q \in Procs \ {p} : Working(q) => UNCHANGED database
  PROVE  RunInv'
  BY OthersOwn, RunStandsStill DEF RunInv

LEMMA StartRun ==
  ASSUME Inv, RunInv, Stays, NEW p \in Procs, Start(p)
  PROVE  AtRun(p)' /\ ~Begins(p)
<1>1. PICK c \in Commands :
        /\ cmd' = [cmd EXCEPT ![p] = c]
        /\ \/ /\ req' = [req EXCEPT ![p] = [NoRequest EXCEPT !.op = FirstRequest(c)]]
              /\ outcome' = [outcome EXCEPT ![p] = "none"]
           \/ /\ req' = [req EXCEPT ![p] = NoRequest]
              /\ outcome' = [outcome EXCEPT ![p] = "failed"]
  BY DEF Start
<1>2. /\ cmd'[p] = c /\ outcome'[p] # "ok"
      /\ req'[p].op \in {"none", "exists", "setTimeout", "lock"}
  BY <1>1 DEF NoRequest, FirstRequest, Inv, TypeInv, TypeOK
<1> QED
  BY <1>2 DEF AtRun, InRun, AsCommanded, Reports, RunOps, FileOps, Begins

\* p says less once its client is gone, or once its request has failed.
LEMMA LessRun ==
  ASSUME Inv, RunInv, NEW p \in Procs, Live(p)' => Live(p),
         UNCHANGED <<history, seen, files, req, cmd, fail>>,
         wire'[p] = wire[p] \/ wire'[p] \notin {"sent", "ok"},
         \/ outcome'[p] \in {outcome[p], "failed"}
         \/ outcome'[p] = "ok" /\ Live(p) /\ req[p].op = "unlock" /\ ~fail[p]
  PROVE  AtRun(p)'
<1>1. AtRun(p)
  BY DEF RunInv
<1>2. ASSUME Live(p)' PROVE InRun(p)' /\ AsCommanded(p)'
  BY <1>1, <1>2
  DEF AtRun, InRun, AsCommanded, Pending, Present, Recorded, Behind, Ahead, IsApplied,
      Unrecorded, Sent, Done
<1>3. Reports(p)'
  BY <1>1 DEF AtRun, Reports, Finished, Present, IsApplied
<1> QED
  BY <1>1, <1>2, <1>3 DEF AtRun

LEMMA NextRun ==
  ASSUME Inv, RunInv, [Next]_vars
  PROVE  RunInv'
<1>1. Stays
  BY NextStays
<1> USE <1>1, RunApartFrom
<1>2. ASSUME NEW p \in Procs, Server(p) PROVE RunInv'
  <2>1. ASSUME NEW q \in Procs \ {p}, Working(q) PROVE UNCHANGED database
    <3>1. ~Working(p)
      BY <2>1 DEF Inv, LockInv
    <3> QED
      BY <1>2, <3>1, WritersWork DEF Inv
  <2> QED
    BY <1>2, <2>1, ServerRun
<1>3. ASSUME NEW p \in Procs, Client(p) PROVE RunInv'
  BY <1>3, ClientMoves, ClientRun DEF Moves
<1>4. ASSUME NEW p \in Procs, Start(p) PROVE RunInv'
  <2>1. UNCHANGED database
    BY <1>4 DEF Start, database, dbVars
  <2> QED
    BY <1>4, <2>1, StartRun
<1>5. ASSUME NEW p \in Procs, Crash(p) \/ Lose(p) PROVE RunInv'
  <2>1. /\ UNCHANGED <<history, seen, files, req, cmd, fail>> /\ UNCHANGED database
        /\ session[p] = "open"
        /\ wire' = [wire EXCEPT ![p] = IF @ = "sent" THEN "sent" ELSE "idle"]
    BY <1>5 DEF Crash, Lose, Gone, database, dbVars, resultVars
  <2>2. \E o \in {"ok", "failed"} :
          /\ outcome' = [outcome EXCEPT ![p] = o]
          /\ o = "ok" => req[p].op = "unlock" /\ ~fail[p]
    BY <1>5 DEF Crash, Lose
  <2>3. Live(p)
    BY <2>1 DEF Live
  <2>4. wire'[p] = wire[p] \/ wire'[p] \notin {"sent", "ok"}
    BY <2>1 DEF Inv, TypeInv, TypeOK
  <2>5. \/ outcome'[p] \in {outcome[p], "failed"}
        \/ outcome'[p] = "ok" /\ Live(p) /\ req[p].op = "unlock" /\ ~fail[p]
    BY <2>2, <2>3 DEF Inv, TypeInv, TypeOK
  <2>6. AtRun(p)'
    BY <2>1, <2>3, <2>4, <2>5, LessRun
  <2> QED
    BY <1>5, <2>1, <2>6
<1>6. ASSUME NEW p \in Procs, Ends(p) PROVE RunInv'
  <2>1. /\ UNCHANGED <<history, seen, files, req, cmd, fail, outcome>> /\ UNCHANGED database
        /\ ~Live(p)' /\ wire'[p] = "idle"
    BY <1>6 DEF Ends, EndBackend, database, resultVars, clientVars, Live,
       Inv, TypeInv, TypeOK
  <2>2. AtRun(p)'
    BY <2>1, LessRun
  <2> QED
    BY <1>6, <2>1, <2>2
<1>7. ASSUME NEW p \in Procs, CancelHits(p) PROVE RunInv'
  <2>1. /\ UNCHANGED <<history, seen, files, req, cmd, fail, outcome, session>>
        /\ UNCHANGED database /\ wire'[p] = "err"
    BY <1>7 DEF CancelHits, Errs, Reply, database, dbVars, linkVars, resultVars,
       Inv, TypeInv, TypeOK
  <2>2. AtRun(p)'
    BY <2>1, LessRun DEF Live
  <2> QED
    BY <1>7, <2>1, <2>2
<1>8. ASSUME UNCHANGED <<serverVars, cmd, fail, outcome>> PROVE RunInv'
  <2>1. UNCHANGED database /\ \A q \in Procs : Own(q)' = Own(q)
    BY <1>8 DEF serverVars, dbVars, linkVars, txVars, resultVars, database, Own
  <2> QED
    BY <1>8, <2>1, RunStandsStill DEF RunInv
<1>9. ASSUME \/ \E p \in Procs : Interrupt(p) \/ CancelMisses(p)
             \/ Edit \/ UNCHANGED vars
      PROVE  UNCHANGED <<serverVars, cmd, fail, outcome>>
  BY <1>9 DEF Interrupt, CancelMisses, Edit, vars, clientVars
<1> QED
  BY <1>2, <1>3, <1>4, <1>5, <1>6, <1>7, <1>8, <1>9 DEF Next, Terminated

LEMMA InitRun == Init => RunInv
  BY DEF Init, RunInv, AtRun, InRun, AsCommanded, Reports, Live, NoCommand

LEMMA RunHolds ==
  ASSUME DropsLock = {}
  PROVE  Spec => [](Inv /\ RunInv)
<1>1. Inv /\ RunInv /\ [Next]_vars => RunInv'
  BY NextRun
<1> QED
  BY InitRun, <1>1, InvHolds, PTL DEF Spec

\* A run that reports success - and a run that lost its connection with nothing
\* but the unlock left reports it too - leaves every file it read recorded as
\* applied, whatever other invocations do meanwhile and afterwards (Run),
\* provided no migration releases advisory locks.
THEOREM Success ==
  ASSUME DropsLock = {}
  PROVE  Spec => []SuccessMeansApplied
<1>1. RunInv => SuccessMeansApplied
  BY DEF RunInv, AtRun, Reports, Finished, IsApplied, SuccessMeansApplied
<1> QED
  BY <1>1, RunHolds, PTL

LEMMA NextBegins ==
  ASSUME Inv, RunInv, [Next]_vars, NEW p \in Procs, Begins(p)
  PROVE  InTurn(p)
<1>1. ASSUME NEW q \in Procs, Client(q) PROVE InTurn(p)
  <2>1. CASE q = p
    BY <1>1, <2>1, ClientRun
  <2>2. CASE q # p
    <3>1. Moves(q)
      BY <1>1, ClientMoves
    <3>2. req' = req \/ \E r : req' = [req EXCEPT ![q] = r]
      BY <3>1 DEF Moves, Send, Leave
    <3>3. req'[p] = req[p]
      BY <2>2, <3>2 DEF Inv, TypeInv, TypeOK
    <3> QED
      BY <3>3 DEF Begins
  <2> QED
    BY <2>1, <2>2
<1>2. ASSUME NEW q \in Procs, Start(q) PROVE FALSE
  <2>1. q = p
    BY <1>2 DEF Start, Begins, Inv, TypeInv, TypeOK
  <2> QED
    BY <1>2, <2>1, StartRun, NextStays
<1>3. ~UNCHANGED req
  BY DEF Begins
<1>4. ASSUME NEW q \in Procs,
             \/ Server(q) \/ Ends(q) \/ Crash(q) \/ Lose(q)
             \/ Interrupt(q) \/ CancelHits(q) \/ CancelMisses(q)
      PROVE  FALSE
  BY <1>3, <1>4, ServerFrame DEF Ends, EndBackend, Crash, Lose, Gone, Interrupt, CancelHits,
     Errs, CancelMisses, serverVars, linkVars
<1>5. ~(Edit \/ UNCHANGED vars)
  BY <1>3 DEF Edit, vars, serverVars, linkVars
<1> QED
  BY <1>1, <1>2, <1>4, <1>5 DEF Next, Terminated

\* A run applies its directory in name order and leaves no gap: a file begins
\* only when every earlier file it read is recorded (Run stops at the first
\* error), provided no migration releases advisory locks.
THEOREM Ordered ==
  ASSUME DropsLock = {}
  PROVE  Spec => InOrder
<1> DEFINE Orderly == \A p \in Procs : Begins(p) =>
             \A g \in Present(files[p]) : g < req'[p].file => history[g] # NoRow
<1>1. ASSUME Inv, RunInv, [Next]_vars, NEW p \in Procs, Begins(p),
             NEW g \in Present(files[p]), g < req'[p].file
      PROVE  history[g] # NoRow
  <2>1. InTurn(p) /\ req'[p].op = "fileReset"
    BY <1>1, NextBegins DEF Begins
  <2> QED
    BY <1>1, <2>1 DEF InTurn, IsApplied
<1>2. Inv /\ RunInv /\ [Next]_vars => [Orderly]_vars
  BY <1>1
<1> QED
  BY <1>2, RunHolds, PTL DEF Spec, InOrder

\* A half-finished file blocks: while the history holds a started or failed mark
\* for a file of the run's directory, the run begins none, though it read the
\* history many requests earlier (compare, Run), provided no migration releases
\* advisory locks.
THEOREM Blocked ==
  ASSUME DropsLock = {}
  PROVE  Spec => HalfFinishedBlocks
<1> DEFINE Blocks == \A p \in Procs : Begins(p) =>
             \A g \in Present(files[p]) :
               history[g] # NoRow => history[g].state = "applied"
<1>1. ASSUME Inv, RunInv, [Next]_vars, NEW p \in Procs, Begins(p),
             NEW g \in Present(files[p]), history[g] # NoRow
      PROVE  history[g].state = "applied"
  <2>1. InTurn(p) /\ req'[p].op = "fileReset"
    BY <1>1, NextBegins DEF Begins
  <2> QED
    BY <1>1, <2>1 DEF InTurn, IsApplied
<1>2. Inv /\ RunInv /\ [Next]_vars => [Blocks]_vars
  BY <1>1
<1> QED
  BY <1>2, RunHolds, PTL DEF Spec, HalfFinishedBlocks

-----------------------------------------------------------------------------
\* Nobody is told to record a half-finished file as applied.
NobodyVouches == \A c \in Commands : c.op = "resolve" => c.to # "applied"

LEMMA NeverSettles ==
  ASSUME Inv, RunInv, NobodyVouches, NEW p \in Procs
  PROVE  ~UpdateSettled(p)
<1> SUFFICES ASSUME UpdateSettled(p) PROVE FALSE
  OBVIOUS
<1>1. Live(p) /\ req[p].op = "settle"
  BY DEF UpdateSettled, Serving, Live
<1>2. cmd[p].op = "resolve" /\ cmd[p].to = "applied" /\ cmd[p] \in Commands
  BY <1>1 DEF RunInv, AtRun, AsCommanded
<1> QED
  BY <1>2 DEF NobodyVouches

\* What a step other than a server's leaves alone.
LEMMA OnlyServers ==
  ASSUME [Next]_vars, \A p \in Procs : ~Server(p)
  PROVE  UNCHANGED <<history, effects, settled, spilled>>
<1>1. ASSUME NEW p \in Procs, Client(p) PROVE UNCHANGED database
  BY <1>1, ClientMoves DEF Moves
<1>2. ASSUME NEW p \in Procs,
             \/ Start(p) \/ Ends(p) \/ Crash(p) \/ Lose(p)
             \/ Interrupt(p) \/ CancelHits(p) \/ CancelMisses(p)
      PROVE  UNCHANGED <<history, effects, settled, spilled>>
  BY <1>2 DEF Start, Ends, EndBackend, Crash, Lose, Gone, Interrupt, CancelHits,
     Errs, CancelMisses, serverVars, dbVars
<1>3. ASSUME Edit \/ UNCHANGED vars PROVE UNCHANGED <<history, effects, settled, spilled>>
  BY <1>3 DEF Edit, vars, serverVars, dbVars
<1> QED
  BY <1>1, <1>2, <1>3 DEF Next, Terminated, database

\* A baseline is written to an empty history, though the history was read some
\* requests earlier (Baseline): nothing but a baseline vouches for a name, and
\* when it does no row is there.  (With resolve -applied a person vouches for
\* a half-finished file, on top of a history.)
THEOREM BaselineFirst ==
  ASSUME DropsLock = {}, NobodyVouches
  PROVE  Spec => BaselineStartsHistory
<1>1. ASSUME Inv, RunInv, NEW p \in Procs, Server(p), settled' # settled
      PROVE  history = NoRows
  <2>1. InsertBaseline(p)
    BY <1>1, NeverSettles
    DEF Server, Serve, Refuse, Conflict, DeadlockVictim, LockTimeout, Errs, Settings,
        GrantLock, ReleaseLock, CreateTable, AddStateColumn, Lookup, SelectHistory, Begin,
        RunScript, InsertRecord, Commit, Rollback, InsertStarted, RunStatement, UpdateState,
        DeleteRow, dbVars
  <2> QED
    BY <1>1, <2>1
    DEF Inv, HistoryInv, AtDatabase, Sent, InsertBaseline, Serving, Working, LockInv
<1>2. ASSUME Inv, RunInv, [Next]_vars, settled' # settled PROVE history = NoRows
  BY <1>1, <1>2, OnlyServers
<1>3. Inv /\ RunInv /\ [Next]_vars => [settled' # settled => history = NoRows]_vars
  BY <1>2
<1> QED
  BY <1>3, RunHolds, PTL DEF Spec, BaselineStartsHistory

\* What a name that was vouched for has been done for: nothing.
VouchedInv == spilled = {} /\ VouchedNeverRan

LEMMA ServerVouched ==
  ASSUME Inv, RunInv, VouchedInv, NobodyVouches, EndsTx = {}, NEW p \in Procs, Server(p)
  PROVE  VouchedInv'
<1>0. /\ history \in [Names -> Rows \cup {NoRow}] /\ DOMAIN effects = Names
      /\ settled \subseteq Names
      /\ \A f \in settled : history[f] # NoRow /\ history[f].state = "applied"
  BY DEF Inv, HistoryInv, SettledApplied, TypeInv, TypeOK
<1>1. CASE UNCHANGED <<effects, settled, spilled>>
  BY <1>1 DEF VouchedInv, VouchedNeverRan
<1>2. CASE Commit(p)
  <2>1. history[req[p].file] = NoRow
    BY <1>2 DEF Commit, Serving, Working, Inv, HistoryInv, AtDatabase, LockInv
  <2> QED
    BY <1>0, <1>2, <2>1 DEF Commit, VouchedInv, VouchedNeverRan
<1>3. CASE RunScript(p)
  <2>1. UNCHANGED <<effects, settled, spilled>>
    BY <1>3 DEF RunScript
  <2> QED
    BY <1>1, <2>1
<1>4. CASE RunStatement(p)
  <2>1. history[req[p].file] = RecordOf("started", Text(p))
    BY <1>4 DEF RunStatement, Serving, Sent, Working, Inv, HistoryInv, AtDatabase, Marked,
       LockInv
  <2>2. history[req[p].file].state # "applied"
    BY <2>1, RowFields
  <2> QED
    BY <1>0, <1>4, <2>2 DEF RunStatement, VouchedInv, VouchedNeverRan
<1>5. CASE DeleteRow(p)
  BY <1>0, <1>5 DEF DeleteRow, VouchedInv, VouchedNeverRan
<1>6. CASE InsertBaseline(p)
  <2>1. ASSUME NEW f \in Baselined(p) PROVE effects[f] = <<>>
    <3>1. f \in Names /\ history[f] = NoRow /\ f \notin settled /\ f \notin spilled
      BY <1>0, <1>6 DEF InsertBaseline, Baselined, VouchedInv
    <3> QED
      BY <3>1 DEF Inv, HistoryInv, Faithful
  <2> QED
    BY <1>6, <2>1 DEF InsertBaseline, VouchedInv, VouchedNeverRan
<1> QED
  BY <1>1, <1>2, <1>3, <1>4, <1>5, <1>6, NeverSettles
  DEF Server, Serve, Refuse, Conflict, DeadlockVictim, LockTimeout, Errs, Settings,
      GrantLock, ReleaseLock, CreateTable, AddStateColumn, Lookup, SelectHistory, Begin,
      InsertRecord, Rollback, InsertStarted, UpdateState, dbVars

\* A name recorded without being run, by baseline or by hand, is never run:
\* whatever runs race the baseline, its file has no effect (Baseline, Run),
\* provided nobody resolves a half-finished file as applied and no file ends
\* pgc's transaction or releases its lock by itself.
THEOREM Vouched ==
  ASSUME DropsLock = {}, NobodyVouches, EndsTx = {}
  PROVE  Spec => []VouchedNeverRan
<1>1. Init => VouchedInv
  BY DEF Init, VouchedInv, VouchedNeverRan
<1>2. ASSUME UNCHANGED <<history, effects, settled, spilled>>, VouchedInv PROVE VouchedInv'
  BY <1>2 DEF VouchedInv, VouchedNeverRan
<1>3. Inv /\ RunInv /\ VouchedInv /\ [Next]_vars => VouchedInv'
  BY <1>2, OnlyServers, ServerVouched
<1>4. VouchedInv => VouchedNeverRan
  BY DEF VouchedInv
<1> QED
  BY <1>1, <1>3, <1>4, RunHolds, PTL DEF Spec

-----------------------------------------------------------------------------
\* Status reads without the lock, between requests of others.  As long as no
\* table without a state column is about, what its lookups found stays so.
Looked(p) ==
  Live(p) /\ cmd[p].op = "status" =>
    /\ Done(p, "exists") /\ found[p] => table = "current"
    /\ req[p].op = "columns" => table = "current"
    /\ Done(p, "columns") => found[p]
    /\ req[p].op = "history" => found[p]

LookInv == table # "legacy" /\ \A p \in Procs : Looked(p)

LEMMA TableStays ==
  ASSUME Inv, [Next]_vars, table # "legacy"
  PROVE  table' # "legacy" /\ (table = "current" => table' = "current")
<1>1. ASSUME NEW p \in Procs, Server(p)
      PROVE  \/ UNCHANGED table
             \/ table = "absent" /\ table' = "current"
             \/ table = "legacy"
  BY <1>1
  DEF Server, Serve, Refuse, Conflict, DeadlockVictim, LockTimeout, Errs, Settings,
      GrantLock, ReleaseLock, CreateTable, AddStateColumn, Lookup, SelectHistory, Begin,
      RunScript, InsertRecord, Commit, Rollback, InsertStarted, RunStatement, UpdateState,
      UpdateSettled, DeleteRow, InsertBaseline, dbVars
<1>2. ASSUME NEW p \in Procs, Client(p) PROVE UNCHANGED table
  BY <1>2, ClientMoves DEF Moves, database
<1>3. ASSUME NEW p \in Procs,
             \/ Start(p) \/ Ends(p) \/ Crash(p) \/ Lose(p)
             \/ Interrupt(p) \/ CancelHits(p) \/ CancelMisses(p)
      PROVE  UNCHANGED table
  BY <1>3 DEF Start, Ends, EndBackend, Crash, Lose, Gone, Interrupt, CancelHits,
     Errs, CancelMisses, serverVars, dbVars
<1>4. ASSUME Edit \/ UNCHANGED vars PROVE UNCHANGED table
  BY <1>4 DEF Edit, vars, serverVars, dbVars
<1> QED
  BY <1>1, <1>2, <1>3, <1>4 DEF Next, Terminated

LEMMA LookedStays ==
  ASSUME NEW q \in Procs, Looked(q), Own(q)' = Own(q),
         table = "current" => table' = "current"
  PROVE  Looked(q)'
  BY DEF Looked, Own, Live, Done

LEMMA SelfLooked ==
  ASSUME Inv, LookInv, [Next]_vars, NEW p \in Procs,
         \/ Server(p) \/ Client(p) \/ Start(p) \/ Ends(p)
         \/ Crash(p) \/ Lose(p) \/ CancelHits(p)
  PROVE  Looked(p)'
<1>0. /\ Looked(p) /\ table # "legacy" /\ table \in {"absent", "legacy", "current"}
      /\ table = "current" => table' = "current"
      /\ cmd[p].op = "status" => req[p].op \in {"none", "exists", "columns", "history"}
  BY TableStays DEF LookInv, Inv, LockInv, TypeInv, TypeOK
<1>1. CASE Server(p)
  <2>1. /\ Live(p) /\ wire'[p] \in {"ok", "err"} /\ UNCHANGED <<req, cmd, session>>
    BY <1>1, ServerFrame
  <2>2. CASE Lookup(p)
    <3>1. /\ UNCHANGED table
          /\ req[p].op = "exists" => found'[p] = (table # "absent")
          /\ req[p].op = "columns" => found'[p] = (table = "current")
          /\ req[p].op # "history"
      BY <2>2 DEF Lookup, Serving, dbVars, Inv, TypeInv, TypeOK
    <3> QED
      BY <1>0, <2>1, <3>1 DEF Looked, Live, Done
  <2>3. CASE SelectHistory(p) \/ Settings(p) \/ Errs(p)
    <3>1. /\ UNCHANGED found
          /\ wire'[p] = "err" \/ req[p].op \notin {"exists", "columns"}
      BY <2>3 DEF SelectHistory, Settings, Serving, Errs, Reply, resultVars,
         Inv, TypeInv, TypeOK
    <3> QED
      BY <1>0, <2>1, <3>1 DEF Looked, Live, Done
  <2>4. CASE req[p].op \notin {"exists", "columns", "history"}
    BY <2>1, <2>4 DEF Looked, Done
  <2> QED
    BY <1>1, <2>2, <2>3, <2>4
    DEF Server, Serve, Refuse, Conflict, DeadlockVictim, LockTimeout, Serving, GrantLock,
        ReleaseLock, CreateTable, AddStateColumn, Begin, RunScript, InsertRecord, Commit,
        Rollback, InsertStarted, RunStatement, UpdateState, UpdateSettled, DeleteRow,
        InsertBaseline
<1>2. CASE Client(p)
  <2>1. /\ Moves(p) /\ Live(p) /\ UNCHANGED <<table, found, cmd>>
    BY <1>2, ClientMoves DEF Moves, Live, database, resultVars
  <2>2. CASE \E b : Leave(p, b)
    <3>1. wire'[p] = "idle" /\ UNCHANGED req
      BY <2>2 DEF Leave, Inv, TypeInv, TypeOK
    <3> QED
      BY <1>0, <2>1, <3>1 DEF Looked, Done
  <2>3. CASE cmd[p].op = "status" /\ ~\E b : Leave(p, b)
    <3>1. \/ Done(p, "exists") /\ found[p] /\ Send(p, "columns", 0, 0)
          \/ Done(p, "columns") /\ Send(p, "history", 0, 0)
      <4>1. Prepared(p)
        BY <1>0, <1>2, <2>3
        DEF Client, TimeoutSet, Locked, LockFailed, TimeoutReset, Aborted, RunDecides,
            StatusDecides, ResolveDecides, BaselineDecides, Written, FileReset, Begun,
            Scripted, Inserted, Applied, RolledBack, Stepped, StatementFailed,
            MarkedFailed, Unlocked, Got, Answered
      <4> QED
        BY <1>0, <2>3, <4>1 DEF Prepared, Got, Proceed, Done
    <3>2. /\ Send(p, "columns", 0, 0) => req'[p].op = "columns" /\ wire'[p] = "sent"
          /\ Send(p, "history", 0, 0) => req'[p].op = "history" /\ wire'[p] = "sent"
      BY DEF Send, Inv, TypeInv, TypeOK
    <3> QED
      BY <1>0, <2>1, <3>1, <3>2 DEF Looked, Done
  <2> QED
    BY <2>1, <2>2, <2>3 DEF Looked
<1>3. CASE Start(p)
  <2>1. wire'[p] # "ok" /\ req'[p].op \notin {"columns", "history"}
    BY <1>3 DEF Start, FirstRequest, NoRequest, Inv, TypeInv, TypeOK
  <2> QED
    BY <2>1 DEF Looked, Done
<1>4. CASE Ends(p)
  BY <1>4 DEF Ends, EndBackend, Looked, Live, Inv, TypeInv, TypeOK
<1>5. CASE Crash(p) \/ Lose(p) \/ CancelHits(p)
  <2>1. /\ wire'[p] # "ok" /\ UNCHANGED <<req, found, cmd>> /\ Live(p)
    BY <1>5 DEF Crash, Lose, Gone, CancelHits, InFlight, Errs, Reply, Live, linkVars,
       resultVars, Inv, TypeInv, TypeOK
  <2> QED
    BY <1>0, <2>1 DEF Looked, Done
<1> QED
  BY <1>1, <1>2, <1>3, <1>4, <1>5

LEMMA NextLook ==
  ASSUME Inv, LookInv, [Next]_vars
  PROVE  LookInv'
<1>1. table' # "legacy" /\ (table = "current" => table' = "current")
  BY TableStays DEF LookInv
<1>2. ASSUME NEW p \in Procs,
             \/ Server(p) \/ Client(p) \/ Start(p) \/ Ends(p)
             \/ Crash(p) \/ Lose(p) \/ CancelHits(p)
      PROVE  LookInv'
  <2>1. ASSUME NEW q \in Procs \ {p} PROVE Looked(q)'
    BY <1>1, <1>2, OthersOwn, LookedStays DEF LookInv
  <2> QED
    BY <1>1, <1>2, <2>1, SelfLooked DEF LookInv
<1>3. ASSUME \/ \E p \in Procs : Interrupt(p) \/ CancelMisses(p)
             \/ Edit \/ UNCHANGED vars
      PROVE  LookInv'
  <2>1. UNCHANGED <<req, wire, session, found, cmd>>
    BY <1>3 DEF Interrupt, CancelMisses, Edit, vars, clientVars, serverVars, linkVars,
       resultVars
  <2> QED
    BY <1>1, <2>1 DEF LookInv, Looked, Live, Done
<1> QED
  BY <1>2, <1>3 DEF Next, Terminated

\* Whoever looked for the state column before reads the rows as they are.
LEMMA ReadStep ==
  ASSUME Inv, [Next]_vars, NEW p \in Procs, seen'[p] # seen[p],
         Live(p) /\ req[p].op = "history" => found[p]
  PROVE  seen'[p] \in {history, NoRows}
<1>0. seen \in [Procs -> [Names -> Rows \cup {NoRow}]]
  BY DEF Inv, TypeInv, TypeOK
<1>1. ASSUME NEW q \in Procs, Server(q) PROVE seen'[p] = history
  <2>1. SelectHistory(q)
    BY <1>1
    DEF Server, Serve, Refuse, Conflict, DeadlockVictim, LockTimeout, Errs, Settings,
        GrantLock, ReleaseLock, CreateTable, AddStateColumn, Lookup, Begin,
        RunScript, InsertRecord, Commit, Rollback, InsertStarted, RunStatement, UpdateState,
        UpdateSettled, DeleteRow, InsertBaseline, resultVars
  <2>2. seen' = [seen EXCEPT ![q] = SelectedRows(q)] /\ Live(q) /\ req[q].op = "history"
    BY <2>1 DEF SelectHistory, Serving, Live
  <2>3. q = p /\ seen'[p] = SelectedRows(p)
    BY <1>0, <2>2
  <2> QED
    BY <2>2, <2>3 DEF SelectedRows
<1>2. ASSUME NEW q \in Procs, Start(q) PROVE seen'[p] = NoRows
  BY <1>0, <1>2 DEF Start
<1>3. ASSUME NEW q \in Procs, Client(q) PROVE FALSE
  BY <1>3, ClientMoves DEF Moves, resultVars
<1>4. ASSUME NEW q \in Procs,
             \/ Ends(q) \/ Crash(q) \/ Lose(q)
             \/ Interrupt(q) \/ CancelHits(q) \/ CancelMisses(q)
      PROVE  FALSE
  BY <1>4 DEF Ends, EndBackend, Crash, Lose, Gone, Interrupt, CancelHits, Errs,
     CancelMisses, serverVars, resultVars
<1>5. ~(Edit \/ UNCHANGED vars)
  BY DEF Edit, vars, serverVars, resultVars
<1> QED
  BY <1>1, <1>2, <1>3, <1>4, <1>5 DEF Next, Terminated

\* Reading the history yields the rows as they are: no started or failed mark is
\* taken for an applied one because the state column appeared meanwhile
\* (hasState, readHistory), provided no migration releases advisory locks - and
\* provided there is no table without that column or nobody asks for the
\* status, which looks and reads without the lock.
THEOREM ReadsTrue ==
  ASSUME DropsLock = {},
         "legacy" \notin InitTables \/ \A c \in Commands : c.op # "status"
  PROVE  Spec => HistoryReadIsTrue
<1> DEFINE Reads == \A p \in Procs :
             seen'[p] # seen[p] => seen'[p] \in {history, NoRows}
<1>1. ASSUME Inv, NEW p \in Procs, Live(p), req[p].op = "history", cmd[p].op # "status"
      PROVE  found[p]
  BY <1>1 DEF Inv, HistoryInv, AtDatabase, Working, Live
<1>2. CASE \A c \in Commands : c.op # "status"
  <2>1. ASSUME RunInv, NEW p \in Procs PROVE cmd[p].op # "status"
    BY <1>2, <2>1 DEF RunInv, AtRun
  <2>2. Inv /\ RunInv /\ [Next]_vars => [Reads]_vars
    BY <1>1, <2>1, ReadStep
  <2> QED
    BY <2>2, RunHolds, PTL DEF Spec, HistoryReadIsTrue
<1>3. CASE "legacy" \notin InitTables
  <2>1. Init => LookInv
    BY <1>3 DEF Init, LookInv, Looked, Live
  <2>2. Inv /\ LookInv /\ [Next]_vars => LookInv'
    BY NextLook
  <2>3. ASSUME LookInv, NEW p \in Procs, Live(p), req[p].op = "history", cmd[p].op = "status"
        PROVE  found[p]
    BY <2>3 DEF LookInv, Looked
  <2>4. Inv /\ LookInv /\ [Next]_vars => [Reads]_vars
    BY <1>1, <2>3, ReadStep
  <2> QED
    BY <2>1, <2>2, <2>4, InvHolds, PTL DEF Spec, HistoryReadIsTrue
<1> QED
  BY <1>2, <1>3

=============================================================================
