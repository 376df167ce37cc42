---------------------------- MODULE GenerateProofs ----------------------------
(***************************************************************************)
(* generate, check and verify, whatever runs beside them and whatever dies *)
(* when: for every set of query files, texts and schemas, any number of    *)
(* processes and of edits.                                                 *)
(***************************************************************************)
EXTENDS Generate, WellFoundedInduction, TLAPS

Asking   == {"describe", "tables", "types", "snapshot"}
Answered == {"snapshot", "build", "apply", "rename", "save"}
Planned  == {"apply", "rename", "save"}
Pcs      == {"idle", "dial", "load"} \cup Asking \cup Answered

\* The file of a statement, and its SQL.
Statements == Files \X {Sql(t) : t \in Texts}

Procedure ==
  [pc : Pcs, cmd : [op : {"none", "generate", "check", "verify"}, url : BOOLEAN],
   src : [Files -> Texts \cup {None}], ans : Learnt, rec : Records \cup {None, Damaged},
   digest : Digests \cup {None}, want : [Names -> Contents \cup {None}],
   todo : SUBSET Names, stale : SUBSET Names]

\* What each control point says of the locals, whatever others do.
Control(q) ==
  /\ q.pc # "idle" => q.cmd.op # "none"
  /\ q.pc = "dial" => q.ans = NoAnswers
  /\ q.pc = "describe" => \E f \in Present(q.src) : q.ans.shape[f] = None
  /\ q.pc = "load" => ~q.cmd.url
  /\ q.pc \in Asking \cup {"save"} => q.cmd.url
  /\ q.pc \in {"load", "build"} => q.cmd.op \in {"generate", "check"}
  /\ q.pc \in Planned => q.cmd.op = "generate"
  /\ q.pc = "rename" => q.todo # {}
  /\ q.pc = "save" => q.todo = {} /\ q.stale = {}
  /\ \A n \in q.todo : q.want[n] # None

TypeOK ==
  /\ queries \in [Files -> Texts \cup {None}] /\ schema \in Schemas /\ migrations \in Digests
  /\ pkg \in [Names -> Contents \cup {None, Hand}]
  /\ lock \in Records \cup {None, Damaged}
  /\ proc \in [Procs -> Procedure]
  /\ outcome \in [Procs -> {"ok", "refused", "failed", "none"}]
  /\ calm \in [Procs -> BOOLEAN]
  /\ had \in [Procs -> SUBSET Statements]
  /\ starts \in Nat /\ edits \in Nat

-----------------------------------------------------------------------------
\* Of a process that nobody disturbed.  The queries it works on are the tree's.
Sees(p) ==
  proc[p].pc # "idle" /\ (proc[p].pc = "dial" => proc[p].cmd.op # "verify") =>
    proc[p].src = queries

\* Verify compares with the record as it is.
Compares(p) ==
  proc[p].cmd.op = "verify" /\ proc[p].pc # "idle" => proc[p].rec = lock /\ Readable(lock)

\* What a server said is what it would say now.
Learns(p) ==
  proc[p].cmd.url =>
    /\ proc[p].pc = "describe" =>
         \A f \in Files : proc[p].ans.shape[f] \in {None, Current.shape[f]}
    /\ proc[p].pc \in {"tables", "types"} \cup Answered => proc[p].ans.shape = Current.shape
    /\ proc[p].pc \in {"types"} \cup Answered => proc[p].ans.tables = Tables(schema)
    /\ proc[p].pc \in Answered => proc[p].ans.types = Types(schema)

\* What the record said is what it says.
FromRecord(p) ==
  Readable(lock) /\ Covers(lock, queries) /\ proc[p].ans = Recorded(lock, queries)

Recalls(p) == ~proc[p].cmd.url /\ proc[p].pc \in Answered => FromRecord(p)

\* A file of the package is in place or on the list, and so is what must go.
Moves(p) ==
  proc[p].pc \in Planned =>
    /\ proc[p].want = Build(queries, proc[p].ans)
    /\ \A n \in Names \ proc[p].todo : proc[p].want[n] # None => pkg[n] = proc[p].want[n]
    /\ \A n \in proc[p].stale : Generated(pkg[n]) /\ proc[p].want[n] = None
    /\ \A n \in Names \ proc[p].stale : proc[p].want[n] = None => ~Generated(pkg[n])

\* As long as files are missing, a statement is still in its file, or that file
\* is a new one already.
Keeps(p) ==
  proc[p].cmd.op = "generate" =>
    /\ proc[p].pc \notin {"idle"} \cup Planned => had[p] \subseteq Provided(pkg)
    /\ proc[p].pc \in Planned /\ proc[p].todo # {} =>
         \A e \in had[p] : \/ e \in Provided(pkg)
                           \/ proc[p].want[e[1]] # None /\ pkg[e[1]] = proc[p].want[e[1]]

\* A statement it found and must keep is in the package.
Kept(p) ==
  proc[p].cmd.op = "generate" =>
    \A e \in had[p] :
      /\ queries[e[1]] = None \/ Sql(queries[e[1]]) = e[2]
      /\ \E f \in Present(queries) : Sql(queries[f]) = e[2]
      => \E f \in Files : <<f, e[2]>> \in Provided(pkg)

\* What it said when it ended well is so.
Ended(p) ==
  outcome[p] = "ok" =>
    /\ proc[p].pc = "idle"
    /\ proc[p].cmd.op = "generate" => FromRecord(p) /\ IsPackage(proc[p].ans)
    /\ proc[p].cmd.op = "check" =>
         IsPackage(proc[p].ans) /\ (proc[p].ans = Current \/ FromRecord(p))
    /\ proc[p].cmd.op = "verify" =>
         Readable(lock) /\ Same(lock, Of(queries, Current, migrations))

Undisturbed(p) ==
  /\ Sees(p) /\ Compares(p) /\ Learns(p) /\ Recalls(p) /\ Moves(p) /\ Keeps(p) /\ Kept(p)
  /\ Ended(p)

Local(p) == calm[p] => Undisturbed(p)

\* The properties hold because each process keeps its own part, and because
\* what one writes ends the calm of the others.
GenerateInv ==
  /\ TypeOK
  /\ \A p \in Procs : Control(proc[p]) /\ Local(p)
-----------------------------------------------------------------------------
\* Every set of numbers has a least one.
LEMMA LeastIn ==
  ASSUME NEW S, S \subseteq Nat, S # {}
  PROVE  Least(S) \in S
<1> DEFINE R == {ss \in Nat \X Nat : ss[1] < ss[2]}
<1>1. IsWellFoundedOn(R, Nat)
  BY NatLessThanWellFounded DEF OpToRel
<1> HIDE DEF R
<1>2. PICK n \in S : \A m \in S : ~(<<m, n>> \in R)
  BY <1>1, WFMin
<1>3. ASSUME NEW m \in S PROVE n <= m
  <2>1. m \in Nat /\ n \in Nat /\ ~(<<m, n>> \in R)
    BY <1>2
  <2> QED
    BY <2>1 DEF R
<1>4. \E k \in S : \A m \in S : k <= m
  BY <1>3
<1> QED
  BY <1>4, Zenon DEF Least

LEMMA NamesNat == Names \subseteq Nat /\ Files \subseteq Names /\ db \notin Files /\ models \notin Files
  BY GenerateAssumption DEF Names, db, models

LEMMA RenderedContents ==
  ASSUME NEW src \in [Files -> Texts \cup {None}], NEW ans \in Learnt,
         NEW fs \in SUBSET Present(src)
  PROVE  Rendered(src, ans, fs) \in Contents
<1>1. \A f \in fs : src[f] \in Texts /\ ans.shape[f] \in Shapes
  BY DEF Present, Learnt
<1>2. {<<src[f], ans.shape[f]>> : f \in fs} \subseteq Texts \X Shapes
  BY <1>1
<1>3. <<ans.tables, ans.types>> \in TablesRead \X TypesRead
  BY DEF Learnt
<1> QED
  BY <1>2, <1>3 DEF Rendered, Contents

\* A package has files only, and one for each query file it was built from.
LEMMA Built ==
  ASSUME NEW src \in [Files -> Texts \cup {None}], NEW ans \in Learnt
  PROVE  /\ Build(src, ans) \in [Names -> Contents \cup {None}]
         /\ \A f \in Files : Build(src, ans)[f] # None <=> f \in Present(src)
         /\ \A f \in Present(src) :
              Build(src, ans)[f] \in Contents /\ Build(src, ans)[f].of = {<<src[f], ans.shape[f]>>}
<1>1. /\ Rendered(src, ans, {}) \in Contents
      /\ Rendered(src, ans, Modelled(src)) \in Contents
      /\ \A f \in Present(src) : Rendered(src, ans, {f}) \in Contents
  BY RenderedContents DEF Modelled
<1>2. Build(src, ans) \in [Names -> Contents \cup {None}]
  BY <1>1 DEF Build
<1>3. ASSUME NEW f \in Files
      PROVE  Build(src, ans)[f] = IF f \in Present(src) THEN Rendered(src, ans, {f}) ELSE None
  BY NamesNat DEF Build
<1>4. None \notin Contents
  BY GenerateAssumption
<1>5. ASSUME NEW f \in Present(src) PROVE Rendered(src, ans, {f}).of = {<<src[f], ans.shape[f]>>}
  BY DEF Rendered
<1>6. Present(src) \subseteq Files
  BY DEF Present
<1> QED
  BY <1>1, <1>2, <1>3, <1>4, <1>5, <1>6

\* A file of a package provides its statement, whatever the others are.
LEMMA ProvidedBy ==
  ASSUME NEW files, NEW f \in Files, files[f] \in Contents, NEW e \in files[f].of
  PROVE  <<f, Sql(e[1])>> \in Provided(files)
<1>1. files[f] \notin {None, Hand, Cut}
  BY GenerateAssumption
<1> QED
  BY <1>1 DEF Provided

-----------------------------------------------------------------------------
\* A process that does nothing is as truthful as before, or no longer calm.
LEMMA Bystander ==
  ASSUME NEW q \in Procs, Control(proc[q]), Local(q),
         UNCHANGED tree, proc'[q] = proc[q], outcome'[q] = outcome[q], had'[q] = had[q],
         calm'[q] => calm[q] /\ UNCHANGED <<pkg, lock>>
  PROVE  Control(proc'[q]) /\ Local(q)'
<1>1. Control(proc'[q])
  OBVIOUS
<1> SUFFICES ASSUME calm'[q] PROVE Undisturbed(q)'
  BY <1>1 DEF Local
<1>2. Undisturbed(q) /\ UNCHANGED <<pkg, lock, queries, schema, migrations>>
  BY DEF Local, tree
<1>3. Current' = Current
  BY <1>2 DEF Current
<1>4. Sees(q)' /\ Compares(q)' /\ Learns(q)' /\ Moves(q)' /\ Keeps(q)' /\ Kept(q)'
  BY <1>2, <1>3 DEF Undisturbed, Sees, Compares, Learns, Moves, Keeps, Kept
<1>5. FromRecord(q) = FromRecord(q)'
  BY <1>2 DEF FromRecord
<1>6. Recalls(q)' /\ Ended(q)'
  BY <1>2, <1>3, <1>5 DEF Undisturbed, Recalls, Ended, IsPackage
<1> QED
  BY <1>4, <1>6 DEF Undisturbed

\* So a step of one process keeps the invariant when it keeps its own part.
LEMMA OwnStep ==
  ASSUME GenerateInv, NEW p \in Procs, TypeOK', UNCHANGED tree,
         NEW locals, proc' = [proc EXCEPT ![p] = locals],
         \A q \in Procs \ {p} :
           outcome'[q] = outcome[q] /\ had'[q] = had[q] /\
           (calm'[q] => calm[q] /\ UNCHANGED <<pkg, lock>>),
         Control(locals), Local(p)'
  PROVE  GenerateInv'
<1>1. proc'[p] = locals /\ \A q \in Procs \ {p} : proc'[q] = proc[q]
  BY DEF GenerateInv, TypeOK
<1>2. ASSUME NEW q \in Procs PROVE Control(proc'[q]) /\ Local(q)'
  <2>1. CASE q = p
    BY <1>1, <2>1
  <2>2. CASE q # p
    BY <1>1, <2>2, Bystander DEF GenerateInv
  <2> QED
    BY <2>1, <2>2
<1> QED
  BY <1>2 DEF GenerateInv

\* A step that only reads.
LEMMA QuietStep ==
  ASSUME GenerateInv, NEW p \in Procs, Reads, NEW locals \in Procedure, Go(p, locals),
         UNCHANGED outcome, Control(locals), calm[p] => Undisturbed(p)'
  PROVE  GenerateInv'
<1>1. TypeOK'
  BY DEF GenerateInv, TypeOK, Reads, Go, tree
<1>2. Local(p)'
  BY DEF Local, Reads
<1> QED
  BY <1>1, <1>2, OwnStep DEF Reads, Go

LEMMA NoProcType == NoProc \in Procedure /\ NoProc.pc = "idle" /\ NoProc.todo = {}
<1>1. NoAnswers \in Learnt
  BY DEF NoAnswers, Learnt, Shapes, TablesRead, TypesRead
<1> QED
  BY <1>1 DEF NoProc, Procedure, Pcs

\* What a process writes disturbs the others, not itself.
LEMMA Writes ==
  ASSUME TypeOK, NEW p \in Procs, Disturbs(p)
  PROVE  /\ calm' \in [Procs -> BOOLEAN] /\ calm'[p] = calm[p]
         /\ \A q \in Procs \ {p} : calm'[q] => calm[q] /\ UNCHANGED <<pkg, lock>>
  BY DEF TypeOK, Disturbs

\* A process that ends has nothing to keep but what it says when it ends well.
LEMMA EndStep ==
  ASSUME GenerateInv, NEW p \in Procs, NEW how \in {"ok", "refused", "failed"},
         Ends(p, how), UNCHANGED <<tree, pkg, had, starts, edits>>,
         lock' \in Records \cup {None, Damaged}, Disturbs(p),
         how = "ok" /\ calm[p] => Ended(p)'
  PROVE  GenerateInv'
<1> DEFINE locals == [NoProc EXCEPT !.cmd = proc[p].cmd, !.ans = proc[p].ans]
<1>1. /\ locals \in Procedure
      /\ locals.pc = "idle" /\ locals.cmd = proc[p].cmd /\ locals.todo = {}
  <2>1. proc[p].cmd \in [op : {"none", "generate", "check", "verify"}, url : BOOLEAN]
        /\ proc[p].ans \in Learnt
    BY DEF GenerateInv, TypeOK, Procedure
  <2> QED
    BY <2>1, NoProcType DEF Procedure, NoProc
<1>2. proc' = [proc EXCEPT ![p] = locals] /\ outcome' = [outcome EXCEPT ![p] = how]
  BY DEF Ends
<1> HIDE DEF locals
<1>3. proc'[p] = locals /\ outcome'[p] = how
  BY <1>2 DEF GenerateInv, TypeOK
<1>4. /\ calm' \in [Procs -> BOOLEAN] /\ calm'[p] = calm[p]
      /\ \A q \in Procs \ {p} : calm'[q] => calm[q] /\ UNCHANGED <<pkg, lock>>
  BY Writes DEF GenerateInv
<1>5. TypeOK'
  BY <1>1, <1>2, <1>4 DEF GenerateInv, TypeOK, tree
<1>6. Control(locals)
  BY <1>1 DEF Control, Asking, Planned
<1>7. Local(p)'
  <2> SUFFICES ASSUME calm[p] PROVE Undisturbed(p)'
    BY <1>4 DEF Local
  <2>1. Kept(p)'
    BY <1>1, <1>3 DEF GenerateInv, Local, Undisturbed, Kept, tree
  <2>2. Ended(p)'
    BY <1>3 DEF Ended
  <2>3. Sees(p)' /\ Compares(p)' /\ Learns(p)' /\ Recalls(p)' /\ Moves(p)' /\ Keeps(p)'
    BY <1>1, <1>3 DEF Sees, Compares, Learns, Recalls, Moves, Keeps, Answered, Planned
  <2> QED
    BY <2>1, <2>2, <2>3 DEF Undisturbed
<1>8. ASSUME NEW q \in Procs \ {p}
      PROVE  outcome'[q] = outcome[q] /\ had'[q] = had[q]
  BY <1>2 DEF GenerateInv, TypeOK
<1> QED
  BY <1>2, <1>4, <1>5, <1>6, <1>7, <1>8, OwnStep

LEMMA QuietEnd ==
  ASSUME GenerateInv, NEW p \in Procs, NEW how \in {"ok", "refused", "failed"},
         Ends(p, how), Reads,
         how = "ok" /\ calm[p] => Ended(p)'
  PROVE  GenerateInv'
<1>1. Disturbs(p) /\ lock' \in Records \cup {None, Damaged}
  BY DEF Disturbs, Reads, GenerateInv, TypeOK
<1> QED
  BY <1>1, EndStep DEF Reads

LEMMA StepFails ==
  ASSUME GenerateInv, NEW p \in Procs, Fails(p) PROVE GenerateInv'
  BY QuietEnd DEF Fails

LEMMA StepDial ==
  ASSUME GenerateInv, NEW p \in Procs, Dial(p) PROVE GenerateInv'
<1> DEFINE src == IF proc[p].cmd.op = "verify" THEN queries ELSE proc[p].src
           locals == [proc[p] EXCEPT !.pc = "describe", !.src = src]
<1>1. CASE Ends(p, "refused")
  BY <1>1, QuietEnd DEF Dial
<1>2. CASE Go(p, locals) /\ UNCHANGED outcome /\ proc[p].cmd.url /\ Accepted(src)
  <2>1. proc[p].pc = "dial" /\ proc[p] \in Procedure /\ Reads /\ Control(proc[p])
    BY DEF Dial, At, GenerateInv, TypeOK
  <2>2. proc[p].ans = NoAnswers /\ src \in [Files -> Texts \cup {None}] /\ Present(src) # {}
    BY <1>2, <2>1 DEF Control, Accepted, GenerateInv, TypeOK, Procedure
  <2> HIDE DEF src
  <2>3. /\ locals \in Procedure /\ locals.pc = "describe" /\ locals.src = src
        /\ locals.cmd = proc[p].cmd /\ locals.ans = NoAnswers /\ locals.todo = proc[p].todo
        /\ locals.want = proc[p].want /\ locals.rec = proc[p].rec
    BY <2>1, <2>2 DEF Procedure, Pcs, Asking
  <2> HIDE DEF locals
  <2>4. \A f \in Files : NoAnswers.shape[f] = None
    BY DEF NoAnswers
  <2>5. Control(locals)
    BY <1>2, <2>1, <2>2, <2>3, <2>4 DEF Control, Present, Asking, Planned
  <2>6. proc'[p] = locals
    BY <1>2 DEF Go, GenerateInv, TypeOK
  <2>7. ASSUME calm[p] PROVE Undisturbed(p)'
    <3>1. Undisturbed(p)
      BY <2>7 DEF GenerateInv, Local
    <3>2. src = queries
      BY <2>1, <3>1 DEF src, Undisturbed, Sees
    <3>3. Sees(p)' /\ Compares(p)' /\ Learns(p)' /\ Recalls(p)' /\ Moves(p)'
      BY <2>1, <2>3, <2>4, <2>6, <3>1, <3>2
      DEF Undisturbed, Sees, Compares, Learns, Recalls, Moves, Answered, Planned, Reads, tree
    <3>4. Keeps(p)' /\ Kept(p)' /\ Ended(p)'
      BY <1>2, <2>1, <2>3, <2>6, <3>1
      DEF Undisturbed, Keeps, Kept, Ended, Planned, Reads, tree
    <3> QED
      BY <3>3, <3>4 DEF Undisturbed
  <2> QED
    BY <1>2, <2>1, <2>3, <2>5, <2>7, QuietStep
<1> QED
  BY <1>1, <1>2 DEF Dial

LEMMA StepDescribe ==
  ASSUME GenerateInv, NEW p \in Procs, Describe(p) PROVE GenerateInv'
<1> DEFINE left  == {f \in Present(proc[p].src) : proc[p].ans.shape[f] = None}
           f     == Least(left)
           shape == Shape(Sql(proc[p].src[f]), schema)
           locals == [proc[p] EXCEPT !.ans.shape[f] = shape,
                                     !.pc = IF left = {f} THEN "tables" ELSE "describe"]
<1>1. CASE Ends(p, "refused")
  BY <1>1, QuietEnd DEF Describe
<1>2. CASE Go(p, locals) /\ UNCHANGED outcome /\ shape # None
  <2>1. proc[p].pc = "describe" /\ proc[p] \in Procedure /\ Reads /\ Control(proc[p])
    BY DEF Describe, At, GenerateInv, TypeOK
  <2>2. left \subseteq Files /\ left # {}
    BY <2>1 DEF Control, Present
  <2>3. f \in left
    BY <2>2, NamesNat, LeastIn
  <2> HIDE DEF left, f
  <2>4. f \in Files /\ proc[p].src[f] \in Texts /\ schema \in Schemas /\ shape \in Shapes
    BY <2>1, <2>2, <2>3 DEF left, Present, GenerateInv, TypeOK, Procedure, Shapes
  <2> HIDE DEF shape
  <2>5. proc[p].ans \in Learnt /\ proc[p].ans.shape \in [Files -> Shapes]
    BY <2>1 DEF Procedure, Learnt
  <2>6. /\ locals.ans = [proc[p].ans EXCEPT !.shape[f] = shape]
        /\ locals.pc \in {"tables", "describe"} /\ (locals.pc = "tables" <=> left = {f})
        /\ locals.src = proc[p].src
        /\ locals.cmd = proc[p].cmd /\ locals.todo = proc[p].todo
        /\ locals.want = proc[p].want /\ locals.rec = proc[p].rec
    BY <2>1 DEF Procedure, Pcs
  <2>7. /\ locals.ans \in Learnt
        /\ locals.ans.shape = [proc[p].ans.shape EXCEPT ![f] = shape]
    BY <2>4, <2>5, <2>6 DEF Learnt
  <2>8. locals \in Procedure
    BY <2>1, <2>7 DEF Procedure, Pcs, Asking
  <2> HIDE DEF locals
  <2>9. \A g \in Files : locals.ans.shape[g] = IF g = f THEN shape ELSE proc[p].ans.shape[g]
    BY <2>4, <2>5, <2>7
  <2>10. locals.pc = "describe" => \E g \in left : g # f
    BY <2>3, <2>6
  <2>11. locals.pc = "describe" => \E g \in Present(locals.src) : locals.ans.shape[g] = None
    BY <2>2, <2>6, <2>9, <2>10 DEF left
  <2>12. Control(locals)
    BY <2>1, <2>6, <2>11 DEF Control, Asking, Planned
  <2>13. proc'[p] = locals
    BY <1>2 DEF Go, GenerateInv, TypeOK
  <2>14. ASSUME calm[p] PROVE Undisturbed(p)'
    <3>1. Undisturbed(p) /\ Current' = Current
      BY <2>1, <2>14 DEF GenerateInv, Local, Reads, tree, Current
    <3>2. proc[p].src = queries /\ proc[p].cmd.url
      BY <2>1, <3>1 DEF Undisturbed, Sees, Control, Asking
    <3>3. \A g \in Files : Current.shape[g] = IF queries[g] = None THEN None
                                              ELSE Shape(Sql(queries[g]), schema)
      BY DEF Current
    <3>4. shape = Current.shape[f]
      BY <2>4, <3>2, <3>3, GenerateAssumption DEF shape
    <3>5. \A g \in Files : proc[p].ans.shape[g] \in {None, Current.shape[g]}
      BY <2>1, <3>1, <3>2 DEF Undisturbed, Learns
    <3>6. \A g \in Files : locals.ans.shape[g] \in {None, Current.shape[g]}
      BY <2>9, <3>4, <3>5
    <3>7. ASSUME locals.pc = "tables" PROVE locals.ans.shape = Current.shape
      <4>1. ASSUME NEW g \in Files, g # f PROVE locals.ans.shape[g] = Current.shape[g]
        <5>1. g \notin left /\ locals.ans.shape[g] = proc[p].ans.shape[g]
          BY <2>6, <2>9, <3>7, <4>1
        <5>2. CASE queries[g] = None
          BY <3>3, <3>6, <5>2
        <5>3. CASE queries[g] # None
          <6>1. proc[p].ans.shape[g] # None
            BY <3>2, <5>1, <5>3 DEF left, Present
          <6> QED
            BY <3>6, <5>1, <6>1
        <5> QED
          BY <5>2, <5>3
      <4>2. \A g \in Files : locals.ans.shape[g] = Current.shape[g]
        BY <2>9, <3>4, <4>1
      <4>3. locals.ans.shape \in [Files -> Shapes]
        BY <2>7 DEF Learnt
      <4>4. Current.shape = [g \in Files |-> Current.shape[g]]
        BY DEF Current
      <4> QED
        BY <4>2, <4>3, <4>4
    <3>8. Learns(p)'
      BY <2>6, <2>13, <3>1, <3>6, <3>7 DEF Learns, Answered
    <3>9. Sees(p)' /\ Compares(p)' /\ Recalls(p)' /\ Moves(p)'
      BY <2>1, <2>6, <2>13, <3>1, <3>2
      DEF Undisturbed, Sees, Compares, Recalls, Moves, Answered, Planned, Reads, tree
    <3>10. Keeps(p)' /\ Kept(p)' /\ Ended(p)'
      BY <1>2, <2>1, <2>6, <2>13, <3>1
      DEF Undisturbed, Keeps, Kept, Ended, Planned, Reads, tree
    <3> QED
      BY <3>8, <3>9, <3>10 DEF Undisturbed
  <2> QED
    BY <1>2, <2>1, <2>8, <2>12, <2>14, QuietStep
<1> QED
  BY <1>1, <1>2 DEF Describe

\* The two reads of the catalog differ in what is learnt.
LEMMA StepLoadTables ==
  ASSUME GenerateInv, NEW p \in Procs, LoadTables(p) PROVE GenerateInv'
<1> DEFINE locals == [proc[p] EXCEPT !.ans.tables = Tables(schema), !.pc = "types"]
<1>1. /\ proc[p].pc = "tables" /\ proc[p] \in Procedure /\ Reads /\ Control(proc[p])
      /\ Go(p, locals) /\ UNCHANGED outcome
  BY DEF LoadTables, At, GenerateInv, TypeOK
<1>2. Tables(schema) \in TablesRead /\ proc[p].ans \in Learnt
  BY <1>1 DEF TablesRead, GenerateInv, TypeOK, Procedure
<1>3. /\ locals.ans.shape = proc[p].ans.shape /\ locals.ans.tables = Tables(schema)
      /\ locals.ans \in Learnt /\ locals.pc = "types" /\ locals.src = proc[p].src
      /\ locals.cmd = proc[p].cmd /\ locals.todo = proc[p].todo
      /\ locals.want = proc[p].want /\ locals.rec = proc[p].rec
  BY <1>1, <1>2 DEF Procedure, Learnt
<1>4. locals \in Procedure
  BY <1>1, <1>3 DEF Procedure, Pcs, Asking
<1> HIDE DEF locals
<1>5. Control(locals)
  BY <1>1, <1>3 DEF Control, Asking, Planned
<1>6. proc'[p] = locals
  BY <1>1 DEF Go, GenerateInv, TypeOK
<1>7. ASSUME calm[p] PROVE Undisturbed(p)'
  <2>1. Undisturbed(p) /\ Current' = Current
    BY <1>1, <1>7 DEF GenerateInv, Local, Reads, tree, Current
  <2>2. Learns(p)'
    BY <1>1, <1>3, <1>6, <2>1 DEF Undisturbed, Learns, Answered, Reads, tree
  <2>3. Sees(p)' /\ Compares(p)' /\ Recalls(p)' /\ Moves(p)'
    BY <1>1, <1>3, <1>6, <2>1
    DEF Undisturbed, Sees, Compares, Recalls, Moves, Answered, Planned, Reads, tree
  <2>4. Keeps(p)' /\ Kept(p)' /\ Ended(p)'
    BY <1>1, <1>3, <1>6, <2>1 DEF Undisturbed, Keeps, Kept, Ended, Planned, Reads, tree
  <2> QED
    BY <2>2, <2>3, <2>4 DEF Undisturbed
<1> QED
  BY <1>1, <1>4, <1>5, <1>7, QuietStep

LEMMA StepLoadTypes ==
  ASSUME GenerateInv, NEW p \in Procs, LoadTypes(p) PROVE GenerateInv'
<1> DEFINE locals == [proc[p] EXCEPT !.ans.types = Types(schema), !.pc = "snapshot"]
<1>1. /\ proc[p].pc = "types" /\ proc[p] \in Procedure /\ Reads /\ Control(proc[p])
      /\ Go(p, locals) /\ UNCHANGED outcome
  BY DEF LoadTypes, At, GenerateInv, TypeOK
<1>2. Types(schema) \in TypesRead /\ proc[p].ans \in Learnt
  BY <1>1 DEF TypesRead, GenerateInv, TypeOK, Procedure
<1>3. /\ locals.ans.shape = proc[p].ans.shape /\ locals.ans.tables = proc[p].ans.tables
      /\ locals.ans.types = Types(schema)
      /\ locals.ans \in Learnt /\ locals.pc = "snapshot" /\ locals.src = proc[p].src
      /\ locals.cmd = proc[p].cmd /\ locals.todo = proc[p].todo
      /\ locals.want = proc[p].want /\ locals.rec = proc[p].rec
  BY <1>1, <1>2 DEF Procedure, Learnt
<1>4. locals \in Procedure
  BY <1>1, <1>3 DEF Procedure, Pcs, Asking
<1> HIDE DEF locals
<1>5. Control(locals) /\ locals.cmd.url
  BY <1>1, <1>3 DEF Control, Asking, Planned
<1>6. proc'[p] = locals
  BY <1>1 DEF Go, GenerateInv, TypeOK
<1>7. ASSUME calm[p] PROVE Undisturbed(p)'
  <2>1. Undisturbed(p) /\ Current' = Current
    BY <1>1, <1>7 DEF GenerateInv, Local, Reads, tree, Current
  <2>2. Learns(p)'
    BY <1>1, <1>3, <1>6, <2>1 DEF Undisturbed, Learns, Answered, Reads, tree
  <2>3. Sees(p)' /\ Compares(p)' /\ Recalls(p)' /\ Moves(p)'
    BY <1>1, <1>3, <1>5, <1>6, <2>1
    DEF Undisturbed, Sees, Compares, Recalls, Moves, Answered, Planned, Reads, tree
  <2>4. Keeps(p)' /\ Kept(p)' /\ Ended(p)'
    BY <1>1, <1>3, <1>6, <2>1 DEF Undisturbed, Keeps, Kept, Ended, Planned, Reads, tree
  <2> QED
    BY <2>2, <2>3, <2>4 DEF Undisturbed
<1> QED
  BY <1>1, <1>4, <1>5, <1>7, QuietStep

-----------------------------------------------------------------------------
LEMMA SameAnswers ==
  ASSUME NEW ans \in Learnt, ans.shape = Current.shape, ans.tables = Tables(schema),
         ans.types = Types(schema)
  PROVE  ans = Current
  BY DEF Learnt, Current

LEMMA StepSnapshot ==
  ASSUME GenerateInv, NEW p \in Procs, Snapshot(p) PROVE GenerateInv'
<1>1. proc[p].pc = "snapshot" /\ proc[p] \in Procedure /\ Reads /\ Control(proc[p])
  BY DEF Snapshot, At, GenerateInv, TypeOK
<1>2. CASE proc[p].cmd.op = "verify"
  <2> DEFINE how == IF Same(proc[p].rec, Of(proc[p].src, proc[p].ans, migrations))
                    THEN "ok" ELSE "refused"
  <2>1. Ends(p, how)
    BY <1>2 DEF Snapshot
  <2>2. ASSUME how = "ok", calm[p] PROVE Ended(p)'
    <3>1. Undisturbed(p) /\ Current' = Current
      BY <1>1, <2>2 DEF GenerateInv, Local, Reads, tree, Current
    <3>2. proc[p].rec = lock /\ Readable(lock) /\ proc[p].src = queries
      BY <1>1, <1>2, <3>1 DEF Undisturbed, Compares, Sees
    <3>3. proc[p].ans = Current
      BY <1>1, <3>1, SameAnswers DEF Undisturbed, Learns, Control, Asking, Answered, Procedure
    <3>4. Same(lock, Of(queries, Current, migrations))
      BY <2>2, <3>2, <3>3
    <3>5. proc'[p].pc = "idle" /\ proc'[p].cmd = proc[p].cmd
      BY <2>1 DEF Ends, NoProc, GenerateInv, TypeOK
    <3> QED
      BY <1>1, <1>2, <3>1, <3>2, <3>4, <3>5 DEF Ended, Reads, tree
  <2>3. how \in {"ok", "refused", "failed"}
    OBVIOUS
  <2> HIDE DEF how
  <2> QED
    BY <1>1, <2>1, <2>2, <2>3, QuietEnd
<1>3. CASE proc[p].cmd.op # "verify"
  <2> DEFINE locals == [proc[p] EXCEPT !.digest = migrations, !.pc = "build"]
  <2>1. Go(p, locals) /\ UNCHANGED outcome
    BY <1>3 DEF Snapshot
  <2>2. /\ locals.pc = "build" /\ locals.src = proc[p].src /\ locals.ans = proc[p].ans
        /\ locals.cmd = proc[p].cmd /\ locals.todo = proc[p].todo
        /\ locals.want = proc[p].want /\ locals.rec = proc[p].rec
        /\ locals \in Procedure
    BY <1>1 DEF Procedure, Pcs, Answered, GenerateInv, TypeOK
  <2> HIDE DEF locals
  <2>3. proc[p].cmd.op \in {"generate", "check"} /\ proc[p].cmd.url
    BY <1>1, <1>3 DEF Control, Asking, Procedure
  <2>4. Control(locals)
    BY <1>1, <2>2, <2>3 DEF Control, Asking, Planned
  <2>5. proc'[p] = locals
    BY <2>1 DEF Go, GenerateInv, TypeOK
  <2>6. ASSUME calm[p] PROVE Undisturbed(p)'
    <3>1. Undisturbed(p) /\ Current' = Current
      BY <1>1, <2>6 DEF GenerateInv, Local, Reads, tree, Current
    <3>2. Sees(p)' /\ Compares(p)' /\ Learns(p)' /\ Recalls(p)' /\ Moves(p)'
      BY <1>1, <2>2, <2>3, <2>5, <3>1
      DEF Undisturbed, Sees, Compares, Learns, Recalls, Moves, Answered, Planned, Reads, tree
    <3>3. Keeps(p)' /\ Kept(p)' /\ Ended(p)'
      BY <1>1, <2>1, <2>2, <2>5, <3>1 DEF Undisturbed, Keeps, Kept, Ended, Planned, Reads, tree
    <3> QED
      BY <3>2, <3>3 DEF Undisturbed
  <2> QED
    BY <1>1, <2>1, <2>2, <2>4, <2>6, QuietStep
<1> QED
  BY <1>2, <1>3

LEMMA StepLoadLock ==
  ASSUME GenerateInv, NEW p \in Procs, LoadLock(p) PROVE GenerateInv'
<1> DEFINE ans    == Recorded(lock, proc[p].src)
           locals == [proc[p] EXCEPT !.ans = ans, !.pc = "build"]
<1>1. CASE Ends(p, "refused")
  BY <1>1, QuietEnd DEF LoadLock
<1>2. CASE Go(p, locals) /\ UNCHANGED outcome /\ Readable(lock) /\ Covers(lock, proc[p].src)
  <2>1. proc[p].pc = "load" /\ proc[p] \in Procedure /\ Reads /\ Control(proc[p])
    BY DEF LoadLock, At, GenerateInv, TypeOK
  <2>2. lock \in Records
    BY <1>2 DEF GenerateInv, TypeOK, Readable
  <2>3. ans \in Learnt
    BY <2>2 DEF Records, Learnt, Recorded, Shapes
  <2>4. /\ locals.pc = "build" /\ locals.src = proc[p].src /\ locals.ans = ans
        /\ locals.cmd = proc[p].cmd /\ locals.todo = proc[p].todo
        /\ locals.want = proc[p].want /\ locals.rec = proc[p].rec
        /\ locals \in Procedure
    BY <2>1, <2>3 DEF Procedure, Pcs, Answered
  <2> HIDE DEF locals
  <2>5. Control(locals)
    BY <2>1, <2>4 DEF Control, Asking, Planned
  <2>6. proc'[p] = locals
    BY <1>2 DEF Go, GenerateInv, TypeOK
  <2>7. ASSUME calm[p] PROVE Undisturbed(p)'
    <3>1. Undisturbed(p)
      BY <2>1, <2>7 DEF GenerateInv, Local
    <3>2. proc[p].src = queries /\ ~proc[p].cmd.url
      BY <2>1, <3>1 DEF Undisturbed, Sees, Control
    <3>3. FromRecord(p)'
      BY <1>2, <2>1, <2>4, <2>6, <3>2 DEF FromRecord, Reads, tree
    <3>4. Sees(p)' /\ Compares(p)' /\ Learns(p)' /\ Recalls(p)' /\ Moves(p)'
      BY <2>1, <2>4, <2>6, <3>1, <3>2, <3>3
      DEF Undisturbed, Sees, Compares, Learns, Recalls, Moves, Answered, Planned, Reads, tree
    <3>5. Keeps(p)' /\ Kept(p)' /\ Ended(p)'
      BY <1>2, <2>1, <2>4, <2>6, <3>1 DEF Undisturbed, Keeps, Kept, Ended, Planned, Reads, tree
    <3> QED
      BY <3>4, <3>5 DEF Undisturbed
  <2> QED
    BY <1>2, <2>1, <2>4, <2>5, <2>7, QuietStep
<1> QED
  BY <1>1, <1>2 DEF LoadLock

LEMMA StepPlan ==
  ASSUME GenerateInv, NEW p \in Procs, Plan(p) PROVE GenerateInv'
<1> DEFINE want == Build(proc[p].src, proc[p].ans)
           plan == [proc[p] EXCEPT !.want = want, !.todo = OutOfDate(want),
                                   !.stale = Stale(want)]
           locals == [plan EXCEPT !.pc = "apply"]
<1>1. proc[p].pc = "build" /\ proc[p] \in Procedure /\ Reads /\ Control(proc[p])
  BY DEF Plan, At, GenerateInv, TypeOK
<1>2. want \in [Names -> Contents \cup {None}]
  BY <1>1, Built DEF Procedure
<1> HIDE DEF want
<1>3. /\ plan.todo = OutOfDate(want) /\ plan.stale = Stale(want)
      /\ locals.todo = OutOfDate(want) /\ locals.stale = Stale(want)
      /\ OutOfDate(want) \subseteq Names /\ Stale(want) \subseteq Names
      /\ locals.pc = "apply" /\ locals.src = proc[p].src /\ locals.ans = proc[p].ans
      /\ locals.cmd = proc[p].cmd /\ locals.want = want /\ locals.rec = proc[p].rec
      /\ locals.digest = proc[p].digest
  BY <1>1 DEF Procedure, OutOfDate, Stale
<1>4. locals \in Procedure
  BY <1>1, <1>2, <1>3 DEF Procedure, Pcs, Answered
<1> HIDE DEF plan, locals
<1>5. ASSUME calm[p]
      PROVE  /\ Undisturbed(p) /\ Current' = Current /\ want = Build(queries, proc[p].ans)
             /\ proc[p].src = queries
  <2>1. Undisturbed(p) /\ Current' = Current
    BY <1>1, <1>5 DEF GenerateInv, Local, Reads, tree, Current
  <2> QED
    BY <1>1, <2>1 DEF want, Undisturbed, Sees
<1>6. CASE proc[p].cmd.op = "check"
  <2> DEFINE how == IF plan.todo \cup plan.stale = {} THEN "ok" ELSE "refused"
  <2>1. Ends(p, how)
    BY <1>6 DEF Plan, ReadsOnly, plan, want
  <2>2. ASSUME how = "ok", calm[p] PROVE Ended(p)'
    <3>1. OutOfDate(want) = {} /\ Stale(want) = {}
      BY <1>3, <2>2
    <3>2. IsPackage(proc[p].ans)
      BY <1>5, <2>2, <3>1 DEF IsPackage, OutOfDate, Stale
    <3>3. proc[p].ans = Current \/ FromRecord(p)
      <4>1. CASE proc[p].cmd.url
        BY <1>1, <1>5, <2>2, <4>1, SameAnswers DEF Undisturbed, Learns, Answered, Procedure
      <4>2. CASE ~proc[p].cmd.url
        BY <1>1, <1>5, <2>2, <4>2 DEF Undisturbed, Recalls, Answered
      <4> QED
        BY <4>1, <4>2
    <3>4. proc'[p].pc = "idle" /\ proc'[p].cmd = proc[p].cmd /\ proc'[p].ans = proc[p].ans
      BY <2>1 DEF Ends, NoProc, GenerateInv, TypeOK
    <3>5. IsPackage(proc[p].ans)' /\ (proc'[p].ans = Current' \/ FromRecord(p)')
      BY <1>1, <1>5, <2>2, <3>2, <3>3, <3>4 DEF IsPackage, FromRecord, Reads, tree
    <3> QED
      BY <1>6, <3>4, <3>5 DEF Ended
  <2>3. how \in {"ok", "refused", "failed"}
    OBVIOUS
  <2> HIDE DEF how
  <2> QED
    BY <1>1, <2>1, <2>2, <2>3, QuietEnd
<1>7. CASE proc[p].cmd.op # "check"
  <2>1. Go(p, locals) /\ UNCHANGED outcome /\ proc[p].cmd.op = "generate"
    BY <1>1, <1>7 DEF Plan, ReadsOnly, plan, locals, want, Control
  <2>2. Control(locals)
    BY <1>1, <1>3, <2>1 DEF Control, Asking, Planned, OutOfDate
  <2>3. proc'[p] = locals
    BY <2>1 DEF Go, GenerateInv, TypeOK
  <2>4. ASSUME calm[p] PROVE Undisturbed(p)'
    <3>1. Sees(p)' /\ Compares(p)' /\ Learns(p)'
      BY <1>1, <1>3, <1>5, <2>1, <2>3, <2>4
      DEF Undisturbed, Sees, Compares, Learns, Answered, Reads, tree
    <3>2. Recalls(p)'
      BY <1>1, <1>3, <1>5, <2>3, <2>4
      DEF Undisturbed, Recalls, FromRecord, Answered, Reads, tree
    <3>3. Moves(p)'
      BY <1>1, <1>3, <1>5, <2>3, <2>4 DEF Moves, OutOfDate, Stale, Reads, tree
    <3>4. Keeps(p)' /\ Kept(p)' /\ Ended(p)'
      BY <1>1, <1>3, <1>5, <2>1, <2>3, <2>4
      DEF Undisturbed, Keeps, Kept, Ended, Planned, Answered, Reads, tree
    <3> QED
      BY <3>1, <3>2, <3>3, <3>4 DEF Undisturbed
  <2> QED
    BY <1>1, <1>4, <2>1, <2>2, <2>4, QuietStep
<1> QED
  BY <1>6, <1>7

LEMMA StepWriteTemp ==
  ASSUME GenerateInv, NEW p \in Procs, WriteTemp(p) PROVE GenerateInv'
<1> DEFINE locals == [proc[p] EXCEPT !.pc = "rename"]
<1>1. /\ proc[p].pc = "apply" /\ proc[p] \in Procedure /\ Reads /\ Control(proc[p])
      /\ proc[p].todo # {} /\ Go(p, locals) /\ UNCHANGED outcome
  BY DEF WriteTemp, At, GenerateInv, TypeOK
<1>2. /\ locals \in Procedure /\ locals.pc = "rename" /\ locals.src = proc[p].src
      /\ locals.ans = proc[p].ans /\ locals.cmd = proc[p].cmd /\ locals.todo = proc[p].todo
      /\ locals.stale = proc[p].stale /\ locals.want = proc[p].want
      /\ locals.rec = proc[p].rec
  BY <1>1 DEF Procedure, Pcs, Answered
<1> HIDE DEF locals
<1>3. Control(locals)
  BY <1>1, <1>2 DEF Control, Asking, Planned
<1>4. proc'[p] = locals
  BY <1>1 DEF Go, GenerateInv, TypeOK
<1>5. ASSUME calm[p] PROVE Undisturbed(p)'
  <2>1. Undisturbed(p) /\ Current' = Current
    BY <1>1, <1>5 DEF GenerateInv, Local, Reads, tree, Current
  <2>2. Sees(p)' /\ Compares(p)' /\ Learns(p)' /\ Moves(p)'
    BY <1>1, <1>2, <1>4, <2>1
    DEF Undisturbed, Sees, Compares, Learns, Moves, Answered, Planned, Reads, tree
  <2>3. Recalls(p)'
    BY <1>1, <1>2, <1>4, <2>1 DEF Undisturbed, Recalls, FromRecord, Answered, Reads, tree
  <2>4. Keeps(p)' /\ Kept(p)' /\ Ended(p)'
    BY <1>1, <1>2, <1>4, <2>1 DEF Undisturbed, Keeps, Kept, Ended, Planned, Reads, tree
  <2> QED
    BY <2>2, <2>3, <2>4 DEF Undisturbed
<1> QED
  BY <1>1, <1>2, <1>3, <1>5, QuietStep

-----------------------------------------------------------------------------
\* Whether a file provides a statement is a matter of that file alone.
LEMMA ProvidedAt ==
  ASSUME NEW a, NEW b, NEW e \in Provided(a), b[e[1]] = a[e[1]]
  PROVE  e \in Provided(b) /\ e[1] \in Files /\ e = <<e[1], e[2]>>
<1>1. PICK g \in {h \in Files : a[h] \notin {None, Hand, Cut}} :
        e \in {<<g, Sql(x[1])>> : x \in a[g].of}
  BY DEF Provided
<1>2. PICK x \in a[g].of : e = <<g, Sql(x[1])>>
  BY <1>1
<1>3. e[1] = g /\ e[2] = Sql(x[1])
  BY <1>2
<1> QED
  BY <1>1, <1>2, <1>3 DEF Provided

\* The files that are not left to write are as they are wanted.
Standing(src, ans, files, want, left) ==
  /\ src \in [Files -> Texts \cup {None}] /\ ans \in Learnt
  /\ files \in [Names -> Contents \cup {None, Hand}]
  /\ want = Build(src, ans) /\ left \in SUBSET Names
  /\ \A n \in Names \ left : want[n] # None => files[n] = want[n]

\* A statement is in the package as long as the files that are missing keep
\* their old contents: where it must be kept it is in its old file, in the new
\* one of the same name, or in the one that replaces it.
LEMMA StillThere ==
  ASSUME NEW src, NEW ans, NEW files, NEW want, NEW left,
         Standing(src, ans, files, want, left),
         NEW e \in Statements,
         left # {} => \/ e \in Provided(files)
                      \/ want[e[1]] # None /\ files[e[1]] = want[e[1]],
         src[e[1]] = None \/ Sql(src[e[1]]) = e[2],
         NEW f \in Present(src), Sql(src[f]) = e[2]
  PROVE  \E g \in Files : <<g, e[2]>> \in Provided(files)
<1> USE DEF Standing
<1>1. ASSUME NEW g \in Present(src), Sql(src[g]) = e[2], files[g] = want[g]
      PROVE  \E h \in Files : <<h, e[2]>> \in Provided(files)
  <2>1. g \in Files /\ files[g] \in Contents /\ files[g].of = {<<src[g], ans.shape[g]>>}
    BY <1>1, Built DEF Present
  <2>2. <<src[g], ans.shape[g]>> \in files[g].of /\ <<src[g], ans.shape[g]>>[1] = src[g]
    BY <2>1
  <2>3. <<g, Sql(src[g])>> \in Provided(files)
    BY <2>1, <2>2, ProvidedBy
  <2> QED
    BY <1>1, <2>1, <2>3
<1>2. f \in Files /\ want[f] # None /\ f \in Names
  BY Built, NamesNat DEF Present
<1>3. CASE left = {}
  BY <1>1, <1>2, <1>3
<1>4. CASE e \in Provided(files)
  <2>1. e[1] \in Files /\ e = <<e[1], e[2]>>
    BY DEF Statements
  <2> QED
    BY <1>4, <2>1
<1>5. CASE want[e[1]] # None /\ files[e[1]] = want[e[1]]
  <2>1. e[1] \in Present(src)
    BY <1>5, Built DEF Statements
  <2>2. Sql(src[e[1]]) = e[2]
    BY <2>1 DEF Present
  <2> QED
    BY <1>1, <1>5, <2>1, <2>2
<1> QED
  BY <1>3, <1>4, <1>5

LEMMA StepRename ==
  ASSUME GenerateInv, NEW p \in Procs, Rename(p) PROVE GenerateInv'
<1> DEFINE n == Least(proc[p].todo)
           locals == [proc[p] EXCEPT !.pc = "apply", !.todo = @ \ {n}]
<1>1. /\ proc[p].pc = "rename" /\ proc[p] \in Procedure /\ Control(proc[p])
      /\ pkg' = [pkg EXCEPT ![n] = proc[p].want[n]] /\ Go(p, locals) /\ Disturbs(p)
      /\ UNCHANGED <<tree, lock, outcome, had, starts, edits>>
  BY DEF Rename, At, GenerateInv, TypeOK
<1>2. n \in proc[p].todo
  BY <1>1, NamesNat, LeastIn DEF Control, Procedure
<1> HIDE DEF n
<1>3. /\ n \in Names /\ proc[p].want[n] \in Contents /\ proc[p].cmd.op = "generate"
      /\ proc[p].want[n] # None
  BY <1>1, <1>2 DEF Control, Procedure, Planned
<1>4. /\ locals \in Procedure /\ locals.pc = "apply" /\ locals.src = proc[p].src
      /\ locals.ans = proc[p].ans /\ locals.cmd = proc[p].cmd
      /\ locals.todo = proc[p].todo \ {n} /\ locals.want = proc[p].want
      /\ locals.stale = proc[p].stale /\ locals.rec = proc[p].rec
  BY <1>1 DEF Procedure, Pcs, Answered
<1> HIDE DEF locals
<1>5. Control(locals)
  BY <1>1, <1>4 DEF Control, Asking, Planned
<1>6. /\ proc' = [proc EXCEPT ![p] = locals] /\ proc'[p] = locals
      /\ pkg'[n] = proc[p].want[n] /\ \A m \in Names \ {n} : pkg'[m] = pkg[m]
  BY <1>1, <1>3 DEF Go, GenerateInv, TypeOK
<1>7. /\ calm' \in [Procs -> BOOLEAN] /\ calm'[p] = calm[p]
      /\ \A q \in Procs \ {p} : calm'[q] => calm[q] /\ UNCHANGED <<pkg, lock>>
  BY <1>1, Writes DEF GenerateInv
<1>8. TypeOK'
  BY <1>1, <1>3, <1>4, <1>6, <1>7 DEF GenerateInv, TypeOK, tree
<1>9. ASSUME calm[p] PROVE Undisturbed(p)'
  <2>1. Undisturbed(p) /\ Current' = Current /\ UNCHANGED <<queries, lock>>
    BY <1>1, <1>9 DEF GenerateInv, Local, tree, Current
  <2>2. Sees(p)' /\ Compares(p)' /\ Learns(p)' /\ Recalls(p)'
    BY <1>1, <1>4, <1>6, <2>1
    DEF Undisturbed, Sees, Compares, Learns, Recalls, FromRecord, Answered, tree
  <2>3. /\ proc[p].want = Build(queries, proc[p].ans)
        /\ \A m \in Names \ proc[p].todo : proc[p].want[m] # None => pkg[m] = proc[p].want[m]
        /\ \A m \in proc[p].stale : Generated(pkg[m]) /\ proc[p].want[m] = None
        /\ \A m \in Names \ proc[p].stale : proc[p].want[m] = None => ~Generated(pkg[m])
    BY <1>1, <2>1 DEF Undisturbed, Moves, Planned
  <2>4. \A m \in Names \ locals.todo : locals.want[m] # None => pkg'[m] = locals.want[m]
    BY <1>4, <1>6, <2>3
  <2>5. Moves(p)'
    <3>1. \A m \in proc[p].stale : m \in Names \ {n}
      BY <1>1, <1>3, <2>3 DEF Procedure
    <3> QED
      BY <1>3, <1>4, <1>6, <2>1, <2>3, <2>4, <3>1 DEF Moves
  <2>6. ASSUME NEW e \in had[p]
        PROVE  \/ e \in Provided(pkg')
               \/ proc[p].want[e[1]] # None /\ pkg'[e[1]] = proc[p].want[e[1]]
    <3>1. e[1] \in Files /\ e[1] \in Names
      <4>1. had[p] \subseteq Statements
        BY DEF GenerateInv, TypeOK
      <4> QED
        BY <4>1, NamesNat DEF Statements
    <3>2. \/ e \in Provided(pkg)
          \/ proc[p].want[e[1]] # None /\ pkg[e[1]] = proc[p].want[e[1]]
      BY <1>1, <1>2, <1>3, <2>1 DEF Undisturbed, Keeps, Planned
    <3>3. CASE e[1] = n
      BY <1>3, <1>6, <3>3
    <3>4. CASE e[1] # n
      BY <1>6, <3>1, <3>2, <3>4, ProvidedAt
    <3> QED
      BY <3>3, <3>4
  <2>7. Keeps(p)'
    <3>1. proc'[p].pc = "apply" /\ proc'[p].want = proc[p].want /\ UNCHANGED had
      BY ONLY <1>1, <1>4, <1>6
    <3>2. "apply" \in Planned /\ "apply" # "idle"
      BY DEF Planned
    <3> QED
      BY ONLY <2>6, <3>1, <3>2, Zenon DEF Keeps
  <2>8. Kept(p)'
    <3>1. ASSUME NEW e \in had[p], queries[e[1]] = None \/ Sql(queries[e[1]]) = e[2],
                 NEW f \in Present(queries), Sql(queries[f]) = e[2]
          PROVE  \E g \in Files : <<g, e[2]>> \in Provided(pkg')
      <4>1. /\ queries \in [Files -> Texts \cup {None}] /\ proc[p].ans \in Learnt
            /\ pkg' \in [Names -> Contents \cup {None, Hand}] /\ locals.todo \in SUBSET Names
            /\ e \in Statements
        BY <1>1, <1>4, <1>8 DEF GenerateInv, TypeOK, Procedure
      <4>2. /\ proc[p].want = Build(queries, proc[p].ans)
            /\ \A m \in Names \ locals.todo :
                 proc[p].want[m] # None => pkg'[m] = proc[p].want[m]
        BY <1>4, <2>3, <2>4
      <4>3. locals.todo # {} =>
              \/ e \in Provided(pkg')
              \/ proc[p].want[e[1]] # None /\ pkg'[e[1]] = proc[p].want[e[1]]
        BY <2>6, <3>1
      <4>4. /\ queries[e[1]] = None \/ Sql(queries[e[1]]) = e[2]
            /\ f \in Present(queries) /\ Sql(queries[f]) = e[2]
        BY <3>1
      <4>5. Standing(queries, proc[p].ans, pkg', proc[p].want, locals.todo)
        BY <4>1, <4>2, Zenon DEF Standing
      <4> HIDE DEF GenerateInv
      <4> QED
        BY <4>1, <4>3, <4>4, <4>5, StillThere, Zenon
    <3> QED
      BY <1>1, <2>1, <3>1 DEF Kept
  <2>9. Ended(p)'
    BY <1>1, <2>1 DEF Undisturbed, Ended
  <2> QED
    BY <2>2, <2>5, <2>7, <2>8, <2>9 DEF Undisturbed
<1>10. Local(p)'
  BY <1>7, <1>9 DEF Local
<1>11. UNCHANGED tree /\ \A q \in Procs \ {p} : outcome'[q] = outcome[q] /\ had'[q] = had[q]
  BY <1>1
<1> QED
  BY <1>5, <1>6, <1>7, <1>8, <1>10, <1>11, OwnStep

LEMMA StepRemoveStale ==
  ASSUME GenerateInv, NEW p \in Procs, RemoveStale(p) PROVE GenerateInv'
<1> DEFINE n == Least(proc[p].stale)
           locals == [proc[p] EXCEPT !.stale = @ \ {n}]
<1>1. /\ proc[p].pc = "apply" /\ proc[p] \in Procedure /\ Control(proc[p])
      /\ proc[p].todo = {} /\ proc[p].stale # {}
      /\ pkg' = [pkg EXCEPT ![n] = None] /\ Disturbs(p)
      /\ UNCHANGED <<tree, lock, had, starts, edits>>
  BY DEF RemoveStale, At, GenerateInv, TypeOK
<1>2. n \in proc[p].stale /\ n \in Names
  BY <1>1, NamesNat, LeastIn DEF Procedure
<1>3. CASE pkg[n] = None
  <2>1. Ends(p, "refused")
    BY <1>3 DEF RemoveStale
  <2>2. pkg' = pkg
    BY <1>1, <1>2, <1>3 DEF GenerateInv, TypeOK
  <2>3. Reads
    BY <1>1, <2>2 DEF Reads, Disturbs
  <2> QED
    BY <2>1, <2>3, QuietEnd
<1>4. CASE pkg[n] # None
  <2>1. Go(p, locals) /\ UNCHANGED outcome
    BY <1>4 DEF RemoveStale
  <2> HIDE DEF n
  <2>2. /\ locals \in Procedure /\ locals.pc = "apply" /\ locals.src = proc[p].src
        /\ locals.ans = proc[p].ans /\ locals.cmd = proc[p].cmd
        /\ locals.todo = {} /\ locals.want = proc[p].want
        /\ locals.stale = proc[p].stale \ {n} /\ locals.rec = proc[p].rec
    BY <1>1 DEF Procedure, Pcs, Answered
  <2> HIDE DEF locals
  <2>3. Control(locals)
    BY <1>1, <2>2 DEF Control, Asking, Planned
  <2>4. /\ proc' = [proc EXCEPT ![p] = locals] /\ proc'[p] = locals
        /\ pkg'[n] = None /\ \A m \in Names \ {n} : pkg'[m] = pkg[m]
    BY <1>1, <1>2, <2>1 DEF Go, GenerateInv, TypeOK
  <2>5. /\ calm' \in [Procs -> BOOLEAN] /\ calm'[p] = calm[p]
        /\ \A q \in Procs \ {p} : calm'[q] => calm[q] /\ UNCHANGED <<pkg, lock>>
    BY <1>1, Writes DEF GenerateInv
  <2>6. TypeOK'
    BY <1>1, <1>2, <2>1, <2>2, <2>4, <2>5 DEF GenerateInv, TypeOK, tree
  <2>7. ASSUME calm[p] PROVE Undisturbed(p)'
    <3>1. Undisturbed(p) /\ Current' = Current /\ UNCHANGED <<queries, lock>>
      BY <1>1, <2>7 DEF GenerateInv, Local, tree, Current
    <3>2. Sees(p)' /\ Compares(p)' /\ Learns(p)' /\ Recalls(p)'
      BY <1>1, <2>2, <2>4, <3>1
      DEF Undisturbed, Sees, Compares, Learns, Recalls, FromRecord, Answered, tree
    <3>3. /\ proc[p].want = Build(queries, proc[p].ans)
          /\ \A m \in Names : proc[p].want[m] # None => pkg[m] = proc[p].want[m]
          /\ \A m \in proc[p].stale : Generated(pkg[m]) /\ proc[p].want[m] = None
          /\ \A m \in Names \ proc[p].stale : proc[p].want[m] = None => ~Generated(pkg[m])
      BY <1>1, <3>1 DEF Undisturbed, Moves, Planned
    <3>4. \A m \in Names : proc[p].want[m] # None => pkg'[m] = proc[p].want[m]
      BY <1>2, <2>4, <3>3
    <3>5. ~Generated(pkg'[n]) /\ \A m \in locals.stale : m \in Names \ {n}
      BY <1>1, <2>2, <2>4 DEF Generated, Procedure
    <3>6. Moves(p)'
      BY <2>2, <2>4, <3>1, <3>3, <3>4, <3>5 DEF Moves
    <3>7. Keeps(p)'
      BY <2>2, <2>4 DEF Keeps, Planned
    <3>8. Kept(p)'
      <4>1. ASSUME NEW e \in had[p], queries[e[1]] = None \/ Sql(queries[e[1]]) = e[2],
                   NEW f \in Present(queries), Sql(queries[f]) = e[2]
            PROVE  \E g \in Files : <<g, e[2]>> \in Provided(pkg')
        <5>1. /\ queries \in [Files -> Texts \cup {None}] /\ proc[p].ans \in Learnt
              /\ pkg' \in [Names -> Contents \cup {None, Hand}] /\ {} \in SUBSET Names
              /\ e \in Statements
          BY <1>1, <2>6 DEF GenerateInv, TypeOK, Procedure
        <5>2. \A m \in Names \ {} : proc[p].want[m] # None => pkg'[m] = proc[p].want[m]
          BY <3>4
        <5>3. Standing(queries, proc[p].ans, pkg', proc[p].want, {})
          BY <3>3, <5>1, <5>2, Zenon DEF Standing
        <5> QED
          BY <4>1, <5>1, <5>3, StillThere
      <4> QED
        BY <1>1, <3>1, <4>1 DEF Kept
    <3>9. Ended(p)'
      BY <1>1, <2>1, <3>1 DEF Undisturbed, Ended
    <3> QED
      BY <3>2, <3>6, <3>7, <3>8, <3>9 DEF Undisturbed
  <2>8. Local(p)'
    BY <2>5, <2>7 DEF Local
  <2>9. UNCHANGED tree /\ \A q \in Procs \ {p} : outcome'[q] = outcome[q] /\ had'[q] = had[q]
    BY <1>1, <2>1
  <2> QED
    BY <2>3, <2>4, <2>5, <2>6, <2>8, <2>9, OwnStep
<1> QED
  BY <1>3, <1>4

\* With nothing left to write and to remove the directory holds the package.
LEMMA StepApplied ==
  ASSUME GenerateInv, NEW p \in Procs, Applied(p) PROVE GenerateInv'
<1> DEFINE locals == [proc[p] EXCEPT !.pc = "save"]
<1>1. /\ proc[p].pc = "apply" /\ proc[p] \in Procedure /\ Control(proc[p]) /\ Reads
      /\ proc[p].todo = {} /\ proc[p].stale = {} /\ proc[p].cmd.op = "generate"
  BY DEF Applied, At, GenerateInv, TypeOK, Control, Planned
<1>2. CASE proc[p].cmd.url
  <2>1. Go(p, locals) /\ UNCHANGED outcome
    BY <1>2 DEF Applied
  <2>2. /\ locals \in Procedure /\ locals.pc = "save" /\ locals.src = proc[p].src
        /\ locals.ans = proc[p].ans /\ locals.cmd = proc[p].cmd /\ locals.todo = proc[p].todo
        /\ locals.stale = proc[p].stale /\ locals.want = proc[p].want
        /\ locals.rec = proc[p].rec
    BY <1>1 DEF Procedure, Pcs, Answered
  <2> HIDE DEF locals
  <2>3. Control(locals)
    BY <1>1, <1>2, <2>2 DEF Control, Asking, Planned
  <2>4. proc'[p] = locals
    BY <2>1 DEF Go, GenerateInv, TypeOK
  <2>5. ASSUME calm[p] PROVE Undisturbed(p)'
    <3>1. Undisturbed(p) /\ Current' = Current
      BY <1>1, <2>5 DEF GenerateInv, Local, Reads, tree, Current
    <3>2. Sees(p)' /\ Compares(p)' /\ Learns(p)' /\ Recalls(p)' /\ Moves(p)'
      BY <1>1, <1>2, <2>2, <2>4, <3>1
      DEF Undisturbed, Sees, Compares, Learns, Recalls, Moves, Answered, Planned, Reads, tree
    <3>3. Keeps(p)' /\ Kept(p)' /\ Ended(p)'
      BY <1>1, <2>1, <2>2, <2>4, <3>1 DEF Undisturbed, Keeps, Kept, Ended, Planned, Reads, tree
    <3> QED
      BY <3>2, <3>3 DEF Undisturbed
  <2> QED
    BY <1>1, <2>1, <2>2, <2>3, <2>5, QuietStep
<1>3. CASE ~proc[p].cmd.url
  <2>1. Ends(p, "ok")
    BY <1>3 DEF Applied
  <2>2. ASSUME calm[p] PROVE Ended(p)'
    <3>1. Undisturbed(p)
      BY <2>2 DEF GenerateInv, Local
    <3>2. FromRecord(p)
      BY <1>1, <1>3, <3>1 DEF Undisturbed, Recalls, Answered
    <3>3. IsPackage(proc[p].ans)
      BY <1>1, <3>1 DEF Undisturbed, Moves, Planned, IsPackage
    <3>4. proc'[p].pc = "idle" /\ proc'[p].cmd = proc[p].cmd /\ proc'[p].ans = proc[p].ans
      BY <2>1 DEF Ends, NoProc, GenerateInv, TypeOK
    <3>5. FromRecord(p)' /\ IsPackage(proc[p].ans)'
      BY <1>1, <3>2, <3>3, <3>4 DEF IsPackage, FromRecord, Reads, tree
    <3> QED
      BY <1>1, <3>4, <3>5 DEF Ended
  <2> QED
    BY <1>1, <2>1, <2>2, QuietEnd
<1> QED
  BY <1>2, <1>3

\* The record that is saved reproduces the answers it was taken from.
LEMMA StepSave ==
  ASSUME GenerateInv, NEW p \in Procs, Save(p) PROVE GenerateInv'
<1>1. /\ proc[p].pc = "save" /\ proc[p] \in Procedure /\ Control(proc[p])
      /\ lock' = Of(proc[p].src, proc[p].ans, proc[p].digest) /\ Ends(p, "ok") /\ Disturbs(p)
      /\ UNCHANGED <<tree, pkg, had, starts, edits>>
  BY DEF Save, At, GenerateInv, TypeOK
<1>2. lock' \in Records
  <2>1. \A f \in Files : proc[p].src[f] # None => proc[p].src[f] \in Texts
    BY <1>1 DEF Procedure
  <2>2. [f \in Files |-> IF proc[p].src[f] = None THEN None ELSE Sql(proc[p].src[f])]
          \in [Files -> {Sql(t) : t \in Texts} \cup {None}]
    BY <2>1
  <2> QED
    BY <1>1, <2>2 DEF Of, Records, Procedure, Learnt
<1>3. ASSUME calm[p] PROVE Ended(p)'
  <2>1. Undisturbed(p) /\ Current' = Current /\ UNCHANGED <<queries, pkg>>
    BY <1>1, <1>3 DEF GenerateInv, Local, tree, Current
  <2>2. /\ proc[p].src = queries /\ proc[p].cmd.url /\ proc[p].cmd.op = "generate"
        /\ proc[p].ans \in Learnt
    BY <1>1, <2>1 DEF Undisturbed, Sees, Control, Asking, Planned, Procedure
  <2>3. proc[p].ans = Current
    BY <1>1, <2>1, <2>2, SameAnswers DEF Undisturbed, Learns, Answered
  <2>4. Readable(lock')
    BY <1>2, GenerateAssumption DEF Readable
  <2>5. Covers(lock', queries)
    BY <1>1, <2>2 DEF Covers, Of, Present
  <2>6. proc[p].ans = Recorded(lock', queries)
    <3>1. lock'.shape = proc[p].ans.shape /\ lock'.tables = proc[p].ans.tables
          /\ lock'.types = proc[p].ans.types
      BY <1>1 DEF Of
    <3>2. proc[p].ans.shape \in [Files -> Shapes]
          /\ \A f \in Files : queries[f] = None => proc[p].ans.shape[f] = None
      BY <2>2, <2>3 DEF Learnt, Current
    <3>3. [f \in Files |-> IF queries[f] = None THEN None ELSE lock'.shape[f]] = proc[p].ans.shape
      BY <3>1, <3>2
    <3> QED
      BY <2>2, <3>1, <3>3 DEF Recorded, Learnt
  <2>7. IsPackage(proc[p].ans)
    BY <1>1, <2>1 DEF Undisturbed, Moves, Planned, IsPackage, Control
  <2>8. proc'[p].pc = "idle" /\ proc'[p].cmd = proc[p].cmd /\ proc'[p].ans = proc[p].ans
    BY <1>1 DEF Ends, NoProc, GenerateInv, TypeOK
  <2>9. FromRecord(p)' /\ IsPackage(proc[p].ans)'
    BY <2>1, <2>4, <2>5, <2>6, <2>7, <2>8 DEF IsPackage, FromRecord
  <2> QED
    BY <2>2, <2>8, <2>9 DEF Ended
<1> QED
  BY <1>1, <1>2, <1>3, EndStep

\* A statement of the package is one of a text.
LEMMA ProvidedStatements ==
  ASSUME NEW files \in [Names -> Contents \cup {None, Hand}]
  PROVE  Provided(files) \subseteq Statements
<1>1. ASSUME NEW f \in Files, files[f] \notin {None, Hand, Cut}, NEW e \in files[f].of
      PROVE  <<f, Sql(e[1])>> \in Statements
  <2>1. files[f] \in Contents
    BY <1>1, NamesNat
  <2>2. e[1] \in Texts
    BY <2>1 DEF Contents
  <2> QED
    BY <2>2 DEF Statements
<1> QED
  BY <1>1 DEF Provided

LEMMA StepStart ==
  ASSUME GenerateInv, NEW p \in Procs, NEW c \in Commands, Start(p, c) PROVE GenerateInv'
<1> DEFINE fails == IF c.op = "verify" THEN ~Readable(lock) ELSE ~Accepted(queries)
           fresh == [NoProc EXCEPT !.cmd = c]
           locals == IF fails THEN fresh
                     ELSE IF c.op = "verify" THEN [fresh EXCEPT !.pc = "dial", !.rec = lock]
                     ELSE [fresh EXCEPT !.pc = IF c.url THEN "dial" ELSE "load", !.src = queries]
<1>1. /\ Go(p, locals) /\ UNCHANGED <<tree, pkg, lock, edits>>
      /\ calm' = [calm EXCEPT ![p] = TRUE]
      /\ had' = [had EXCEPT ![p] = IF c.op = "generate" THEN Provided(pkg) ELSE {}]
      /\ outcome' = [outcome EXCEPT ![p] = IF fails THEN "refused" ELSE "none"]
      /\ starts' = starts + 1
  BY Zenon DEF Start
<1>2. c.op \in {"generate", "check", "verify"} /\ c.url \in BOOLEAN
      /\ c \in [op : {"none", "generate", "check", "verify"}, url : BOOLEAN]
  BY GenerateAssumption
<1>3. queries \in [Files -> Texts \cup {None}] /\ lock \in Records \cup {None, Damaged}
  BY DEF GenerateInv, TypeOK
<1>4. /\ fresh \in Procedure /\ fresh.pc = "idle" /\ fresh.cmd = c
      /\ fresh.ans = NoAnswers /\ fresh.todo = {}
  BY <1>2, NoProcType DEF Procedure, NoProc
<1> HIDE DEF fresh
<1>5. /\ locals \in Procedure /\ locals.cmd = c /\ locals.ans = NoAnswers /\ locals.todo = {}
      /\ locals.pc \in {"idle", "dial", "load"}
      /\ locals.pc = "load" => ~c.url /\ c.op # "verify"
      /\ locals.pc # "idle" /\ c.op # "verify" => locals.src = queries
      /\ locals.pc # "idle" /\ c.op = "verify" =>
           locals.pc = "dial" /\ locals.rec = lock /\ Readable(lock)
  BY <1>2, <1>3, <1>4 DEF Procedure, Pcs
<1> HIDE DEF locals, fails
<1>6. Control(locals)
  BY <1>2, <1>5 DEF Control, Asking, Planned
<1>7. /\ proc' = [proc EXCEPT ![p] = locals] /\ proc'[p] = locals
      /\ calm'[p] /\ outcome'[p] # "ok"
      /\ had'[p] = (IF c.op = "generate" THEN Provided(pkg) ELSE {})
  BY <1>1 DEF Go, GenerateInv, TypeOK
<1>8. TypeOK'
  <2>1. Provided(pkg) \subseteq Statements
    BY ProvidedStatements DEF GenerateInv, TypeOK
  <2> QED
    BY <1>1, <1>5, <1>7, <2>1 DEF GenerateInv, TypeOK, tree
<1>9. Undisturbed(p)'
  <2>1. Sees(p)' /\ Compares(p)' /\ Learns(p)' /\ Recalls(p)' /\ Moves(p)' /\ Ended(p)'
    BY <1>1, <1>5, <1>7 DEF Sees, Compares, Learns, Recalls, Moves, Ended, Asking, Answered, Planned, tree
  <2>2. Keeps(p)'
    BY <1>1, <1>5, <1>7 DEF Keeps, Planned
  <2>3. ASSUME NEW e \in Provided(pkg) PROVE \E f \in Files : <<f, e[2]>> \in Provided(pkg)
    <3>1. e \in Statements
      BY ProvidedStatements DEF GenerateInv, TypeOK
    <3>2. e[1] \in Files /\ e = <<e[1], e[2]>>
      BY <3>1 DEF Statements
    <3> QED
      BY <3>2
  <2>4. Kept(p)'
    BY <1>1, <1>5, <1>7, <2>3 DEF Kept, tree
  <2> QED
    BY <2>1, <2>2, <2>4 DEF Undisturbed
<1>10. Local(p)'
  BY <1>9 DEF Local
<1>11. \A q \in Procs \ {p} : outcome'[q] = outcome[q] /\ had'[q] = had[q] /\
         (calm'[q] => calm[q] /\ UNCHANGED <<pkg, lock>>)
  BY <1>1 DEF GenerateInv, TypeOK
<1> QED
  BY <1>1, <1>6, <1>7, <1>8, <1>10, <1>11, OwnStep

\* An edit of the world ends everybody's calm.
LEMMA StepWorld ==
  ASSUME GenerateInv, World PROVE GenerateInv'
<1>1. /\ calm' = [p \in Procs |-> FALSE] /\ edits' = edits + 1
      /\ UNCHANGED <<proc, outcome, had, starts>>
  BY DEF World, EditQueries, EditMigrations, ChangeSchema, EditPackage, LoseLock, Edited
<1>2. /\ queries' \in [Files -> Texts \cup {None}] /\ schema' \in Schemas
      /\ migrations' \in Digests /\ lock' \in Records \cup {None, Damaged}
      /\ pkg' \in [Names -> Contents \cup {None, Hand}]
  BY DEF World, EditQueries, EditMigrations, ChangeSchema, EditPackage, LoseLock, tree,
         GenerateInv, TypeOK
<1>3. TypeOK'
  BY <1>1, <1>2 DEF GenerateInv, TypeOK
<1>4. \A p \in Procs : Control(proc[p])' /\ Local(p)'
  BY <1>1 DEF GenerateInv, Local
<1> QED
  BY <1>3, <1>4 DEF GenerateInv

LEMMA GenerateInit == Init => GenerateInv
<1> SUFFICES ASSUME Init PROVE GenerateInv
  OBVIOUS
<1>1. PICK t \in InitTrees :
        /\ queries = t.queries /\ schema = t.schema /\ migrations = t.migrations
        /\ pkg = t.pkg /\ lock = t.lock
  BY DEF Init
<1>2. /\ queries \in [Files -> Texts \cup {None}] /\ schema \in Schemas /\ migrations \in Digests
      /\ pkg \in [Names -> Contents \cup {None, Hand}] /\ lock \in Records \cup {None, Damaged}
  BY <1>1, GenerateAssumption
<1>3. TypeOK
  BY <1>2, NoProcType DEF Init, TypeOK
<1>4. ASSUME NEW p \in Procs PROVE Control(proc[p]) /\ Local(p)
  <2>1. proc[p] = NoProc /\ ~calm[p]
    BY DEF Init
  <2> QED
    BY <2>1, NoProcType DEF Control, Local, Asking, Planned
<1> QED
  BY <1>3, <1>4 DEF GenerateInv

LEMMA GenerateNext == GenerateInv /\ [Next]_vars => GenerateInv'
<1> SUFFICES ASSUME GenerateInv, [Next]_vars PROVE GenerateInv'
  OBVIOUS
<1>1. ASSUME NEW p \in Procs, Step(p) PROVE GenerateInv'
  BY <1>1, StepDial, StepDescribe, StepLoadTables, StepLoadTypes, StepSnapshot, StepLoadLock,
     StepPlan, StepWriteTemp, StepRename, StepRemoveStale, StepApplied, StepSave DEF Step
<1>2. ASSUME NEW p \in Procs, Fails(p) PROVE GenerateInv'
  BY <1>2, StepFails
<1>3. ASSUME NEW p \in Procs, NEW c \in Commands, Start(p, c) PROVE GenerateInv'
  BY <1>3, StepStart
<1>4. CASE World
  BY <1>4, StepWorld
<1>5. CASE UNCHANGED vars
  <2>1. UNCHANGED <<queries, schema, migrations, pkg, lock, proc, outcome, calm, had, starts, edits>>
    BY <1>5 DEF vars, tree
  <2>2. TypeOK'
    BY <2>1 DEF GenerateInv, TypeOK
  <2>3. ASSUME NEW p \in Procs PROVE Control(proc'[p]) /\ Local(p)'
    BY <2>1, Bystander DEF GenerateInv, tree
  <2> QED
    BY <2>2, <2>3 DEF GenerateInv
<1> QED
  BY <1>1, <1>2, <1>3, <1>4, <1>5 DEF Next, Terminated

-----------------------------------------------------------------------------
\* Each process keeps its part of the invariant.
THEOREM InvariantKept == Spec => []GenerateInv
  BY GenerateInit, GenerateNext, PTL DEF Spec

\* For every set of processes and files: whatever dies between a write and a
\* rename (outputPlan.apply, writeFileAtomic), no generated file is cut short.
THEOREM NothingCut == Spec => []NeverCut
<1>1. GenerateInv => NeverCut
  BY GenerateAssumption DEF GenerateInv, TypeOK, NeverCut
<1> QED
  BY <1>1, InvariantKept, PTL

\* For every set of processes and files: a generate or check that succeeds
\* undisturbed leaves, or has found, exactly the package of its answers (Build,
\* planOutput, apply), whatever earlier runs left behind.
THEOREM PackageUpToDate == Spec => []UpToDate
<1>1. GenerateInv => UpToDate
  BY DEF GenerateInv, Local, Undisturbed, Ended, UpToDate, Succeeded
<1> QED
  BY <1>1, InvariantKept, PTL

\* For every set of processes and files: after a generate that succeeds
\* undisturbed pgc.lock.json covers the queries and reproduces the package
\* (snapshot.Of, Save and Describe).
THEOREM RecordReproduces == Spec => []Reproducible
<1>1. GenerateInv => Reproducible
  BY DEF GenerateInv, Local, Undisturbed, Ended, Reproducible, Succeeded, FromRecord
<1> QED
  BY <1>1, InvariantKept, PTL

\* For every set of processes and files: a check that compares the package with
\* the record and a verify that compares the record with the server say
\* together that the package is what the server's answers produce (DOC.md's CI
\* recipe), though they run in any order and at different times.
THEOREM RecipeSound == Spec => []CheckedAndVerified
<1>1. ASSUME GenerateInv, NEW p \in Procs, NEW q \in Procs,
             calm[p], Succeeded(p, "check"), calm[q], Succeeded(q, "verify")
      PROVE  IsPackage(Current)
  <2>1. IsPackage(proc[p].ans) /\ (proc[p].ans = Current \/ FromRecord(p))
    BY <1>1 DEF GenerateInv, Local, Undisturbed, Ended, Succeeded
  <2>2. Same(lock, Of(queries, Current, migrations))
    BY <1>1 DEF GenerateInv, Local, Undisturbed, Ended, Succeeded
  <2>3. /\ lock.shape = Current.shape /\ lock.tables = Current.tables
        /\ lock.types = Current.types
    BY <2>2 DEF Same, Of
  <2>4. Recorded(lock, queries) = Current
    <3>1. \A f \in Files : queries[f] = None => Current.shape[f] = None
      BY DEF Current
    <3>2. Current.shape = [f \in Files |-> Current.shape[f]]
      BY DEF Current
    <3>3. [f \in Files |-> IF queries[f] = None THEN None ELSE lock.shape[f]] = Current.shape
      BY <2>3, <3>1, <3>2
    <3> QED
      BY <2>3, <3>3 DEF Recorded, Current
  <2>5. proc[p].ans = Current
    BY <2>1, <2>4 DEF FromRecord
  <2> QED
    BY <2>1, <2>5
<1>2. GenerateInv => CheckedAndVerified
  BY <1>1 DEF CheckedAndVerified
<1> QED
  BY <1>2, InvariantKept, PTL

\* For every set of processes and files: at every moment of an undisturbed
\* generate, and after it failed or died, a statement the package had and must
\* keep is in one of its files (apply: stale files go last).
THEOREM StatementsStay == Spec => []NothingMissing
<1>1. GenerateInv => NothingMissing
  BY DEF GenerateInv, Local, Undisturbed, Kept, NothingMissing
<1> QED
  BY <1>1, InvariantKept, PTL

\* For every set of processes and files: only a process that was disturbed, or
\* one that produces a file of that name, replaces or removes a file written by
\* hand (isGenerated, planOutput).
THEOREM HandWrittenStays == Spec => HandWrittenSurvives
<1> DEFINE Spares ==
      \A n \in Names : pkg[n] = Hand /\ edits' = edits /\ pkg'[n] # Hand =>
        \E p \in Procs : proc'[p] # proc[p] /\ (~calm[p] \/ proc[p].want[n] # None)
<1>1. GenerateInv /\ [Next]_vars => Spares
  <2> SUFFICES ASSUME GenerateInv, [Next]_vars,
                      NEW n \in Names, pkg[n] = Hand, edits' = edits, pkg'[n] # Hand
               PROVE  \E p \in Procs : proc'[p] # proc[p] /\ (~calm[p] \/ proc[p].want[n] # None)
    OBVIOUS
  <2>1. CASE \E p \in Procs : Rename(p)
    <3>1. PICK p \in Procs : Rename(p)
      BY <2>1
    <3> DEFINE m == Least(proc[p].todo)
    <3>2. /\ proc[p].pc = "rename" /\ proc[p] \in Procedure /\ Control(proc[p])
          /\ pkg' = [pkg EXCEPT ![m] = proc[p].want[m]]
          /\ proc'[p] = [proc[p] EXCEPT !.pc = "apply", !.todo = @ \ {m}]
      BY <3>1 DEF Rename, At, Go, GenerateInv, TypeOK
    <3>3. m \in proc[p].todo
      BY <3>2, NamesNat, LeastIn DEF Control, Procedure
    <3> HIDE DEF m
    <3>4. n = m /\ proc[p].want[n] # None
      BY <3>2, <3>3 DEF Control, GenerateInv, TypeOK
    <3>5. proc'[p].pc = "apply"
      BY <3>2 DEF Procedure
    <3> QED
      BY <3>2, <3>4, <3>5
  <2>2. CASE \E p \in Procs : RemoveStale(p)
    <3>1. PICK p \in Procs : RemoveStale(p)
      BY <2>2
    <3> DEFINE m == Least(proc[p].stale)
    <3>2. /\ proc[p].pc = "apply" /\ proc[p] \in Procedure /\ proc[p].stale # {}
          /\ pkg' = [pkg EXCEPT ![m] = None]
          /\ \/ Ends(p, "refused")
             \/ Go(p, [proc[p] EXCEPT !.stale = @ \ {m}])
      BY <3>1 DEF RemoveStale, At, GenerateInv, TypeOK
    <3>3. m \in proc[p].stale
      BY <3>2, NamesNat, LeastIn DEF Procedure
    <3> HIDE DEF m
    <3>4. n = m
      BY <3>2, <3>3 DEF GenerateInv, TypeOK
    <3>5. proc'[p] # proc[p]
      <4>1. CASE Ends(p, "refused")
        <5>1. proc'[p].pc = "idle"
          BY <4>1 DEF Ends, NoProc, GenerateInv, TypeOK
        <5> QED
          BY <3>2, <5>1
      <4>2. CASE Go(p, [proc[p] EXCEPT !.stale = @ \ {m}])
        <5>1. proc'[p].stale = proc[p].stale \ {m}
          BY <3>2, <4>2 DEF Go, Procedure, GenerateInv, TypeOK
        <5> QED
          BY <3>3, <5>1
      <4> QED
        BY <3>2, <4>1, <4>2
    <3>6. ~calm[p]
      <4>1. calm[p] => Generated(pkg[m])
        BY <3>2, <3>3 DEF GenerateInv, Local, Undisturbed, Moves, Planned
      <4> QED
        BY <3>4, <4>1 DEF Generated
    <3> QED
      BY <3>5, <3>6
  <2>3. CASE World
    BY <2>3 DEF World, EditQueries, EditMigrations, ChangeSchema, EditPackage, LoseLock, Edited,
                GenerateInv, TypeOK
  <2>4. CASE UNCHANGED pkg
    BY <2>4
  <2> QED
    BY <2>1, <2>2, <2>3, <2>4
    DEF Next, Step, Fails, Dial, Describe, LoadTables, LoadTypes, Snapshot, LoadLock, Plan,
        WriteTemp, Applied, Save, Start, Terminated, Reads, vars
<1> QED
  BY <1>1, InvariantKept, PTL DEF Spec, HandWrittenSurvives

=============================================================================
