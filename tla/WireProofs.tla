----------------------------- MODULE WireProofs -----------------------------
(***************************************************************************)
(* A connection reads the answers to its own requests only and implements  *)
(* a session, for every script of statements, any number of requests, and  *)
(* every order of errors, timeouts, losses and late messages.              *)
(***************************************************************************)
EXTENDS Wire, FiniteSetTheorems, WellFoundedInduction, TLAPS

TxStates == {"I", "T", "E"}
Words    == {"ok", "tooLarge", "error", "lost"}
Endings  == [how : {"done", "failed"}, tx : TxStates]
Steps    == {"1", "t", "T", "n", "D", "C", "begin", "end", "G", "H", "d", "c", "Z"}
Sendable == [typ : {"P", "D", "S", "Q", "f", "X"}, of : Nat, steps : Seq(Steps)]
Replies  == [typ : (Steps \ {"begin", "end"}) \cup {"E", "N", "?"}, of : Nat, tx : TxStates]

TypeOK ==
  /\ asked \in Nat /\ phase \in {"idle", "reading"}
  /\ asked > 0 => current \in Requests
  /\ broken \in BOOLEAN /\ txStatus \in TxStates /\ timed \in BOOLEAN
  /\ srvErr \in BOOLEAN /\ tooLarge \in BOOLEAN /\ kept \in Nat /\ told \in Seq(Words)
  /\ up \in Seq(Sendable) /\ down \in Seq(Replies) /\ socket \in {"open", "closed", "reset"}
  /\ todo \in Seq(Steps) /\ serving \in Nat
  /\ copying \in BOOLEAN /\ skipping \in BOOLEAN /\ failed \in BOOLEAN /\ tx \in TxStates
  /\ sent \in Nat /\ did \in Seq(Endings) /\ gone \in BOOLEAN /\ notices \in Nat

-----------------------------------------------------------------------------
\* Where the backend is.  It has nothing to do, ...
Settled ==
  /\ todo = <<>> /\ ~copying /\ ~skipping /\ ~failed
  /\ \A j \in 1..Len(up) : up[j].typ \in {"f", "X"}

EndsInZ(steps) ==
  /\ steps # <<>> /\ steps[Len(steps)] = "Z"
  /\ \A j \in 1..Len(steps) - 1 : steps[j] # "Z"

WithoutZ(steps) == \A j \in 1..Len(steps) : steps[j] # "Z"

\* ... or the request has a messages still on their way, behind CopyFails nobody
\* waits for, and ReadyForQuery is still to come.
InPlace(a) ==
  LET frames == Frames(current, asked)
  IN  /\ a <= Len(frames) /\ a <= Len(up)
      /\ \A j \in 1..Len(up) - a : up[j].typ = "f"
      /\ \A j \in 1..a : up[Len(up) - a + j] = frames[Len(frames) - a + j]

Stage(a) ==
  LET frames == Frames(current, asked)
  IN  /\ InPlace(a)
      /\ a = Len(frames) => todo = <<>> /\ ~copying /\ ~skipping /\ ~failed
      /\ a < Len(frames) => serving = asked
      /\ a \in 1..Len(frames) - 1 => WithoutZ(todo) /\ (skipping => todo = <<>>)
      /\ a = 0 => EndsInZ(todo) /\ ~skipping

Underway == asked > 0 /\ Len(did) = asked - 1 /\ \E a \in Nat : Stage(a)

Served == Settled /\ Len(did) = asked /\ asked > 0 /\ did[asked].tx = tx

-----------------------------------------------------------------------------
\* What is on its way to the client: without a number it is a notice, a message
\* out of protocol or the last word of a backend; ...
Unasked ==
  \A i \in 1..Len(down) :
    down[i].of = 0 => down[i].typ \in {"N", "?", "E"} /\ (down[i].typ = "E" => gone)

Silent == \A i \in 1..Len(down) : down[i].of = 0

\* ... while a request is answered, the rest belongs to it; ...
OwnAnswer == \A i \in 1..Len(down) : down[i].of \in {0, asked}

ErrorIn(n) == \E j \in 1..n : down[j].typ = "E"

\* ... ReadyForQuery ends the answer, and comes behind the error if there is one; ...
ZLast ==
  \A i \in 1..Len(down) :
    down[i].typ = "Z" =>
      /\ Served /\ down[i].tx = tx
      /\ \A j \in i + 1..Len(down) : down[j].of = 0
      /\ did[asked].how = "failed" <=> srvErr \/ ErrorIn(i - 1)

\* ... before it was sent, the error is here or there when nothing was lost; ...
ErrorSeen ==
  Len(did) < asked /\ ~gone /\ socket = "open" => (failed <=> srvErr \/ ErrorIn(Len(down)))

\* ... nothing answers a Query the backend has not taken; ...
Unserved == \E j \in 1..Len(up) : up[j].typ = "Q"
Untouched == Unserved => kept = 0 /\ Silent

\* ... and afterwards the rows are here or there too.
Rows(s) == Cardinality({i \in 1..Len(s) : s[i].typ = "D"})
Complete == socket = "open" \/ \E i \in 1..Len(down) : down[i].typ = "Z"

RowsSeen ==
  current.op = "query" /\ ~tooLarge /\ ~Unserved /\ Complete => kept + Rows(down) = sent

Reads == OwnAnswer /\ ZLast /\ ErrorSeen /\ Untouched /\ RowsSeen /\ (Underway \/ Served)

\* Between two requests nothing is left over.
Rests == Settled /\ Len(did) = asked /\ txStatus = tx /\ Silent

Counts ==
  /\ Len(did) <= asked /\ asked <= MaxRequests /\ kept <= Budget
  /\ phase = "reading" => asked > 0 /\ Len(told) = asked - 1
  /\ phase = "idle" => Len(told) = asked

Unclosed == ~broken => socket # "closed" /\ \A j \in 1..Len(up) : up[j].typ # "X"

RowsTold ==
  asked > 0 /\ phase = "idle" /\ told[Len(told)] = "ok" /\ current.op = "query" =>
    kept = sent /\ Settled

\* The properties hold because a client that gave an answer up never reads again,
\* and because both streams of one that did not are accounted for.
WireInv ==
  /\ TypeOK /\ Counts /\ Unasked /\ Unclosed /\ RowsTold
  /\ Settled \/ Underway
  /\ phase = "reading" => ~broken /\ Reads
  /\ phase = "idle" /\ ~broken => Rests
-----------------------------------------------------------------------------
\* Every set of numbers has a least one.
LEMMA LeastIn ==
  ASSUME NEW N, N \subseteq Nat, N # {}
  PROVE  \E n \in N : \A m \in N : n <= m
<1> DEFINE R == {ss \in Nat \X Nat : ss[1] < ss[2]}
<1>1. IsWellFoundedOn(R, Nat)
  BY NatLessThanWellFounded DEF OpToRel
<1> HIDE DEF R
<1>2. PICK n \in N : \A m \in N : ~(<<m, n>> \in R)
  BY <1>1, WFMin
<1>3. ASSUME NEW m \in N PROVE n <= m
  <2>1. m \in Nat /\ n \in Nat /\ ~(<<m, n>> \in R)
    BY <1>2
  <2> QED
    BY <2>1 DEF R
<1> QED
  BY <1>3

\* What FlattenSeq strings together is a sequence of what its parts are made of.
LEMMA Flattened ==
  ASSUME NEW T, NEW seqs \in Seq(Seq(T))
  PROVE  FlattenSeq(seqs) \in Seq(T)
<1> DEFINE
      N == Len(seqs)
      Part(f, i) == IF i = 1 THEN seqs[i] ELSE f[i - 1] \o seqs[i]
      Upto(n) == \E f \in [1..n -> Seq(T)] : \A i \in 1..n : f[i] = Part(f, i)
      Lacking == {n \in 0..N : ~Upto(n)}
<1>0. N \in Nat /\ \A i \in 1..N : seqs[i] \in Seq(T)
  OBVIOUS
<1>1. ASSUME NEW n \in 0..N, n # N, Upto(n) PROVE Upto(n + 1)
  <2>1. PICK f \in [1..n -> Seq(T)] : \A i \in 1..n : f[i] = Part(f, i)
    BY <1>1
  <2> DEFINE last == IF n = 0 THEN seqs[1] ELSE f[n] \o seqs[n + 1]
             g == [i \in 1..n + 1 |-> IF i = n + 1 THEN last ELSE f[i]]
  <2>2. last \in Seq(T)
    <3>1. CASE n = 0
      BY <1>0, <1>1, <3>1
    <3>2. CASE n # 0
      <4>1. f[n] \in Seq(T) /\ seqs[n + 1] \in Seq(T)
        BY <1>0, <1>1, <3>2
      <4> QED
        BY <3>2, <4>1
    <3> QED
      BY <3>1, <3>2
  <2> HIDE DEF last
  <2>3. g \in [1..n + 1 -> Seq(T)]
    BY <2>2
  <2>4. ASSUME NEW i \in 1..n + 1 PROVE g[i] = Part(g, i)
    <3>1. CASE i \in 1..n
      <4>1. f[i] = Part(f, i)
        BY <2>1, <3>1
      <4>2. g[i] = f[i] /\ (i # 1 => g[i - 1] = f[i - 1])
        BY <3>1
      <4> QED
        BY <4>1, <4>2
    <3>2. CASE i = n + 1
      <4>1. g[i] = last /\ (n # 0 => g[i - 1] = f[n])
        BY <3>2
      <4> QED
        BY <4>1, <3>2 DEF last
    <3> QED
      BY <3>1, <3>2
  <2> QED
    BY <2>3, <2>4
<1>2. Upto(0)
  <2> DEFINE none == [i \in 1..0 |-> <<>>]
  <2>1. none \in [1..0 -> Seq(T)] /\ \A i \in 1..0 : none[i] = Part(none, i)
    <3>1. 1..0 = {}
      OBVIOUS
    <3>2. none \in [1..0 -> Seq(T)]
      BY <3>1, Zenon
    <3> QED
      BY <3>1, <3>2, Zenon
  <2> HIDE DEF none, Part
  <2> QED
    BY <2>1, Zenon
<1>3. Upto(N)
  <2> HIDE DEF Upto
  <2>1. SUFFICES ASSUME Lacking # {} PROVE FALSE
    <3>1. N \in 0..N
      BY <1>0
    <3>2. ~Upto(N) => N \in Lacking
      BY <3>1, Zenon
    <3> QED
      BY <2>1, <3>2, Zenon
  <2>2. PICK n \in Lacking : \A m \in Lacking : n <= m
    <3>1. Lacking \subseteq Nat
      BY <1>0
    <3> QED
      BY <2>1, <3>1, LeastIn
  <2>3. n # 0
    BY <1>2, <2>2
  <2>4. n - 1 \in 0..N /\ n - 1 # N /\ n - 1 \notin Lacking
    BY <1>0, <2>2, <2>3
  <2>5. Upto(n - 1 + 1)
    BY <2>4, <1>1
  <2> QED
    BY <2>2, <2>5, <1>0
<1>4. CASE N = 0
  BY <1>4 DEF FlattenSeq
<1>5. CASE N # 0
  <2> DEFINE Whole(f) == f = [i \in 1..N |-> Part(f, i)]
  <2>1. PICK f \in [1..N -> Seq(T)] : \A i \in 1..N : f[i] = Part(f, i)
    BY <1>3
  <2>2. f = [i \in 1..N |-> Part(f, i)]
    BY <2>1
  <2>3. \E g : Whole(g)
    BY <2>2
  <2> DEFINE flat == CHOOSE g : Whole(g)
  <2>4. Whole(flat)
    BY <2>3
  <2>5. FlattenSeq(seqs) = flat[N]
    BY <1>5 DEF FlattenSeq
  <2> HIDE DEF flat
  <2>6. \A i \in 1..N : flat[i] = Part(flat, i)
    BY <2>4
  <2> DEFINE Bad == {i \in 1..N : flat[i] \notin Seq(T)}
  <2>7. Bad = {}
    <3>1. SUFFICES ASSUME Bad # {} PROVE FALSE
      OBVIOUS
    <3>2. PICK n \in Bad : \A m \in Bad : n <= m
      <4>1. Bad \subseteq Nat
        BY <1>0
      <4> QED
        BY <3>1, <4>1, LeastIn
    <3>3. n # 1
      BY <2>6, <3>2, <1>0
    <3>4. n - 1 \in 1..N /\ n - 1 \notin Bad
      BY <1>0, <3>2, <3>3
    <3>5. flat[n - 1] \in Seq(T) /\ seqs[n] \in Seq(T)
      BY <1>0, <3>2, <3>4
    <3>6. flat[n] = flat[n - 1] \o seqs[n]
      BY <2>6, <3>2, <3>3
    <3>7. flat[n - 1] \o seqs[n] \in Seq(T)
      BY <3>5
    <3> HIDE DEF Part
    <3>8. flat[n] \notin Seq(T)
      BY <3>2
    <3> QED
      BY <3>6, <3>7, <3>8, Zenon
  <2>8. N \in 1..N
    BY <1>0, <1>5
  <2>9. flat[N] \in Seq(T)
    BY <2>7, <2>8, Zenon
  <2> QED
    BY <2>5, <2>9, Zenon
<1> QED
  BY <1>4, <1>5

\* A script is answered by steps that end no request.
LEMMA Answers ==
  ASSUME NEW script \in Seq(Statements)
  PROVE  FlattenSeq([i \in DOMAIN script |-> Answer(script[i])]) \in Seq(Steps \ {"Z"})
<1> DEFINE Plain == Steps \ {"Z"}
<1>1. \A s \in Statements : Answer(s) \in Seq(Plain)
  <2>1. \A x, y, z, v \in Plain : /\ <<x>> \in Seq(Plain) /\ <<x, y>> \in Seq(Plain)
                                  /\ <<x, y, z>> \in Seq(Plain)
                                  /\ <<x, y, z, v>> \in Seq(Plain)
    OBVIOUS
  <2>2. {"T", "D", "C", "begin", "end", "G", "H", "d", "c"} \subseteq Plain
    BY DEF Steps
  <2> HIDE DEF Plain
  <2> QED
    BY <2>1, <2>2 DEF Statements, Answer
<1> HIDE DEF Plain
<1>2. [i \in DOMAIN script |-> Answer(script[i])] \in Seq(Seq(Plain))
  <2>1. DOMAIN script = 1..Len(script) /\ Len(script) \in Nat
    OBVIOUS
  <2>2. \A i \in 1..Len(script) : Answer(script[i]) \in Seq(Plain)
    BY <1>1
  <2>3. [i \in DOMAIN script |-> Answer(script[i])] \in [1..Len(script) -> Seq(Plain)]
    BY <2>1, <2>2
  <2> QED
    BY <2>1, <2>3
<1> QED
  BY <1>2, Flattened DEF Plain

\* A request is one message, or three that only a Sync ends; only its last
\* message ends in ReadyForQuery.
Framed(r, n) ==
  LET frames == Frames(r, n)
      last   == frames[Len(frames)]
  IN  /\ frames \in Seq(Sendable) /\ Len(frames) \in {1, 3}
      /\ \A j \in 1..Len(frames) : frames[j].of = n /\ frames[j].typ \in {"P", "D", "S", "Q"}
      /\ \A j \in 1..Len(frames) - 1 :
           frames[j].typ \notin {"S", "Q"} /\ WithoutZ(frames[j].steps)
      /\ EndsInZ(last.steps)
      /\ IF r.op = "describe" THEN last.typ = "S" ELSE Len(frames) = 1 /\ last.typ = "Q"

LEMMA FrameFacts ==
  ASSUME NEW r \in Requests, NEW n \in Nat
  PROVE  Framed(r, n)
<1>1. r.script \in Seq(Statements)
  BY WireAssumption
<1>2. <<"1">> \in Seq(Steps) /\ <<"Z">> \in Seq(Steps) /\ EndsInZ(<<"Z">>) /\ WithoutZ(<<"1">>)
  BY DEF Steps, EndsInZ, WithoutZ
<1>3. CASE r.op = "describe"
  <2> DEFINE what == IF Head(r.script) = "select" THEN "T" ELSE "n"
             p == [typ |-> "P", of |-> n, steps |-> <<"1">>]
             d == [typ |-> "D", of |-> n, steps |-> <<"t", what>>]
             s == [typ |-> "S", of |-> n, steps |-> <<"Z">>]
  <2>1. <<"t", what>> \in Seq(Steps) /\ WithoutZ(<<"t", what>>)
    BY DEF Steps, WithoutZ
  <2>2. p \in Sendable /\ d \in Sendable /\ s \in Sendable
    BY <1>2, <2>1 DEF Sendable
  <2>3. Frames(r, n) = <<p, d, s>>
    BY <1>3 DEF Frames
  <2>4. /\ p.of = n /\ d.of = n /\ s.of = n
        /\ p.typ = "P" /\ d.typ = "D" /\ s.typ = "S"
        /\ WithoutZ(p.steps) /\ WithoutZ(d.steps) /\ EndsInZ(s.steps)
    BY <1>2, <2>1
  <2> HIDE DEF p, d, s
  <2>5. /\ Len(<<p, d, s>>) = 3 /\ <<p, d, s>> \in Seq(Sendable)
        /\ <<p, d, s>>[1] = p /\ <<p, d, s>>[2] = d /\ <<p, d, s>>[3] = s
    BY <2>2
  <2> QED
    BY <1>3, <2>3, <2>4, <2>5 DEF Framed
<1>4. CASE r.op # "describe"
  <2> DEFINE flat == FlattenSeq([i \in DOMAIN r.script |-> Answer(r.script[i])])
             steps == flat \o <<"Z">>
             q == [typ |-> "Q", of |-> n, steps |-> steps]
  <2>1. flat \in Seq(Steps \ {"Z"})
    BY <1>1, Answers
  <2> HIDE DEF flat
  <2>2. steps \in Seq(Steps) /\ EndsInZ(steps)
    BY <1>2, <2>1 DEF EndsInZ, Steps
  <2>3. Frames(r, n) = <<q>>
    BY <1>4 DEF Frames, flat
  <2> HIDE DEF steps
  <2>4. q \in Sendable /\ q.of = n /\ q.typ = "Q" /\ q.steps = steps
    BY <2>2 DEF Sendable
  <2> HIDE DEF q
  <2>5. Len(<<q>>) = 1 /\ <<q>> \in Seq(Sendable) /\ <<q>>[1] = q
    BY <2>4
  <2> QED
    BY <1>4, <2>2, <2>3, <2>4, <2>5 DEF Framed
<1> QED
  BY <1>3, <1>4

\* Counting rows.
LEMMA RowsOf ==
  ASSUME NEW s \in Seq(Replies)
  PROVE  IsFiniteSet({i \in 1..Len(s) : s[i].typ = "D"}) /\ Rows(s) \in Nat
<1>1. IsFiniteSet(1..Len(s))
  BY FS_Interval
<1> QED
  BY <1>1, FS_Subset, FS_CardinalityType DEF Rows

LEMMA RowsNone ==
  ASSUME NEW s \in Seq(Replies), \A i \in 1..Len(s) : s[i].typ # "D"
  PROVE  Rows(s) = 0
<1>1. {i \in 1..Len(s) : s[i].typ = "D"} = {}
  OBVIOUS
<1> QED
  BY <1>1, FS_EmptySet DEF Rows

LEMMA RowsAppend ==
  ASSUME NEW s \in Seq(Replies), NEW m \in Replies
  PROVE  Rows(Append(s, m)) = IF m.typ = "D" THEN Rows(s) + 1 ELSE Rows(s)
<1> DEFINE n == Len(s)
           rows == {i \in 1..n : s[i].typ = "D"}
           more == {i \in 1..n + 1 : Append(s, m)[i].typ = "D"}
<1>1. n \in Nat /\ Len(Append(s, m)) = n + 1
      /\ Append(s, m)[n + 1] = m /\ \A i \in 1..n : Append(s, m)[i] = s[i]
  OBVIOUS
<1>2. more = IF m.typ = "D" THEN rows \cup {n + 1} ELSE rows
  BY <1>1
<1>3. n + 1 \notin rows /\ IsFiniteSet(rows)
  BY <1>1, RowsOf
<1> HIDE DEF more, rows
<1>4. Cardinality(more) = IF m.typ = "D" THEN Cardinality(rows) + 1 ELSE Cardinality(rows)
  BY <1>2, <1>3, FS_AddElement
<1> QED
  BY <1>1, <1>4 DEF Rows, more, rows

LEMMA RowsTail ==
  ASSUME NEW s \in Seq(Replies), s # <<>>
  PROVE  Rows(s) = IF Head(s).typ = "D" THEN Rows(Tail(s)) + 1 ELSE Rows(Tail(s))
<1> DEFINE n == Len(s)
           rows == {i \in 1..n : s[i].typ = "D"}
           rest == {i \in 1..n - 1 : Tail(s)[i].typ = "D"}
           shifted == rows \ {1}
<1>1. /\ n \in Nat /\ n > 0 /\ Len(Tail(s)) = n - 1 /\ Head(s) = s[1] /\ Tail(s) \in Seq(Replies)
      /\ \A i \in 1..n - 1 : Tail(s)[i] = s[i + 1]
  OBVIOUS
<1>2. IsFiniteSet(rows) /\ IsFiniteSet(rest) /\ IsFiniteSet(shifted)
  BY <1>1, RowsOf, FS_RemoveElement
<1>3. ExistsBijection(rest, shifted)
  <2> DEFINE f == [i \in rest |-> i + 1]
  <2>1. f \in [rest -> shifted]
    BY <1>1
  <2>2. ASSUME NEW j \in shifted PROVE \E i \in rest : f[i] = j
    <3>1. j - 1 \in rest /\ j - 1 + 1 = j
      BY <1>1, <2>2
    <3> QED
      BY <3>1
  <2>3. \A i, j \in rest : f[i] = f[j] => i = j
    OBVIOUS
  <2>4. f \in Bijection(rest, shifted)
    BY <2>1, <2>2, <2>3 DEF Bijection, Injection, Surjection, IsInjective
  <2> QED
    BY <2>4 DEF ExistsBijection
<1>4. Cardinality(shifted) = Cardinality(rest)
  BY <1>2, <1>3, FS_Bijection
<1>5. Cardinality(shifted) = IF 1 \in rows THEN Cardinality(rows) - 1 ELSE Cardinality(rows)
  BY <1>2, FS_RemoveElement
<1>6. 1 \in rows <=> Head(s).typ = "D"
  BY <1>1
<1>7. Rows(s) = Cardinality(rows) /\ Rows(Tail(s)) = Cardinality(rest)
  BY <1>1 DEF Rows
<1>8. Rows(s) \in Nat /\ Rows(Tail(s)) \in Nat
  BY <1>1, RowsOf
<1> HIDE DEF rows, rest, shifted
<1> QED
  BY <1>4, <1>5, <1>6, <1>7, <1>8

-----------------------------------------------------------------------------
\* The types are kept.
LEMMA TypeClient ==
  ASSUME TypeOK, NEW r \in Requests,
         Ask(r) \/ SendFails(r) \/ Reading \/ SetOpTimeout \/ Close
  PROVE  TypeOK'
<1> USE DEF TypeOK
<1>1. asked + 1 \in Nat /\ Framed(r, asked + 1)
  BY FrameFacts
<1> HIDE DEF TypeOK
<1>16. ASSUME Begun(r)
       PROVE  /\ asked' \in Nat /\ current' \in Requests
              /\ srvErr' \in BOOLEAN /\ tooLarge' \in BOOLEAN /\ kept' \in Nat
  BY <1>1, <1>16 DEF Begun
<1>2. ASSUME Ask(r) PROVE TypeOK'
  <2>1. up' \in Seq(Sendable)
    BY <1>1, <1>2 DEF Ask, Framed, TypeOK
  <2>2. phase' \in {"idle", "reading"}
    BY <1>2 DEF Ask
  <2> QED
    BY <1>2, <1>16, <2>1, <2>2 DEF Ask, backendVars, TypeOK
<1>3. \A w \in Words : Append(told, w) \in Seq(Words)
  BY DEF TypeOK
<1>4. "lost" \in Words /\ "ok" \in Words /\ "error" \in Words /\ "tooLarge" \in Words
  BY DEF Words
<1>5. ASSUME SendFails(r) PROVE TypeOK'
  <2>1. told' \in Seq(Words) /\ phase' \in {"idle", "reading"} /\ broken' \in BOOLEAN
    BY <1>3, <1>4, <1>5 DEF SendFails, Return, TypeOK
  <2>2. socket' \in {"open", "closed", "reset"}
    BY <1>5 DEF SendFails, HangUp, TypeOK
  <2> QED
    BY <1>5, <1>16, <2>1, <2>2 DEF SendFails, backendVars, TypeOK
<1> USE DEF TypeOK
<1>6. ASSUME Read, down # <<>> PROVE down' \in Seq(Replies) /\ Head(down) \in Replies
  BY <1>6 DEF Read
<1>7. ASSUME Ignore PROVE TypeOK'
  BY <1>6, <1>7 DEF Ignore, Incoming, callVars, backendVars
<1>8. ASSUME DataRow PROVE TypeOK'
  <2>1. kept' \in Nat /\ tooLarge' \in BOOLEAN
    <3>1. \/ kept' = kept /\ tooLarge' = tooLarge
          \/ kept' = 0 /\ tooLarge' = TRUE
          \/ kept' = kept + 1 /\ tooLarge' = tooLarge
      BY <1>8 DEF DataRow
    <3>2. kept \in Nat /\ tooLarge \in BOOLEAN
      BY DEF TypeOK
    <3> HIDE DEF TypeOK
    <3>3. kept' \in Nat
      BY <3>1, <3>2
    <3>4. tooLarge' \in BOOLEAN
      BY <3>1, <3>2, Zenon
    <3> QED
      BY <3>3, <3>4
  <2>2. down' \in Seq(Replies)
    BY <1>6, <1>8 DEF DataRow, Incoming
  <2> QED
    BY <1>8, <2>1, <2>2 DEF DataRow, backendVars
<1>9. ASSUME ServerError PROVE TypeOK'
  BY <1>6, <1>9 DEF ServerError, Incoming, backendVars
<1>10. ASSUME CopyIn PROVE TypeOK'
  <2>1. CopyFail(asked) \in Sendable
    BY DEF CopyFail, Sendable
  <2>2. up' \in Seq(Sendable)
    BY <1>10, <2>1 DEF CopyIn
  <2> QED
    BY <1>6, <1>10, <2>2 DEF CopyIn, Incoming, callVars, backendVars
<1>11. ASSUME Ready PROVE TypeOK'
  <2>1. Head(down) \in Replies /\ down' \in Seq(Replies)
    BY <1>6, <1>11 DEF Ready, Incoming
  <2>2. Head(down).tx \in TxStates
    BY <2>1 DEF Replies
  <2> QED
    BY <1>3, <1>4, <1>11, <2>1, <2>2 DEF Ready, Return, Result, backendVars
<1>12. ASSUME Unexpected PROVE TypeOK'
  BY <1>3, <1>4, <1>6, <1>12 DEF Unexpected, Fail, HangUp, backendVars
<1>13. ASSUME ReadFails PROVE TypeOK'
  BY <1>3, <1>4, <1>13 DEF ReadFails, Fail, HangUp, backendVars
<1>14. ASSUME SetOpTimeout PROVE TypeOK'
  BY <1>14 DEF SetOpTimeout, callVars, backendVars
<1>15. ASSUME Close PROVE TypeOK'
  <2>1. Terminate \in Sendable
    BY DEF Terminate, Sendable
  <2> QED
    BY <1>15, <2>1 DEF Close, HangUp, callVars, backendVars
<1> QED
  BY <1>2, <1>5, <1>7, <1>8, <1>9, <1>10, <1>11, <1>12, <1>13, <1>14, <1>15 DEF Reading

\* What the backend says goes to the end of the stream, if somebody listens.
LEMMA Written ==
  ASSUME TypeOK, NEW t, NEW n \in Nat, Write(t, n), tx' \in TxStates,
         t \in (Steps \ {"begin", "end"}) \cup {"E", "N", "?"}
  PROVE  /\ Message(t, n, tx') \in Replies
         /\ down' \in Seq(Replies)
         /\ IF socket = "open"
            THEN /\ Len(down') = Len(down) + 1
                 /\ down'[Len(down) + 1] = [typ |-> t, of |-> n, tx |-> tx']
                 /\ \A i \in 1..Len(down) : down'[i] = down[i]
            ELSE down' = down
<1>1. Message(t, n, tx') \in Replies
  BY DEF Message, Replies
<1> QED
  BY <1>1 DEF Write, Message, TypeOK

LEMMA TypeAbort ==
  ASSUME TypeOK, Abort
  PROVE  /\ down' \in Seq(Replies) /\ todo' \in Seq(Steps) /\ tx' \in TxStates
         /\ failed' = TRUE /\ copying' = FALSE /\ skipping' \in BOOLEAN
<1>1. tx' \in TxStates
  BY DEF Abort, TypeOK, TxStates
<1>2. down' \in Seq(Replies)
  BY <1>1, Written DEF Abort, TypeOK
<1>3. todo' \in Seq(Steps) /\ skipping' \in BOOLEAN
  <2>1. <<"Z">> \in Seq(Steps) /\ <<>> \in Seq(Steps)
    BY DEF Steps
  <2> QED
    BY <2>1 DEF Abort, TypeOK
<1> QED
  BY <1>1, <1>2, <1>3 DEF Abort

LEMMA TypeBackend ==
  ASSUME TypeOK, Backend
  PROVE  TypeOK'
<1>1. CASE Take
  <2>1. Head(up) \in Sendable /\ Tail(up) \in Seq(Sendable)
    BY <1>1 DEF Take, TypeOK
  <2> QED
    BY <1>1, <2>1 DEF Take, TypeOK, Sendable, client, callVars
<1>2. CASE Proceed
  <2>1. Head(todo) \in Steps /\ Tail(todo) \in Seq(Steps)
    BY <1>2 DEF Proceed, TypeOK
  <2>2. tx' \in TxStates
    BY <1>2 DEF Proceed, TypeOK, TxStates
  <2>3. down' \in Seq(Replies)
    BY <1>2, <2>1, <2>2, Written DEF Proceed, TypeOK, Steps
  <2>4. did' \in Seq(Endings) /\ failed' \in BOOLEAN
    <3> DEFINE ending == [how |-> IF failed THEN "failed" ELSE "done", tx |-> tx]
    <3>1. ending \in Endings
      BY DEF TypeOK, Endings
    <3>2. did \in Seq(Endings) /\ failed \in BOOLEAN
      BY DEF TypeOK
    <3>3. CASE Head(todo) = "Z"
      <4>1. did' = Append(did, ending) /\ failed' = FALSE
        BY <1>2, <3>3 DEF Proceed
      <4> HIDE DEF ending
      <4> QED
        <5>1. \A e \in Endings : Append(did, e) \in Seq(Endings)
          BY <3>2
        <5> QED
          BY <3>1, <4>1, <5>1, Zenon
    <3>4. CASE Head(todo) # "Z"
      BY <1>2, <3>2, <3>4 DEF Proceed
    <3> QED
      BY <3>3, <3>4
  <2>5. copying' \in BOOLEAN /\ sent' \in Nat
    BY <1>2 DEF Proceed, TypeOK
  <2> QED
    BY <1>2, <2>1, <2>2, <2>3, <2>4, <2>5 DEF Proceed, TypeOK, client, callVars
<1>3. CASE CopyEnds
  <2>1. up' \in Seq(Sendable)
    BY <1>3 DEF CopyEnds, TypeOK
  <2> QED
    BY <1>3, <2>1, TypeAbort DEF CopyEnds, Abort, TypeOK, client, callVars
<1>4. CASE Reject
  BY <1>4, TypeAbort DEF Reject, Abort, TypeOK, client, callVars
<1>5. CASE Quit
  BY <1>5 DEF Quit, TypeOK, client, callVars
<1>6. CASE Shutdown
  <2>1. down' \in Seq(Replies)
    BY <1>6, Written DEF Shutdown, TypeOK
  <2> QED
    BY <1>6, <2>1 DEF Shutdown, TypeOK, client, callVars
<1>7. CASE Lose
  <2>1. down' \in Seq(Replies)
    BY <1>7 DEF Lose, TypeOK
  <2> QED
    BY <1>7, <2>1 DEF Lose, TypeOK, client, callVars, backendVars
<1>8. ASSUME NEW t \in {"N", "?"}, Notice(t) PROVE TypeOK'
  <2>1. down' \in Seq(Replies)
    BY <1>8, Written DEF Notice, TypeOK
  <2> QED
    BY <1>8, <2>1 DEF Notice, TypeOK, client, callVars
<1> QED
  BY <1>1, <1>2, <1>3, <1>4, <1>5, <1>6, <1>7, <1>8 DEF Backend, Executes

-----------------------------------------------------------------------------
\* The request under way moves through the backend.
LEMMA OnTheWay ==
  ASSUME TypeOK, asked > 0
  PROVE  Framed(current, asked)
BY FrameFacts DEF TypeOK

LEMMA TakeSettled ==
  ASSUME TypeOK, Settled, Take
  PROVE  Settled' /\ sent' = sent /\ (Unserved' <=> Unserved)
<1>1. up # <<>> /\ up' = Tail(up) /\ Head(up).typ # "X" /\ Head(up) = up[1]
  BY DEF Take, TypeOK
<1>2. /\ Len(up) \in Nat /\ Len(up) > 0 /\ Len(up') = Len(up) - 1
      /\ \A j \in 1..Len(up') : up'[j] = up[j + 1] /\ j + 1 \in 1..Len(up)
  BY <1>1 DEF TypeOK
<1>3. Head(up).typ = "f"
  BY <1>1, <1>2 DEF Settled
<1>4. todo' = <<>> /\ ~skipping' /\ sent' = sent /\ UNCHANGED <<copying, failed>>
  BY <1>3 DEF Take, Settled
<1>5. \A j \in 1..Len(up') : up'[j].typ \in {"f", "X"}
  BY <1>2 DEF Settled
<1>6. ~Unserved /\ ~Unserved'
  BY <1>5 DEF Settled, Unserved
<1> QED
  BY <1>4, <1>5, <1>6 DEF Settled

\* The messages of a request are the last ones sent.
LEMMA LastSent ==
  ASSUME TypeOK, asked > 0, NEW a \in Nat, Stage(a)
  PROVE  /\ Unserved <=> a = 1 /\ current.op # "describe"
         /\ a = 0 => \A j \in 1..Len(up) : up[j].typ = "f"
         /\ \A j \in 1..Len(up) : up[j].typ # "X"
<1> DEFINE F == Frames(current, asked)
<1>1. Framed(current, asked)
  BY OnTheWay
<1>2. /\ Len(up) \in Nat /\ a <= Len(F) /\ a <= Len(up) /\ Len(F) \in {1, 3}
      /\ \A j \in 1..Len(up) - a : up[j].typ = "f"
      /\ \A j \in 1..a : up[Len(up) - a + j] = F[Len(F) - a + j]
  BY <1>1 DEF Stage, InPlace, Framed, TypeOK
<1>3. \A j \in 1..Len(F) : F[j].typ \in {"P", "D", "S", "Q"}
  BY <1>1 DEF Framed
<1>4. \A j \in 1..Len(F) - 1 : F[j].typ # "Q"
  BY <1>1 DEF Framed
<1>5. IF current.op = "describe" THEN F[Len(F)].typ # "Q"
                                 ELSE Len(F) = 1 /\ F[Len(F)].typ = "Q"
  BY <1>1 DEF Framed
<1> HIDE DEF F
<1>6. ASSUME NEW j \in 1..Len(up), j > Len(up) - a
      PROVE  /\ up[j] = F[Len(F) - Len(up) + j] /\ Len(F) - Len(up) + j \in 1..Len(F)
             /\ up[j].typ # "f" /\ up[j].typ # "X"
  <2>1. j - (Len(up) - a) \in 1..a /\ Len(up) - a + (j - (Len(up) - a)) = j
        /\ Len(F) - a + (j - (Len(up) - a)) = Len(F) - Len(up) + j
    BY <1>2, <1>6
  <2>2. up[j] = F[Len(F) - Len(up) + j]
    BY <1>2, <2>1
  <2>3. Len(F) - Len(up) + j \in 1..Len(F)
    BY <1>2, <1>6
  <2> QED
    BY <1>3, <2>2, <2>3
<1>7. ASSUME NEW j \in 1..Len(up), up[j].typ = "Q"
      PROVE  a = 1 /\ current.op # "describe"
  <2>1. j > Len(up) - a
    BY <1>2, <1>7
  <2>2. Len(F) - Len(up) + j = Len(F) /\ current.op # "describe" /\ Len(F) = 1
    BY <1>2, <1>4, <1>5, <1>6, <1>7, <2>1, SMTT(30)
  <2>3. a = 1
    BY ONLY <1>2, <2>1, <2>2, a \in Nat, j \in 1..Len(up)
  <2> QED
    BY <2>2, <2>3, Zenon
<1>8. ASSUME a = 1, current.op # "describe" PROVE Unserved
  <2>1. Len(up) \in 1..Len(up) /\ Len(up) > Len(up) - a /\ Len(F) - Len(up) + Len(up) = Len(F)
    BY <1>2, <1>8
  <2>2. up[Len(up)].typ = "Q"
    BY <1>5, <1>6, <1>8, <2>1
  <2> QED
    BY <2>1, <2>2 DEF Unserved
<1>9. ASSUME NEW j \in 1..Len(up) PROVE up[j].typ # "X" /\ (a = 0 => up[j].typ = "f")
  <2>1. CASE j > Len(up) - a
    <3>1. up[j].typ # "X"
      BY <1>6, <2>1
    <3>2. a # 0
      BY <1>2, <2>1
    <3> QED
      BY <3>1, <3>2
  <2>2. CASE ~(j > Len(up) - a)
    <3>1. j \in 1..Len(up) - a
      BY <1>2, <2>2
    <3> QED
      BY <1>2, <3>1
  <2> QED
    BY <2>1, <2>2
<1> QED
  BY <1>7, <1>8, <1>9 DEF Unserved

LEMMA NextInPlace ==
  ASSUME TypeOK, asked > 0, UNCHANGED <<asked, current>>, NEW a \in Nat, InPlace(a),
         up # <<>>, Head(up).typ = "f", up' = Tail(up)
  PROVE  InPlace(a)'
<1> DEFINE F == Frames(current, asked)
<1>1. /\ Len(F) \in Nat /\ \A j \in 1..Len(F) : F[j].typ # "f"
      /\ a <= Len(F) /\ a <= Len(up)
      /\ \A j \in 1..Len(up) - a : up[j].typ = "f"
      /\ \A j \in 1..a : up[Len(up) - a + j] = F[Len(F) - a + j]
  <2>1. Len(F) \in Nat /\ \A j \in 1..Len(F) : F[j].typ # "f"
    BY OnTheWay DEF Framed
  <2> QED
    BY <2>1 DEF InPlace
<1>2. Frames(current', asked') = F
  OBVIOUS
<1> HIDE DEF F
<1>3. /\ Len(up) \in Nat /\ Len(up) > 0 /\ Len(up') = Len(up) - 1 /\ Head(up) = up[1]
      /\ \A j \in 1..Len(up') : up'[j] = up[j + 1] /\ j + 1 \in 1..Len(up)
  BY DEF TypeOK
<1>4. a < Len(up)
  <2>1. SUFFICES a # Len(up)
    <3>1. a \in Nat /\ a <= Len(up) /\ Len(up) \in Nat
      BY <1>1, <1>3
    <3> QED
      BY <3>1
  <2>2. ASSUME a = Len(up) PROVE FALSE
    <3>1. 1 \in 1..a /\ Len(up) - a + 1 = 1 /\ Len(F) - a + 1 \in 1..Len(F)
      BY <1>1, <1>3, <2>2
    <3>2. up[1] = F[Len(F) - a + 1]
      BY <1>1, <3>1
    <3> QED
      BY <1>1, <1>3, <3>1, <3>2
  <2> QED
    BY <2>2
<1>5. ASSUME NEW j \in 1..a PROVE up'[Len(up') - a + j] = F[Len(F) - a + j]
  <2>1. Len(up') - a + j \in 1..Len(up') /\ Len(up') - a + j + 1 = Len(up) - a + j
    BY <1>3, <1>4
  <2> QED
    BY <1>1, <1>3, <2>1
<1>6. ASSUME NEW j \in 1..Len(up') - a PROVE up'[j].typ = "f"
  <2>1. j \in 1..Len(up') /\ j + 1 \in 1..Len(up) - a
    BY <1>3, <1>4
  <2> QED
    BY <1>1, <1>3, <2>1
<1>7. a <= Len(F) /\ a <= Len(up')
  BY <1>1, <1>3, <1>4
<1> QED
  BY <1>2, <1>5, <1>6, <1>7 DEF InPlace

LEMMA TakeUnderway ==
  ASSUME TypeOK, Underway, Take
  PROVE  /\ Underway'
         /\ Unserved' => Unserved
         /\ sent' = IF Unserved /\ ~Unserved' THEN 0 ELSE sent
<1> DEFINE F == Frames(current, asked)
<1>1. PICK a \in Nat : Stage(a)
  BY DEF Underway
<1>2. asked > 0 /\ asked' = asked /\ current' = current /\ did' = did
      /\ Framed(current, asked) /\ UNCHANGED <<copying, failed>>
  BY OnTheWay DEF Underway, Take, client, callVars
<1>3. /\ todo = <<>> /\ up # <<>> /\ up' = Tail(up) /\ Head(up) = up[1]
      /\ Len(up) \in Nat /\ Len(up) > 0 /\ Len(up') = Len(up) - 1
      /\ \A j \in 1..Len(up') : up'[j] = up[j + 1] /\ j + 1 \in 1..Len(up)
  BY DEF Take, TypeOK
<1>4. /\ a <= Len(F) /\ a <= Len(up) /\ Len(F) \in {1, 3} /\ a # 0
      /\ \A j \in 1..Len(up) - a : up[j].typ = "f"
      /\ \A j \in 1..a : up[Len(up) - a + j] = F[Len(F) - a + j]
  BY <1>1, <1>2, <1>3 DEF Stage, InPlace, Framed, EndsInZ
<1>5. /\ \A j \in 1..Len(F) : F[j].of = asked /\ F[j].typ \in {"P", "D", "S", "Q"}
      /\ \A j \in 1..Len(F) - 1 : F[j].typ \notin {"S", "Q"} /\ WithoutZ(F[j].steps)
      /\ EndsInZ(F[Len(F)].steps)
      /\ IF current.op = "describe" THEN F[Len(F)].typ = "S"
                                    ELSE Len(F) = 1 /\ F[Len(F)].typ = "Q"
  BY <1>2 DEF Framed
<1>6. /\ a = Len(F) => ~copying /\ ~skipping /\ ~failed
      /\ a < Len(F) => serving = asked
  BY <1>1 DEF Stage
<1> HIDE DEF F
<1>9. (Unserved' => Unserved) /\ (Unserved => Unserved' \/ Head(up).typ = "Q")
  <2>1. \A j \in 1..Len(up) : j = 1 \/ (j - 1 \in 1..Len(up') /\ up[j] = up'[j - 1])
    BY <1>3
  <2>2. ASSUME Unserved' PROVE Unserved
    <3>1. PICK j \in 1..Len(up') : up'[j].typ = "Q"
      BY <2>2 DEF Unserved
    <3>2. j + 1 \in 1..Len(up) /\ up[j + 1].typ = "Q"
      BY <1>3, <3>1
    <3> QED
      BY <3>2, Zenon DEF Unserved
  <2>3. ASSUME Unserved PROVE Unserved' \/ Head(up).typ = "Q"
    <3>1. PICK j \in 1..Len(up) : up[j].typ = "Q"
      BY <2>3 DEF Unserved
    <3>2. CASE j = 1
      <4>1. Head(up) = up[1]
        BY <1>3
      <4> QED
        BY <3>1, <3>2, <4>1
    <3>3. CASE j # 1
      BY <2>1, <3>1, <3>3, Zenon DEF Unserved
    <3> QED
      BY <3>2, <3>3
  <2> QED
    BY <2>2, <2>3, Zenon
<1>7. CASE a < Len(up)
  <2>1. Head(up).typ = "f"
    BY <1>3, <1>4, <1>7
  <2>2. todo' = <<>> /\ serving' = serving /\ sent' = sent /\ (skipping' <=> skipping)
    BY <2>1 DEF Take
  <2>3. InPlace(a)'
    BY <1>1, <1>2, <1>3, <2>1, NextInPlace DEF Stage
  <2>4. WithoutZ(todo')
    BY <2>2 DEF WithoutZ
  <2>5. Stage(a)'
    BY <1>2, <1>4, <1>6, <2>2, <2>3, <2>4 DEF Stage, F
  <2>6. Underway'
    BY <1>2, <2>5 DEF Underway
  <2>7. Unserved' <=> Unserved
    BY <1>9, <2>1
  <2> QED
    BY <2>2, <2>6, <2>7
<1>8. CASE a = Len(up)
  <2>1. Head(up) = F[Len(F) - a + 1] /\ Len(F) - a + 1 \in 1..Len(F)
    <3>1. 1 \in 1..a /\ Len(up) - a + 1 = 1
      BY <1>3, <1>4, <1>8
    <3>2. Head(up) = F[Len(F) - a + 1]
      BY <1>3, <1>4, <3>1
    <3> QED
      BY <1>4, <3>2
  <2>2. Head(up).of = asked /\ Head(up).typ # "f"
    BY <1>5, <2>1
  <2>3. a - 1 \in Nat /\ a - 1 < Len(F) /\ serving' = asked
    BY <1>4, <2>2 DEF Take
  <2>4. /\ a - 1 <= Len(up') /\ Len(up') - (a - 1) = 0
        /\ \A j \in 1..a - 1 : up'[Len(up') - (a - 1) + j] = F[Len(F) - (a - 1) + j]
    <3>1. Len(up') = a - 1
      BY <1>3, <1>8
    <3>2. \A j \in 1..a - 1 : up'[j] = F[Len(F) - a + (j + 1)]
      <4>1. \A j \in 1..a - 1 : j \in 1..Len(up') /\ j + 1 \in 1..a
                                /\ Len(up) - a + (j + 1) = j + 1
        BY <1>3, <1>4, <1>8, <3>1
      <4> QED
        BY <1>3, <1>4, <4>1
    <3>3. \A j \in 1..a - 1 : Len(up') - (a - 1) + j = j
                              /\ Len(F) - (a - 1) + j = Len(F) - a + (j + 1)
      BY <1>4, <3>1
    <3>4. a - 1 <= Len(up') /\ Len(up') - (a - 1) = 0
      BY ONLY <1>4, <3>1, a \in Nat
    <3> QED
      BY <3>2, <3>3, <3>4, Zenon
  <2>5. CASE a = 1
    <3>1. Head(up).typ \in {"S", "Q"} /\ EndsInZ(Head(up).steps)
      BY <1>4, <1>5, <2>1, <2>5
    <3>2. Head(up).typ = "Q" => ~skipping
      BY <1>5, <1>6, <2>1, <2>5
    <3>3. EndsInZ(todo') /\ ~skipping'
      BY <2>2, <3>1, <3>2 DEF Take
    <3>4. Stage(a - 1)'
      BY <1>2, <1>4, <2>3, <2>4, <2>5, <3>3 DEF Stage, InPlace, F
    <3>5. ~Unserved'
      BY <1>3, <1>8, <2>5 DEF Unserved
    <3>6. Unserved <=> Head(up).typ = "Q"
      BY <1>1, <1>2, <1>4, <1>5, <2>1, <2>5, LastSent
    <3> QED
      BY <1>2, <2>3, <3>4, <3>5, <3>6 DEF Underway, Take
  <2>6. CASE a # 1
    <3>1. Len(F) = 3 /\ current.op = "describe"
      BY <1>4, <1>5, <2>6
    <3>2. Head(up).typ \notin {"S", "Q"} /\ WithoutZ(Head(up).steps)
      BY <1>4, <1>5, <2>1, <2>6
    <3>3. WithoutZ(todo') /\ (skipping' => todo' = <<>>) /\ sent' = sent
      <4>1. sent' = sent
        BY <3>2 DEF Take
      <4>2. CASE skipping
        BY <3>2, <2>2, <4>1, <4>2 DEF Take, WithoutZ
      <4>3. CASE ~skipping
        BY <3>2, <2>2, <4>1, <4>3 DEF Take, WithoutZ
      <4> QED
        BY <4>2, <4>3
    <3>4. Stage(a - 1)'
      BY <1>2, <1>4, <2>3, <2>4, <2>6, <3>3 DEF Stage, InPlace, F
    <3>5. ~Unserved' /\ ~Unserved
      BY <1>1, <1>2, <1>9, <3>1, LastSent
    <3> QED
      BY <1>2, <2>3, <3>3, <3>4, <3>5 DEF Underway
  <2> QED
    BY <2>5, <2>6
<1> QED
  BY <1>4, <1>7, <1>8

LEMMA Busy ==
  ASSUME TypeOK, Settled \/ Underway, todo # <<>>
  PROVE  Underway /\ serving = asked /\ asked > 0 /\ ~Unserved
<1>1. Underway
  BY DEF Settled
<1>2. PICK a \in Nat : Stage(a)
  BY <1>1 DEF Underway
<1>3. asked > 0 /\ Framed(current, asked)
  BY <1>1, OnTheWay DEF Underway
<1>4. a < Len(Frames(current, asked)) /\ serving = asked
  BY <1>2, <1>3 DEF Stage, InPlace, Framed
<1>5. ~Unserved
  BY <1>2, <1>3, <1>4, LastSent DEF Framed
<1> QED
  BY <1>1, <1>3, <1>4, <1>5

\* ReadyForQuery is the last step of a request.
LEMMA ProceedUnderway ==
  ASSUME TypeOK, Underway, Proceed
  PROVE  /\ up' = up
         /\ IF Head(todo) = "Z"
            THEN Settled' /\ Len(did') = Len(did) + 1 /\ tx' = tx
                 /\ did'[Len(did) + 1] = [how |-> IF failed THEN "failed" ELSE "done", tx |-> tx]
            ELSE Underway' /\ did' = did /\ failed' = failed
<1> DEFINE F == Frames(current, asked)
<1>1. PICK a \in Nat : Stage(a)
  BY DEF Underway
<1>2. asked > 0 /\ Framed(current, asked) /\ UNCHANGED <<asked, current, up, serving, skipping>>
  BY OnTheWay DEF Underway, Proceed, client, callVars
<1>3. /\ todo # <<>> /\ Len(todo) \in Nat /\ Len(todo) > 0 /\ todo' = Tail(todo)
      /\ Head(todo) = todo[1] /\ Len(todo') = Len(todo) - 1
      /\ \A j \in 1..Len(todo') : todo'[j] = todo[j + 1] /\ j + 1 \in 1..Len(todo)
  <2>1. todo # <<>> /\ todo' = Tail(todo)
    BY Zenon DEF Proceed
  <2>2. PICK Kinds : todo \in Seq(Kinds)
    BY Zenon DEF TypeOK
  <2> QED
    BY ONLY <2>1, <2>2
<1>4. Len(F) \in Nat /\ Len(F) > 0
  BY <1>2 DEF Framed
<1>5. /\ a <= Len(F) /\ a # Len(F) /\ InPlace(a) /\ serving = asked
      /\ a # 0 => WithoutZ(todo) /\ ~skipping
      /\ a = 0 => EndsInZ(todo) /\ ~skipping
  BY <1>1, <1>3, <1>4 DEF Stage, InPlace
<1> HIDE DEF F
<1>6. InPlace(a)'
  BY <1>2, <1>5 DEF InPlace
<1>7. CASE Head(todo) # "Z"
  <2>1. did' = did /\ failed' = failed
    BY <1>7 DEF Proceed
  <2>2. a = 0 => EndsInZ(todo')
    <3>1. EndsInZ(todo) => EndsInZ(todo')
      <4> SUFFICES ASSUME EndsInZ(todo) PROVE EndsInZ(todo')
        OBVIOUS
      <4>1. Len(todo) # 1
        BY <1>3, <1>7 DEF EndsInZ
      <4>2. Len(todo') \in 1..Len(todo) /\ Len(todo') + 1 = Len(todo) /\ todo' # <<>>
        BY <1>3, <4>1
      <4>3. todo'[Len(todo')] = "Z"
        BY <1>3, <4>2 DEF EndsInZ
      <4>4. \A j \in 1..Len(todo') - 1 : todo'[j] # "Z"
        BY <1>3, <4>2 DEF EndsInZ
      <4> QED
        BY <4>2, <4>3, <4>4, Zenon DEF EndsInZ
    <3> QED
      BY <1>5, <3>1, Zenon
  <2>3. a # 0 => WithoutZ(todo')
    BY <1>3, <1>5 DEF WithoutZ
  <2>4. Stage(a)'
    BY <1>2, <1>4, <1>5, <1>6, <2>2, <2>3 DEF Stage, F
  <2> QED
    BY <1>2, <1>7, <2>1, <2>4 DEF Underway
<1>8. CASE Head(todo) = "Z"
  <2>1. a = 0 /\ Len(todo) = 1 /\ todo' = <<>>
    BY <1>3, <1>5, <1>8 DEF EndsInZ, WithoutZ
  <2>2. ~copying' /\ ~failed' /\ tx' = tx
    BY <1>8 DEF Proceed
  <2>3. \A j \in 1..Len(up) : up[j].typ = "f"
    BY <1>1, <1>2, <2>1, LastSent
  <2>4. Settled'
    BY <1>2, <1>5, <2>1, <2>2, <2>3 DEF Settled
  <2> DEFINE ending == [how |-> IF failed THEN "failed" ELSE "done", tx |-> tx]
  <2>5. did' = Append(did, ending)
    BY <1>8 DEF Proceed
  <2> HIDE DEF ending
  <2>6. Len(did') = Len(did) + 1 /\ did'[Len(did) + 1] = ending
    BY <2>5 DEF TypeOK
  <2> QED
    BY <1>2, <1>8, <2>2, <2>4, <2>6 DEF ending
<1> QED
  BY <1>7, <1>8

\* An error drops the steps before it.
LEMMA AbortUnderway ==
  ASSUME TypeOK, Underway, Abort,
         up' = up \/ (up # <<>> /\ Head(up).typ = "f" /\ up' = Tail(up))
  PROVE  Underway' /\ (Unserved' => Unserved) /\ did' = did /\ failed' = TRUE
<1> DEFINE F == Frames(current, asked)
<1>1. PICK a \in Nat : Stage(a)
  BY DEF Underway
<1>2. /\ asked > 0 /\ Framed(current, asked) /\ UNCHANGED <<asked, current, serving, did>>
      /\ todo # <<>> /\ Head(todo) # "Z" /\ failed' = TRUE
  BY OnTheWay DEF Underway, Abort, client, callVars
<1>3. Len(F) \in Nat /\ Len(F) > 0 /\ Len(todo) \in Nat /\ Len(todo) > 0
  <2>1. Len(F) \in Nat /\ Len(F) > 0
    BY <1>2 DEF Framed
  <2> HIDE DEF F
  <2>2. Len(todo) \in Nat /\ Len(todo) > 0
    BY <1>2 DEF TypeOK
  <2> QED
    BY <2>1, <2>2
<1>4. /\ a <= Len(F) /\ a # Len(F) /\ InPlace(a) /\ serving = asked
      /\ a # 0 => WithoutZ(todo)
      /\ a = 0 => EndsInZ(todo) /\ ~skipping
  BY <1>1, <1>2, <1>3 DEF Stage, InPlace
<1> HIDE DEF F
<1>5. InPlace(a)'
  <2>1. CASE up' = up
    BY <1>2, <1>4, <2>1 DEF InPlace
  <2>2. CASE up # <<>> /\ Head(up).typ = "f" /\ up' = Tail(up)
    BY <1>2, <1>4, <2>2, NextInPlace
  <2> QED
    BY <2>1, <2>2
<1>6. a = 0 => EndsInZ(todo') /\ ~skipping'
  <2>1. a = 0 => todo' = <<"Z">> /\ skipping' = skipping
    BY <1>4 DEF EndsInZ, Abort, Last
  <2>2. EndsInZ(<<"Z">>)
    BY DEF EndsInZ
  <2> QED
    BY <1>4, <2>1, <2>2, Zenon
<1>7. a # 0 => todo' = <<>> /\ WithoutZ(todo')
  <2>1. a # 0 => todo' = <<>>
    BY <1>3, <1>4 DEF WithoutZ, Abort, Last
  <2> QED
    BY <2>1 DEF WithoutZ
<1>8. Stage(a)'
  BY <1>2, <1>4, <1>5, <1>6, <1>7 DEF Stage, F
<1>9. Unserved' => Unserved
  <2>1. up # <<>> /\ up' = Tail(up) =>
          \A j \in 1..Len(up') : up'[j] = up[j + 1] /\ j + 1 \in 1..Len(up)
    BY DEF TypeOK
  <2> QED
    BY <2>1 DEF Unserved
<1> QED
  BY <1>2, <1>8, <1>9 DEF Underway

-----------------------------------------------------------------------------
\* What a step of the backend leaves of the invariant while an answer is read.
LEMMA Still ==
  ASSUME UNCHANGED <<asked, current, up, todo, serving, copying, skipping, failed, did>>
  PROVE  (Settled' <=> Settled) /\ (Underway' <=> Underway) /\ (Unserved' <=> Unserved)
<1>1. Settled' <=> Settled
  BY DEF Settled
<1>2. Unserved' <=> Unserved
  BY DEF Unserved
<1>3. \A a \in Nat : Stage(a)' <=> Stage(a)
  BY DEF Stage, InPlace
<1> QED
  BY <1>1, <1>2, <1>3 DEF Underway

LEMMA SilentRows ==
  ASSUME TypeOK, Unasked, Silent
  PROVE  /\ \A i \in 1..Len(down) : down[i].typ \in {"N", "?", "E"} /\ (down[i].typ = "E" => gone)
         /\ Rows(down) = 0
<1>1. \A i \in 1..Len(down) : down[i].typ \in {"N", "?", "E"} /\ (down[i].typ = "E" => gone)
  BY DEF Unasked, Silent
<1> QED
  BY <1>1, RowsNone DEF TypeOK

\* A message more at the end changes nothing before it.
LEMMA Longer ==
  ASSUME TypeOK, NEW m \in Replies, down' = Append(down, m)
  PROVE  /\ Len(down') = Len(down) + 1 /\ down'[Len(down) + 1] = m
         /\ \A i \in 1..Len(down) : down'[i] = down[i] /\ i \in 1..Len(down')
         /\ \A i \in 1..Len(down') : i = Len(down) + 1 \/ i \in 1..Len(down)
         /\ \A n \in 0..Len(down) : ErrorIn(n)' <=> ErrorIn(n)
         /\ ErrorIn(Len(down))' <=> ErrorIn(Len(down)) \/ m.typ = "E"
         /\ Rows(down') = IF m.typ = "D" THEN Rows(down) + 1 ELSE Rows(down)
<1>1. /\ Len(down) \in Nat /\ Len(down') = Len(down) + 1 /\ down'[Len(down) + 1] = m
      /\ \A i \in 1..Len(down) : down'[i] = down[i] /\ i \in 1..Len(down')
      /\ \A i \in 1..Len(down') : i = Len(down) + 1 \/ i \in 1..Len(down)
  BY DEF TypeOK
<1>2. \A n \in 0..Len(down) : ErrorIn(n)' <=> ErrorIn(n)
  <2>1. \A n \in 0..Len(down) : \A j \in 1..n : j \in 1..Len(down)
    BY <1>1
  <2> QED
    BY <1>1, <2>1 DEF ErrorIn
<1>3. ErrorIn(Len(down))' <=> ErrorIn(Len(down)) \/ m.typ = "E"
  <2>1. Len(down') \in 1..Len(down')
    BY <1>1
  <2>2. ErrorIn(Len(down)) => ErrorIn(Len(down))'
    BY <1>1 DEF ErrorIn
  <2>3. m.typ = "E" => ErrorIn(Len(down))'
    BY <1>1, <2>1 DEF ErrorIn
  <2>4. ErrorIn(Len(down))' => ErrorIn(Len(down)) \/ m.typ = "E"
    BY <1>1 DEF ErrorIn
  <2> QED
    BY <2>2, <2>3, <2>4
<1>4. Rows(down') = IF m.typ = "D" THEN Rows(down) + 1 ELSE Rows(down)
  BY RowsAppend DEF TypeOK
<1> QED
  BY <1>1, <1>2, <1>3, <1>4

LEMMA ReadsTake ==
  ASSUME TypeOK, Unasked, Reads, Take
  PROVE  Reads'
<1>1. UNCHANGED <<asked, current, srvErr, tooLarge, kept, down, socket, failed, tx, did, gone>>
  BY DEF Take, client, callVars
<1>2. /\ Unserved' => Unserved
      /\ sent' = IF Unserved /\ ~Unserved' THEN 0 ELSE sent
      /\ Underway' \/ Served'
      /\ Served => Served'
  <2>1. CASE Underway
    <3>1. ~Served
      BY <2>1 DEF Underway, Served, TypeOK
    <3> QED
      BY <2>1, <3>1, TakeUnderway
  <2>2. CASE Served
    <3>1. Settled' /\ sent' = sent /\ (Unserved' <=> Unserved)
      BY <2>2, TakeSettled DEF Served
    <3>2. Served'
      BY <1>1, <2>2, <3>1 DEF Served
    <3> QED
      BY <3>1, <3>2
  <2> QED
    BY <2>1, <2>2 DEF Reads
<1>3. OwnAnswer' /\ ErrorSeen' /\ (Silent' <=> Silent) /\ (Complete' <=> Complete)
  BY <1>1 DEF Reads, OwnAnswer, ErrorSeen, ErrorIn, Silent, Complete
<1>4. ZLast'
  <2>1. ZLast
    BY DEF Reads
  <2> QED
    BY <1>1, <1>2, <2>1 DEF ZLast, ErrorIn
<1>5. Untouched'
  BY <1>1, <1>2, <1>3 DEF Reads, Untouched
<1>6. RowsSeen'
  <2>1. Unserved => kept = 0 /\ Rows(down) = 0
    BY SilentRows DEF Reads, Untouched
  <2>2. Rows(down') = Rows(down)
    BY <1>1
  <2> QED
    BY <1>1, <1>2, <1>3, <2>1, <2>2 DEF Reads, RowsSeen
<1> QED
  BY <1>2, <1>3, <1>4, <1>5, <1>6 DEF Reads

LEMMA ReadsProceed ==
  ASSUME TypeOK, TypeOK', Unasked, Reads, asked > 0, Proceed
  PROVE  Reads'
<1>1. Underway /\ serving = asked /\ ~Unserved
  <2>1. todo # <<>>
    BY DEF Proceed
  <2>2. Settled \/ Underway
    BY DEF Reads, Served
  <2> QED
    BY <2>1, <2>2, Busy
<1>2. /\ UNCHANGED <<asked, current, srvErr, tooLarge, kept, socket, gone>> /\ ~gone
      /\ Unserved' <=> Unserved
  <2>1. up' = up
    BY DEF Proceed
  <2> QED
    BY <2>1 DEF Proceed, client, callVars, Unserved
<1>3. Len(did) = asked - 1 /\ Len(did) \in Nat /\ Len(down) \in Nat
  BY <1>1 DEF Underway, TypeOK
<1>4. \A i \in 1..Len(down) : down[i].typ # "Z"
  <2>1. asked \in Nat
    BY DEF TypeOK
  <2>2. ~Served
    BY <1>3, <2>1 DEF Served
  <2> QED
    BY <2>2, Zenon DEF Reads, ZLast
<1>5. Head(todo) \in Steps
  BY DEF Proceed, TypeOK
<1> DEFINE t == IF Head(todo) \in {"begin", "end"} THEN "C" ELSE Head(todo)
           m == Message(t, serving, tx')
<1>6. /\ m \in Replies /\ m.of = asked /\ m.tx = tx' /\ m.typ = t
      /\ down' = IF socket = "open" THEN Append(down, m) ELSE down
  <2>1. t \in Steps \ {"begin", "end"}
    BY <1>5 DEF Steps
  <2> HIDE DEF t
  <2>2. Write(t, serving)
    BY DEF Proceed, t
  <2> QED
    BY <1>1, <2>1, <2>2 DEF Write, Message, TypeOK, Replies
<1>7. /\ t = "Z" <=> Head(todo) = "Z"
      /\ t = "D" <=> Head(todo) = "D"
      /\ t # "E"
  BY <1>5 DEF Steps
<1>8. sent' = IF t = "D" THEN sent + 1 ELSE sent
  BY <1>7 DEF Proceed
<1> HIDE DEF m, t
<1>9. IF t = "Z"
      THEN /\ Settled' /\ Len(did') = asked /\ tx' = tx
           /\ did'[asked] = [how |-> IF failed THEN "failed" ELSE "done", tx |-> tx]
      ELSE Underway' /\ did' = did /\ failed' = failed
  <2>1. Len(did) + 1 = asked
    BY <1>3 DEF TypeOK
  <2> QED
    BY <1>1, <1>7, <2>1, ProceedUnderway
<1>10. t = "Z" => Served' /\ did'[asked].tx = tx /\ (did'[asked].how = "failed" <=> failed)
  BY <1>2, <1>9 DEF Served
<1>11. Untouched'
  BY <1>1, <1>2 DEF Untouched
<1>12. CASE socket = "open"
  <2>0. down' = Append(down, m)
    BY <1>6, <1>12
  <2>1. OwnAnswer'
    BY <1>2, <1>6, <2>0, Longer DEF Reads, OwnAnswer
  <2>2. ErrorSeen'
    <3>1. t = "Z" => Len(did') = asked
      BY <1>9
    <3>2. t # "Z" => (failed' <=> srvErr' \/ ErrorIn(Len(down))')
      <4>1. failed <=> srvErr \/ ErrorIn(Len(down))
        BY <1>2, <1>3, <1>12 DEF Reads, ErrorSeen, TypeOK
      <4>2. ErrorIn(Len(down))' <=> ErrorIn(Len(down))
        BY <1>6, <1>7, <2>0, Longer
      <4> QED
        BY <1>2, <1>9, <4>1, <4>2
    <3> QED
      BY <1>2, <1>3, <3>1, <3>2 DEF ErrorSeen
  <2>3. ZLast'
    <3>1. ASSUME NEW i \in 1..Len(down'), down'[i].typ = "Z"
          PROVE  /\ Served' /\ down'[i].tx = tx'
                 /\ \A j \in i + 1..Len(down') : down'[j].of = 0
                 /\ did'[asked'].how = "failed" <=> srvErr' \/ ErrorIn(i - 1)'
      <4>1. i = Len(down) + 1 /\ i = Len(down') /\ i - 1 = Len(down) /\ down'[i] = m
        BY <1>3, <1>4, <2>0, <3>1, Longer
      <4>2. t = "Z"
        BY <1>6, <3>1, <4>1
      <4>3. failed <=> srvErr \/ ErrorIn(Len(down))
        BY <1>2, <1>3, <1>12 DEF Reads, ErrorSeen, TypeOK
      <4>4. ErrorIn(i - 1)' <=> ErrorIn(Len(down))
        <5>1. i - 1 \in 0..Len(down)
          BY <1>3, <4>1
        <5>2. ErrorIn(i - 1)' <=> ErrorIn(i - 1)
          BY <1>6, <2>0, <5>1, Longer
        <5>3. ErrorIn(i - 1) <=> ErrorIn(Len(down))
          BY <4>1 DEF ErrorIn
        <5> QED
          BY <5>2, <5>3
      <4>5. i + 1..Len(down') = {}
        BY <1>3, <4>1
      <4> QED
        BY <1>2, <1>6, <1>10, <4>1, <4>2, <4>3, <4>4, <4>5
    <3> QED
      BY <3>1 DEF ZLast
  <2>4. RowsSeen'
    <3>1. Rows(down') = IF t = "D" THEN Rows(down) + 1 ELSE Rows(down)
      BY <1>6, <2>0, Longer
    <3>2. Rows(down) \in Nat /\ kept \in Nat /\ sent \in Nat
      BY RowsOf DEF TypeOK
    <3>3. current.op = "query" /\ ~tooLarge => kept + Rows(down) = sent
      BY <1>1, <1>12 DEF Reads, RowsSeen, Complete
    <3> QED
      BY <1>2, <1>8, <3>1, <3>2, <3>3 DEF RowsSeen
  <2> QED
    BY <1>9, <1>10, <1>11, <2>1, <2>2, <2>3, <2>4 DEF Reads
<1>13. CASE socket # "open"
  <2>1. down' = down
    BY <1>6, <1>13
  <2>2. OwnAnswer' /\ ZLast' /\ ErrorSeen' /\ RowsSeen'
    BY <1>2, <1>4, <1>13, <2>1 DEF Reads, OwnAnswer, ZLast, ErrorSeen, RowsSeen, Complete
  <2> QED
    BY <1>9, <1>10, <1>11, <2>2 DEF Reads
<1> QED
  BY <1>12, <1>13

LEMMA ReadsAbort ==
  ASSUME TypeOK, TypeOK', Unasked, Reads, asked > 0, Abort,
         up' = up \/ (up # <<>> /\ Head(up).typ = "f" /\ up' = Tail(up))
  PROVE  Reads'
<1>1. Underway /\ serving = asked /\ ~Unserved
  BY Busy DEF Abort, Reads, Served
<1>2. UNCHANGED <<asked, current, srvErr, tooLarge, kept, socket, gone, sent, did>> /\ ~gone
  BY DEF Abort, client, callVars
<1>3. Underway' /\ ~Unserved' /\ failed' = TRUE
  BY <1>1, AbortUnderway
<1>4. Len(did) = asked - 1 /\ Len(did) \in Nat /\ Len(down) \in Nat
  BY <1>1 DEF Underway, TypeOK
<1>5. \A i \in 1..Len(down) : down[i].typ # "Z"
  BY <1>4 DEF Reads, ZLast, Served
<1> DEFINE m == Message("E", serving, tx')
<1>6. /\ m \in Replies /\ m.of = asked /\ m.typ = "E"
      /\ down' = IF socket = "open" THEN Append(down, m) ELSE down
  <2>1. Write("E", serving) /\ tx' \in TxStates
    BY TypeAbort DEF Abort
  <2> QED
    BY <1>1, <2>1 DEF Write, Message, TypeOK, Replies
<1> HIDE DEF m
<1>7. Untouched'
  BY <1>3 DEF Untouched
<1>8. CASE socket = "open"
  <2>0. down' = Append(down, m)
    BY <1>6, <1>8
  <2>1. OwnAnswer'
    BY <1>2, <1>6, <2>0, Longer DEF Reads, OwnAnswer
  <2>2. ErrorSeen'
    BY <1>3, <1>6, <2>0, Longer DEF ErrorSeen
  <2>3. ZLast'
    <3>1. \A i \in 1..Len(down') : down'[i].typ # "Z"
      BY <1>5, <1>6, <2>0, Longer
    <3> QED
      BY <3>1 DEF ZLast
  <2>4. RowsSeen'
    <3>1. Rows(down') = Rows(down)
      BY <1>6, <2>0, Longer
    <3> QED
      BY <1>1, <1>2, <1>8, <3>1 DEF Reads, RowsSeen, Complete
  <2> QED
    BY <1>3, <1>7, <2>1, <2>2, <2>3, <2>4 DEF Reads
<1>9. CASE socket # "open"
  <2>1. down' = down
    BY <1>6, <1>9
  <2>2. OwnAnswer' /\ ZLast' /\ ErrorSeen' /\ RowsSeen'
    BY <1>2, <1>5, <1>9, <2>1 DEF Reads, OwnAnswer, ZLast, ErrorSeen, RowsSeen, Complete
  <2> QED
    BY <1>3, <1>7, <2>2 DEF Reads
<1> QED
  BY <1>8, <1>9

\* A message that belongs to no request disturbs none; nor does the backend's end.
LEMMA ReadsHears ==
  ASSUME TypeOK, TypeOK', Unasked, Reads, asked > 0,
         UNCHANGED <<client, up, todo, serving, copying, skipping, failed, tx, sent, did>>,
         socket' = socket \/ socket' = "reset", gone' = gone \/ gone' = TRUE,
         \/ down' = down
         \/ \E m \in Replies : /\ m.of = 0 /\ m.typ \in {"N", "?", "E"}
                               /\ m.typ = "E" => gone'
                               /\ down' = Append(down, m)
  PROVE  Reads'
<1>1. UNCHANGED <<asked, current, srvErr, tooLarge, kept>>
  BY DEF client, callVars
<1>2. (Underway' <=> Underway) /\ (Served' <=> Served) /\ (Unserved' <=> Unserved)
  <2>1. (Underway' <=> Underway) /\ (Settled' <=> Settled) /\ (Unserved' <=> Unserved)
    BY <1>1, Still
  <2> QED
    BY <1>1, <2>1 DEF Served
<1>3. CASE down' = down
  BY <1>1, <1>2, <1>3
     DEF Reads, OwnAnswer, ZLast, ErrorSeen, ErrorIn, Untouched, Silent, RowsSeen, Complete
<1>4. ASSUME NEW m \in Replies, m.of = 0, m.typ \in {"N", "?", "E"}, m.typ = "E" => gone',
             down' = Append(down, m)
      PROVE  Reads'
  <2>0. Len(down) \in Nat
    BY DEF TypeOK
  <2>1. OwnAnswer' /\ Untouched'
    BY <1>1, <1>2, <1>4, Longer DEF Reads, OwnAnswer, Untouched, Silent
  <2>2. ErrorSeen'
    <3>1. ~gone' => (ErrorIn(Len(down))' <=> ErrorIn(Len(down)))
      BY <1>4, Longer
    <3>2. ~gone' /\ socket' = "open" => ~gone /\ socket = "open"
      OBVIOUS
    <3> QED
      BY <1>1, <3>1, <3>2 DEF Reads, ErrorSeen
  <2>3. ZLast'
    <3>1. ASSUME NEW i \in 1..Len(down'), down'[i].typ = "Z"
          PROVE  /\ Served' /\ down'[i].tx = tx'
                 /\ \A j \in i + 1..Len(down') : down'[j].of = 0
                 /\ did'[asked'].how = "failed" <=> srvErr' \/ ErrorIn(i - 1)'
      <4>1. i \in 1..Len(down) /\ down'[i] = down[i] /\ i - 1 \in 0..Len(down)
        BY <1>4, <2>0, <3>1, Longer
      <4>2. /\ Served /\ down[i].tx = tx
            /\ \A j \in i + 1..Len(down) : down[j].of = 0
            /\ did[asked].how = "failed" <=> srvErr \/ ErrorIn(i - 1)
        BY <3>1, <4>1 DEF Reads, ZLast
      <4>3. ErrorIn(i - 1)' <=> ErrorIn(i - 1)
        BY <1>4, <4>1, Longer
      <4>4. ASSUME NEW j \in i + 1..Len(down') PROVE down'[j].of = 0
        <5>1. j = Len(down) + 1 \/ j \in i + 1..Len(down)
          BY <1>4, <2>0, <4>1, Longer
        <5>2. j \in i + 1..Len(down) => down'[j] = down[j]
          BY <1>4, <4>1, Longer
        <5> QED
          BY <1>4, <4>2, <5>1, <5>2, Longer
      <4> QED
        BY <1>1, <1>2, <4>1, <4>2, <4>3, <4>4
    <3> QED
      BY <3>1 DEF ZLast
  <2>4. RowsSeen'
    <3>1. Rows(down') = Rows(down)
      BY <1>4, Longer
    <3>2. Complete' => Complete
      <4>1. ASSUME NEW i \in 1..Len(down'), down'[i].typ = "Z"
            PROVE  \E j \in 1..Len(down) : down[j].typ = "Z"
        BY <1>4, <4>1, Longer
      <4> QED
        BY <4>1 DEF Complete
    <3> QED
      BY <1>1, <1>2, <3>1, <3>2 DEF Reads, RowsSeen
  <2> QED
    BY <1>2, <2>1, <2>2, <2>3, <2>4 DEF Reads
<1> QED
  BY <1>3, <1>4

\* What is lost is the end of the stream: if ReadyForQuery is still there, the
\* rows are.
LEMMA ReadsLose ==
  ASSUME TypeOK, TypeOK', Unasked, Reads, asked > 0, Lose
  PROVE  Reads'
<1>1. /\ UNCHANGED <<asked, current, srvErr, tooLarge, kept, sent, did, tx>>
      /\ socket = "open" /\ socket' = "reset"
      /\ (Underway' <=> Underway) /\ (Settled' <=> Settled) /\ (Unserved' <=> Unserved)
  <2>1. /\ UNCHANGED <<asked, current, srvErr, tooLarge, kept>>
        /\ socket = "open" /\ socket' = "reset"
    BY DEF Lose, client, callVars
  <2>2. UNCHANGED <<up, todo, serving, copying, skipping, failed, sent, did, tx>>
    BY DEF Lose, backendVars
  <2>3. (Settled' <=> Settled) /\ (Underway' <=> Underway) /\ (Unserved' <=> Unserved)
    BY <2>1, <2>2, Still, Zenon
  <2> QED
    BY <2>1, <2>2, <2>3, Zenon
<1>2. Served' <=> Served
  BY <1>1 DEF Served
<1>3. PICK k \in 0..Len(down) : down' = SubSeq(down, 1, k)
  BY DEF Lose
<1>4. /\ Len(down) \in Nat /\ Len(down') = k
      /\ \A i \in 1..k : down'[i] = down[i] /\ i \in 1..Len(down)
  <2>1. down \in Seq(Replies)
    BY DEF TypeOK
  <2> QED
    BY ONLY <1>3, <2>1
<1>5. OwnAnswer' /\ Untouched'
  BY <1>1, <1>4 DEF Reads, OwnAnswer, Untouched, Silent
<1>6. ErrorSeen'
  BY <1>1 DEF ErrorSeen
<1>7. ASSUME NEW i \in 1..k, down'[i].typ = "Z"
      PROVE  /\ Served /\ down'[i].tx = tx
             /\ \A j \in i + 1..Len(down) : down[j].of = 0
             /\ did[asked].how = "failed" <=> srvErr \/ ErrorIn(i - 1)
  BY <1>4, <1>7 DEF Reads, ZLast
<1>8. ZLast'
  <2>1. ASSUME NEW i \in 1..k PROVE ErrorIn(i - 1)' <=> ErrorIn(i - 1)
    BY <1>4 DEF ErrorIn
  <2>2. \A i \in 1..k : \A j \in i + 1..k : j \in i + 1..Len(down) /\ j \in 1..k
    BY <1>4
  <2> QED
    BY <1>1, <1>2, <1>4, <1>7, <2>1, <2>2 DEF ZLast
<1>9. RowsSeen'
  <2>1. ASSUME Complete' PROVE Rows(down') = Rows(down)
    <3>1. PICK i \in 1..k : down'[i].typ = "Z"
      BY <1>1, <1>4, <2>1 DEF Complete
    <3>2. \A j \in i + 1..Len(down) : down[j].of = 0
      BY <1>7, <3>1
    <3>3. \A j \in i + 1..Len(down) : down[j].typ # "D"
      <4>1. \A j \in i + 1..Len(down) : j \in 1..Len(down)
        BY <1>4
      <4> QED
        BY <3>2, <4>1 DEF Unasked
    <3>4. \A j \in 1..Len(down) : j \in 1..k \/ j \in i + 1..Len(down)
      BY <1>4
    <3>5. {j \in 1..Len(down') : down'[j].typ = "D"} = {j \in 1..Len(down) : down[j].typ = "D"}
      BY <1>4, <3>3, <3>4
    <3> QED
      BY <3>5 DEF Rows
  <2> QED
    BY <1>1, <2>1 DEF Reads, RowsSeen, Complete
<1> QED
  BY <1>1, <1>2, <1>5, <1>6, <1>8, <1>9 DEF Reads

-----------------------------------------------------------------------------
\* What the client's steps do.  It takes the first message of its answer and is
\* still within it.
LEMMA Taken ==
  ASSUME TypeOK, down # <<>>, down' = Tail(down)
  PROVE  /\ Len(down) \in Nat /\ Len(down) > 0 /\ Len(down') = Len(down) - 1
         /\ Head(down) = down[1] /\ 1 \in 1..Len(down) /\ Head(down) \in Replies
         /\ \A i \in 1..Len(down') : down'[i] = down[i + 1] /\ i + 1 \in 1..Len(down)
         /\ Rows(down) = IF Head(down).typ = "D" THEN Rows(down') + 1 ELSE Rows(down')
         /\ \A n \in 0..Len(down') : ErrorIn(n + 1) <=> Head(down).typ = "E" \/ ErrorIn(n)'
<1>1. /\ Len(down) \in Nat /\ Len(down) > 0 /\ Len(down') = Len(down) - 1
      /\ Head(down) = down[1] /\ 1 \in 1..Len(down) /\ Head(down) \in Replies
      /\ \A i \in 1..Len(down') : down'[i] = down[i + 1] /\ i + 1 \in 1..Len(down)
  BY DEF TypeOK
<1>2. Rows(down) = IF Head(down).typ = "D" THEN Rows(down') + 1 ELSE Rows(down')
  BY RowsTail DEF TypeOK
<1>3. ASSUME NEW n \in 0..Len(down')
      PROVE  ErrorIn(n + 1) <=> Head(down).typ = "E" \/ ErrorIn(n)'
  <2>1. ErrorIn(n + 1) => Head(down).typ = "E" \/ ErrorIn(n)'
    <3>1. ASSUME NEW j \in 1..n + 1, down[j].typ = "E", j # 1 PROVE ErrorIn(n)'
      <4>1. j - 1 \in 1..n /\ j - 1 \in 1..Len(down') /\ j - 1 + 1 = j
        BY <1>1, <1>3, <3>1
      <4> QED
        BY <1>1, <3>1, <4>1 DEF ErrorIn
    <3> QED
      BY <1>1, <3>1 DEF ErrorIn
  <2>2. Head(down).typ = "E" => ErrorIn(n + 1)
    <3>1. 1 \in 1..n + 1
      BY <1>1, <1>3
    <3> QED
      BY <1>1, <3>1 DEF ErrorIn
  <2>3. ErrorIn(n)' => ErrorIn(n + 1)
    <3>1. \A j \in 1..n : j \in 1..Len(down') /\ j + 1 \in 1..n + 1
      BY <1>1, <1>3
    <3> QED
      BY <1>1, <3>1 DEF ErrorIn
  <2> QED
    BY <2>1, <2>2, <2>3
<1> QED
  BY <1>1, <1>2, <1>3

\* A CopyFail joins the ones nobody waits for.
LEMMA AnswersCopy ==
  ASSUME TypeOK, Settled \/ Underway, ~Unserved, current.op # "describe",
         UNCHANGED <<asked, current, todo, serving, copying, skipping, failed, tx, did>>,
         up' = Append(up, CopyFail(asked))
  PROVE  ~Unserved' /\ (Settled => Settled') /\ (Underway => Underway') /\ (Served => Served')
<1>1. /\ Len(up) \in Nat /\ Len(up') = Len(up) + 1 /\ up'[Len(up) + 1].typ = "f"
      /\ \A j \in 1..Len(up') : j = Len(up) + 1 \/ (j \in 1..Len(up) /\ up'[j] = up[j])
  BY DEF TypeOK, CopyFail
<1>2. ~Unserved'
  BY <1>1 DEF Unserved
<1>3. Settled => Settled'
  BY <1>1 DEF Settled
<1>4. Served => Served'
  BY <1>3 DEF Served
<1>5. ASSUME Underway PROVE Underway'
  <2>1. PICK a \in Nat : Stage(a)
    BY <1>5 DEF Underway
  <2>2. asked > 0 /\ Framed(current, asked) /\ Len(Frames(current, asked)) = 1
    BY <1>5, OnTheWay DEF Underway, Framed
  <2>3. a = 0
    <3>1. a # 1
      BY <2>1, <2>2, LastSent
    <3>2. a <= 1
      BY <2>1, <2>2 DEF Stage, InPlace
    <3> QED
      BY <3>1, <3>2
  <2>4. \A j \in 1..Len(up) : up[j].typ = "f"
    BY <2>1, <2>2, <2>3, LastSent
  <2>5. \A j \in 1..Len(up') : up'[j].typ = "f"
    BY <1>1, <2>4
  <2>6. InPlace(0)'
    BY <1>1, <2>2, <2>5 DEF InPlace
  <2>7. Stage(0)'
    BY <2>1, <2>2, <2>3, <2>6 DEF Stage
  <2> QED
    BY <1>5, <2>7 DEF Underway
<1> QED
  BY <1>2, <1>3, <1>4, <1>5

LEMMA ReadsOn ==
  ASSUME TypeOK, TypeOK', Unasked, Reads, asked > 0,
         down # <<>>, Read, Head(down).typ # "Z",
         srvErr' = (srvErr \/ Head(down).typ = "E"),
         UNCHANGED <<asked, current, socket, backendVars>>,
         \/ up' = up
         \/ /\ up' = Append(up, CopyFail(asked))
            /\ Head(down).typ = "G" /\ current.op # "describe",
         IF Head(down).typ = "D"
         THEN current.op # "query" \/ tooLarge' = TRUE \/ (kept' = kept + 1 /\ tooLarge' = tooLarge)
         ELSE UNCHANGED <<kept, tooLarge>>
  PROVE  Reads'
<1>1. UNCHANGED <<todo, serving, copying, skipping, failed, tx, sent, did, gone>>
  BY DEF backendVars
<1>2. down' = Tail(down)
  BY DEF Read
<1>3. Unserved => Head(down).typ \in {"N", "?", "E"}
  BY <1>2, Taken DEF Reads, Untouched, Silent, Unasked
<1>4. (Unserved' => Unserved) /\ (Unserved => Unserved')
      /\ (Underway' \/ Served') /\ (Served => Served')
  <2>1. CASE up' = up
    <3>1. (Underway' <=> Underway) /\ (Settled' <=> Settled) /\ (Unserved' <=> Unserved)
      BY <1>1, <2>1, Still
    <3> QED
      BY <1>1, <3>1 DEF Reads, Served
  <2>2. CASE up' = Append(up, CopyFail(asked)) /\ Head(down).typ = "G" /\ current.op # "describe"
    <3>1. ~Unserved /\ (Settled \/ Underway)
      BY <1>3, <2>2 DEF Reads, Served
    <3> QED
      BY <1>1, <2>2, <3>1, AnswersCopy DEF Reads
  <2> QED
    BY <2>1, <2>2
<1>5. OwnAnswer'
  BY <1>2, Taken DEF Reads, OwnAnswer
<1>6. Untouched'
  <2>1. ASSUME Unserved PROVE kept' = 0 /\ Silent'
    <3>1. kept = 0 /\ Silent
      BY <2>1 DEF Reads, Untouched
    <3>2. kept' = kept
      BY <1>3, <2>1
    <3> QED
      BY <1>2, <3>1, <3>2, Taken DEF Silent
  <2> QED
    BY <1>4, <2>1 DEF Untouched
<1>7. ErrorSeen'
  <2>1. Len(down') \in 0..Len(down') /\ Len(down') + 1 = Len(down)
    BY <1>2, Taken
  <2>2. ErrorIn(Len(down)) <=> Head(down).typ = "E" \/ ErrorIn(Len(down))'
    <3>1. ErrorIn(Len(down') + 1) <=> Head(down).typ = "E" \/ ErrorIn(Len(down))'
      BY <1>2, <2>1, Taken DEF ErrorIn
    <3> QED
      BY <2>1, <3>1
  <2> QED
    BY <1>1, <2>2 DEF Reads, ErrorSeen
<1>8. ZLast'
  <2>1. ASSUME NEW i \in 1..Len(down'), down'[i].typ = "Z"
        PROVE  /\ Served' /\ down'[i].tx = tx'
               /\ \A j \in i + 1..Len(down') : down'[j].of = 0
               /\ did'[asked'].how = "failed" <=> srvErr' \/ ErrorIn(i - 1)'
    <3>1. down'[i] = down[i + 1] /\ i + 1 \in 1..Len(down) /\ i + 1 - 1 = i
          /\ i - 1 \in 0..Len(down') /\ i - 1 + 1 = i
      BY <1>2, Taken
    <3>2. /\ Served /\ down[i + 1].tx = tx
          /\ \A j \in i + 1 + 1..Len(down) : down[j].of = 0
          /\ did[asked].how = "failed" <=> srvErr \/ ErrorIn(i + 1 - 1)
      BY <2>1, <3>1 DEF Reads, ZLast
    <3>3. ErrorIn(i - 1 + 1) <=> Head(down).typ = "E" \/ ErrorIn(i - 1)'
      BY <1>2, <3>1, Taken
    <3>4. did[asked].how = "failed" <=> srvErr' \/ ErrorIn(i - 1)'
      BY <3>1, <3>2, <3>3
    <3>5. ASSUME NEW j \in i + 1..Len(down') PROVE down'[j].of = 0
      <4>1. j \in 1..Len(down') /\ j + 1 \in i + 1 + 1..Len(down)
        BY <1>2, <3>1, Taken
      <4> QED
        BY <1>2, <3>2, <4>1, Taken
    <3> QED
      BY <1>1, <1>4, <3>1, <3>2, <3>4, <3>5
  <2> QED
    BY <2>1 DEF ZLast
<1>9. RowsSeen'
  <2>1. Complete' => Complete
    BY <1>2, Taken DEF Complete
  <2>2. Rows(down') \in Nat /\ kept \in Nat
    BY RowsOf DEF TypeOK
  <2>3. SUFFICES ASSUME current'.op = "query", ~tooLarge', ~Unserved', Complete'
                 PROVE  kept' + Rows(down') = sent'
    BY DEF RowsSeen
  <2>4. ~tooLarge => kept + Rows(down) = sent
    BY <1>1, <1>4, <2>1, <2>3 DEF Reads, RowsSeen
  <2>5. CASE Head(down).typ = "D"
    <3>1. kept' = kept + 1 /\ ~tooLarge
      BY <2>3, <2>5
    <3>2. Rows(down) = Rows(down') + 1
      BY <1>2, <2>5, Taken
    <3> QED
      BY <1>1, <2>2, <2>4, <3>1, <3>2
  <2>6. CASE Head(down).typ # "D"
    <3>1. kept' = kept /\ ~tooLarge
      BY <2>3, <2>6
    <3>2. Rows(down) = Rows(down')
      BY <1>2, <2>6, Taken
    <3> QED
      BY <1>1, <2>2, <2>4, <3>1, <3>2
  <2> QED
    BY <2>5, <2>6
<1> QED
  BY <1>4, <1>5, <1>6, <1>7, <1>8, <1>9 DEF Reads

\* A request begins with both streams in order, ...
LEMMA ReadsBegins ==
  ASSUME TypeOK, Unasked, Rests, Unclosed, ~broken, NEW r \in Requests, Ask(r)
  PROVE  Reads' /\ Underway' /\ \A j \in 1..Len(up') : up'[j].typ # "X"
<1> DEFINE F == Frames(r, asked + 1)
<1>1. /\ asked' = asked + 1 /\ current' = r /\ up' = up \o F
      /\ srvErr' = FALSE /\ tooLarge' = FALSE /\ kept' = 0
      /\ UNCHANGED <<down, socket, todo, serving, copying, skipping, failed, tx, sent, did, gone>>
  BY DEF Ask, Begun, backendVars
<1>2. Framed(r, asked + 1) /\ asked \in Nat
  BY FrameFacts DEF TypeOK
<1>3. /\ F \in Seq(Sendable) /\ Len(F) \in {1, 3}
      /\ \A j \in 1..Len(F) : F[j].typ \in {"P", "D", "S", "Q"}
      /\ r.op # "describe" => Len(F) = 1 /\ F[1].typ = "Q"
  BY <1>2 DEF Framed
<1> HIDE DEF F
<1>4. \A j \in 1..Len(up) : up[j].typ = "f"
  BY DEF Rests, Settled, Unclosed
<1>5. /\ Len(up) \in Nat /\ Len(up') = Len(up) + Len(F)
      /\ \A j \in 1..Len(up) : up'[j] = up[j]
      /\ \A j \in 1..Len(F) : up'[Len(up) + j] = F[j] /\ Len(up) + j \in 1..Len(up')
      /\ \A j \in 1..Len(up') : j \in 1..Len(up) \/ (j - Len(up) \in 1..Len(F)
                                                      /\ Len(up) + (j - Len(up)) = j)
  BY <1>1, <1>3 DEF TypeOK
<1>13. PICK a \in {1, 3} : a = Len(F)
  BY <1>3
<1>6. InPlace(a)'
  <2>1. F = Frames(current', asked')
    BY <1>1 DEF F
  <2>2. a <= Len(F) /\ a <= Len(up')
    BY <1>3, <1>5, <1>13
  <2>3. ASSUME NEW j \in 1..a PROVE up'[Len(up') - a + j] = F[Len(F) - a + j]
    <3>1. Len(up') - a + j = Len(up) + j /\ Len(F) - a + j = j /\ j \in 1..Len(F)
      BY <1>5, <1>13
    <3> QED
      BY <1>5, <3>1
  <2>4. ASSUME NEW j \in 1..Len(up') - a PROVE up'[j].typ = "f"
    <3>1. j \in 1..Len(up)
      BY <1>5, <1>13
    <3> QED
      BY <1>4, <1>5, <3>1
  <2> QED
    BY <2>1, <2>2, <2>3, <2>4 DEF InPlace
<1>7. Underway'
  <2>1. Settled /\ Len(did) = asked
    BY DEF Rests
  <2>2. a \in Nat /\ a # 0 /\ a \notin 1..a - 1 /\ ~(a < a)
    BY <1>13
  <2>3. Frames(current', asked') = F
    BY <1>1 DEF F
  <2>4. Stage(a)'
    BY <1>1, <1>6, <1>13, <2>1, <2>2, <2>3 DEF Stage, Settled
  <2> QED
    BY <1>1, <1>2, <2>1, <2>2, <2>4 DEF Underway
<1>8. Silent' /\ \A i \in 1..Len(down') :
                   down'[i].typ \in {"N", "?", "E"} /\ (down'[i].typ = "E" => gone')
  BY <1>1, SilentRows DEF Rests, Silent
<1>9. OwnAnswer' /\ ZLast' /\ Untouched'
  BY <1>1, <1>8 DEF OwnAnswer, ZLast, Untouched, Silent
<1>10. ErrorSeen'
  <2>1. ~gone' => ~ErrorIn(Len(down))'
    BY <1>8 DEF ErrorIn
  <2> QED
    BY <1>1, <2>1 DEF ErrorSeen, Rests, Settled
<1>11. RowsSeen'
  <2>1. r.op = "query" => Unserved'
    <3>1. r.op = "query" => 1 \in 1..Len(F) /\ F[1].typ = "Q"
      BY <1>3
    <3> QED
      BY <1>5, <3>1 DEF Unserved
  <2> QED
    BY <1>1, <2>1 DEF RowsSeen
<1>12. \A j \in 1..Len(up') : up'[j].typ # "X"
  <2>1. ASSUME NEW j \in 1..Len(up) PROVE up'[j].typ # "X"
    BY <1>4, <1>5
  <2>2. ASSUME NEW j \in 1..Len(F) PROVE up'[Len(up) + j].typ # "X"
    BY <1>3, <1>5
  <2> QED
    BY <1>5, <2>1, <2>2
<1> QED
  BY <1>7, <1>9, <1>10, <1>11, <1>12 DEF Reads

\* ... and ends with both streams in order.
LEMMA ReadsEnds ==
  ASSUME TypeOK, Unasked, Reads, asked > 0, Ready
  PROVE  /\ Rests'
         /\ Len(did) = asked /\ Head(down).tx = did[asked].tx
         /\ did[asked].how = "failed" <=> srvErr
         /\ current.op = "query" /\ Result = "ok" => kept = sent
<1>1. /\ down # <<>> /\ down' = Tail(down) /\ Head(down).typ = "Z" /\ txStatus' = Head(down).tx
      /\ UNCHANGED <<asked, up, todo, serving, copying, skipping, failed, tx, sent, did, gone, current>>
  BY DEF Ready, Incoming, Read, backendVars
<1>2. /\ Served /\ Head(down).tx = tx
      /\ \A j \in 2..Len(down) : down[j].of = 0
      /\ did[asked].how = "failed" <=> srvErr \/ ErrorIn(0)
  BY <1>1, Taken DEF Reads, ZLast
<1>3. Silent'
  <2>1. \A i \in 1..Len(down') : i + 1 \in 2..Len(down) /\ down'[i] = down[i + 1]
    BY <1>1, Taken
  <2> QED
    BY <1>2, <2>1 DEF Silent
<1>4. Rests'
  <2>1. Settled' <=> Settled
    BY <1>1, Still
  <2> QED
    BY <1>1, <1>2, <1>3, <2>1 DEF Rests, Served
<1>5. ~ErrorIn(0)
  BY DEF ErrorIn
<1>6. ASSUME current.op = "query", Result = "ok" PROVE kept = sent
  <2>1. ~tooLarge
    BY <1>6 DEF Result
  <2>2. ~Unserved
    BY <1>2 DEF Served, Settled, Unserved
  <2>3. Complete
    BY <1>1, Taken DEF Complete
  <2>4. kept + Rows(down) = sent
    BY <1>6, <2>1, <2>2, <2>3 DEF Reads, RowsSeen
  <2>5. \A j \in 1..Len(down) : down[j].typ # "D"
    <3>1. \A j \in 1..Len(down) : j = 1 \/ j \in 2..Len(down)
      BY <1>1, Taken
    <3> QED
      BY <1>1, <1>2, <3>1, Taken DEF Unasked
  <2>6. Rows(down) = 0
    BY <2>5, RowsNone DEF TypeOK
  <2> QED
    BY <2>4, <2>6 DEF TypeOK
<1> QED
  BY <1>2, <1>4, <1>5, <1>6 DEF Served

-----------------------------------------------------------------------------
\* What the backend may do to a connection, read or not.
Utterance(m) == m.of = 0 => m.typ \in {"N", "?", "E"} /\ (m.typ = "E" => gone')

Heard ==
  \/ down' = down
  \/ \E m \in Replies : down' = Append(down, m) /\ Utterance(m) /\ (Settled => m.of = 0)
  \/ \E k \in 0..Len(down) : down' = SubSeq(down, 1, k)

Executed ==
  \/ did' = did
  \/ Len(did) < asked /\ \E e \in Endings : did' = Append(did, e)

Moves ==
  /\ UNCHANGED client /\ (socket' = socket \/ socket' = "reset") /\ (gone => gone' = TRUE)
  /\ up' = up \/ (up # <<>> /\ up' = Tail(up))
  /\ Settled' \/ Underway'
  /\ Settled => Settled' /\ UNCHANGED <<sent, did, tx>>
  /\ Heard /\ Executed

LEMMA MovesTake == TypeOK /\ (Settled \/ Underway) /\ Take => Moves
<1> SUFFICES ASSUME TypeOK, Settled \/ Underway, Take PROVE Moves
  OBVIOUS
<1>1. Settled => Settled' /\ sent' = sent
  BY TakeSettled
<1>2. Underway => Underway'
  BY TakeUnderway
<1>3. /\ UNCHANGED <<client, down, socket, tx, did, gone>>
      /\ up # <<>> /\ up' = Tail(up)
  BY DEF Take
<1>4. Heard /\ Executed
  BY <1>3, Zenon DEF Heard, Executed
<1> QED
  BY <1>1, <1>2, <1>3, <1>4, Zenon DEF Moves

\* Nothing is answered but the request under way.
LEMMA Answering ==
  ASSUME TypeOK, TypeOK', asked > 0, serving = asked, NEW t, Write(t, serving),
         t \in (Steps \ {"begin", "end"}) \cup {"E"}, ~Settled
  PROVE  Heard
<1>1. Message(t, serving, tx') \in Replies /\ Message(t, serving, tx').of # 0
  BY DEF Message, TypeOK, Replies
<1> QED
  BY <1>1 DEF Write, Heard, Utterance

LEMMA MovesProceed == TypeOK /\ TypeOK' /\ (Settled \/ Underway) /\ Proceed => Moves
<1> SUFFICES ASSUME TypeOK, TypeOK', Settled \/ Underway, Proceed PROVE Moves
  OBVIOUS
<1>1. Underway /\ serving = asked /\ asked > 0 /\ ~Settled
  BY Busy DEF Proceed, Settled
<1>2. Settled' \/ Underway'
  BY <1>1, ProceedUnderway
<1>3. Heard
  <2>1. Head(todo) \in Steps
    BY DEF Proceed, TypeOK
  <2> DEFINE t == IF Head(todo) \in {"begin", "end"} THEN "C" ELSE Head(todo)
  <2>2. Write(t, serving) /\ t \in Steps \ {"begin", "end"}
    BY <2>1 DEF Proceed, Steps
  <2> HIDE DEF t
  <2> QED
    BY <1>1, <2>2, Answering
<1>4. Executed
  <2> DEFINE ending == [how |-> IF failed THEN "failed" ELSE "done", tx |-> tx]
  <2>1. ending \in Endings
    BY DEF TypeOK, Endings
  <2>2. did' = did \/ did' = Append(did, ending)
    BY DEF Proceed
  <2> HIDE DEF ending
  <2>3. Len(did) < asked
    BY <1>1 DEF Underway, TypeOK
  <2> QED
    BY <2>1, <2>2, <2>3 DEF Executed
<1> QED
  BY <1>1, <1>2, <1>3, <1>4 DEF Proceed, Moves

LEMMA MovesAbort ==
  ASSUME TypeOK, TypeOK', Settled \/ Underway, Abort,
         up' = up \/ (up # <<>> /\ Head(up).typ = "f" /\ up' = Tail(up))
  PROVE  Moves
<1>1. Underway /\ serving = asked /\ asked > 0 /\ ~Settled
  BY Busy DEF Abort, Settled
<1>2. Underway' /\ did' = did
  BY <1>1, AbortUnderway
<1>3. Heard
  BY <1>1, Answering DEF Abort
<1> QED
  BY <1>1, <1>2, <1>3 DEF Abort, Moves, Executed

LEMMA MovesQuietly ==
  ASSUME TypeOK, TypeOK', Settled \/ Underway,
         UNCHANGED <<client, up, todo, serving, copying, skipping, failed, tx, sent, did>>,
         socket' = socket \/ socket' = "reset", gone' = gone \/ gone' = TRUE, Heard
  PROVE  Moves
<1>1. (Settled' <=> Settled) /\ (Underway' <=> Underway)
  BY Still DEF client, callVars
<1> QED
  BY <1>1 DEF Moves, Executed

\* What a notice, a message out of protocol and a farewell have in common.
LEMMA Aside ==
  ASSUME TypeOK, TypeOK', NEW t \in {"N", "?", "E"}, t = "E" => gone',
         Write(t, 0), tx' = tx
  PROVE  /\ Heard
         /\ \/ down' = down
            \/ \E m \in Replies : /\ m.of = 0 /\ m.typ \in {"N", "?", "E"}
                                  /\ m.typ = "E" => gone'
                                  /\ down' = Append(down, m)
<1>1. Message(t, 0, tx') \in Replies /\ Message(t, 0, tx').of = 0 /\ Message(t, 0, tx').typ = t
  BY DEF Message, TypeOK, Replies
<1> QED
  BY <1>1 DEF Write, Heard, Utterance

LEMMA BackendMoves ==
  ASSUME TypeOK, TypeOK', Settled \/ Underway, Backend
  PROVE  Moves
<1>1. CASE Take
  BY <1>1, MovesTake
<1>2. CASE Proceed
  BY <1>2, MovesProceed
<1>3. CASE CopyEnds
  BY <1>3, MovesAbort DEF CopyEnds
<1>4. CASE Reject
  BY <1>4, MovesAbort DEF Reject
<1>5. CASE Quit
  BY <1>5, MovesQuietly DEF Quit, Heard
<1>6. CASE Shutdown
  <2>1. Heard
    BY <1>6, Aside DEF Shutdown
  <2> QED
    BY <1>6, <2>1, MovesQuietly DEF Shutdown
<1>7. CASE Lose
  <2>1. Heard
    BY <1>7 DEF Lose, Heard
  <2> QED
    BY <1>7, <2>1, MovesQuietly DEF Lose, backendVars
<1>8. ASSUME NEW t \in {"N", "?"}, Notice(t) PROVE Moves
  <2>1. Heard
    BY <1>8, Aside DEF Notice
  <2> QED
    BY <1>8, <2>1, MovesQuietly DEF Notice
<1> QED
  BY <1>1, <1>2, <1>3, <1>4, <1>5, <1>6, <1>7, <1>8 DEF Backend, Executes

LEMMA ReadsBackend ==
  ASSUME TypeOK, TypeOK', Unasked, Reads, asked > 0, Backend
  PROVE  Reads'
<1>1. CASE Take
  BY <1>1, ReadsTake
<1>2. CASE Proceed
  BY <1>2, ReadsProceed
<1>3. CASE CopyEnds
  BY <1>3, ReadsAbort DEF CopyEnds
<1>4. CASE Reject
  BY <1>4, ReadsAbort DEF Reject
<1>5. CASE Quit
  BY <1>5, ReadsHears DEF Quit
<1>6. CASE Shutdown
  <2>1. \/ down' = down
        \/ \E m \in Replies : /\ m.of = 0 /\ m.typ \in {"N", "?", "E"}
                              /\ m.typ = "E" => gone'
                              /\ down' = Append(down, m)
    BY <1>6, Aside DEF Shutdown
  <2> QED
    BY <1>6, <2>1, ReadsHears DEF Shutdown
<1>7. CASE Lose
  BY <1>7, ReadsLose
<1>8. ASSUME NEW t \in {"N", "?"}, Notice(t) PROVE Reads'
  <2>1. \/ down' = down
        \/ \E m \in Replies : /\ m.of = 0 /\ m.typ \in {"N", "?", "E"}
                              /\ m.typ = "E" => gone'
                              /\ down' = Append(down, m)
    BY <1>8, Aside DEF Notice
  <2> QED
    BY <1>8, <2>1, ReadsHears DEF Notice
<1> QED
  BY <1>1, <1>2, <1>3, <1>4, <1>5, <1>6, <1>7, <1>8 DEF Backend, Executes

LEMMA UnaskedKept ==
  ASSUME TypeOK, Unasked, Heard, gone => gone' = TRUE
  PROVE  Unasked' /\ (Settled /\ Silent => Silent')
<1>1. CASE down' = down
  BY <1>1 DEF Unasked, Silent
<1>2. ASSUME NEW m \in Replies, down' = Append(down, m), Utterance(m), Settled => m.of = 0
      PROVE  Unasked' /\ (Settled /\ Silent => Silent')
  <2>1. Unasked'
    <3>1. ASSUME NEW i \in 1..Len(down'), down'[i].of = 0
          PROVE  down'[i].typ \in {"N", "?", "E"} /\ (down'[i].typ = "E" => gone')
      <4>1. CASE i = Len(down) + 1
        BY <1>2, <3>1, <4>1, Longer DEF Utterance
      <4>2. CASE i \in 1..Len(down)
        BY <1>2, <3>1, <4>2, Longer DEF Unasked
      <4> QED
        BY <1>2, <4>1, <4>2, Longer
    <3> QED
      BY <3>1 DEF Unasked
  <2>2. Settled /\ Silent => Silent'
    BY <1>2, Longer DEF Silent
  <2> QED
    BY <2>1, <2>2
<1>3. ASSUME NEW k \in 0..Len(down), down' = SubSeq(down, 1, k)
      PROVE  Unasked' /\ (Settled /\ Silent => Silent')
  <2>1. \A i \in 1..Len(down') : i \in 1..Len(down) /\ down'[i] = down[i]
    BY <1>3 DEF TypeOK
  <2> QED
    BY <2>1 DEF Unasked, Silent
<1> QED
  BY <1>1, <1>2, <1>3 DEF Heard

LEMMA WireBackend == WireInv /\ Backend => WireInv' /\ Moves
<1> SUFFICES ASSUME WireInv, Backend PROVE WireInv' /\ Moves
  OBVIOUS
<1>1. TypeOK /\ Counts /\ Unasked /\ Unclosed /\ RowsTold /\ (Settled \/ Underway)
  BY DEF WireInv
<1>2. TypeOK'
  BY <1>1, TypeBackend
<1>3. Moves
  BY <1>1, <1>2, BackendMoves
<1>4. UNCHANGED <<asked, current, phase, srvErr, tooLarge, kept, told, broken, txStatus, timed>>
  BY <1>3 DEF Moves, client, callVars
<1>5. Settled' \/ Underway'
  BY <1>3 DEF Moves
<1>6. Unasked' /\ (Settled /\ Silent => Silent')
  BY <1>1, <1>3, UnaskedKept DEF Moves
<1>7. Counts'
  <2>1. Len(did') <= asked
    <3>1. ASSUME NEW e \in Endings, did' = Append(did, e), Len(did) < asked
          PROVE  Len(did') <= asked
      <4>1. Len(did') = Len(did) + 1 /\ Len(did) \in Nat /\ asked \in Nat
        BY <1>1, <3>1 DEF TypeOK
      <4> QED
        BY <3>1, <4>1
    <3> QED
      BY <1>1, <1>3, <3>1 DEF Moves, Executed, Counts
  <2> QED
    BY <1>1, <1>4, <2>1 DEF Counts
<1>8. Unclosed'
  <2>1. up # <<>> /\ up' = Tail(up) =>
          \A j \in 1..Len(up') : up'[j] = up[j + 1] /\ j + 1 \in 1..Len(up)
    BY <1>1 DEF TypeOK
  <2> QED
    BY <1>1, <1>3, <1>4, <2>1 DEF Moves, Unclosed
<1>9. RowsTold'
  BY <1>1, <1>3, <1>4 DEF Moves, RowsTold
<1>10. phase' = "reading" => ~broken' /\ Reads'
  <2>1. phase = "reading" => ~broken /\ Reads /\ asked > 0
    BY DEF WireInv, Counts
  <2> QED
    BY <1>1, <1>2, <1>4, <2>1, ReadsBackend
<1>11. phase' = "idle" /\ ~broken' => Rests'
  <2>1. phase = "idle" /\ ~broken => Rests
    BY DEF WireInv
  <2> QED
    BY <1>3, <1>4, <1>6, <2>1 DEF Rests, Moves
<1> QED
  BY <1>2, <1>3, <1>5, <1>6, <1>7, <1>8, <1>9, <1>10, <1>11 DEF WireInv

-----------------------------------------------------------------------------
LEMMA TakenUnasked ==
  ASSUME TypeOK, Unasked, down # <<>>, down' = Tail(down), gone' = gone
  PROVE  Unasked'
BY Taken DEF Unasked

\* A step of the answer that is not its end.
LEMMA WireOn ==
  ASSUME WireInv, TypeOK', phase = "reading", phase' = phase,
         down # <<>>, Read, Head(down).typ # "Z",
         srvErr' = (srvErr \/ Head(down).typ = "E"),
         UNCHANGED <<asked, current, told, broken, txStatus, socket, backendVars>>,
         \/ up' = up
         \/ /\ up' = Append(up, CopyFail(asked))
            /\ Head(down).typ = "G" /\ current.op # "describe",
         kept' <= Budget,
         IF Head(down).typ = "D"
         THEN current.op # "query" \/ tooLarge' = TRUE \/ (kept' = kept + 1 /\ tooLarge' = tooLarge)
         ELSE UNCHANGED <<kept, tooLarge>>
  PROVE  WireInv'
<1>1. /\ TypeOK /\ Counts /\ Unasked /\ Unclosed /\ ~broken /\ Reads /\ asked > 0
      /\ down' = Tail(down) /\ gone' = gone /\ did' = did
  BY DEF WireInv, Counts, Read, backendVars
<1>2. Reads'
  BY <1>1, ReadsOn
<1>3. Settled' \/ Underway'
  BY <1>2 DEF Reads, Served
<1>4. Unasked'
  BY <1>1, TakenUnasked
<1>5. Counts'
  BY <1>1 DEF Counts
<1>6. Unclosed'
  <2>1. up' = Append(up, CopyFail(asked)) =>
          \A j \in 1..Len(up') : (j \in 1..Len(up) /\ up'[j] = up[j]) \/ up'[j].typ = "f"
    BY <1>1 DEF TypeOK, CopyFail
  <2> QED
    BY <1>1, <2>1 DEF Unclosed
<1>7. RowsTold'
  BY DEF RowsTold
<1> QED
  BY <1>1, <1>2, <1>3, <1>4, <1>5, <1>6, <1>7 DEF WireInv

\* The request is given up, and the connection with it.
LEMMA WireLost ==
  ASSUME WireInv, TypeOK', broken' = TRUE, phase' = "idle", told' = Append(told, "lost"),
         UNCHANGED <<up, backendVars>>,
         down' = down \/ (down # <<>> /\ down' = Tail(down)),
         \/ phase = "reading" /\ UNCHANGED <<asked, current, kept>>
         \/ /\ phase = "idle" /\ ~broken /\ kept' = 0
            /\ asked' = asked + 1 /\ asked < MaxRequests
  PROVE  WireInv'
<1>1. TypeOK /\ Counts /\ Unasked /\ (Settled \/ Underway)
      /\ UNCHANGED <<todo, serving, copying, skipping, failed, did, gone, tx>>
  BY DEF WireInv, backendVars
<1>2. Len(told') = Len(told) + 1 /\ told'[Len(told')] = "lost" /\ Len(told) \in Nat
      /\ Len(did) \in Nat /\ asked \in Nat
  BY <1>1 DEF TypeOK
<1>3. Unasked'
  <2>1. CASE down' = down
    BY <1>1, <2>1 DEF Unasked
  <2>2. CASE down # <<>> /\ down' = Tail(down)
    BY <1>1, <2>2, TakenUnasked
  <2> QED
    BY <2>1, <2>2
<1>4. Counts'
  BY <1>1, <1>2, WireAssumption DEF Counts
<1>5. Settled' \/ Underway'
  <2>1. CASE UNCHANGED <<asked, current>>
    BY <1>1, <2>1, Still
  <2>2. CASE phase = "idle" /\ ~broken
    <3>1. Settled
      BY <2>2 DEF WireInv, Rests
    <3> QED
      BY <1>1, <3>1 DEF Settled
  <2> QED
    BY <2>1, <2>2
<1>6. RowsTold'
  BY <1>2 DEF RowsTold
<1> QED
  BY <1>3, <1>4, <1>5, <1>6 DEF WireInv, Unclosed

LEMMA WireAsk ==
  ASSUME WireInv, TypeOK', NEW r \in Requests, Ask(r)
  PROVE  WireInv'
<1>1. /\ TypeOK /\ Counts /\ Unasked /\ Unclosed /\ Rests /\ phase = "idle" /\ ~broken
      /\ asked < MaxRequests /\ asked' = asked + 1 /\ phase' = "reading" /\ kept' = 0
      /\ UNCHANGED <<broken, told, down, socket, did, gone>>
  BY DEF WireInv, Ask, Begun, Usable, backendVars
<1>2. Reads' /\ Underway' /\ \A j \in 1..Len(up') : up'[j].typ # "X"
  BY <1>1, ReadsBegins
<1>3. Counts'
  BY <1>1, WireAssumption DEF Counts, TypeOK
<1>4. Unasked' /\ Unclosed' /\ RowsTold'
  BY <1>1, <1>2 DEF Unasked, Unclosed, RowsTold
<1> QED
  BY <1>1, <1>2, <1>3, <1>4 DEF WireInv

LEMMA WireReady ==
  ASSUME WireInv, TypeOK', Ready
  PROVE  WireInv'
<1>1. /\ TypeOK /\ Counts /\ Unasked /\ Unclosed /\ phase = "reading" /\ ~broken /\ Reads
      /\ asked > 0 /\ down # <<>> /\ down' = Tail(down) /\ phase' = "idle"
      /\ told' = Append(told, Result)
      /\ UNCHANGED <<asked, current, kept, broken, up, socket, sent, did, gone>>
  BY DEF WireInv, Counts, Ready, Incoming, Read, Return, backendVars
<1>2. Rests' /\ (current.op = "query" /\ Result = "ok" => kept = sent)
  BY <1>1, ReadsEnds
<1>3. Len(told') = Len(told) + 1 /\ told'[Len(told')] = Result /\ Len(told) \in Nat
      /\ asked \in Nat
  BY <1>1 DEF TypeOK, Result, Words
<1>4. Unasked'
  BY <1>1, TakenUnasked
<1>5. Counts'
  BY <1>1, <1>3 DEF Counts
<1>6. Unclosed' /\ RowsTold' /\ Settled'
  BY <1>1, <1>2, <1>3 DEF Unclosed, RowsTold, Rests
<1> QED
  BY <1>1, <1>2, <1>4, <1>5, <1>6 DEF WireInv

LEMMA WireClose ==
  ASSUME WireInv, TypeOK', Close
  PROVE  WireInv'
<1>1. /\ TypeOK /\ Counts /\ Unasked /\ RowsTold /\ Rests /\ phase = "idle" /\ phase' = "idle"
      /\ broken' = TRUE /\ up' = Append(up, Terminate)
      /\ UNCHANGED <<callVars, down, backendVars>>
  BY DEF WireInv, Close, callVars
<1>2. UNCHANGED <<asked, current, kept, told, todo, serving, copying, skipping, failed, sent,
                  did, gone>>
  BY <1>1 DEF callVars, backendVars
<1>3. Settled'
  <2>1. \A j \in 1..Len(up') : (j \in 1..Len(up) /\ up'[j] = up[j]) \/ up'[j].typ = "X"
    <3>1. Terminate.typ = "X"
      BY DEF Terminate
    <3>2. \A j \in 1..Len(up') : (j \in 1..Len(up) /\ up'[j] = up[j]) \/ up'[j] = Terminate
      <4>1. PICK Kinds : up \in Seq(Kinds)
        BY <1>1, Zenon DEF TypeOK
      <4> QED
        BY ONLY <1>1, <4>1
    <3> QED
      BY <3>1, <3>2, Zenon
  <2> QED
    BY <1>1, <1>2, <2>1 DEF Rests, Settled
<1>4. Unasked' /\ Counts' /\ RowsTold' /\ Unclosed'
  BY <1>1, <1>2, <1>3 DEF Unasked, Counts, RowsTold, Unclosed
<1> QED
  BY <1>1, <1>3, <1>4 DEF WireInv

LEMMA WireUnchanged ==
  ASSUME WireInv, UNCHANGED <<callVars, broken, txStatus, up, down, socket, backendVars>>, TypeOK'
  PROVE  WireInv'
<1>1. /\ UNCHANGED <<asked, current, phase, srvErr, tooLarge, kept, told, broken, txStatus,
                     up, down, socket>>
      /\ UNCHANGED <<todo, serving, copying, skipping, failed, tx, sent, did, gone>>
  BY DEF callVars, backendVars
<1>2. (Settled' <=> Settled) /\ (Underway' <=> Underway) /\ (Unserved' <=> Unserved)
  BY <1>1, Still
<1>3. Served' <=> Served
  BY <1>1, <1>2 DEF Served
<1>4. (Unasked' <=> Unasked) /\ (Silent' <=> Silent) /\ (OwnAnswer' <=> OwnAnswer)
  BY <1>1 DEF Unasked, Silent, OwnAnswer
<1>5. (ZLast' <=> ZLast) /\ (ErrorSeen' <=> ErrorSeen)
  BY <1>1, <1>3 DEF ZLast, ErrorSeen, ErrorIn
<1>6. (Untouched' <=> Untouched) /\ (RowsSeen' <=> RowsSeen)
  BY <1>1, <1>2, <1>4 DEF Untouched, RowsSeen, Complete, Rows
<1>7. (Reads' <=> Reads) /\ (Rests' <=> Rests)
  BY <1>1, <1>2, <1>3, <1>4, <1>5, <1>6 DEF Reads, Rests
<1>8. Counts' /\ Unclosed' /\ RowsTold'
  BY <1>1, <1>2 DEF WireInv, Counts, Unclosed, RowsTold
<1> QED
  BY <1>1, <1>2, <1>4, <1>7, <1>8 DEF WireInv

-----------------------------------------------------------------------------
LEMMA WireInit == Init => WireInv
<1> SUFFICES ASSUME Init PROVE WireInv
  OBVIOUS
<1>1. TypeOK
  <2>1. /\ asked \in Nat /\ kept \in Nat /\ serving \in Nat /\ sent \in Nat /\ notices \in Nat
        /\ ~(asked > 0) /\ phase \in {"idle", "reading"} /\ socket \in {"open", "closed", "reset"}
        /\ txStatus \in TxStates /\ tx \in TxStates
    BY DEF Init, TxStates
  <2>2. \A T : <<>> \in Seq(T)
    OBVIOUS
  <2>3. /\ broken \in BOOLEAN /\ timed \in BOOLEAN /\ srvErr \in BOOLEAN /\ tooLarge \in BOOLEAN
        /\ copying \in BOOLEAN /\ skipping \in BOOLEAN /\ failed \in BOOLEAN /\ gone \in BOOLEAN
    BY DEF Init
  <2> QED
    BY <2>1, <2>2, <2>3, Zenon DEF Init, TypeOK
<1>2. Counts /\ Unasked /\ Unclosed /\ RowsTold
  BY WireAssumption DEF Init, Counts, Unasked, Unclosed, RowsTold
<1>3. Rests /\ Settled
  BY DEF Init, Rests, Settled, Silent
<1> QED
  BY <1>1, <1>2, <1>3 DEF Init, WireInv

LEMMA WireNext == WireInv /\ [Next]_wire => WireInv'
<1> SUFFICES ASSUME WireInv, [Next]_wire PROVE WireInv'
  OBVIOUS
<1>0. TypeOK /\ Counts
  BY DEF WireInv
<1>1. ASSUME NEW r \in Requests, Ask(r) PROVE WireInv'
  BY <1>0, <1>1, TypeClient, WireAsk
<1>2. ASSUME NEW r \in Requests, SendFails(r) PROVE WireInv'
  <2>1. TypeOK'
    BY <1>0, <1>2, TypeClient
  <2>2. /\ broken' = TRUE /\ phase' = "idle" /\ told' = Append(told, "lost")
        /\ UNCHANGED <<up, backendVars>> /\ down' = down
        /\ phase = "idle" /\ ~broken /\ kept' = 0 /\ asked' = asked + 1 /\ asked < MaxRequests
    BY <1>2 DEF SendFails, Begun, Usable, Return
  <2> QED
    BY <2>1, <2>2, WireLost
<1>3. ASSUME Reading PROVE WireInv'
  <2>0. phase = "reading" /\ asked > 0 /\ current \in Requests
    BY <1>0, <1>3 DEF Reading, Ignore, DataRow, ServerError, CopyIn, Ready, Unexpected,
                      ReadFails, Incoming, Counts, TypeOK
  <2>1. TypeOK'
    BY <1>0, <1>3, <2>0, TypeClient
  <2>2. CASE Ignore
    <3>1. Head(down).typ \notin {"Z", "E", "D", "G"} /\ down # <<>> /\ Read
      BY <2>2 DEF Ignore, Incoming, Ignored
    <3>2. UNCHANGED <<callVars, broken, txStatus, timed, up, socket, backendVars>>
      BY <2>2 DEF Ignore
    <3>3. srvErr' = (srvErr \/ Head(down).typ = "E") /\ kept' <= Budget
      BY <1>0, <3>1, <3>2 DEF callVars, TypeOK, Counts
    <3> QED
      BY <2>0, <2>1, <3>1, <3>2, <3>3, WireOn DEF callVars
  <2>3. CASE DataRow
    <3>1. Head(down).typ = "D" /\ down # <<>> /\ Read
      BY <2>3 DEF DataRow, Incoming
    <3>2. /\ UNCHANGED <<asked, current, phase, srvErr, told, broken, txStatus, up, socket,
                         backendVars>>
      BY <2>3 DEF DataRow
    <3>3. \/ current.op # "query" /\ kept' = kept
          \/ tooLarge' = TRUE /\ (kept' = kept \/ kept' = 0)
          \/ kept' = kept + 1 /\ tooLarge' = tooLarge /\ ~(kept + 1 > Budget)
      BY <1>0, <2>3 DEF DataRow, TypeOK
    <3>4. kept' <= Budget
      BY <1>0, <3>3, WireAssumption DEF Counts, TypeOK
    <3>5. srvErr' = (srvErr \/ Head(down).typ = "E")
      BY <1>0, <3>1, <3>2 DEF TypeOK
    <3> QED
      BY <2>0, <2>1, <3>1, <3>2, <3>3, <3>4, <3>5, WireOn
  <2>4. CASE ServerError
    <3>1. Head(down).typ = "E" /\ down # <<>> /\ Read /\ srvErr' = TRUE
      BY <2>4 DEF ServerError, Incoming
    <3>2. UNCHANGED <<asked, current, phase, tooLarge, kept, told, broken, txStatus, up,
                      socket, backendVars>>
      BY <2>4 DEF ServerError
    <3> QED
      BY <1>0, <2>0, <2>1, <3>1, <3>2, WireOn DEF Counts
  <2>5. CASE CopyIn
    <3>1. /\ Head(down).typ = "G" /\ down # <<>> /\ Read /\ current.op # "describe"
          /\ up' = Append(up, CopyFail(asked))
      BY <2>5 DEF CopyIn, Incoming
    <3>2. UNCHANGED <<callVars, broken, txStatus, timed, socket, backendVars>>
      BY <2>5 DEF CopyIn
    <3>3. srvErr' = (srvErr \/ Head(down).typ = "E") /\ kept' <= Budget
      BY <1>0, <3>1, <3>2 DEF callVars, TypeOK, Counts
    <3> QED
      BY <2>0, <2>1, <3>1, <3>2, <3>3, WireOn DEF callVars
  <2>6. CASE Ready
    BY <2>1, <2>6, WireReady
  <2>7. CASE Unexpected
    BY <2>0, <2>1, <2>7, WireLost DEF Unexpected, Read, Fail
  <2>8. CASE ReadFails
    BY <2>0, <2>1, <2>8, WireLost DEF ReadFails, Fail
  <2> QED
    BY <1>3, <2>2, <2>3, <2>4, <2>5, <2>6, <2>7, <2>8 DEF Reading
<1>4. CASE Backend
  BY <1>4, WireBackend
<1>5. CASE SetOpTimeout
  <2>1. TypeOK'
    BY <1>0, <1>5 DEF SetOpTimeout, TypeOK, callVars, backendVars
  <2> QED
    BY <1>5, <2>1, WireUnchanged DEF SetOpTimeout
<1>6. CASE Close
  <2>1. TypeOK'
    <3>1. Terminate \in Sendable
      BY DEF Terminate, Sendable
    <3>2. up' \in Seq(Sendable) /\ socket' \in {"open", "closed", "reset"} /\ broken' \in BOOLEAN
      BY <1>0, <1>6, <3>1 DEF Close, HangUp, TypeOK
    <3> QED
      BY <1>0, <1>6, <3>2 DEF Close, callVars, backendVars, TypeOK
  <2> QED
    BY <1>6, <2>1, WireClose
<1>7. CASE UNCHANGED wire
  <2>1. TypeOK'
    BY <1>0, <1>7 DEF wire, TypeOK
  <2>2. UNCHANGED <<callVars, broken, txStatus, up, down, socket, backendVars>>
    BY <1>7 DEF wire, callVars, backendVars
  <2> QED
    BY <2>1, <2>2, WireUnchanged
<1>8. CASE Terminated
  BY <1>7, <1>8 DEF Terminated
<1> QED
  BY <1>1, <1>2, <1>3, <1>4, <1>5, <1>6, <1>7, <1>8 DEF Next, Caller

\* The streams, the backend and the client agree where the connection is.
THEOREM Agreement == Spec => []WireInv
BY WireInit, WireNext, PTL DEF Spec

LEMMA Elements ==
  ASSUME NEW s, NEW m \in ToSet(s), NEW T, s \in Seq(T)
  PROVE  \E i \in 1..Len(s) : m = s[i]
BY DEF ToSet

\* Whatever timed out, was lost or was never read: a request reads only messages
\* of its own answer (simpleQuery, Describe and fail).
THEOREM OwnAnswers == Spec => []ReadsOwnAnswer
<1>1. WireInv => ReadsOwnAnswer
  <2> SUFFICES ASSUME WireInv, phase = "reading", NEW m \in ToSet(down)
               PROVE  m.of \in {0, asked}
    BY DEF ReadsOwnAnswer
  <2>1. OwnAnswer /\ down \in Seq(Replies)
    BY DEF WireInv, Reads, TypeOK
  <2>2. PICK i \in 1..Len(down) : m = down[i]
    BY <2>1, Elements
  <2> QED
    BY <2>1, <2>2 DEF OwnAnswer
<1> QED
  BY <1>1, Agreement, PTL

\* Between two requests of a usable connection client and server agree that
\* there is nothing to do, and on the transaction status (fail, Close, and the
\* reading up to ReadyForQuery of simpleQuery and Describe).
THEOREM StaysInStep == Spec => []InStep
<1>1. WireInv => InStep
  <2> SUFFICES ASSUME WireInv, phase = "idle", ~broken
               PROVE  /\ \A m \in ToSet(down) : m.of = 0
                      /\ \A m \in ToSet(up) : m.typ = "f"
                      /\ todo = <<>> /\ ~copying /\ ~skipping
                      /\ txStatus = tx
    BY DEF InStep
  <2>1. Rests /\ Unclosed /\ down \in Seq(Replies) /\ up \in Seq(Sendable)
    BY DEF WireInv, TypeOK
  <2>2. ASSUME NEW m \in ToSet(down) PROVE m.of = 0
    <3>1. PICK i \in 1..Len(down) : m = down[i]
      BY <2>1, Elements
    <3> QED
      BY <2>1, <3>1 DEF Rests, Silent
  <2>3. ASSUME NEW m \in ToSet(up) PROVE m.typ = "f"
    <3>1. PICK i \in 1..Len(up) : m = up[i]
      BY <2>1, Elements
    <3> QED
      BY <2>1, <3>1 DEF Rests, Settled, Unclosed
  <2> QED
    BY <2>1, <2>2, <2>3 DEF Rests, Settled
<1> QED
  BY <1>1, Agreement, PTL

\* A Query that succeeds returns every row the server sent for it, and no request
\* holds more than the budget (Query, maxResult), however long the answers are.
THEOREM AllRows == Spec => []EveryRow
<1>1. WireInv => EveryRow
  <2> SUFFICES ASSUME WireInv PROVE EveryRow
    OBVIOUS
  <2>1. kept <= Budget /\ RowsTold
    BY DEF WireInv, Counts
  <2> QED
    BY <2>1 DEF EveryRow, RowsTold, Last
<1> QED
  BY <1>1, Agreement, PTL

-----------------------------------------------------------------------------
\* Every step is one of the session or does not concern it.
LEMMA SessionStep == WireInv /\ [Next]_wire => [S!Next]_(S!session)
<1> SUFFICES ASSUME WireInv, [Next]_wire PROVE S!Next \/ UNCHANGED S!session
  OBVIOUS
<1>0. TypeOK /\ Counts /\ Unasked
  BY DEF WireInv
<1>1. ASSUME UNCHANGED <<broken, asked, did, told, txStatus>> PROVE UNCHANGED S!session
  BY <1>1 DEF S!session
<1>2. phase = "reading" => ~broken /\ asked > 0 /\ Len(told) = asked - 1 /\ Reads
  BY DEF WireInv, Counts
<1>3. phase = "idle" => S!Idle
  BY <1>0 DEF Counts, S!Idle
<1>4. ASSUME NEW r \in Requests, Ask(r) PROVE S!Next
  <2>1. S!Ask
    BY <1>3, <1>4 DEF Ask, Begun, Usable, backendVars, S!Ask
  <2> QED
    BY <2>1 DEF S!Next
<1>5. ASSUME NEW r \in Requests, SendFails(r) PROVE S!Next
  <2>1. asked' = Len(told) + 1 /\ asked' <= MaxRequests
    BY <1>0, <1>5, WireAssumption DEF SendFails, Begun, Counts, TypeOK
  <2>2. S!Lose
    BY <1>5, <2>1 DEF SendFails, Begun, Usable, Return, backendVars, S!Lose
  <2> QED
    BY <2>2 DEF S!Next
<1>6. ASSUME phase = "reading", Fail, UNCHANGED backendVars PROVE S!Next
  <2>1. asked' = Len(told) + 1 /\ asked' <= MaxRequests
    BY <1>0, <1>2, <1>6 DEF Fail, Counts, TypeOK
  <2>2. S!Lose
    BY <1>2, <1>6, <2>1 DEF Fail, backendVars, S!Lose
  <2> QED
    BY <2>2 DEF S!Next
<1>7. CASE Ready
  <2>1. /\ phase = "reading" /\ told' = Append(told, Result) /\ txStatus' = Head(down).tx
        /\ UNCHANGED <<broken, asked, did>>
    BY <1>7 DEF Ready, Incoming, Return, backendVars
  <2>2. /\ Len(did) = asked /\ Head(down).tx = did[asked].tx
        /\ did[asked].how = "failed" <=> srvErr
    BY <1>0, <1>2, <1>7, <2>1, ReadsEnds
  <2>3. did[asked].how \in {"done", "failed"}
    <3>1. asked \in 1..Len(did) /\ did \in Seq(Endings)
      BY <1>0, <1>2, <2>1, <2>2 DEF TypeOK
    <3>2. did[asked] \in Endings
      BY <3>1
    <3> QED
      BY <3>2 DEF Endings
  <2>4. Result \in S!Says(did[asked].how)
    BY <2>2, <2>3 DEF Result, S!Says
  <2>5. ~S!Idle
    BY <1>0, <1>2, <2>1 DEF S!Idle, TypeOK
  <2>6. S!Tell
    BY <2>1, <2>2, <2>4, <2>5 DEF S!Tell
  <2> QED
    BY <2>6 DEF S!Next
<1>8. CASE Close
  <2>1. S!Close
    BY <1>3, <1>8 DEF Close, callVars, backendVars, S!Close
  <2> QED
    BY <2>1 DEF S!Next
<1>9. CASE Backend
  <2>1. UNCHANGED <<broken, asked, told, txStatus>> /\ Executed
    BY <1>9, WireBackend DEF Moves, client, callVars
  <2>2. CASE did' = did
    BY <1>1, <2>1, <2>2
  <2>3. ASSUME Len(did) < asked, NEW e \in Endings, did' = Append(did, e) PROVE S!Next
    <3>1. PICK how \in {"done", "failed"}, x \in S!TxStates : e = [how |-> how, tx |-> x]
      BY DEF Endings, TxStates, S!TxStates
    <3>2. S!Execute
      BY <2>1, <2>3, <3>1 DEF S!Execute
    <3> QED
      BY <3>2 DEF S!Next
  <2> QED
    BY <2>1, <2>2, <2>3 DEF Executed
<1>10. ASSUME Ignore \/ DataRow \/ ServerError \/ CopyIn \/ SetOpTimeout \/ UNCHANGED wire
       PROVE  UNCHANGED <<broken, asked, did, told, txStatus>>
  BY <1>10 DEF Ignore, DataRow, ServerError, CopyIn, SetOpTimeout, wire, callVars, backendVars
<1> QED
  BY <1>1, <1>4, <1>5, <1>6, <1>7, <1>8, <1>9, <1>10
     DEF Next, Caller, Reading, Unexpected, ReadFails, Terminated

\* A connection with its backend is a session: every request is executed at most
\* once and in order, and its caller is told what the server did with it, or
\* nothing any more.
THEOREM Implementation == Spec => ImplementsSession
<1>1. Init => S!Init
  BY DEF Init, S!Init
<1> QED
  BY <1>1, SessionStep, Agreement, PTL DEF Spec, ImplementsSession, S!Spec

\* So what holds of every session holds of every connection.
Sessions == INSTANCE SessionProofs WITH open <- ~broken, status <- txStatus

\* What the caller is told of a request is what the server did with it, and
\* TxStatus is what it left (the comment of simpleQuery).
COROLLARY TellsTheTruth == Spec => []S!TellsTheTruth
<1>1. S!Init => Sessions!Init
  BY DEF S!Init, Sessions!Init
<1>2. [S!Next]_(S!session) => [Sessions!Next]_(Sessions!session)
  BY DEF S!Next, S!session, S!Ask, S!Execute, S!Tell, S!Lose, S!Close, S!Idle, S!Says, S!TxStates,
         Sessions!Next, Sessions!session, Sessions!Ask, Sessions!Execute, Sessions!Tell,
         Sessions!Lose, Sessions!Close, Sessions!Idle, Sessions!Says, Sessions!TxStates
<1>3. Sessions!TellsTheTruth => S!TellsTheTruth
  BY DEF S!TellsTheTruth, S!Idle, Sessions!TellsTheTruth, Sessions!Idle
<1>4. S!Spec => Sessions!Spec
  BY <1>1, <1>2, PTL DEF S!Spec, Sessions!Spec
<1> QED
  BY <1>3, <1>4, Implementation, Sessions!Truth, PTL DEF ImplementsSession

=============================================================================
