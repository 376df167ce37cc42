--------------------------- MODULE InterruptProofs ---------------------------
(***************************************************************************)
(* What Dial returns, and what a signal or the timeout can do to a command *)
(* of pgc migrate and to its connection: proved for every set of           *)
(* configurations and of requests, and for every behaviour of the server,  *)
(* the clock and the context.                                              *)
(***************************************************************************)
EXTENDS Interrupt, WireProofs

\* What is known of the locals while Dial runs.
Identified ==
  dial \in {"auth", "stopping", "clearing"} =>
    /\ cfg.ssl \notin {"disable", "prefer"} => loc.peer # "plain"
    /\ cfg.ssl = "verify-full" => loc.peer = "host"
    /\ cfg.root /\ loc.peer # "plain" => loc.peer # "unknown"

Conversed ==
  /\ "scram" \in loc.used => loc.scram # 0
  /\ loc.scram = 3 => loc.proved
  /\ loc.auth => loc.scram \in {0, 3}
  /\ "clear" \in loc.used => loc.peer # "plain" \/ cfg.loopback
  /\ dial \in {"tcp", "tls"} => loc = NoLocals
  /\ dial \in {"stopping", "clearing"} => loc.auth

\* Nobody is left who could set a deadline once the callback is stopped.
Quieted ==
  /\ dial \in {"clearing", "done"} => alarm = "stopped"
  /\ DeadlineLifted

LocType ==
  [peer : {"plain", "host", "chain", "unknown"}, scram : 0..3, auth : BOOLEAN,
   used : SUBSET {"clear", "md5", "scram"}, proved : BOOLEAN]

DialInv ==
  /\ cfg \in Configs /\ loc \in LocType
  /\ Identified /\ Conversed /\ Quieted

\* The invariant holds when Dial is called.
LEMMA DialInvInit == DialInit => DialInv
  BY StartupAssumption
  DEF DialInit, DialInv, LocType, NoLocals, Identified, Conversed, Quieted, DeadlineLifted

\* Giving up keeps the invariant.
LEMMA GivenUp == ASSUME DialInv, Leaves("failed"), UNCHANGED deadline PROVE DialInv'
<1>1. NoLocals \in LocType /\ ~NoLocals.auth /\ NoLocals.used = {} /\ NoLocals.scram = 0
  BY DEF NoLocals, LocType
<1>2. loc' = NoLocals /\ dial' = "failed" /\ cfg' = cfg
  BY DEF Leaves
<1>. QED
  BY <1>1, <1>2 DEF DialInv, Identified, Conversed, Quieted, DeadlineLifted

\* Every step of Dial, of the context and of the clock keeps the invariant.
LEMMA DialInvStep == DialInv /\ [DialNext]_startup => DialInv'
<1>. SUFFICES ASSUME DialInv, [DialNext]_startup PROVE DialInv'
  OBVIOUS
<1>. USE StartupAssumption DEF DialInv, LocType, NoLocals
<1>1. CASE Connects
  BY <1>1 DEF Connects, Identified, Conversed, Quieted, DeadlineLifted
<1>2. CASE Plain
  BY <1>2 DEF Plain, timing, Identified, Conversed, Quieted, DeadlineLifted
<1>3. CASE Encrypts
  BY <1>3 DEF Encrypts, Trusted, Mode, timing, Identified, Conversed, Quieted, DeadlineLifted
<1>4. CASE Conversation
  <2>1. CASE Password
    BY <2>1 DEF Password, Asks, Hears, timing, Identified, Conversed, Quieted, DeadlineLifted
  <2>2. CASE Sasl
    <3>1. /\ loc' = [loc EXCEPT !.scram = 1, !.used = @ \cup {"scram"}]
          /\ UNCHANGED <<cfg, dial, key, timing>> /\ dial = "auth" /\ ~loc.auth
      BY <2>2 DEF Sasl, Asks, Hears
    <3>2. loc' = [peer |-> loc.peer, scram |-> 1, auth |-> loc.auth,
                  used |-> loc.used \cup {"scram"}, proved |-> loc.proved]
      BY <3>1
    <3>. QED
      BY <3>1, <3>2 DEF timing, Identified, Conversed, Quieted, DeadlineLifted
  <2>3. CASE SaslContinue
    BY <2>3 DEF SaslContinue, Asks, Hears, timing, Identified, Conversed, Quieted,
                DeadlineLifted
  <2>4. CASE SaslFinal
    <3>1. /\ loc' = [loc EXCEPT !.scram = 3, !.proved = TRUE]
          /\ UNCHANGED <<cfg, dial, key, timing>> /\ dial = "auth" /\ ~loc.auth
      BY <2>4 DEF SaslFinal, Asks, Hears
    <3>2. loc' = [peer |-> loc.peer, scram |-> 3, auth |-> loc.auth,
                  used |-> loc.used, proved |-> TRUE]
      BY <3>1
    <3>3. loc' \in LocType
      BY <3>2
    <3>. QED
      BY <3>1, <3>2, <3>3 DEF timing, Identified, Conversed, Quieted, DeadlineLifted
  <2>5. CASE AuthenticationOk
    BY <2>5 DEF AuthenticationOk, Asks, Hears, timing, Identified, Conversed, Quieted,
                DeadlineLifted
  <2>6. CASE BackendKeyData
    BY <2>6 DEF BackendKeyData, timing, Identified, Conversed, Quieted, DeadlineLifted
  <2>7. CASE ReadyForQuery
    BY <2>7 DEF ReadyForQuery, timing, Identified, Conversed, Quieted, DeadlineLifted
  <2>. QED
    BY <1>4, <2>1, <2>2, <2>3, <2>4, <2>5, <2>6, <2>7 DEF Conversation
<1>5. CASE Fails \/ TimesOut
  BY <1>5, GivenUp DEF Fails, TimesOut
<1>6. CASE Stops
  <2>1. CASE alarm = "armed"
    BY <1>6, <2>1 DEF Stops, Identified, Conversed, Quieted, DeadlineLifted
  <2>2. CASE alarm # "armed"
    BY <1>6, <2>2, GivenUp DEF Stops
  <2>. QED
    BY <2>1, <2>2
<1>7. CASE Returns
  BY <1>7 DEF Returns, Leaves, Identified, Conversed, Quieted, DeadlineLifted
<1>8. CASE Expires
  BY <1>8 DEF Expires, Identified, Conversed, Quieted, DeadlineLifted
<1>9. CASE Rings
  BY <1>9 DEF Rings, Identified, Conversed, Quieted, DeadlineLifted
<1>10. CASE Passes
  BY <1>10 DEF Passes, Identified, Conversed, Quieted, DeadlineLifted
<1>11. CASE UNCHANGED startup
  BY <1>11 DEF startup, Identified, Conversed, Quieted, DeadlineLifted
<1>. QED
  BY <1>1, <1>2, <1>3, <1>4, <1>5, <1>6, <1>7, <1>8, <1>9, <1>10, <1>11 DEF DialNext

\* It holds at every moment of every Dial.
LEMMA DialInvAlways == DialSpec => []DialInv
  BY DialInvInit, DialInvStep, PTL DEF DialSpec

\* A connection Dial returned is never hit by the deadline of the startup,
\* whenever the context ends (Dial: if !stop()).
THEOREM Lifted == DialSpec => []DeadlineLifted
<1>1. DialInv => DeadlineLifted
  BY DEF DialInv, Quieted
<1>. QED
  BY <1>1, DialInvAlways, PTL

\* Dial returns only connections that are what the configuration asked for,
\* whatever the server sends in whatever order (startup: it cannot skip a step).
THEOREM Authenticated == DialSpec => AsAsked
<1> DEFINE Returned == dial # "done" /\ dial' = "done" =>
       /\ loc.auth
       /\ "scram" \in loc.used => loc.proved
       /\ "clear" \in loc.used => loc.peer # "plain" \/ cfg.loopback
       /\ cfg.ssl \notin {"disable", "prefer"} => loc.peer # "plain"
       /\ cfg.ssl = "verify-full" => loc.peer = "host"
       /\ cfg.root /\ loc.peer # "plain" => loc.peer # "unknown"
<1>1. DialInv /\ [DialNext]_startup => [Returned]_startup
  <2>. SUFFICES ASSUME DialInv, DialNext PROVE Returned
    BY DEF startup
  <2>1. CASE Returns
    <3>1. dial = "clearing"
      BY <2>1 DEF Returns
    <3>. QED
      BY <3>1 DEF DialInv, Identified, Conversed, LocType
  <2>2. CASE ~Returns
    BY <2>2 DEF DialNext, Connects, Plain, Encrypts, Conversation, Password, Sasl,
         SaslContinue, SaslFinal, AuthenticationOk, BackendKeyData, ReadyForQuery, Hears,
         Fails, TimesOut, Stops, Leaves, Expires, Rings, Passes
  <2>. QED
    BY <2>1, <2>2
<1>. QED
  BY <1>1, DialInvAlways, PTL DEF DialSpec, AsAsked

-----------------------------------------------------------------------------
\* A command dials as Startup has it and uses its connection as Wire has it.

\* Its goroutines touch nothing of Dial.
LEMMA StepDials == [InterruptNext]_command => [DialNext]_startup
BY DEF InterruptNext, command, Dials, Works, Finish, Stop, CloseConn, Exit, Interrupted, Woken,
       Checks, CallsCancel, CancelArrives, Exited

LEMMA CommandDials == InterruptSpec => DialSpec
<1>1. InterruptInit => DialInit
  BY DEF InterruptInit
<1> QED
  BY <1>1, StepDials, PTL DEF InterruptSpec, DialSpec

\* What Dial promises, it promises a command whose connection is used, interrupted
\* and closed while the clock and the context of Dial still run.
COROLLARY DialedAsAsked == InterruptSpec => []DeadlineLifted /\ AsAsked
BY CommandDials, Lifted, Authenticated, PTL

\* A cancel request is one more reason for the server to fail a statement.
LEMMA StepOnWire == "error" \in Faults /\ [InterruptNext]_command => [Next]_wire
<1> SUFFICES ASSUME "error" \in Faults, [InterruptNext]_command PROVE Next \/ UNCHANGED wire
  OBVIOUS
<1>1. CASE Works
  BY <1>1 DEF Works, Next, Caller
<1>2. CASE CloseConn
  BY <1>2 DEF CloseConn, Next, Caller
<1>3. CASE CancelArrives
  BY <1>3 DEF CancelArrives, Next, Backend, Reject
<1>4. CASE dial = "done" /\ Backend /\ UNCHANGED <<startup, goroutines>>
  BY <1>4 DEF Next
<1> QED
  BY <1>1, <1>2, <1>3, <1>4 DEF InterruptNext, command, Dials, Finish, Stop, Exit, Interrupted,
     Woken, Checks, CallsCancel, Exited

\* Whenever a cancel arrives, what holds of every connection holds of this one: it
\* reads its own answers only, stays in step with its backend and is told the truth
\* (Conn.Cancel may hit any statement, the one after the one it was meant for included).
THEOREM OnTheWire ==
  ASSUME "error" \in Faults
  PROVE  InterruptSpec => Spec
<1>1. InterruptInit => Init
  BY DEF InterruptInit
<1>2. [InterruptNext]_command => [Next]_wire
  BY StepOnWire
<1> QED
  BY <1>1, <1>2, PTL DEF InterruptSpec, Spec

-----------------------------------------------------------------------------
\* The goroutines.  ctx is over when it was interrupted or when the command is past
\* its deferred stop; who is about to cancel has seen that it is still running.
Signalled ==
  /\ ctx \in {"live", "interrupted", "stopped"}
  /\ ctx = "stopped" => main \in {"stopped", "closed", "exited"}
  /\ watcher \in {"checking", "calling"} => ctx # "live"
  /\ watcher = "calling" \/ cancel # "none" => ctx = "interrupted"

\* Every step of the command, its goroutines and the server keeps that.
LEMMA SignalledStep == Signalled /\ [InterruptNext]_command => Signalled'
<1> SUFFICES ASSUME Signalled, [InterruptNext]_command PROVE Signalled'
  OBVIOUS
<1> USE DEF Signalled
<1>1. CASE Dials(DialNext)
  BY <1>1 DEF Dials
<1>2. CASE Stop
  BY <1>2 DEF Stop
<1>3. CASE Checks
  BY <1>3 DEF Checks
<1>4. CASE CallsCancel
  BY <1>4 DEF CallsCancel
<1>5. CASE Woken
  BY <1>5 DEF Woken
<1>6. CASE Finish \/ CloseConn \/ Exit \/ Interrupted \/ CancelArrives
  BY <1>6 DEF Finish, CloseConn, Exit, Interrupted, CancelArrives
<1>7. CASE Works \/ (dial = "done" /\ Backend /\ UNCHANGED <<startup, goroutines>>)
  BY <1>7 DEF Works, goroutines
<1>8. CASE Exited \/ UNCHANGED command
  BY <1>8 DEF Exited, command, goroutines
<1> QED
  BY <1>1, <1>2, <1>3, <1>4, <1>5, <1>6, <1>7, <1>8 DEF InterruptNext

\* The end of the command ends the context as well, and is never taken for a signal:
\* nothing is cancelled but by an interrupt (cancelOnDone looks at finished twice).
THEOREM NoStrayCancel == InterruptSpec => []OnlyInterruptsCancel
<1>1. InterruptInit => Signalled
  BY DEF InterruptInit, Signalled
<1>2. Signalled => OnlyInterruptsCancel
  BY DEF Signalled, OnlyInterruptsCancel
<1> QED
  BY <1>1, <1>2, SignalledStep, PTL DEF InterruptSpec

-----------------------------------------------------------------------------
\* The connection.  What a server says for a request and pgwire knows there; the
\* notices come any time.
Kinds(op) == IF op = "describe" THEN {"1", "t", "T", "n", "Z"}
             ELSE {"T", "D", "C", "begin", "end", "G", "H", "d", "c", "Z"}

Heeded(op) == (Kinds(op) \ {"begin", "end"}) \cup {"N", "E"}

Within(steps, op) == \A k \in 1..Len(steps) : steps[k] \in Kinds(op)

\* Nothing else is on its way, about to be said or asked for.
Understood ==
  /\ Within(todo, current.op)
  /\ \A j \in 1..Len(up) : up[j].typ \notin {"f", "X"} => Within(up[j].steps, current.op)
  /\ \A i \in 1..Len(down) : down[i].typ \in Heeded(current.op)

\* So a connection is given up by its command only.
Sane ==
  /\ WireInv /\ Understood
  /\ socket # "reset" /\ (broken => main \in {"closed", "exited"})

\* A request asks for what its own answer may consist of.
LEMMA FrameKinds ==
  ASSUME NEW r \in Requests, NEW n \in Nat, NEW j \in 1..Len(Frames(r, n))
  PROVE  Within(Frames(r, n)[j].steps, r.op)
<1>1. CASE r.op = "describe"
  <2> DEFINE p == [typ |-> "P", of |-> n, steps |-> <<"1">>]
             d == [typ |-> "D", of |-> n,
                   steps |-> <<"t", IF Head(r.script) = "select" THEN "T" ELSE "n">>]
             s == [typ |-> "S", of |-> n, steps |-> <<"Z">>]
  <2>1. Within(p.steps, r.op) /\ Within(d.steps, r.op) /\ Within(s.steps, r.op)
    BY <1>1 DEF Within, Kinds
  <2>2. Frames(r, n) = <<p, d, s>>
    BY <1>1 DEF Frames
  <2> HIDE DEF p, d, s
  <2>3. Frames(r, n)[j] \in {p, d, s}
    BY <2>2
  <2> QED
    BY <2>1, <2>3
<1>2. CASE r.op # "describe"
  <2> DEFINE Said == {"T", "D", "C", "begin", "end", "G", "H", "d", "c"}
             parts == [i \in DOMAIN r.script |-> Answer(r.script[i])]
             steps == FlattenSeq(parts) \o <<"Z">>
  <2>1. \A s \in Statements : Answer(s) \in Seq(Said)
    <3>1. \A x, y, z, v \in Said : /\ <<x>> \in Seq(Said) /\ <<x, y>> \in Seq(Said)
                                   /\ <<x, y, z>> \in Seq(Said) /\ <<x, y, z, v>> \in Seq(Said)
      OBVIOUS
    <3>2. {"T", "D", "C", "begin", "end", "G", "H", "d", "c"} \subseteq Said
      OBVIOUS
    <3> HIDE DEF Said
    <3> QED
      BY <3>1, <3>2 DEF Statements, Answer
  <2> HIDE DEF Said
  <2>2. parts \in Seq(Seq(Said))
    <3>1. r.script \in Seq(Statements)
      BY WireAssumption
    <3>2. DOMAIN r.script = 1..Len(r.script) /\ Len(r.script) \in Nat
      BY <3>1
    <3>3. parts \in [1..Len(r.script) -> Seq(Said)]
      BY <2>1, <3>1, <3>2
    <3> QED
      BY <3>2, <3>3
  <2>3. FlattenSeq(parts) \in Seq(Said)
    BY <2>2, Flattened
  <2>4. Within(steps, r.op)
    <3> HIDE DEF parts
    <3> QED
      BY <1>2, <2>3 DEF Within, Kinds, Said
  <2>5. Frames(r, n) = <<[typ |-> "Q", of |-> n, steps |-> steps]>>
    BY <1>2 DEF Frames
  <2> HIDE DEF steps
  <2>6. Frames(r, n)[j] = [typ |-> "Q", of |-> n, steps |-> steps]
    BY <2>5
  <2> QED
    BY <2>4, <2>6
<1> QED
  BY <1>1, <1>2

\* A new request finds nothing of the one before it but notices and CopyFails.
LEMMA UnderstoodAsk ==
  ASSUME WireInv, Understood, NEW r \in Requests, Ask(r)
  PROVE  Understood'
<1>1. TypeOK /\ Rests /\ Unasked /\ Unclosed /\ ~broken
  BY DEF WireInv, Ask, Begun, Usable
<1>2. /\ current' = r /\ up' = up \o Frames(r, asked + 1) /\ UNCHANGED <<down, todo>>
  BY DEF Ask, Begun, backendVars
<1>3. Within(todo', current'.op)
  BY <1>1, <1>2 DEF Within, Rests, Settled
<1>4. ASSUME NEW j \in 1..Len(up'), up'[j].typ \notin {"f", "X"}
      PROVE  Within(up'[j].steps, current'.op)
  <2> DEFINE F == Frames(r, asked + 1)
  <2>1. asked + 1 \in Nat /\ F \in Seq(Sendable)
    BY <1>1, FrameFacts DEF TypeOK, Framed
  <2>2. \A k \in 1..Len(F) : Within(F[k].steps, r.op)
    BY <2>1, FrameKinds
  <2> HIDE DEF F
  <2>3. up \in Seq(Sendable) /\ \A k \in 1..Len(up) : up[k].typ \in {"f", "X"}
    BY <1>1 DEF TypeOK, Rests, Settled
  <2>4. up' = up \o F
    BY <1>2 DEF F
  <2>5. (j \in 1..Len(up) /\ up'[j] = up[j]) \/ \E k \in 1..Len(F) : up'[j] = F[k]
    <3>1. /\ Len(up') = Len(up) + Len(F) /\ Len(up) \in Nat /\ Len(F) \in Nat
          /\ \A i \in 1..Len(up) + Len(F) :
               up'[i] = IF i <= Len(up) THEN up[i] ELSE F[i - Len(up)]
      BY <2>1, <2>3, <2>4
    <3>2. CASE j <= Len(up)
      BY <3>1, <3>2
    <3>3. CASE ~(j <= Len(up))
      <4>1. j - Len(up) \in 1..Len(F) /\ up'[j] = F[j - Len(up)]
        BY <3>1, <3>3
      <4> QED
        BY <4>1
    <3> QED
      BY <3>2, <3>3
  <2> QED
    BY <1>2, <1>4, <2>2, <2>3, <2>5
<1>5. ASSUME NEW i \in 1..Len(down') PROVE down'[i].typ \in Heeded(current'.op)
  <2>1. i \in 1..Len(down) /\ down'[i] = down[i]
    BY <1>2
  <2>2. down[i].typ \in {"N", "?", "E"} /\ down[i].typ # "?"
    BY <1>1, <2>1 DEF Rests, Silent, Unasked, Understood, Heeded, Kinds
  <2> QED
    BY <2>1, <2>2 DEF Heeded
<1> QED
  BY <1>3, <1>4, <1>5 DEF Understood

\* A server that does what the scripts say, or fails there, is understood.
LEMMA UnderstoodBackend ==
  ASSUME TypeOK, Faults = {"error"}, Understood, Backend
  PROVE  Understood' /\ socket' = socket
<1>1. UNCHANGED <<client, current>> /\ "reset" \notin Faults /\ "garbage" \notin Faults
  BY DEF Backend, Executes, Take, Proceed, CopyEnds, Reject, Abort, Quit, Shutdown, Lose, Notice,
         client, callVars
<1>2. socket' = socket
  BY <1>1 DEF Backend, Executes, Take, Proceed, CopyEnds, Reject, Abort, Quit, Shutdown, Lose,
              Notice
<1> DEFINE Sensible(s) == \A i \in 1..Len(s) : s[i].typ \in Heeded(current.op)
           Answerable(s) == \A j \in 1..Len(s) :
                              s[j].typ \notin {"f", "X"} => Within(s[j].steps, current.op)
<1>3. ASSUME NEW t \in Heeded(current.op), NEW n, Write(t, n) PROVE Sensible(down')
  <2>1. \A m, i : i \in 1..Len(Append(down, m)) =>
                    (i \in 1..Len(down) /\ Append(down, m)[i] = down[i])
                      \/ Append(down, m)[i] = m
    BY DEF TypeOK
  <2>2. Message(t, n, tx').typ = t
    BY DEF Message
  <2> QED
    BY <1>3, <2>1, <2>2 DEF Write, Understood
<1>4. ASSUME up # <<>> PROVE Answerable(Tail(up))
  <2>1. \A j \in 1..Len(Tail(up)) : j + 1 \in 1..Len(up) /\ Tail(up)[j] = up[j + 1]
    BY <1>4 DEF TypeOK
  <2> QED
    BY <2>1 DEF Understood
<1>5. "E" \in Heeded(current.op) /\ "N" \in Heeded(current.op) /\ "Z" \in Kinds(current.op)
  BY DEF Heeded, Kinds
<1>6. CASE Take
  <2>1. up # <<>> /\ Head(up) = up[1] /\ 1 \in 1..Len(up) /\ Head(up).typ # "X"
    BY <1>6 DEF Take, TypeOK
  <2>2. todo' = <<>> \/ (Head(up).typ # "f" /\ todo' = Head(up).steps)
    BY <1>6 DEF Take
  <2>3. Within(todo', current.op)
    BY <2>1, <2>2 DEF Within, Understood
  <2>4. up' = Tail(up) /\ down' = down
    BY <1>6 DEF Take
  <2> QED
    BY <1>1, <1>2, <1>4, <2>1, <2>3, <2>4 DEF Understood
<1>7. CASE Proceed
  <2>1. /\ todo # <<>> /\ todo' = Tail(todo) /\ up' = up
        /\ Write(IF Head(todo) \in {"begin", "end"} THEN "C" ELSE Head(todo), serving)
    BY <1>7 DEF Proceed
  <2>2. Head(todo) \in Kinds(current.op) /\ Within(Tail(todo), current.op)
    <3>1. /\ Head(todo) = todo[1] /\ 1 \in 1..Len(todo)
          /\ \A k \in 1..Len(Tail(todo)) : k + 1 \in 1..Len(todo) /\ Tail(todo)[k] = todo[k + 1]
      BY <2>1 DEF TypeOK
    <3> QED
      BY <3>1 DEF Understood, Within
  <2>3. (IF Head(todo) \in {"begin", "end"} THEN "C" ELSE Head(todo)) \in Heeded(current.op)
    BY <2>2 DEF Heeded, Kinds
  <2>4. Sensible(down')
    BY <1>3, <2>1, <2>3
  <2> QED
    BY <1>1, <1>2, <2>1, <2>2, <2>4 DEF Understood
<1>8. CASE CopyEnds \/ Reject
  <2>1. Abort /\ (up' = up \/ (up # <<>> /\ up' = Tail(up)))
    BY <1>8 DEF CopyEnds, Reject
  <2>2. Sensible(down')
    BY <1>3, <1>5, <2>1 DEF Abort
  <2>3. Within(todo', current.op)
    BY <1>5, <2>1 DEF Abort, Within
  <2>4. Answerable(up')
    BY <1>4, <2>1 DEF Understood
  <2> QED
    BY <1>1, <1>2, <2>2, <2>3, <2>4 DEF Understood
<1>9. CASE Notice("N")
  <2>1. Write("N", 0) /\ UNCHANGED <<up, todo>>
    BY <1>9 DEF Notice
  <2>2. Sensible(down')
    BY <1>3, <1>5, <2>1
  <2> QED
    BY <1>1, <1>2, <2>1, <2>2 DEF Understood
<1>10. CASE Quit
  BY <1>1, <1>2, <1>10 DEF Quit, Understood
<1>11. ~Notice("?") /\ ~Shutdown /\ ~Lose
  BY <1>1 DEF Notice, Shutdown, Lose
<1> QED
  BY <1>6, <1>7, <1>8, <1>9, <1>10, <1>11 DEF Backend, Executes

\* So a request that is under way is read to its end.
LEMMA UnderstoodReading ==
  ASSUME TypeOK, Faults = {"error"}, Understood, socket # "reset", Reading
  PROVE  Understood' /\ UNCHANGED <<broken, socket>>
<1>1. "timeout" \notin Faults /\ ~ReadFails
  BY DEF ReadFails
<1>2. ~Unexpected
  <2> SUFFICES ASSUME Unexpected PROVE FALSE
    OBVIOUS
  <2>1. down # <<>> /\ Head(down) = down[1] /\ 1 \in 1..Len(down)
    BY DEF Unexpected, TypeOK
  <2>2. Head(down).typ \in Heeded(current.op)
    BY <2>1 DEF Understood
  <2> QED
    BY <2>2 DEF Unexpected, Ignored, Heeded, Kinds
<1>3. /\ down # <<>> /\ down' = Tail(down) /\ UNCHANGED <<current, todo, broken, socket>>
      /\ up' = up \/ up' = Append(up, CopyFail(asked))
  BY <1>1, <1>2 DEF Reading, Ignore, DataRow, ServerError, CopyIn, Ready, Incoming, Read, callVars,
                    backendVars
<1>4. \A i \in 1..Len(down') : i + 1 \in 1..Len(down) /\ down'[i] = down[i + 1]
  BY <1>3 DEF TypeOK
<1>5. \A j \in 1..Len(up') : (j \in 1..Len(up) /\ up'[j] = up[j]) \/ up'[j] = CopyFail(asked)
  <2>1. up \in Seq(Sendable) /\ (up' = up \/ up' = Append(up, CopyFail(asked)))
    BY <1>3 DEF TypeOK
  <2> QED
    BY <2>1
<1>6. CopyFail(asked).typ = "f"
  BY DEF CopyFail
<1> QED
  BY <1>3, <1>4, <1>5, <1>6 DEF Understood

LEMMA SaneStep == Faults = {"error"} /\ Sane /\ [InterruptNext]_command => Sane'
<1> SUFFICES ASSUME Faults = {"error"}, Sane, [InterruptNext]_command PROVE Sane'
  OBVIOUS
<1>1. WireInv' /\ TypeOK
  BY StepOnWire, WireNext DEF Sane, WireInv
<1>2. ASSUME UNCHANGED <<current, todo, up, down>> PROVE Understood'
  BY <1>2 DEF Sane, Understood
<1>3. CASE Works
  <2>1. main' = main /\ main = "running" /\ ~broken
    BY <1>3 DEF Works, goroutines, Sane
  <2>2. ASSUME NEW r \in Requests, Ask(r) PROVE Understood' /\ UNCHANGED <<broken, socket>>
    BY <2>2, UnderstoodAsk DEF Sane, Ask
  <2>3. \A r \in Requests : ~SendFails(r)
    BY DEF SendFails, Sane
  <2>4. ASSUME SetOpTimeout PROVE Understood' /\ UNCHANGED <<broken, socket>>
    BY <1>2, <2>4 DEF SetOpTimeout, callVars, backendVars
  <2>5. ASSUME Reading PROVE Understood' /\ UNCHANGED <<broken, socket>>
    BY <1>1, <2>5, UnderstoodReading DEF Sane
  <2>6. Understood' /\ UNCHANGED <<broken, socket>>
    BY <1>3, <2>2, <2>3, <2>4, <2>5 DEF Works
  <2> QED
    BY <1>1, <2>1, <2>6 DEF Sane
<1>4. CASE CloseConn
  <2>1. main' = "closed" /\ socket' # "reset"
    BY <1>4 DEF CloseConn, Close, HangUp, wire, Sane
  <2>2. CASE broken
    BY <1>1, <1>2, <1>4, <2>1, <2>2 DEF CloseConn, wire, Sane
  <2>3. CASE ~broken
    <3>1. UNCHANGED <<current, todo, down>> /\ up' = Append(up, Terminate)
      BY <1>4, <2>3 DEF CloseConn, Close, callVars, backendVars
    <3>2. \A j \in 1..Len(up') : (j \in 1..Len(up) /\ up'[j] = up[j]) \/ up'[j] = Terminate
      BY <1>1, <3>1 DEF TypeOK
    <3>3. Terminate.typ = "X"
      BY DEF Terminate
    <3> QED
      BY <1>1, <2>1, <3>1, <3>2, <3>3 DEF Sane, Understood
  <2> QED
    BY <2>2, <2>3
<1>5. ASSUME Backend, main' = main PROVE Sane'
  <2>1. broken' = broken
    BY <1>5, WireBackend DEF Sane, Moves, client
  <2> QED
    BY <1>1, <1>5, <2>1, UnderstoodBackend DEF Sane
<1>6. ASSUME UNCHANGED wire, main \in {"closed", "exited"} => main' \in {"closed", "exited"}
      PROVE  Sane'
  BY <1>1, <1>2, <1>6 DEF wire, Sane
<1>7. CASE CancelArrives
  <2>1. Backend \/ UNCHANGED wire
    BY <1>7 DEF CancelArrives, Backend, Reject
  <2> QED
    BY <1>5, <1>6, <1>7, <2>1 DEF CancelArrives
<1>8. CASE dial = "done" /\ Backend /\ UNCHANGED <<startup, goroutines>>
  BY <1>5, <1>8 DEF goroutines
<1> QED
  BY <1>3, <1>4, <1>6, <1>7, <1>8 DEF InterruptNext, command, goroutines, Dials, Finish, Stop, Exit,
     Interrupted, Woken, Checks, CallsCancel, Exited

\* A cancel, whenever it arrives and whatever it hits, leaves a connection on which
\* the rollback and the unlock can be asked for: where nothing but statements fails,
\* only the end of the command closes it (the comments of migrateCmd and Conn.Cancel).
THEOREM StaysUsable ==
  ASSUME Faults = {"error"}
  PROVE  InterruptSpec => []CancelKeepsUsable
<1>1. InterruptInit => Sane
  <2> SUFFICES ASSUME InterruptInit PROVE Sane
    OBVIOUS
  <2>1. Init /\ WireInv
    BY WireInit DEF InterruptInit
  <2> QED
    BY <2>1 DEF Init, Sane, Understood, Within
<1>2. Sane /\ [InterruptNext]_command => Sane'
  BY SaneStep
<1>3. Sane => CancelKeepsUsable
  BY DEF Sane, CancelKeepsUsable
<1> QED
  BY <1>1, <1>2, <1>3, PTL DEF InterruptSpec
=============================================================================
