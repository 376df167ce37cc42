-------------------------------- MODULE Wire --------------------------------
(***************************************************************************)
(* One connection of pgwire (src/internal/pgwire/conn.go, query.go,        *)
(* describe.go) and the backend behind it.  Requests and replies are two   *)
(* streams; a request is answered by many messages, a timeout or a         *)
(* transport error leaves an unknown part of them unread, and notices come *)
(* whenever the server likes.  Every message carries, for the properties   *)
(* only, the number of the request it belongs to (0: to none).             *)
(***************************************************************************)
EXTENDS Naturals, Sequences, SequencesExt

CONSTANTS
  Requests,     \* what the caller may ask: [op, script], see Answer
  Faults,       \* of "error", "timeout", "reset", "garbage"
  Budget,       \* maxResult, in rows
  MaxRequests,  \* bound: requests of one connection
  MaxNotices    \* bound: notices and messages out of protocol

\* What a statement may be: it returns one row or more, changes something, starts
\* or ends a transaction, copies.
Statements == {"select", "bulk", "change", "begin", "end", "copyIn", "copyOut"}

ASSUME WireAssumption ==
  /\ Requests \subseteq [op : {"query", "exec", "describe"}, script : Seq(Statements)]
  /\ Faults \subseteq {"error", "timeout", "reset", "garbage"}
  /\ Budget \in Nat /\ MaxRequests \in Nat /\ MaxNotices \in Nat

VARIABLES
  \* the Conn
  asked,     \* how many requests were sent
  current,   \* the last one
  phase,     \* "idle", or "reading" its answer
  broken,
  txStatus,
  timed,     \* opTimeout is not 0
  srvErr, tooLarge, kept,  \* locals of simpleQuery and Describe; kept: len(*rows)
  told,      \* what each request returned
  \* the network
  up, down,  \* messages on their way
  socket,    \* "open", "closed" by the client, "reset" by the server
  \* the backend
  todo,      \* what it has still to do for the message it executes
  serving,   \* the number of the request it serves
  copying,   \* it waits for COPY data
  skipping,  \* it ignores everything up to a Sync
  failed,    \* it reported an error in this request
  tx,        \* transaction status of the session
  sent,      \* rows it sent for this request
  did,       \* how each request ended that it answered in full
  gone,      \* it has ended
  notices

callVars    == <<asked, current, phase, srvErr, tooLarge, kept, told>>
backendVars == <<todo, serving, copying, skipping, failed, tx, sent, did, gone, notices>>
wire == <<asked, current, phase, broken, txStatus, timed, srvErr, tooLarge, kept, told,
          up, down, socket, todo, serving, copying, skipping, failed, tx, sent, did,
          gone, notices>>

\* The messages PostgreSQL answers a statement with.  "begin" and "end" stand
\* for the CommandComplete of a BEGIN and of a COMMIT or ROLLBACK.
Answer(s) ==
  CASE s = "select"  -> <<"T", "D", "C">>
    [] s = "bulk"    -> <<"T", "D", "D", "C">>
    [] s = "change"  -> <<"C">>
    [] s = "begin"   -> <<"begin">>
    [] s = "end"     -> <<"end">>
    [] s = "copyIn"  -> <<"G", "C">>
    [] s = "copyOut" -> <<"H", "d", "c", "C">>

\* What one request puts on the wire: Query, or Parse, Describe and Sync.
Frames(r, n) ==
  IF r.op = "describe"
  THEN <<[typ |-> "P", of |-> n, steps |-> <<"1">>],
         [typ |-> "D", of |-> n,
          steps |-> <<"t", IF Head(r.script) = "select" THEN "T" ELSE "n">>],
         [typ |-> "S", of |-> n, steps |-> <<"Z">>]>>
  ELSE <<[typ |-> "Q", of |-> n,
          steps |-> FlattenSeq([i \in DOMAIN r.script |-> Answer(r.script[i])])
                      \o <<"Z">>]>>

CopyFail(n) == [typ |-> "f", of |-> n, steps |-> <<>>]
Terminate   == [typ |-> "X", of |-> 0, steps |-> <<>>]
NoCall      == [op |-> "exec", script |-> <<>>]
Message(t, n, x) == [typ |-> t, of |-> n, tx |-> x]

Init ==
  /\ asked = 0 /\ current = NoCall /\ phase = "idle"
  /\ broken = FALSE /\ txStatus = "I" /\ timed = TRUE
  /\ srvErr = FALSE /\ tooLarge = FALSE /\ kept = 0 /\ told = <<>>
  /\ up = <<>> /\ down = <<>> /\ socket = "open"
  /\ todo = <<>> /\ serving = 0 /\ copying = FALSE /\ skipping = FALSE
  /\ failed = FALSE /\ tx = "I" /\ sent = 0 /\ did = <<>> /\ gone = FALSE
  /\ notices = 0

-----------------------------------------------------------------------------
\* The client.

Usable == ~broken

HangUp == socket' = IF socket = "open" THEN "closed" ELSE socket

Return(result) == phase' = "idle" /\ told' = Append(told, result)

\* Mutant: the error is returned and the connection used again.
FailLightly ==
  /\ phase' = "idle" /\ told' = Append(told, "lost")
  /\ UNCHANGED <<asked, current, srvErr, tooLarge, kept, txStatus, timed, broken, socket>>

\* A request whose answer cannot be trusted: fail marks the connection and
\* closes the socket.
Fail ==
  /\ broken' = TRUE /\ HangUp
  /\ phase' = "idle" /\ told' = Append(told, "lost")
  /\ UNCHANGED <<asked, current, srvErr, tooLarge, kept, txStatus, timed>>

Begun(r) ==
  /\ phase = "idle" /\ Usable /\ asked < MaxRequests
  /\ asked' = asked + 1 /\ current' = r
  /\ srvErr' = FALSE /\ tooLarge' = FALSE /\ kept' = 0

\* simpleQuery and Describe send the request and wait, ...
Ask(r) ==
  /\ Begun(r)
  /\ phase' = "reading"
  /\ up' = up \o Frames(r, asked + 1)
  /\ UNCHANGED <<broken, txStatus, timed, told, down, socket, backendVars>>

\* ... or find the socket dead or full.
SendFails(r) ==
  /\ Begun(r)
  /\ socket = "reset" \/ (timed /\ "timeout" \in Faults)
  /\ broken' = TRUE /\ HangUp /\ Return("lost")
  /\ UNCHANGED <<txStatus, timed, up, down, backendVars>>

Incoming(types) == phase = "reading" /\ down # <<>> /\ Head(down).typ \in types
Read         == down' = Tail(down)

\* Messages that change nothing, the asynchronous ones among them.
Ignored == IF current.op = "describe"
           THEN {"1", "t", "T", "n", "N"}
           ELSE {"T", "C", "H", "d", "c", "N"}

Ignore ==
  /\ Incoming(Ignored) /\ Read
  /\ UNCHANGED <<callVars, broken, txStatus, timed, up, socket, backendVars>>

\* Mutant: the rows over the budget are dropped, the result is not.
DataRowCut ==
  /\ current.op # "describe" /\ Incoming({"D"}) /\ Read
  /\ kept' = IF current.op = "exec" \/ kept = Budget THEN kept ELSE kept + 1
  /\ UNCHANGED <<asked, current, phase, srvErr, tooLarge, told, broken, txStatus,
                 timed, up, socket, backendVars>>

\* Query keeps rows up to its budget and then drains; Exec keeps none.
DataRow ==
  /\ current.op # "describe" /\ Incoming({"D"}) /\ Read
  /\ IF current.op = "exec" \/ tooLarge
     THEN UNCHANGED <<kept, tooLarge>>
     ELSE IF kept + 1 > Budget THEN tooLarge' = TRUE /\ kept' = 0
                               ELSE kept' = kept + 1 /\ UNCHANGED tooLarge
  /\ UNCHANGED <<asked, current, phase, srvErr, told, broken, txStatus, timed, up,
                 socket, backendVars>>

\* Mutant: it is returned at once, with the rest of the answer unread.
ServerErrorReturned ==
  /\ Incoming({"E"}) /\ Read
  /\ srvErr' = TRUE /\ Return("error")
  /\ UNCHANGED <<asked, current, tooLarge, kept, broken, txStatus, timed, up, socket,
                 backendVars>>

\* Mutant: a server error is treated like a broken stream.
ServerErrorFails ==
  /\ Incoming({"E"}) /\ Read
  /\ Fail
  /\ UNCHANGED <<up, backendVars>>

\* An error is kept until ReadyForQuery ends the answer.
ServerError ==
  /\ Incoming({"E"}) /\ Read
  /\ srvErr' = TRUE
  /\ UNCHANGED <<asked, current, phase, tooLarge, kept, told, broken, txStatus, timed,
                 up, socket, backendVars>>

\* Mutant: CopyInResponse is one more message to skip.
CopyInIgnored ==
  /\ current.op # "describe" /\ Incoming({"G"}) /\ Read
  /\ UNCHANGED <<callVars, broken, txStatus, timed, up, socket, backendVars>>

\* The server waits for COPY data, and is told there is none.
CopyIn ==
  /\ current.op # "describe" /\ Incoming({"G"}) /\ Read
  /\ up' = Append(up, CopyFail(asked))
  /\ UNCHANGED <<callVars, broken, txStatus, timed, socket, backendVars>>

\* Mutant: the size is looked at first.
SizeFirst == IF tooLarge THEN "tooLarge" ELSE IF srvErr THEN "error" ELSE "ok"

Result == IF srvErr THEN "error" ELSE IF tooLarge THEN "tooLarge" ELSE "ok"

Ready ==
  /\ Incoming({"Z"}) /\ Read
  /\ txStatus' = Head(down).tx /\ Return(Result)
  /\ UNCHANGED <<asked, current, srvErr, tooLarge, kept, broken, timed, up, socket,
                 backendVars>>

\* A message pgc does not understand, or not here.
Unexpected ==
  /\ phase = "reading" /\ down # <<>>
  /\ Head(down).typ \notin Ignored \cup {"E", "Z"}
  /\ current.op = "describe" \/ Head(down).typ \notin {"D", "G"}
  /\ Read /\ Fail
  /\ UNCHANGED <<up, backendVars>>

\* The stream ends, CopyFail cannot be sent, or the deadline passes, with a
\* message on its way or without.
ReadFails ==
  /\ phase = "reading"
  /\ \/ socket = "reset" /\ (down = <<>> \/ Incoming({"G"}))
     \/ timed /\ "timeout" \in Faults
  /\ Fail
  /\ UNCHANGED <<up, down, backendVars>>

\* SetOpTimeout(0), as pgc migrate does; a deadline of 0 clears it.
SetOpTimeout ==
  /\ phase = "idle" /\ timed /\ timed' = FALSE
  /\ UNCHANGED <<callVars, broken, txStatus, up, down, socket, backendVars>>

\* Close says goodbye, unless fail has closed the socket already.
Close ==
  /\ phase = "idle" /\ ~broken
  /\ broken' = TRUE /\ HangUp
  /\ up' = Append(up, Terminate)
  /\ UNCHANGED <<callVars, txStatus, timed, down, backendVars>>

Reading ==
  Ignore \/ DataRow \/ ServerError \/ CopyIn \/ Ready \/ Unexpected \/ ReadFails

Caller == \/ \E r \in Requests : Ask(r) \/ SendFails(r)
          \/ SetOpTimeout \/ Close

-----------------------------------------------------------------------------
\* The backend.

client == <<callVars, broken, txStatus, timed>>

\* What a backend writes to a socket its client no longer reads is lost.
Write(t, n) ==
  down' = IF socket = "open" THEN Append(down, Message(t, n, tx')) ELSE down

\* It takes the next message.  After an error only a Sync is executed; a
\* CopyFail that comes when the COPY is over is ignored.
Take ==
  /\ ~gone /\ todo = <<>> /\ up # <<>> /\ Head(up).typ # "X"
  /\ LET m       == Head(up)
         ignored == m.typ = "f" \/ (skipping /\ m.typ # "S")
     IN  /\ up' = Tail(up)
         /\ todo' = IF ignored THEN <<>> ELSE m.steps
         /\ serving' = IF m.typ = "f" THEN serving ELSE m.of
         /\ sent' = IF m.typ = "Q" THEN 0 ELSE sent
         /\ skipping' = (skipping /\ m.typ # "S")
  /\ UNCHANGED <<client, down, socket, copying, failed, tx, did, gone, notices>>

\* It answers the next step.  In a failed transaction only its end succeeds.
Proceed ==
  /\ ~gone /\ todo # <<>> /\ ~copying
  /\ LET step == Head(todo)
     IN  /\ tx = "E" => step \in {"end", "Z"}
         /\ tx' = CASE step = "begin" -> "T" [] step = "end" -> "I" [] OTHER -> tx
         /\ Write(IF step \in {"begin", "end"} THEN "C" ELSE step, serving)
         /\ sent' = IF step = "D" THEN sent + 1 ELSE sent
         /\ copying' = (step = "G")
         /\ IF step = "Z"
            THEN /\ did' = Append(did, [how |-> IF failed THEN "failed" ELSE "done",
                                        tx  |-> tx])
                 /\ failed' = FALSE
            ELSE UNCHANGED <<did, failed>>
  /\ todo' = Tail(todo)
  /\ UNCHANGED <<client, up, socket, serving, skipping, gone, notices>>

\* A step fails: the rest of a Query is dropped, and after a failed Parse or
\* Describe everything up to the Sync.
Abort ==
  /\ ~gone /\ todo # <<>> /\ Head(todo) # "Z"
  /\ failed' = TRUE /\ copying' = FALSE
  /\ tx' = IF tx = "I" \/ Head(todo) = "end" THEN "I" ELSE "E"
  /\ Write("E", serving)
  /\ IF Last(todo) = "Z" THEN todo' = <<"Z">> /\ UNCHANGED skipping
                         ELSE todo' = <<>> /\ skipping' = TRUE
  /\ UNCHANGED <<client, socket, serving, sent, did, gone, notices>>

Doomed == tx = "E" /\ todo # <<>> /\ Head(todo) \notin {"end", "Z"}

Reject ==
  /\ "error" \in Faults \/ Doomed
  /\ Abort /\ UNCHANGED up

\* The client has no data for a COPY FROM STDIN.
CopyEnds ==
  /\ copying /\ up # <<>> /\ Head(up).typ = "f"
  /\ Abort /\ up' = Tail(up)

\* A notice, a changed parameter, a notification; or a message out of protocol.
Notice(t) ==
  /\ ~gone /\ notices < MaxNotices /\ (t = "?" => "garbage" \in Faults)
  /\ notices' = notices + 1
  /\ UNCHANGED tx /\ Write(t, 0)
  /\ UNCHANGED <<client, up, socket, todo, serving, copying, skipping, failed, sent,
                 did, gone>>

\* The server is shut down, and says so.
Shutdown ==
  /\ "reset" \in Faults /\ ~gone /\ socket = "open"
  /\ gone' = TRUE /\ socket' = "reset"
  /\ UNCHANGED tx /\ Write("E", 0)
  /\ UNCHANGED <<client, up, todo, serving, copying, skipping, failed, sent, did,
                 notices>>

\* The connection is lost, with some of what was on its way.
Lose ==
  /\ "reset" \in Faults /\ socket = "open"
  /\ socket' = "reset"
  /\ \E k \in 0..Len(down) : down' = SubSeq(down, 1, k)
  /\ UNCHANGED <<client, up, backendVars>>

\* Sooner or later a backend notices that its client is gone.
Quit ==
  /\ ~gone /\ socket # "open"
  /\ gone' = TRUE
  /\ UNCHANGED <<client, up, down, socket, todo, serving, copying, skipping, failed,
                 tx, sent, did, notices>>

Executes == Take \/ Proceed \/ CopyEnds \/ (Doomed /\ Reject)

Backend == Executes \/ Reject \/ Quit \/ Shutdown \/ Lose \/ Notice("N") \/ Notice("?")

Terminated == phase = "idle" /\ broken /\ gone /\ UNCHANGED wire

Next == Caller \/ Reading \/ Backend \/ Terminated

Spec == Init /\ [][Next]_wire

-----------------------------------------------------------------------------
\* A request reads nothing that answers another one, whatever timed out before
\* it (simpleQuery: the connection is closed rather than let the next request
\* read this one's answer).
ReadsOwnAnswer ==
  phase = "reading" => \A m \in ToSet(down) : m.of \in {0, asked}

\* Between two requests of a usable connection both streams are empty, but for
\* notices and a CopyFail nobody waits for, the backend is idle and TxStatus is
\* its transaction status.
InStep ==
  phase = "idle" /\ ~broken /\ ~gone =>
    /\ \A m \in ToSet(down) : m.of = 0
    /\ \A m \in ToSet(up) : m.typ = "f"
    /\ todo = <<>> /\ ~copying /\ ~skipping
    /\ txStatus = tx

\* A Query that returns rows returns all of them, and never holds more than
\* maxResult (Query: past maxResult it drains the rest and reports an error).
EveryRow ==
  /\ kept <= Budget
  /\ asked > 0 /\ phase = "idle" /\ Last(told) = "ok" /\ current.op = "query" => kept = sent

\* Every request returns, whatever the server is asked: a COPY FROM STDIN, for
\* which client and server could wait for each other, included (simpleQuery
\* answers CopyInResponse with CopyFail; pgc migrate sets no deadline).
RequestsReturn == phase = "reading" ~> phase = "idle"

\* The connection is a session as Session.tla has it: what a request is told is
\* what the server did with that request.
S == INSTANCE Session WITH open <- ~broken, status <- txStatus

ImplementsSession == S!Spec
=============================================================================
