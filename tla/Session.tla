------------------------------ MODULE Session -------------------------------
(***************************************************************************)
(* What a pgwire connection promises its caller (the package comment of    *)
(* src/internal/pgwire/pgwire.go and the comment of simpleQuery): one      *)
(* request at a time, each answered truthfully or lost, and after a lost   *)
(* one nothing more.  Wire.tla is shown to implement this module; its      *)
(* requests are the ones Migrate.tla sends.                                *)
(***************************************************************************)
EXTENDS Naturals, Sequences

CONSTANT MaxRequests  \* bound: requests of one connection

VARIABLES
  open,    \* the connection takes requests
  asked,   \* how many were sent
  did,     \* what the server did with each: [how, tx]
  told,    \* what the caller was told of each
  status   \* what TxStatus says

session == <<open, asked, did, told, status>>

TxStates == {"I", "T", "E"}

Init == open = TRUE /\ asked = 0 /\ did = <<>> /\ told = <<>> /\ status = "I"

Idle == Len(told) = asked

Ask ==
  /\ open /\ Idle /\ asked < MaxRequests
  /\ asked' = asked + 1
  /\ UNCHANGED <<open, did, told, status>>

\* The server executes the request, be it for a caller who has given it up.
Execute ==
  /\ Len(did) < asked
  /\ \E how \in {"done", "failed"}, x \in TxStates :
       did' = Append(did, [how |-> how, tx |-> x])
  /\ UNCHANGED <<open, asked, told, status>>

Says(how) == IF how = "done" THEN {"ok", "tooLarge"} ELSE {"error"}

Tell ==
  /\ ~Idle /\ Len(did) = asked
  /\ \E w \in Says(did[asked].how) : told' = Append(told, w)
  /\ status' = did[asked].tx
  /\ UNCHANGED <<open, asked, did>>

\* The answer is lost, and the connection with it; perhaps while asking.
Lose ==
  /\ open
  /\ asked' = Len(told) + 1 /\ asked' <= MaxRequests
  /\ told' = Append(told, "lost")
  /\ open' = FALSE
  /\ UNCHANGED <<did, status>>

Close ==
  /\ open /\ Idle
  /\ open' = FALSE
  /\ UNCHANGED <<asked, did, told, status>>

Next == Ask \/ Execute \/ Tell \/ Lose \/ Close

Spec == Init /\ [][Next]_session

-----------------------------------------------------------------------------
\* A caller who is told how a request ended is told what happened to that
\* request, and TxStatus is what it left; only the last one can be lost.
TellsTheTruth ==
  /\ \A n \in 1..Len(told) :
       /\ told[n] \in {"ok", "tooLarge"} => n <= Len(did) /\ did[n].how = "done"
       /\ told[n] = "error" => n <= Len(did) /\ did[n].how = "failed"
       /\ told[n] = "lost" => n = asked
  /\ open /\ asked > 0 /\ Idle => status = did[asked].tx
=============================================================================
