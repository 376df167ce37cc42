----------------------------- MODULE Interrupt ------------------------------
(***************************************************************************)
(* A command of pgc migrate around its connection (src/main.go: migrateCmd *)
(* from the dial on, and cancelOnDone): the goroutine that runs the        *)
(* command, the goroutine that waits for a signal or the -timeout, the     *)
(* cancel request it sends on a connection of its own, and the deferred    *)
(* calls at the end.  How the connection comes about is Startup.tla, what  *)
(* it is with its backend Wire.tla.                                        *)
(***************************************************************************)
EXTENDS Wire, Startup

VARIABLES
  main,     \* how far the command is: "dialing", "running", then its deferred calls
  ctx,      \* "live", "interrupted" by a signal or the timeout, "stopped"
  watcher,  \* where cancelOnDone is
  cancel    \* the CancelRequest: "none", "flying", "spent"

goroutines == <<main, ctx, watcher, cancel>>
command    == <<wire, startup, goroutines>>

InterruptInit ==
  /\ Init /\ DialInit
  /\ main = "dialing" /\ ctx = "live" /\ watcher = "none" /\ cancel = "none"

\* A step of Dial; once it returns there is the goroutine that may cancel.
Dials(step) ==
  /\ step
  /\ main' = CASE main = "dialing" /\ dial' = "done" -> "running"
              [] dial' = "failed" -> "exited"
              [] OTHER -> main
  /\ watcher' = IF main = "dialing" /\ dial' = "done" THEN "waiting" ELSE watcher
  /\ UNCHANGED <<wire, ctx, cancel>>

\* The subcommand talks to the server.
Works ==
  /\ main = "running"
  /\ (\E r \in Requests : Ask(r) \/ SendFails(r)) \/ SetOpTimeout \/ Reading
  /\ UNCHANGED <<startup, goroutines>>

\* It is over: close(finished), ...
Finish ==
  /\ main = "running" /\ phase = "idle"
  /\ main' = "finished"
  /\ UNCHANGED <<startup, wire, ctx, watcher, cancel>>

\* ... then the deferred cancel and stop, ...
Stop ==
  /\ main = "finished"
  /\ main' = "stopped"
  /\ ctx' = IF ctx = "live" THEN "stopped" ELSE ctx
  /\ UNCHANGED <<startup, wire, watcher, cancel>>

\* ... then conn.Close, ...
CloseConn ==
  /\ main = "stopped"
  /\ main' = "closed"
  /\ IF broken THEN UNCHANGED wire ELSE Close
  /\ UNCHANGED <<startup, ctx, watcher, cancel>>

\* ... then the process, with the goroutines it has left.
Exit ==
  /\ main = "closed"
  /\ main' = "exited"
  /\ watcher' = "over"
  /\ UNCHANGED <<startup, wire, ctx, cancel>>

\* A signal comes, or the timeout.
Interrupted ==
  /\ ctx = "live" /\ main \in {"running", "finished"}
  /\ ctx' = "interrupted"
  /\ UNCHANGED <<startup, wire, main, watcher, cancel>>

\* cancelOnDone waits for ctx or finished, whichever select takes, ...
Woken ==
  /\ watcher = "waiting"
  /\ \/ ctx # "live" /\ watcher' = "checking"
     \/ main # "running" /\ watcher' = "over"
  /\ UNCHANGED <<startup, wire, main, ctx, cancel>>

\* Mutant: the select alone decides.
ChecksNothing ==
  /\ watcher = "checking"
  /\ watcher' = "calling"
  /\ UNCHANGED <<startup, wire, main, ctx, cancel>>

\* ... looks at finished again, ...
Checks ==
  /\ watcher = "checking"
  /\ watcher' = IF main = "running" THEN "calling" ELSE "over"
  /\ UNCHANGED <<startup, wire, main, ctx, cancel>>

\* ... and calls Cancel, whose connection may fail, and which needs the key.
CallsCancel ==
  /\ watcher = "calling"
  /\ watcher' = "over"
  /\ cancel' \in {"none"} \cup (IF key THEN {"flying"} ELSE {})
  /\ UNCHANGED <<startup, wire, main, ctx>>

\* The server stops what it is executing, if it still is.
CancelArrives ==
  /\ cancel = "flying"
  /\ cancel' = "spent"
  /\ (Abort /\ UNCHANGED up) \/ UNCHANGED wire
  /\ UNCHANGED <<startup, main, ctx, watcher>>

Exited == main = "exited" /\ (gone \/ dial = "failed") /\ UNCHANGED command

InterruptNext ==
  \/ Dials(DialNext) \/ Works \/ Finish \/ Stop \/ CloseConn \/ Exit
  \/ Interrupted \/ Woken \/ Checks \/ CallsCancel \/ CancelArrives
  \/ dial = "done" /\ Backend /\ UNCHANGED <<startup, goroutines>>
  \/ Exited

Runs(A) == A /\ UNCHANGED <<startup, goroutines>>

InterruptSpec ==
  /\ InterruptInit /\ [][InterruptNext]_command
  /\ WF_command(Dials(Expires)) /\ WF_command(Dials(Passes)) /\ WF_command(Dials(TimesOut))
  /\ WF_command(Dials(Stops)) /\ WF_command(Dials(Returns))
  /\ WF_command(Runs(Reading)) /\ WF_command(Runs(Executes))

-----------------------------------------------------------------------------
\* Only an interrupt cancels: the deferred stop ends the context too, and must
\* not be taken for one (cancelOnDone: when both are ready, finished wins).
OnlyInterruptsCancel == cancel # "none" => ctx = "interrupted"

\* A cancel, whatever it hits, leaves the connection usable for the rollback
\* and the unlock (the comments of migrateCmd and Conn.Cancel).
CancelKeepsUsable == broken => main \in {"closed", "exited"}
=============================================================================
