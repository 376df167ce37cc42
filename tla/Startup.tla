------------------------------- MODULE Startup -------------------------------
(***************************************************************************)
(* Dial (src/internal/pgwire/conn.go, scram.go): TLS negotiation, the      *)
(* authentication conversation with a server that may send anything, and   *)
(* the deadline of the whole, which a callback of the context moves up     *)
(* from a goroutine of its own.  Cryptography is symbolic: a proof is      *)
(* genuine or it is not.                                                   *)
(***************************************************************************)
EXTENDS Naturals

CONSTANT Configs  \* [ssl, root, loopback]: sslmode, sslrootcert given, local host

ASSUME StartupAssumption ==
  Configs \subseteq
    [ssl : {"disable", "prefer", "require", "verify-ca", "verify-full"},
     root : BOOLEAN, loopback : BOOLEAN]

VARIABLES
  cfg,
  dial,      \* how far Dial is
  loc,       \* its locals, see NoLocals
  key,       \* the Conn has a cancellation key
  expiry,    \* the context: "live", or "over" when its time is up
  alarm,     \* the callback of AfterFunc
  deadline   \* of the socket: "none", "set", "past"

startup == <<cfg, dial, loc, key, expiry, alarm, deadline>>
timing  == <<expiry, alarm, deadline>>

\* peer: how the other end was identified, "plain" without TLS; scram:
\* scramStep, 0 for a nil scram; used: the methods gone through; proved: the
\* server signed this exchange.
NoLocals == [peer |-> "plain", scram |-> 0, auth |-> FALSE, used |-> {}, proved |-> FALSE]

DialInit ==
  /\ cfg \in Configs
  /\ dial = "tcp" /\ loc = NoLocals /\ key = FALSE
  /\ expiry = "live" /\ alarm = "none" /\ deadline = "none"

Over == {"done", "failed"}

\* Dial is left: its deferred calls stop the callback, then end the context.
Leaves(how) ==
  /\ dial' = how /\ loc' = NoLocals
  /\ alarm' = IF alarm = "armed" THEN "stopped" ELSE alarm
  /\ expiry' = "over"
  /\ UNCHANGED <<cfg, key>>

\* An error, a read or write past the deadline, a message that is cut, out of
\* order or not understood: the socket is closed.
Fails ==
  /\ dial \in {"tcp", "tls", "auth"}
  /\ Leaves("failed") /\ UNCHANGED deadline

\* The TCP connection is there: its deadline is set, and the callback that
\* moves it when the context ends.
Connects ==
  /\ dial = "tcp"
  /\ dial' = "tls" /\ deadline' = "set"
  /\ alarm' = IF expiry = "live" THEN "armed" ELSE "running"
  /\ UNCHANGED <<cfg, loc, key, expiry>>

-----------------------------------------------------------------------------
\* A root certificate turns prefer and require into verify-ca.
Mode == IF cfg.root /\ cfg.ssl \in {"prefer", "require"} THEN "verify-ca" ELSE cfg.ssl

\* What a server can show: a certificate for this host, one for another, none
\* that is signed by somebody trusted.
Trusted == CASE Mode = "verify-full" -> {"host"}
             [] Mode = "verify-ca"   -> {"host", "chain"}
             [] OTHER                -> {"host", "chain", "unknown"}

Plain ==
  /\ dial = "tls" /\ cfg.ssl \in {"disable", "prefer"}
  /\ dial' = "auth"
  /\ UNCHANGED <<cfg, loc, key, timing>>

Encrypts ==
  /\ dial = "tls" /\ cfg.ssl # "disable"
  /\ dial' = "auth"
  /\ \E peer \in Trusted : loc' = [loc EXCEPT !.peer = peer]
  /\ UNCHANGED <<cfg, key, timing>>

-----------------------------------------------------------------------------
\* The conversation.  ParameterStatus and notices change nothing.
Hears(with) ==
  /\ dial = "auth" /\ loc' = with
  /\ UNCHANGED <<cfg, dial, key, timing>>

Asks == dial = "auth" /\ ~loc.auth

\* The password in clear text, or its MD5 digest.
Password ==
  /\ Asks
  /\ \/ (loc.peer # "plain" \/ cfg.loopback) /\ Hears([loc EXCEPT !.used = @ \cup {"clear"}])
     \/ Hears([loc EXCEPT !.used = @ \cup {"md5"}])

\* SASL, with SCRAM-SHA-256 among the mechanisms; its two answers.
Sasl ==
  /\ Asks /\ loc.scram = 0
  /\ Hears([loc EXCEPT !.scram = 1, !.used = @ \cup {"scram"}])

SaslContinue ==
  /\ Asks /\ loc.scram = 1
  /\ Hears([loc EXCEPT !.scram = 2])

SaslFinal ==
  /\ Asks /\ loc.scram = 2
  /\ Hears([loc EXCEPT !.scram = 3, !.proved = TRUE])

\* Mutant: the server's word is enough.
AuthenticationOkAnyway ==
  /\ Asks
  /\ Hears([loc EXCEPT !.auth = TRUE])

\* It is over; SCRAM only once the server proved that it knows the password.
AuthenticationOk ==
  /\ Asks /\ loc.scram \in {0, 3}
  /\ Hears([loc EXCEPT !.auth = TRUE])

BackendKeyData ==
  /\ dial = "auth" /\ key' = TRUE
  /\ UNCHANGED <<cfg, dial, loc, timing>>

ReadyForQuery ==
  /\ dial = "auth" /\ loc.auth
  /\ dial' = "stopping"
  /\ UNCHANGED <<cfg, loc, key, timing>>

-----------------------------------------------------------------------------
\* Mutant: whether the callback was stopped is not asked.
StopsAnyway ==
  /\ dial = "stopping" /\ dial' = "clearing"
  /\ alarm' = IF alarm = "armed" THEN "stopped" ELSE alarm
  /\ UNCHANGED <<cfg, loc, key, expiry, deadline>>

\* The callback is stopped; one that runs already makes Dial fail, ...
Stops ==
  /\ dial = "stopping"
  /\ IF alarm = "armed"
     THEN dial' = "clearing" /\ alarm' = "stopped" /\ UNCHANGED <<cfg, loc, key, expiry>>
     ELSE Leaves("failed")
  /\ UNCHANGED deadline

\* ... the deadline cleared, and the Conn returned.
Returns ==
  /\ dial = "clearing"
  /\ Leaves("done") /\ deadline' = "none"

\* The time of the context is up, ...
Expires ==
  /\ expiry = "live"
  /\ expiry' = "over"
  /\ alarm' = IF alarm = "armed" THEN "running" ELSE alarm
  /\ UNCHANGED <<cfg, dial, loc, key, deadline>>

\* ... and the callback moves the deadline up, on its own goroutine.
Rings ==
  /\ alarm = "running"
  /\ alarm' = "rung" /\ deadline' = "past"
  /\ UNCHANGED <<cfg, dial, loc, key, expiry>>

\* The deadline passes by itself.
Passes ==
  /\ deadline = "set" /\ deadline' = "past"
  /\ UNCHANGED <<cfg, dial, loc, key, expiry, alarm>>

\* Mutant: TLS is negotiated without a deadline.
TimesOutLate ==
  /\ deadline = "past" /\ dial = "auth"
  /\ Fails

\* A connect ends with its context, a read with its deadline.
TimesOut ==
  /\ \/ expiry = "over" /\ dial = "tcp"
     \/ deadline = "past" /\ dial \in {"tls", "auth"}
  /\ Fails

Conversation ==
  \/ Password \/ Sasl \/ SaslContinue \/ SaslFinal \/ AuthenticationOk
  \/ BackendKeyData \/ ReadyForQuery

DialNext ==
  \/ Connects \/ Plain \/ Encrypts \/ Conversation \/ Fails \/ TimesOut
  \/ Stops \/ Returns \/ Expires \/ Rings \/ Passes

DialSpec == DialInit /\ [][DialNext]_startup

-----------------------------------------------------------------------------
\* Dial returns a connection only as it was asked for: identified as sslmode
\* says, authenticated, by a server that proved itself where SCRAM was begun,
\* without a password in clear text over the network (startup: a server cannot
\* skip a step).
AsAsked ==
  [][dial # "done" /\ dial' = "done" =>
       /\ loc.auth
       /\ "scram" \in loc.used => loc.proved
       /\ "clear" \in loc.used => loc.peer # "plain" \/ cfg.loopback
       /\ cfg.ssl \notin {"disable", "prefer"} => loc.peer # "plain"
       /\ cfg.ssl = "verify-full" => loc.peer = "host"
       /\ cfg.root /\ loc.peer # "plain" => loc.peer # "unknown"]_startup

\* The deadline of the startup never hits a connection that was returned,
\* whenever the context ends (Dial: if !stop()).
DeadlineLifted == dial = "done" => deadline = "none"

\* Dial returns, whatever the server sends or does not send (Dial: the context
\* bounds the whole startup sequence).
DialReturns == <>(dial \in Over)
=============================================================================
