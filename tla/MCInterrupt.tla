----------------------------- MODULE MCInterrupt -----------------------------
(* A connection of each kind, then the requests of a migration, a COPY FROM
   STDIN among them. *)
EXTENDS Interrupt

Scripts ==
  {[op |-> "query", script |-> <<"select">>],
   [op |-> "exec", script |-> <<"begin">>],
   [op |-> "exec", script |-> <<"change", "copyIn">>],
   [op |-> "exec", script |-> <<"end">>]}

DialConfigs ==
  {[ssl |-> "disable", root |-> FALSE, loopback |-> TRUE],
   [ssl |-> "prefer", root |-> FALSE, loopback |-> FALSE],
   [ssl |-> "prefer", root |-> TRUE, loopback |-> FALSE],
   [ssl |-> "require", root |-> FALSE, loopback |-> TRUE],
   [ssl |-> "verify-full", root |-> TRUE, loopback |-> FALSE]}
=============================================================================
