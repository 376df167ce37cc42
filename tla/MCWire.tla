------------------------------- MODULE MCWire -------------------------------
(* Instances of Wire: which requests one connection is asked. *)
EXTENDS Wire

\* Catalog lookups and migration scripts of one statement and of several, what
\* generate asks, and COPY in both directions.
Scripts ==
  {[op |-> "query", script |-> <<"bulk", "select">>],
   [op |-> "query", script |-> <<"select">>],
   [op |-> "exec", script |-> <<"begin", "bulk">>],
   [op |-> "exec", script |-> <<"end">>],
   [op |-> "exec", script |-> <<"change", "copyIn", "copyOut">>],
   [op |-> "describe", script |-> <<"select">>],
   [op |-> "describe", script |-> <<"change">>]}
=============================================================================
