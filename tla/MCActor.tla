------------------------------- MODULE MCActor -------------------------------
(* Bounded instances of ActorLoop for TLC. *)
EXTENDS ActorLoop

\* A callback actor that drains its mailbox on a stop, and a raw one that
\* does not.
MCPolicies == {[readiness |-> "AfterInit", drain |-> TRUE],
               [readiness |-> "Immediate", drain |-> FALSE]}
=============================================================================
