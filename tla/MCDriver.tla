------------------------------ MODULE MCDriver ------------------------------
(***************************************************************************)
(* Several scopes in one run.  The constants of the configuration are      *)
(* those of a nested ordered scope whose first child restarts during       *)
(* startup and whose ancestor may end it.  Root is a root ordered scope    *)
(* with a gated child and a one-shot, local stops, requests, forces and an *)
(* aborted driver; in Restarting its gated child has two incarnations.     *)
(* Admitting, Fused and Cancelled are a dynamic scope that admits a second *)
(* child, which is removed, cancelled, or both, with the scope shut down   *)
(* or its driver aborted meanwhile.  Initials is a dynamic scope whose two *)
(* initial children are removed while it starts.                           *)
(***************************************************************************)
EXTENDS MCScopeDriver

VARIABLE instance

Root == INSTANCE ScopeDriver WITH
  Role <- "Root", Options <- OrderedOptions, MaxIncarnation <- 1,
  Actors <- {"LocalStop", "Shutdown", "Force", "AbortDriver"}
Restarting == INSTANCE ScopeDriver WITH
  Role <- "Root", Options <- OrderedOptions, Actors <- {"Shutdown", "AbortDriver"}
Admitting == INSTANCE ScopeDriver WITH
  Flavor <- "Dynamic", Role <- "Root", Initial <- 1, Options <- AdmissionOptions,
  Actors <- {"Shutdown", "Remove", "Admit", "AbortDriver"}
Fused == INSTANCE ScopeDriver WITH
  Flavor <- "Dynamic", Role <- "Root", Initial <- 1, Options <- AdmissionOptions,
  Actors <- {"Remove", "Admit", "FusedCancel", "AbortDriver"}
Cancelled == INSTANCE ScopeDriver WITH
  Flavor <- "Dynamic", Role <- "Root", Initial <- 1, Options <- AdmissionOptions,
  Actors <- {"Shutdown", "Admit", "FusedCancel"}
Initials == INSTANCE ScopeDriver WITH
  Flavor <- "Dynamic", Role <- "Root", Options <- RemovalOptions,
  MaxIncarnation <- 1, Actors <- {"Shutdown", "Remove"}

MCInit == \/ instance = "nested" /\ Init
          \/ instance = "root" /\ Root!Init
          \/ instance = "restarting" /\ Restarting!Init
          \/ instance \in {"admitting", "fused", "cancelled"} /\ Admitting!Init
          \/ instance = "initials" /\ Initials!Init
MCNext == /\ UNCHANGED instance
          /\ \/ instance = "nested" /\ Next
             \/ instance = "root" /\ Root!Next
             \/ instance = "restarting" /\ Restarting!Next
             \/ instance = "admitting" /\ Admitting!Next
             \/ instance = "fused" /\ Fused!Next
             \/ instance = "cancelled" /\ Cancelled!Next
             \/ instance = "initials" /\ Initials!Next
MCSpec == MCInit /\ [][MCNext]_<<vars, instance>>

-----------------------------------------------------------------------------
(* A property that depends on the flavor is asked of the scope's own. *)

OfFlavor(ordered, dynamic) ==
  IF instance \in {"nested", "root", "restarting"} THEN ordered ELSE dynamic

\* No assertion of the driver fails, whatever callers request, admit, cancel
\* and remove meanwhile (the assert!s and debug_assert!s of driver/).
AssertionsHold == OfFlavor(DriverAssertions, Admitting!DriverAssertions)

\* The driver waits only at a fixed point of its own settling (settle_startup,
\* settle_drain, settle_finish; pending_startup_removals).
WaitsOnlySettled == OfFlavor(WaitsSettled, Admitting!WaitsSettled)

\* Tasks are the live incarnations, no exit is lost, and a scope that decided
\* to finish has joined them all (joiner, handle_exit, settle_finish).
ExitsJoined == ExitsAccounted /\ FinishedMeansJoined

\* An ordered scope that was not forced stops a child only once every later
\* child has joined (settle_ordered_stop).
ReverseTeardown == OfFlavor(OrderedTeardown, TRUE)

\* A startup verdict is never ahead of the children it is about, and ordered
\* children start one after the other (settle_startup, publish_startup).
StartupVerdictHolds ==
  [][FailureHasCause /\ OfFlavor(StartupStep, Admitting!StartupStep)]_vars

\* A remover is answered only once the child is gone and startup has been
\* recomputed without it, and no later than the scope stops, also when its
\* driver is dropped (finalize_removal, publish_removals, Drop for
\* ScopeRuntime).
RemovalAnswersHold == Admitting!RemovedMeansGone
=============================================================================
