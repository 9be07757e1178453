--------------------------- MODULE MCObservation ---------------------------
(* A bounded instance of Observation for TLC. *)
EXTENDS Observation

\* A watcher comes back, to a hub that went stale with nobody watching it.
WatchTwice == [k \in Kinds |-> IF k = "Watch" THEN 2 ELSE 1]

\* A lifecycle stream shows a subscriber everything after its opening
\* snapshot, nothing from outside the residency of the scope it comes from,
\* and ends only when the scope has stopped (hub publish and subscribe,
\* prune_child_locked, terminalize_child).
StreamsTellTheTruth == StreamComplete /\ ClosedMeansStopped /\ EventsWithinResidency
=============================================================================
