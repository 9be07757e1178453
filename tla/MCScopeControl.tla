--------------------------- MODULE MCScopeControl ---------------------------
(***************************************************************************)
(* Instances of ScopeControl.  The watchers are the callers and the        *)
(* observer.                                                               *)
(***************************************************************************)
EXTENDS ScopeControl

MCWatchers == Callers \cup {Observer}
=============================================================================
