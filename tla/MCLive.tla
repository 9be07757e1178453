------------------------------- MODULE MCLive -------------------------------
(***************************************************************************)
(* Progress of two scopes in one run: an ordered scope that is asked to    *)
(* shut down (the constants of the configuration), and a dynamic one whose *)
(* only child is removed.                                                  *)
(***************************************************************************)
EXTENDS MCScopeDriver

VARIABLE instance

Solo == INSTANCE ScopeDriver WITH
  Flavor <- "Dynamic", Initial <- 1, Options <- SoloOptions,
  Actors <- {"Remove", "Shutdown"}

MCInit == \/ instance = "ordered" /\ Init
          \/ instance = "dynamic" /\ Solo!Init
MCNext == /\ UNCHANGED instance
          /\ \/ instance = "ordered" /\ Next
             \/ instance = "dynamic" /\ Solo!Next

\* The fairness of ScopeDriver, asked of the scope that runs.
Either(a, b) == (instance = "ordered" /\ a) \/ (instance = "dynamic" /\ b)
MCFairness ==
  /\ WF_vars(Either(Execute, Solo!Execute))
  /\ WF_vars(Either(CollectSome, Solo!CollectSome) /\ req' # req)
  /\ \A k \in Keys :
       /\ \A t \in {"Removal", "Exited", "ConstructionDisposed"} :
            SF_vars(Either(CollectEvent(t, k), Solo!CollectEvent(t, k)))
       /\ SF_vars(Either(CollectStopDue(k), Solo!CollectStopDue(k)))
       /\ WF_vars(Either(AbortedTaskEnds(k), Solo!AbortedTaskEnds(k)))

MCSpec == MCInit /\ [][MCNext]_<<vars, instance>> /\ MCFairness
=============================================================================
