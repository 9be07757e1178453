----------------------------- MODULE Supervisor -----------------------------
(***************************************************************************)
(* The structural supervision reducer of shelterwood-core                  *)
(* (crates/shelterwood-core/src/supervisor.rs) together with the scope     *)
(* lifecycle it embeds (engine.rs, ScopeLifecycle).                        *)
(*                                                                         *)
(* The reducer is pure: every transition is an operator from a             *)
(* SupervisorState to a SupervisorState.  The caller-owned effect vector   *)
(* is the field "effects" of the state.  A run of effects of one kind on   *)
(* several children, which the code pushes in ascending key order, is one  *)
(* entry carrying the set of those children.                               *)
(*                                                                         *)
(* ScopeDriver.tla is the runtime shell that feeds these transitions.      *)
(***************************************************************************)
EXTENDS Integers, Sequences

CONSTANTS
  MaxKey,       \* child registrations one scope incarnation can mint
  Flavor        \* "Ordered" or "Dynamic"

ASSUME MaxKeyAssumption == MaxKey \in Nat \ {0}
ASSUME FlavorAssumption == Flavor \in {"Ordered", "Dynamic"}

-----------------------------------------------------------------------------
(* Keys.  Registration keys are minted upwards and never reused; 0 is None. *)

Keys == 1..MaxKey
NoKey == 0

Lowest(S)  == IF S = {} THEN NoKey ELSE CHOOSE k \in S : \A j \in S : k <= j
Highest(S) == IF S = {} THEN NoKey ELSE CHOOSE k \in S : \A j \in S : j <= k

-----------------------------------------------------------------------------
(* The state. *)

IncarnationStates ==
  {"Unstarted", "Active", "Stopping", "Complete", "RestartPending",
   "Disposing", "Joined"}

\* The wrapper of ChildState; "Absent" is a key the map does not hold.
ChildStates == {"Absent", "Resident", "RemovalSampled", "Removing"}

\* StartupMembership: Initial{ready:false}, Initial{ready:true}, Runtime.
StartupMemberships == {"Unready", "Ready", "Runtime"}

LifecyclePhases == {"Starting", "Running", "StartupFailed", "Draining"}
StartupPhases   == {"Pending", "Complete", "Failed"}

\* The drain and stop verdicts, ordered by StopPrecedence.
NoReason == "None"
StopReasons ==
  {"Finished", "IntensityTripped", "StartupFailed", "ShutdownRequested"}
stop_reason_precedence ==
  [r \in StopReasons \cup {NoReason} |->
     CASE r = "None"              -> 0
       [] r = "Finished"          -> 1
       [] r = "IntensityTripped"  -> 2
       [] r = "StartupFailed"     -> 3
       [] r = "ShutdownRequested" -> 4]

\* Some effects concern children, the others the scope.
ChildEffects == {"StartChild", "StopChild", "ForceChild", "FinalizeRemoval"}
ScopeEffects == {"StartupCompleted", "Finished"}
Concerning(childOps, scopeOps) ==
  [op : childOps, on : (SUBSET Keys) \ {{}}, reason : {NoReason}] \cup
  [op : scopeOps, on : {{}}, reason : StopReasons \cup {NoReason}]
Effect == Concerning(ChildEffects, ScopeEffects)

On(kind, S)      == [op |-> kind, on |-> S, reason |-> NoReason]
Verdict(kind, r) == [op |-> kind, on |-> {}, reason |-> r]

SupervisorState ==
  [phase    : LifecyclePhases,                 \* ScopeLifecycleState
   reason   : StopReasons \cup {NoReason},     \* ScopeDrain.reason
   drained  : StartupPhases,                   \* ScopeDrain.startup
   state    : [Keys -> ChildStates],
   inc      : [Keys -> IncarnationStates],
   startup  : [Keys -> StartupMemberships],
   spawned  : [Keys -> BOOLEAN],               \* spawned_once
   minted   : 0..MaxKey,                       \* the last key minted
   next     : 0..MaxKey,                       \* next_ordered_start
   cursor   : 0..MaxKey,                       \* ordered_stop_cursor
   waiting  : 0..MaxKey,                       \* ordered_stop_waiting
   forced   : BOOLEAN,                         \* hard_forced
   emitted  : BOOLEAN,                         \* finish_emitted
   effects  : Seq(Effect)]

NewSupervisor ==
  [phase |-> "Starting", reason |-> NoReason, drained |-> "Pending",
   state   |-> [k \in Keys |-> "Absent"],
   inc     |-> [k \in Keys |-> "Unstarted"],
   startup |-> [k \in Keys |-> "Runtime"],
   spawned |-> [k \in Keys |-> FALSE],
   minted |-> 0, next |-> NoKey, cursor |-> NoKey, waiting |-> NoKey,
   forced |-> FALSE, emitted |-> FALSE, effects |-> <<>>]

-----------------------------------------------------------------------------
(* Queries. *)

is_starting(s)      == s.phase = "Starting"
is_draining(s)      == s.phase = "Draining"
startup_complete(s) == \/ s.phase = "Running"
                       \/ s.phase = "Draining" /\ s.drained = "Complete"
startup_failed(s)   == \/ s.phase = "StartupFailed"
                       \/ s.phase = "Draining" /\ s.drained = "Failed"

contains(s, k)      == s.state[k] # "Absent"
is_removing(s, k)   == s.state[k] # "Resident"   \* a missing key fails closed
is_initial(s, k)    == contains(s, k) /\ s.startup[k] # "Runtime"
initial_ready(s, k) == contains(s, k) /\ s.startup[k] = "Ready"
spawned_once(s, k)  == contains(s, k) /\ s.spawned[k]
is_disposing(s, k)  == contains(s, k) /\ s.inc[k] = "Disposing"
joined(s, k)        == contains(s, k) /\ s.inc[k] = "Joined"

is_incomplete(s, k) == contains(s, k) /\ s.inc[k] # "Joined"

startable(s, k)     == /\ s.state[k] = "Resident"
                       /\ s.inc[k] \in {"Unstarted", "RestartPending"}

Children(s)            == {k \in Keys : contains(s, k)}
Incomplete(s)          == {k \in Keys : is_incomplete(s, k)}
all_children_joined(s) == Incomplete(s) = {}

\* Fault: the predecessor is taken to be the key before, registered or not.
Fault_PreviousNumber(s, k) == k - 1
previous_key(s, k) == Highest({j \in Children(s) : j < k})

-----------------------------------------------------------------------------
(* Transitions.  An event whose predecessor never ran is a no-op. *)

Emit(s, e) == [s EXCEPT !.effects = Append(@, e)]
EmitOn(s, kind, S) == IF S = {} THEN s ELSE Emit(s, On(kind, S))

\* transition_incarnation: the wrapper of the child state is kept.
Transition(s, k, expected, next) ==
  IF contains(s, k) /\ s.inc[k] \in expected
  THEN [s EXCEPT !.inc[k] = next]
  ELSE s

admit(s, initial) ==
  LET k == s.minted + 1 IN
  [s EXCEPT !.minted     = k,
            !.state[k]   = "Resident",
            !.inc[k]     = "Unstarted",
            !.startup[k] = IF initial THEN "Unready" ELSE "Runtime",
            !.spawned[k] = FALSE,
            !.next       = IF initial /\ Flavor = "Ordered" /\ @ = NoKey
                           THEN k ELSE @]

Spawned(s, k) ==
  IF startable(s, k)
  THEN [s EXCEPT !.spawned[k] = TRUE, !.inc[k] = "Active"]
  ELSE s

Ready(s, k) ==
  IF /\ ~is_removing(s, k)
     /\ s.inc[k] \in {"Active", "Stopping"}
     /\ s.startup[k] # "Runtime"
  THEN [s EXCEPT !.startup[k] = "Ready"]
  ELSE s

IncarnationComplete(s, k) ==
  Transition(s, k, {"Active", "Stopping"}, "Complete")

\* Fault: a restart during startup keeps the readiness already credited.
Fault_RestartKeepsReady(s, k) ==
  Transition(s, k, {"Complete"}, "RestartPending")
\* Only a starting scope re-arms the member's initial readiness.
RestartPending(s, k) ==
  IF contains(s, k) /\ s.inc[k] = "Complete"
  THEN [s EXCEPT !.inc[k] = "RestartPending",
                 !.startup[k] = IF is_starting(s) /\ @ # "Runtime"
                                THEN "Unready" ELSE @]
  ELSE s

\* Fault: the reducer is not told that a stop began.
Fault_StopUnrecorded(s, k) == s
StopStarted(s, k) == Transition(s, k, {"Active"}, "Stopping")

DisposalStarted(s, k) ==
  Transition(s, k, {"Unstarted", "Complete", "RestartPending"}, "Disposing")

\* The release edge.  A committed removal is finalized by it.
Terminalized(s, k) ==
  LET t == Transition(s, k, {"Disposing"}, "Joined") IN
  IF is_disposing(s, k) /\ s.state[k] = "Removing"
  THEN Emit(t, On("FinalizeRemoval", {k}))
  ELSE t

RemovalSampled(s, k) ==
  IF s.state[k] = "Resident"
  THEN [s EXCEPT !.state[k] = "RemovalSampled"]
  ELSE s

\* Fault: a disposing child is finalized ahead of its release edge.
Fault_FinalizeDisposing(s, k) ==
  IF s.state[k] \in {"Resident", "RemovalSampled"}
  THEN Emit([s EXCEPT !.state[k] = "Removing"],
            On(IF s.inc[k] \in {"Disposing", "Joined"}
               THEN "FinalizeRemoval" ELSE "StopChild", {k}))
  ELSE s
\* Fault: a removal that was sampled first is taken to be committed.
Fault_SampledIsCommitted(s, k) ==
  IF s.state[k] = "Resident"
  THEN Emit([s EXCEPT !.state[k] = "Removing"],
            On(IF s.inc[k] = "Joined" THEN "FinalizeRemoval" ELSE "StopChild",
               {k}))
  ELSE s
\* Only the first application commits the removal and issues its effect.
RemovalLatched(s, k) ==
  IF s.state[k] \in {"Resident", "RemovalSampled"}
  THEN Emit([s EXCEPT !.state[k] = "Removing"],
            On(IF s.inc[k] = "Joined" THEN "FinalizeRemoval" ELSE "StopChild",
               {k}))
  ELSE s

Reclaim(s, k) ==
  IF joined(s, k) THEN [s EXCEPT !.state[k] = "Absent"] ELSE s

-----------------------------------------------------------------------------
(* The scope lifecycle. *)

fail_startup(s) ==
  IF is_starting(s) THEN [s EXCEPT !.phase = "StartupFailed"] ELSE s

\* A drain in progress only upgrades its reason, by strict precedence.
begin_drain(s, r) ==
  IF is_draining(s)
  THEN IF stop_reason_precedence[r] > stop_reason_precedence[s.reason]
       THEN [s EXCEPT !.reason = r]
       ELSE s
  ELSE LET t == [s EXCEPT !.phase = "Draining", !.reason = r,
                          !.drained = CASE s.phase = "Starting" -> "Pending"
                                        [] s.phase = "Running"  -> "Complete"
                                        [] OTHER                -> "Failed"]
       IN  IF Flavor = "Ordered"
           THEN [t EXCEPT !.cursor = Highest(Children(s))]
           ELSE EmitOn(t, "StopChild", Incomplete(s))

force(s) ==
  EmitOn(begin_drain([s EXCEPT !.forced = TRUE], "ShutdownRequested"),
         "ForceChild", Incomplete(s))

-----------------------------------------------------------------------------
(* Settle: the level-triggered recomputation. *)

\* Ordered startup stops at the first key it may not pass.
Gates(s, k) ==
  /\ contains(s, k)
  /\ is_removing(s, k) \/ ~s.spawned[k] \/ s.startup[k] = "Unready"

complete_startup(s) ==
  IF \A k \in Keys : contains(s, k) => s.startup[k] # "Unready"
  THEN [Emit(s, Verdict("StartupCompleted", NoReason)) EXCEPT !.phase = "Running"]
  ELSE s

settle_ordered_start(s) ==
  LET gate == Lowest({k \in Keys : s.next # NoKey /\ k >= s.next /\ Gates(s, k)})
      t    == [s EXCEPT !.next = gate]
  IN  IF gate = NoKey THEN complete_startup(t)
      ELSE IF ~s.spawned[gate] /\ startable(s, gate)
           THEN Emit(t, On("StartChild", {gate}))
           ELSE t

settle_dynamic_start(s) ==
  complete_startup(
    EmitOn(s, "StartChild",
           {k \in Keys : is_initial(s, k) /\ ~s.spawned[k] /\ startable(s, k)}))

settle_startup(s) ==
  IF ~is_starting(s) THEN s
  ELSE IF Flavor = "Ordered" THEN settle_ordered_start(s)
       ELSE settle_dynamic_start(s)

\* Fault: the cursor advances without waiting for the stopped child.
Fault_StopWithoutWaiting(s) ==
  LET last == Highest({k \in Incomplete(s) : k <= s.cursor}) IN
  IF Flavor # "Ordered" \/ ~is_draining(s) \/ last = NoKey THEN s
  ELSE Emit([s EXCEPT !.waiting = last, !.cursor = previous_key(s, last)],
            On("StopChild", {last}))
settle_ordered_stop(s) ==
  IF \/ Flavor # "Ordered"
     \/ ~is_draining(s)
     \/ s.waiting # NoKey /\ is_incomplete(s, s.waiting)
  THEN s
  ELSE LET last == Highest({k \in Incomplete(s) : k <= s.cursor})
           t    == [s EXCEPT !.waiting = last,
                             !.cursor  = previous_key(s, last)]
       IN  IF last = NoKey THEN t ELSE Emit(t, On("StopChild", {last}))

FinishReason(s) ==
  IF ~all_children_joined(s) THEN NoReason
  ELSE IF is_draining(s) THEN s.reason
  ELSE IF startup_complete(s) /\ Flavor = "Ordered" /\ Children(s) # {}
       THEN "Finished" ELSE NoReason

settle_finish(s) ==
  IF s.emitted \/ FinishReason(s) = NoReason
  THEN s
  ELSE [Emit(s, Verdict("Finished", FinishReason(s))) EXCEPT !.emitted = TRUE]

Settle(s) == settle_finish(settle_ordered_stop(settle_startup(s)))

=============================================================================
