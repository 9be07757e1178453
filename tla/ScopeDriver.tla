---------------------------- MODULE ScopeDriver ----------------------------
(***************************************************************************)
(* One scope incarnation: the driver task that runs run_scope_incarnation  *)
(* (crates/shelterwood/src/driver) around the reducer of Supervisor.tla,   *)
(* the child tasks it supervises with their helper tasks, and the callers  *)
(* that remove children, admit children and stop the scope.                *)
(*                                                                         *)
(* The driver is one thread.  Its handlers call each other, so they are    *)
(* modelled with the call stack they use: "todo" holds the calls still to  *)
(* be made, its head is the next one, and a call that makes further calls  *)
(* puts them in front of the rest.  One step executes one call.  The       *)
(* driver waits for events only when the stack is empty; every other actor *)
(* may step between two calls, which is when the latches that the driver   *)
(* samples really change.                                                  *)
(*                                                                         *)
(* Time is abstracted: an armed deadline may elapse at any collection.     *)
(***************************************************************************)
EXTENDS Supervisor, FiniteSets

CONSTANTS
  Role,          \* "Root" or "Nested"
  Initial,       \* how many children the plan declares
  Options,       \* [Keys -> ChildOptions]: the resolved options of each child
  MaxRestarts,   \* intensity: restarts tolerated inside the window
  MaxIncarnation,\* bound: incarnations of one child
  Actors         \* what the scope's surroundings do in this instance

OptionRecord ==
  [restart   : {"Always", "OnFailure", "Never"},
   readiness : {"Immediate", "Gated"},
   deadline  : BOOLEAN,             \* a gated child has a readiness deadline
   shutdown  : {"Graceful", "Abort"},
   retention : {"Retain", "Remove"},
   oneshot   : BOOLEAN,             \* construction moves into the first body
   backoff   : BOOLEAN]             \* the clock can represent the backoff

\* Resolution: a one-shot child never restarts.
ChildOptions == {o \in OptionRecord : o.oneshot => o.restart = "Never"}

ActorKinds == {"LocalStop", "Shutdown", "Force", "Ancestor", "Remove",
               "FusedCancel", "Admit", "AbortDriver"}

ASSUME RoleAssumption    == Role \in {"Root", "Nested"}
ASSUME InitialAssumption == Initial \in 0..MaxKey
ASSUME OptionsAssumption == Options \in [Keys -> ChildOptions]
ASSUME BoundsAssumption  == /\ MaxRestarts \in Nat
                            /\ MaxIncarnation \in Nat \ {0}
                            /\ Actors \subseteq ActorKinds

VARIABLES
  sup,        \* SupervisorState
  child,      \* [Keys -> ChildRuntime]: the arena, with the member records
  running,    \* the child tasks that have not ended
  charges,    \* restarts inside the intensity window
  dyn,        \* [Keys -> DynamicEntry]: the dynamic control plane
  held,       \* pending_startup_removals
  scope,      \* the published scope record and the finished slot
  req,        \* stop requests and ancestor latches
  todo,       \* the driver's call stack
  cur,        \* the event whose handler is on the stack
  batch,      \* pending: events collected by this wake
  inflight    \* events sent, or to be sent, that no wake has collected

vars == <<sup, child, charges, scope, todo, cur, held, batch, running, dyn,
          req, inflight>>

-----------------------------------------------------------------------------
(* Types. *)

Stages == {"Reserved", "Admitted", "Starting", "Running", "Stopping",
           "Restarting", "Terminal"}

ChildRuntime ==
  [active   : 0..MaxIncarnation,     \* the live incarnation, 0 for none
   minted   : 0..MaxIncarnation,     \* the last incarnation minted
   gate     : {"Waiting", "Ready", "Disarmed"},
   ladder   : {"None", "Cooperative", "Escalated", "Finished"},
   timedOut : BOOLEAN,               \* forced_outcome: readiness timeout
   ready    : BOOLEAN,               \* ready latch, fired by the body
   stop     : BOOLEAN,               \* local_stop latch, fired by the body
   aborted  : BOOLEAN,               \* the task was hard-aborted
   built    : BOOLEAN,               \* construction is still retained
   timers   : SUBSET {"Readiness", "Restart", "Stop"},
   stage    : Stages]                \* the published member stage

DynamicEntry ==
  [entry : {"None", "Resident", "Removing"},
   fused : BOOLEAN,                  \* the fused-cancel latch has fired
   resp  : {"None", "Waiting", "Removed"}]

ScopeRecord ==
  [state    : LifecyclePhases \cup {"Stopped"},
   startup  : {"None", "Ok", "Failed", "Tripped", "Shutdown"},
   finished : StopReasons \cup {NoReason},     \* the driver's finished slot
   reason   : StopReasons \cup {NoReason}]     \* the published stop reason

Requests ==
  [shutdown : {"None", "Pending", "Consumed"},
   force    : {"None", "Pending", "Consumed"},
   ancestor : SUBSET {"Shutdown", "Abort"},    \* latches the parent fired
   seen     : SUBSET {"Shutdown", "Abort"}]

\* ArbitrationClass of each pending event; lower is handled first.
Class ==
  [Shutdown |-> 1, AncestorShutdown |-> 1, AncestorAbort |-> 1, Force |-> 1,
   SelfStop |-> 2, Removal |-> 2, Exited |-> 3, ConstructionDisposed |-> 3,
   Ready |-> 4, ReadinessDue |-> 5, RestartDue |-> 6, StopDue |-> 7,
   Admission |-> 8]

ScopeEvents == {"Shutdown", "AncestorShutdown", "AncestorAbort", "Force",
                "Admission"}
ChildEvents == {"SelfStop", "Removal", "Exited", "ConstructionDisposed",
                "Ready", "ReadinessDue", "RestartDue", "StopDue"}
EventOf(types, subjects) ==
  [type : types, child : subjects, inc : 0..MaxIncarnation, fail : BOOLEAN,
   seen : BOOLEAN]
Event == EventOf(ScopeEvents, {NoKey}) \cup EventOf(ChildEvents, Keys)
Ev(t, k, i) == [type |-> t, child |-> k, inc |-> i, fail |-> FALSE,
                seen |-> FALSE]
NoEvent == Ev("Shutdown", NoKey, 0)

ChildCalls == ChildEffects \cup
  {"BecomeReady", "BecomeReadySettle", "StopTimedOut", "SelfStop",
   "ExitDispatch", "Terminal", "TerminalAborted", "FailStartup",
   "ForceLadder", "Release", "Disposed", "Prune"}
ScopeCalls == ScopeEffects \cup
  {"Start", "Batch", "Complete", "Flush", "Settle", "SettleAgain",
   "PublishFailed", "Drain", "PublishRemovals"}
Call == Concerning(ChildCalls, ScopeCalls)
Do(op) == On(op, {})

TypeOK ==
  /\ sup \in SupervisorState
  /\ child \in [Keys -> ChildRuntime]
  /\ running \in SUBSET Keys
  /\ charges \in 0..(MaxRestarts + 1)
  /\ dyn \in [Keys -> DynamicEntry]
  /\ held \in SUBSET Keys
  /\ scope \in ScopeRecord
  /\ req \in Requests
  /\ todo \in Seq(Call)
  /\ cur \in Event
  /\ batch \in SUBSET Event
  /\ inflight \in SUBSET Event

-----------------------------------------------------------------------------
(* Initial state: the plan's children are admitted and registered before   *)
(* the first settle; a stop request may already be pending.                *)

Declared == 1..Initial

FreshChild(k) ==
  [active |-> 0, minted |-> 0, gate |-> "Disarmed", ladder |-> "None",
   timedOut |-> FALSE, ready |-> FALSE, stop |-> FALSE, aborted |-> FALSE,
   built |-> TRUE, timers |-> {},
   stage |-> IF k \in Declared THEN "Admitted" ELSE "Reserved"]

\* The reducer after it admitted the declared children in plan order.
InitialSupervisor ==
  [NewSupervisor EXCEPT
     !.state   = [k \in Keys |-> IF k \in Declared THEN "Resident" ELSE "Absent"],
     !.startup = [k \in Keys |-> IF k \in Declared THEN "Unready" ELSE "Runtime"],
     !.minted  = Initial,
     !.next    = IF Flavor = "Ordered" /\ Initial > 0 THEN 1 ELSE NoKey]

Init ==
  /\ sup = InitialSupervisor
  /\ child = [k \in Keys |-> FreshChild(k)]
  /\ running = {} /\ charges = 0 /\ held = {}
  /\ dyn = [k \in Keys |->
              [entry |-> IF Flavor = "Dynamic" /\ k \in Declared
                         THEN "Resident" ELSE "None",
               fused |-> FALSE, resp |-> "None"]]
  /\ scope = [state |-> "Starting", startup |-> "None",
              finished |-> NoReason, reason |-> NoReason]
  /\ req = [shutdown |-> "None", force |-> "None", ancestor |-> {}, seen |-> {}]
  /\ todo = <<Do("Start")>> /\ cur = NoEvent
  /\ batch = {} /\ inflight = {}

-----------------------------------------------------------------------------
(* The call stack. *)

Calling(op) == todo # <<>> /\ Head(todo).op = op
Subject     == Lowest(Head(todo).on)

\* The stack once the head call is over for Subject.
Return == IF Head(todo).on \ {Subject} = {}
          THEN Tail(todo)
          ELSE <<[Head(todo) EXCEPT !.on = @ \ {Subject}]>> \o Tail(todo)
Enter(calls) == todo' = calls \o Return

Live(k, i) == child[k].active # 0 /\ child[k].active = i

\* A removal source is latched: the reducer sampled it, the entry is being
\* removed, or the fused-cancel latch has fired ahead of the entry's mark.
removal_latched(k) ==
  \/ is_removing(sup, k)
  \/ dyn[k].entry = "Removing"
  \/ dyn[k].entry = "Resident" /\ dyn[k].fused

construction_is_suppressed(k) ==
  \/ is_draining(sup) \/ sup.forced
  \/ req.shutdown # "None" \/ req.force # "None"
  \/ req.ancestor # {}
  \/ removal_latched(k)

\* What the driver's sampling of the removal sources leaves in the reducer.
Sampled(s, k) == IF removal_latched(k) THEN RemovalSampled(s, k) ELSE s

-----------------------------------------------------------------------------
(* Effects: flush_supervisor_effects, settle_supervisor. *)

Flush ==
  /\ Calling("Flush")
  /\ todo' = IF sup.effects = <<>> THEN Tail(todo) ELSE sup.effects \o todo
  /\ sup' = [sup EXCEPT !.effects = <<>>]
  /\ UNCHANGED <<child, charges, scope, cur, held, batch, running, dyn, req,
                 inflight>>

\* One turn of the fixed point: settle, then execute what it emitted.
settle_supervisor ==
  /\ Calling("Settle")
  /\ sup' = Settle(sup)
  /\ Enter(IF sup'.effects = <<>> THEN <<>>
           ELSE <<Do("Flush"), Do("SettleAgain")>>)
  /\ UNCHANGED <<child, charges, scope, cur, held, batch, running, dyn, req,
                 inflight>>

SettleAgain ==
  /\ Calling("SettleAgain")
  /\ Enter(IF scope.finished = NoReason THEN <<Do("Settle")>> ELSE <<>>)
  /\ UNCHANGED <<sup, child, charges, scope, cur, held, batch, running, dyn,
                 req, inflight>>

\* The StartupCompleted and Finished effects.
publish_startup_complete ==
  /\ Calling("StartupCompleted")
  /\ scope' = [scope EXCEPT !.state = "Running",
                            !.startup = IF @ = "None" THEN "Ok" ELSE @]
  /\ Enter(<<>>)
  /\ UNCHANGED <<sup, child, charges, cur, held, batch, running, dyn, req,
                 inflight>>

RecordFinished ==
  /\ Calling("Finished")
  /\ scope' = [scope EXCEPT !.finished = IF @ = NoReason
                                         THEN Head(todo).reason ELSE @]
  /\ Enter(<<>>)
  /\ UNCHANGED <<sup, child, charges, cur, held, batch, running, dyn, req,
                 inflight>>

-----------------------------------------------------------------------------
(* Starting a child and its readiness. *)

\* The record of a child whose next incarnation has just been spawned.
Incarnate(k) ==
  LET gated == Options[k].readiness = "Gated" IN
  [active |-> child[k].minted + 1, minted |-> child[k].minted + 1,
   gate |-> IF gated THEN "Waiting" ELSE "Ready",
   ladder |-> "None", timedOut |-> FALSE, ready |-> FALSE, stop |-> FALSE,
   aborted |-> FALSE, built |-> child[k].built /\ ~Options[k].oneshot,
   timers |-> IF gated /\ Options[k].deadline THEN {"Readiness"} ELSE {},
   stage |-> "Starting"]

\* spawn_child.  An immediate child becomes ready inside the same call, after
\* the task is running.
spawn_child ==
  LET k == Subject
      refused == \/ ~contains(sup, k) \/ is_draining(sup)
                 \/ child[k].active # 0
                 \/ joined(sup, k) \/ is_disposing(sup, k)
  IN
  /\ Calling("StartChild")
  /\ IF removal_latched(k)
     THEN /\ sup' = RemovalSampled(sup, k)
          /\ Enter(<<>>)
          /\ UNCHANGED <<child, running>>
     ELSE IF refused
     THEN /\ Enter(<<>>)
          /\ UNCHANGED <<sup, child, running>>
     ELSE /\ child[k].minted < MaxIncarnation      \* bound
          /\ child' = [child EXCEPT ![k] = Incarnate(k)]
          /\ running' = running \cup {k}
          /\ sup' = Spawned(sup, k)
          /\ Enter(IF Options[k].readiness = "Gated" THEN <<>>
                   ELSE <<On("BecomeReady", {k})>>)
  /\ UNCHANGED <<charges, scope, cur, held, batch, dyn, req, inflight>>

\* apply_readiness_effect(BecameReady).  Removal is sampled again here, so a
\* member its owner already sees removing is neither credited nor published.
BecomeReady(k) ==
  LET s == Ready(Sampled(sup, k), k) IN
  /\ sup' = s
  /\ child' = [child EXCEPT
       ![k].timers = @ \ {"Readiness"},
       ![k].ready = TRUE,
       ![k].stage = IF is_removing(s, k) THEN @ ELSE "Running"]
  /\ UNCHANGED <<charges, scope, cur, held, batch, running, dyn, req,
                 inflight>>

\* At spawn the caller owns the next settle.
ApplyImmediateReadiness ==
  /\ Calling("BecomeReady")
  /\ BecomeReady(Subject)
  /\ Enter(<<>>)

\* From a signal, an exit or a deadline the handler settles itself.
ApplyGatedReadiness ==
  /\ Calling("BecomeReadySettle")
  /\ BecomeReady(Subject)
  /\ Enter(IF is_removing(sup', Subject) THEN <<>> ELSE <<Do("Settle")>>)

-----------------------------------------------------------------------------
(* Stopping a child. *)

\* begin_stop_child.  An active child arms its ladder, whose first advance
\* cancels cooperatively (and, under an abort policy, escalates at once); an
\* inactive one goes to terminate_inactive.
BeginStop(timeout) ==
  LET k == Subject
      refused == \/ ~contains(sup, k) \/ joined(sup, k) \/ is_disposing(sup, k)
                 \/ child[k].active # 0 /\ child[k].ladder # "None"
  IN
  /\ IF refused
     THEN /\ Enter(<<>>)
          /\ UNCHANGED <<sup, child>>
     ELSE IF child[k].active # 0
     THEN /\ sup' = StopStarted(sup, k)
          /\ child' = [child EXCEPT
               ![k].stage = "Stopping",
               ![k].timedOut = timeout,
               ![k].gate = IF @ = "Waiting" THEN "Disarmed" ELSE @,
               ![k].ladder = IF Options[k].shutdown = "Abort"
                             THEN "Escalated" ELSE "Cooperative",
               ![k].timers = (@ \ {"Readiness"}) \cup {"Stop"}]
          /\ Enter(<<>>)
     ELSE /\ child' = [child EXCEPT ![k].timers = @ \ {"Restart"}]
          /\ Enter(<<On("Terminal", {k})>>)
          /\ UNCHANGED sup
  /\ UNCHANGED <<charges, scope, cur, held, batch, running, dyn, req,
                 inflight>>

begin_stop_child == Calling("StopChild") /\ BeginStop(FALSE)
StopTimedOut     == Calling("StopTimedOut") /\ BeginStop(TRUE)

\* force_child: the ordinary stop funnel, then the forced ladder.
force_child ==
  /\ Calling("ForceChild")
  /\ Enter(<<On("StopChild", {Subject}), On("ForceLadder", {Subject})>>)
  /\ UNCHANGED <<sup, child, charges, scope, cur, held, batch, running, dyn,
                 req, inflight>>

\* The second half: a cooperative ladder is due at once and escalates, its
\* deadline armed anew; a disposing member stops waiting for its construction.
ForceLadder ==
  LET k == Subject
      cooperative == child[k].active # 0 /\ child[k].ladder = "Cooperative"
  IN
  /\ Calling("ForceLadder")
  /\ child' = IF cooperative
              THEN [child EXCEPT ![k].ladder = "Escalated",
                                 ![k].timers = @ \cup {"Stop"}]
              ELSE child
  /\ Enter(IF is_disposing(sup, k) THEN <<On("Disposed", {k})>> ELSE <<>>)
  /\ UNCHANGED <<sup, charges, scope, cur, held, batch, running, dyn, req,
                 inflight>>

-----------------------------------------------------------------------------
(* The end of a membership. *)

publish_terminal(k) == [child EXCEPT ![k].stage = "Terminal"]

\* begin_terminal_disposal: publish the exit, route a startup abort, release.
BeginTerminal(aborted) ==
  LET k == Subject
      s == DisposalStarted(sup, k)
  IN
  /\ IF ~contains(sup, k) \/ is_disposing(sup, k) \/ joined(sup, k)
     THEN /\ Enter(<<>>)
          /\ UNCHANGED <<sup, child>>
     ELSE /\ sup' = s
          /\ child' = publish_terminal(k)
          /\ Enter(IF aborted /\ ~is_removing(s, k) /\ ~is_draining(s)
                   THEN <<On("FailStartup", {k}), On("Release", {k})>>
                   ELSE <<On("Release", {k})>>)
  /\ UNCHANGED <<charges, scope, cur, held, batch, running, dyn, req,
                 inflight>>

Terminal        == Calling("Terminal") /\ BeginTerminal(FALSE)
TerminalAborted == Calling("TerminalAborted") /\ BeginTerminal(TRUE)

\* fail_startup: an ordered scope terminalizes the later children that never
\* spawned, in order; a root then publishes, a nested scope drains.
FailStartup ==
  LET k == Subject
      later == {j \in Keys : /\ Flavor = "Ordered" /\ j > k
                             /\ contains(sup, j) /\ ~sup.spawned[j]
                             /\ sup.inc[j] \notin {"Disposing", "Joined"}}
  IN
  /\ Calling("FailStartup")
  /\ sup' = fail_startup(sup)
  /\ Enter(IF ~is_starting(sup) THEN <<>>
           ELSE (IF later = {} THEN <<>> ELSE <<On("Terminal", later)>>)
                \o IF Role = "Root" THEN <<Do("PublishFailed")>>
                   ELSE <<Verdict("Drain", "StartupFailed")>>)
  /\ UNCHANGED <<child, charges, scope, cur, held, batch, running, dyn, req,
                 inflight>>

PublishFailed ==
  /\ Calling("PublishFailed")
  /\ scope' = [scope EXCEPT !.state = "StartupFailed",
                            !.startup = IF @ = "None" THEN "Failed" ELSE @]
  /\ Enter(<<>>)
  /\ UNCHANGED <<sup, child, charges, cur, held, batch, running, dyn, req,
                 inflight>>

\* The release edge: a retained construction is destroyed on the blocking
\* pool, unless the scope was forced meanwhile.
Release ==
  LET k == Subject
      owned == child[k].built
      pooled == is_disposing(sup, k) /\ owned /\ ~sup.forced
  IN
  /\ Calling("Release")
  /\ child' = [child EXCEPT ![k].built = @ /\ ~contains(sup, k)]
  /\ inflight' = IF pooled THEN inflight \cup {Ev("ConstructionDisposed", k, 0)}
                 ELSE inflight
  /\ Enter(IF is_disposing(sup, k) /\ ~pooled THEN <<On("Disposed", {k})>>
           ELSE <<>>)
  /\ UNCHANGED <<sup, charges, scope, cur, held, batch, running, dyn, req>>

\* handle_construction_disposed: the membership joins.  Its own status decides
\* who prunes it; a removal may still latch before the pruning call.
Disposed ==
  LET k == Subject
      s == Terminalized(sup, k)
  IN
  /\ Calling("Disposed")
  /\ IF ~is_disposing(sup, k)
     THEN UNCHANGED sup /\ Enter(<<>>)
     ELSE /\ sup' = s
          /\ Enter(IF is_removing(s, k) THEN <<Do("Flush")>>
                   ELSE IF Options[k].retention = "Remove"
                   THEN <<On("Prune", {k})>> ELSE <<>>)
  /\ UNCHANGED <<child, charges, scope, cur, held, batch, running, dyn, req,
                 inflight>>

\* Fault: the remover is answered at once, even while the scope is starting.
Fault_AnswerAtOnce(k) ==
  /\ dyn' = [dyn EXCEPT ![k].entry = "None",
                        ![k].resp = IF @ = "Waiting" THEN "Removed" ELSE @]
  /\ UNCHANGED held
\* Dropping an entry answers its remover; release_removed_entry keeps the
\* entry while the scope is starting.
ReleaseEntry(k) ==
  /\ held' = IF is_starting(sup) THEN held \cup {k} ELSE held
  /\ dyn' = [dyn EXCEPT
       ![k].entry = "None",
       ![k].resp = IF @ = "Waiting" /\ ~is_starting(sup) THEN "Removed" ELSE @]

\* prune_terminal, with reclaim_child in a dynamic scope.
prune_terminal ==
  LET k == Subject IN
  /\ Calling("Prune")
  /\ IF dyn[k].entry = "None" THEN UNCHANGED <<dyn, held>> ELSE ReleaseEntry(k)
  /\ sup' = IF Flavor = "Dynamic" THEN Reclaim(sup, k) ELSE sup
  /\ child' = IF Flavor = "Dynamic"
              THEN [child EXCEPT ![k].timers = {}] ELSE child
  /\ Enter(<<>>)
  /\ UNCHANGED <<charges, scope, cur, batch, running, req, inflight>>

finalize_removal ==
  LET k == Subject IN
  /\ Calling("FinalizeRemoval")
  /\ IF Flavor = "Dynamic" /\ dyn[k].entry = "Removing"
     THEN /\ ReleaseEntry(k)
          /\ sup' = Reclaim(sup, k)
          /\ child' = [child EXCEPT ![k].timers = {}]
     ELSE UNCHANGED <<dyn, held, sup, child>>
  /\ Enter(<<>>)
  /\ UNCHANGED <<charges, scope, cur, batch, running, req, inflight>>

publish_startup_removals ==
  /\ Calling("PublishRemovals")
  /\ dyn' = [k \in Keys |->
               IF k \in held /\ dyn[k].resp = "Waiting"
               THEN [dyn[k] EXCEPT !.resp = "Removed"] ELSE dyn[k]]
  /\ held' = {}
  /\ Enter(<<>>)
  /\ UNCHANGED <<sup, child, charges, scope, cur, batch, running, req,
                 inflight>>

-----------------------------------------------------------------------------
(* Draining. *)

StartupVerdict(r) ==
  CASE r = "StartupFailed"    -> "Failed"
    [] r = "IntensityTripped" -> "Tripped"
    [] OTHER                  -> "Shutdown"

\* Drain entry publishes; a cause that ends startup also settles its verdict,
\* which the first writer owns.
PublishDrain(r) ==
  scope' = [scope EXCEPT
    !.state = "Draining",
    !.startup = IF @ = "None" /\ (is_starting(sup) \/ r = "StartupFailed")
                THEN StartupVerdict(r) ELSE @]

\* begin_drain_transition: the ordered cursor is settled before publication.
begin_drain_transition ==
  LET r == Head(todo).reason
      s == begin_drain(sup, r)
  IN
  /\ Calling("Drain")
  /\ IF is_draining(sup)
     THEN /\ sup' = s
          /\ Enter(<<>>)
          /\ UNCHANGED scope
     ELSE /\ sup' = Settle(s)
          /\ PublishDrain(r)
          /\ Enter(<<Do("Flush"), Do("Settle")>>)
  /\ UNCHANGED <<child, charges, cur, held, batch, running, dyn, req,
                 inflight>>

-----------------------------------------------------------------------------
(* The loop: collect, arbitrate, dispatch, settle, publish, complete. *)

Idle == todo = <<>> /\ scope.state # "Stopped"

\* The shutdown request taken before the first settle.
Start ==
  /\ Calling("Start")
  /\ req' = [req EXCEPT
       !.shutdown = IF @ = "Pending" THEN "Consumed" ELSE @,
       !.seen = IF req.shutdown = "Pending" THEN @ \cup {"Shutdown"} ELSE @]
  /\ Enter((IF req.shutdown = "Pending"
            THEN <<Verdict("Drain", "ShutdownRequested")>> ELSE <<>>)
           \o <<Do("Settle"), Do("Complete")>>)
  /\ UNCHANGED <<sup, child, charges, scope, cur, held, batch, running, dyn, inflight>>

RequestEvents ==
  {Ev(t, NoKey, 0) : t \in
     {t \in {"Shutdown", "AncestorShutdown", "AncestorAbort", "Force"} :
        CASE t = "Shutdown"         -> req.shutdown = "Pending"
          [] t = "AncestorShutdown" -> "Shutdown" \in req.ancestor \ req.seen
          [] t = "AncestorAbort"    -> "Abort" \in req.ancestor \ req.seen
          [] t = "Force"            -> req.force = "Pending"}}

\* Armed deadlines, as the events the queue pops.  A restart past the bound on
\* incarnations never elapses.
Timer == [Readiness |-> "ReadinessDue", Restart |-> "RestartDue",
          Stop |-> "StopDue"]
Armed == {d \in Keys \X DOMAIN Timer :
            /\ d[2] \in child[d[1]].timers
            /\ d[2] = "Restart" => child[d[1]].minted < MaxIncarnation}
DueEvent(d) == Ev(Timer[d[2]], d[1], child[d[1]].active)

\* Fault: what a wake leaves in its lanes is lost.
Fault_DropSuffix(arrived) == {}
Uncollected(arrived) == inflight \ arrived

\* A wake takes every request that is due and some of the events in flight:
\* each has a sender of its own (a helper task, a disposal job, a caller's
\* deferred send), so a lane may hold any of them, in any order.
Collect(due, arrived) ==
  /\ Idle
  /\ batch' = RequestEvents \cup arrived \cup {DueEvent(d) : d \in due}
  /\ batch' # {}
  /\ inflight' = Uncollected(arrived)
  /\ child' = [k \in Keys |->
       [child[k] EXCEPT !.timers = {t \in @ : <<k, t>> \notin due}]]
  /\ req' = [req EXCEPT
       !.shutdown = IF @ = "Pending" THEN "Consumed" ELSE @,
       !.force    = IF @ = "Pending" THEN "Consumed" ELSE @,
       !.seen     = @ \cup req.ancestor]
  /\ todo' = <<Do("Batch")>>
  /\ UNCHANGED <<sup, charges, scope, cur, held, running, dyn>>

CollectSome == \E due \in SUBSET Armed, arrived \in SUBSET inflight :
                 Collect(due, arrived)

\* arbitrate: a stable sort by class of a batch that may have arrived in any
\* order, so the next event is any one of the least class.
Dispatching(e) ==
  /\ Calling("Batch") /\ e \in batch
  /\ \A f \in batch : Class[e.type] <= Class[f.type]
  /\ batch' = batch \ {e}
  /\ cur' = e

\* A handler starts: the stack keeps the batch loop underneath.
Handle(calls) ==
  /\ todo' = calls \o todo
  /\ UNCHANGED <<scope, held, running, inflight>>

\* Fault: a batch ends without publishing the removals it held back.
Fault_KeepRemovals ==
  /\ Calling("Batch") /\ batch = {}
  /\ Enter(<<Do("Settle"), Do("Complete")>>)
  /\ cur' = NoEvent
  /\ UNCHANGED <<sup, child, charges, scope, held, batch, running, dyn, req,
                 inflight>>
\* The batch epilogue: settle, publish held removals, take the completion.
BatchEnd ==
  /\ Calling("Batch") /\ batch = {}
  /\ Enter(<<Do("Settle"), Do("PublishRemovals"), Do("Complete")>>)
  /\ cur' = NoEvent
  /\ UNCHANGED <<sup, child, charges, scope, held, batch, running, dyn, req,
                 inflight>>

-----------------------------------------------------------------------------
(* Event handlers. *)

\* Shutdown (accept_shutdown_request) and AncestorShutdown.
HandleShutdown(e) ==
  /\ e.type \in {"Shutdown", "AncestorShutdown"}
  /\ Dispatching(e)
  /\ req' = [req EXCEPT !.seen = @ \cup {"Shutdown"}]
  /\ Handle(<<Verdict("Drain", "ShutdownRequested")>>)
  /\ UNCHANGED <<sup, child, charges, dyn>>

\* force_all, for Force and AncestorAbort.
HandleForce(e) ==
  /\ e.type \in {"Force", "AncestorAbort"}
  /\ Dispatching(e)
  /\ sup' = force(sup)
  /\ IF is_draining(sup) THEN UNCHANGED scope
     ELSE PublishDrain("ShutdownRequested")
  /\ todo' = <<Do("Flush"), Do("Settle")>> \o todo
  /\ UNCHANGED <<held, running, inflight, child, charges, dyn, req>>

\* The readiness gate steps on a signal: only a waiting gate becomes ready.
Signalled(k, i) == Live(k, i) /\ child[k].gate = "Waiting"

handle_ready(e) ==
  LET k == e.child IN
  /\ e.type = "Ready"
  /\ Dispatching(e)
  /\ child' = IF Signalled(k, e.inc) THEN [child EXCEPT ![k].gate = "Ready"]
              ELSE child
  /\ Handle(IF Signalled(k, e.inc) THEN <<On("BecomeReadySettle", {k})>>
            ELSE <<>>)
  /\ UNCHANGED <<sup, charges, dyn, req>>

\* handle_self_stop credits a fired ready latch first, then stops the child
\* if the incarnation is still the live one.
handle_self_stop(e) ==
  LET k == e.child
      credited == Signalled(k, e.inc) /\ child[k].ready
  IN
  /\ e.type = "SelfStop"
  /\ Dispatching(e)
  /\ child' = IF credited THEN [child EXCEPT ![k].gate = "Ready"] ELSE child
  /\ Handle((IF credited THEN <<On("BecomeReadySettle", {k})>> ELSE <<>>)
            \o <<On("SelfStop", {k})>>)
  /\ UNCHANGED <<sup, charges, dyn, req>>

SelfStop ==
  /\ Calling("SelfStop")
  /\ Enter(IF Live(Subject, cur.inc) THEN <<On("StopChild", {Subject})>>
           ELSE <<>>)
  /\ UNCHANGED <<sup, child, charges, scope, cur, held, batch, running, dyn,
                 req, inflight>>

\* handle_exit first lets the exit's readiness sample settle, as if the
\* signal had come before the exit.
handle_exit(e) ==
  LET k == e.child
      waiting == Signalled(k, e.inc)
  IN
  /\ e.type = "Exited"
  /\ Dispatching(e)
  /\ child' = IF waiting
              THEN [child EXCEPT ![k].gate = IF e.seen THEN "Ready"
                                             ELSE "Disarmed"]
              ELSE child
  /\ Handle((IF waiting /\ e.seen THEN <<On("BecomeReadySettle", {k})>>
             ELSE <<>>)
            \o <<On("ExitDispatch", {k})>>)
  /\ UNCHANGED <<sup, charges, dyn, req>>

should_restart(k, failure) ==
  \/ Options[k].restart = "Always"
  \/ Options[k].restart = "OnFailure" /\ failure

\* terminal_startup_disposition = Aborted.
AbortsStartup(s, k) ==
  /\ is_initial(s, k) /\ ~initial_ready(s, k)
  /\ ~startup_complete(s) /\ ~is_draining(s) /\ ~is_removing(s, k)

\* The arena slot once its active incarnation is taken.
Inactive(c) ==
  [c EXCEPT !.active = 0, !.gate = "Disarmed", !.ladder = "None",
            !.timedOut = FALSE, !.ready = FALSE, !.stop = FALSE,
            !.aborted = FALSE, !.timers = @ \ {"Readiness", "Stop"}]

\* schedule_restart: the window forgets aged restarts, then this one counts.
Charge(aged) == charges - aged + 1
Trips(aged) == Charge(aged) > MaxRestarts

\* The rest of handle_exit: removal is sampled once the incarnation is
\* complete, and the dispatch is terminal or schedules a restart.
ExitDispatch ==
  LET k == Subject
      s == Sampled(IncarnationComplete(sup, k), k)
      failure == cur.fail \/ child[k].timedOut
      terminal == \/ is_draining(s) \/ is_removing(s, k)
                  \/ ~should_restart(k, failure)
      idle == Inactive(child[k])
  IN
  /\ Calling("ExitDispatch")
  /\ IF ~Live(k, cur.inc)
     THEN /\ Enter(<<>>)
          /\ UNCHANGED <<sup, child, charges>>
     ELSE IF terminal
     THEN /\ sup' = s
          /\ child' = [child EXCEPT ![k] = idle]
          /\ Enter(<<On(IF AbortsStartup(s, k) THEN "TerminalAborted"
                        ELSE "Terminal", {k})>>)
          /\ UNCHANGED charges
     ELSE \E aged \in 0..charges :
            /\ sup' = RestartPending(s, k)
            /\ charges' = IF Trips(aged) THEN MaxRestarts + 1 ELSE Charge(aged)
            /\ child' = [child EXCEPT ![k] =
                 [idle EXCEPT
                    !.stage = "Restarting",
                    !.timers = IF Trips(aged) \/ ~Options[k].backoff THEN @
                               ELSE @ \cup {"Restart"}]]
            /\ Enter(IF Trips(aged)
                     THEN <<Verdict("Drain", "IntensityTripped")>> ELSE <<>>)
  /\ UNCHANGED <<scope, cur, held, batch, running, dyn, req, inflight>>

HandleConstructionDisposed(e) ==
  /\ e.type = "ConstructionDisposed"
  /\ Dispatching(e)
  /\ Handle(<<On("Disposed", {e.child})>>)
  /\ UNCHANGED <<sup, child, charges, dyn, req>>

\* handle_deadline.  A deadline collected before its incarnation ended, or
\* before the ladder moved on, is stale and changes nothing.
HandleReadinessDue(e) ==
  LET k == e.child IN
  /\ e.type = "ReadinessDue"
  /\ Dispatching(e)
  /\ child' = IF Signalled(k, e.inc)
              THEN [child EXCEPT ![k].gate = IF child[k].ready THEN "Ready"
                                             ELSE "Disarmed"]
              ELSE child
  /\ Handle(IF ~Signalled(k, e.inc) THEN <<>>
            ELSE IF child[k].ready THEN <<On("BecomeReadySettle", {k})>>
            ELSE <<On("StopTimedOut", {k})>>)
  /\ UNCHANGED <<sup, charges, dyn, req>>

HandleRestartDue(e) ==
  /\ e.type = "RestartDue"
  /\ Dispatching(e)
  /\ Handle(IF construction_is_suppressed(e.child) THEN <<>>
            ELSE <<On("StartChild", {e.child}), Do("Settle")>>)
  /\ UNCHANGED <<sup, child, charges, dyn, req>>

\* Fault: escalation arms no further deadline.
Fault_EscalateUnarmed(c) ==
  IF c.ladder = "Cooperative" THEN [c EXCEPT !.ladder = "Escalated"] ELSE c
\* advance_ladder at a stop deadline.
Advance(c) ==
  CASE c.ladder = "Cooperative" ->
         [c EXCEPT !.ladder = "Escalated", !.timers = @ \cup {"Stop"}]
    [] c.ladder = "Escalated" ->
         [c EXCEPT !.ladder = "Finished", !.timers = @ \ {"Stop"},
                   !.aborted = TRUE]
    [] OTHER -> c

HandleStopDue(e) ==
  LET k == e.child IN
  /\ e.type = "StopDue"
  /\ Dispatching(e)
  /\ \/ /\ Live(k, e.inc)
        /\ child' = [child EXCEPT ![k] = Advance(@)]
     \/ /\ ~Live(k, e.inc) \/ "Stop" \in child[k].timers    \* re-armed since
        /\ UNCHANGED child
  /\ Handle(<<>>)
  /\ UNCHANGED <<sup, charges, dyn, req>>

\* handle_removal: the reducer commits the removal and issues its effect.
handle_removal(e) ==
  LET k == e.child IN
  /\ e.type = "Removal"
  /\ Dispatching(e)
  /\ sup' = IF removal_latched(k) THEN RemovalLatched(sup, k) ELSE sup
  /\ Handle(IF removal_latched(k) THEN <<Do("Flush")>> ELSE <<>>)
  /\ UNCHANGED <<child, charges, dyn, req>>

\* handle_admission: refused once draining or failed, and when the caller
\* ended the reservation first; otherwise arena, entry and record change as
\* one, and the child is spawned by a further call.
handle_admission(e) ==
  LET k == sup.minted + 1 IN
  /\ e.type = "Admission"
  /\ Dispatching(e)
  /\ \/ /\ Handle(<<>>)
        /\ UNCHANGED <<sup, child, dyn>>
     \/ /\ ~is_draining(sup) /\ ~startup_failed(sup)
        /\ k \in Keys                                \* bound
        /\ sup' = admit(sup, FALSE)
        /\ child' = [child EXCEPT ![k].stage = "Admitted"]
        /\ dyn' = [dyn EXCEPT ![k].entry = "Resident"]
        /\ Handle(<<On("StartChild", {k})>>)
  /\ UNCHANGED <<charges, req>>

-----------------------------------------------------------------------------
(* The end of the incarnation. *)

\* Drop for ScopeRuntime: entries close, tasks are aborted, members become
\* terminal, residents are cleared, removers are answered, and the stopped
\* state is published.  The lanes and the reducer die with the driver.
Epilogue(r) ==
  /\ child' = [k \in Keys |->
       IF contains(sup, k)
       THEN [child[k] EXCEPT !.active = 0, !.timers = {}, !.built = FALSE,
                             !.aborted = @ \/ child[k].active # 0,
                             !.stage = "Terminal"]
       ELSE child[k]]
  /\ dyn' = [k \in Keys |->
       [dyn[k] EXCEPT !.entry = "None",
                      !.resp = IF @ = "Waiting" THEN "Removed" ELSE @]]
  /\ held' = {}
  /\ scope' = [scope EXCEPT !.state = "Stopped", !.reason = r,
                            !.startup = IF @ = "None" THEN "Shutdown" ELSE @]
  /\ todo' = <<>> /\ cur' = NoEvent
  /\ batch' = {} /\ inflight' = {}
  /\ UNCHANGED <<sup, charges, running, req>>

\* take_completion: return the verdict, or wait for the next wake.
take_completion ==
  /\ Calling("Complete")
  /\ IF scope.finished # NoReason THEN Epilogue(scope.finished)
     ELSE /\ Enter(<<>>)
          /\ UNCHANGED <<sup, child, charges, scope, cur, held, batch,
                         running, dyn, req, inflight>>

\* The driver task is aborted at its await point; the epilogue still runs.
DriverAborted ==
  /\ "AbortDriver" \in Actors
  /\ Idle
  /\ Epilogue(IF is_draining(sup) THEN sup.reason ELSE "ShutdownRequested")

-----------------------------------------------------------------------------
(* The other actors. *)

DriverVars == <<sup, charges, scope, todo, cur, held, batch>>

\* A sender's event, dropped when the driver is gone.
Send(e) == inflight' = IF scope.state = "Stopped" THEN inflight
                       ELSE inflight \cup {e}

\* The body marks itself ready; a gated child's watcher reports it.
MarkReady(k) ==
  /\ k \in running /\ ~child[k].ready /\ Options[k].readiness = "Gated"
  /\ child' = [child EXCEPT ![k].ready = TRUE]
  /\ Send(Ev("Ready", k, child[k].minted))
  /\ UNCHANGED <<DriverVars, running, dyn, req>>

\* The body asks for its own stop; its watcher reports it.
LocalStop(k) ==
  /\ "LocalStop" \in Actors
  /\ k \in running /\ ~child[k].stop
  /\ child' = [child EXCEPT ![k].stop = TRUE]
  /\ Send(Ev("SelfStop", k, child[k].minted))
  /\ UNCHANGED <<DriverVars, running, dyn, req>>

\* The task ends, by itself or aborted; its joiner reports the exit with the
\* readiness it saw at completion.
TaskEnds(k, fail) ==
  /\ k \in running
  /\ running' = running \ {k}
  /\ Send([Ev("Exited", k, child[k].minted) EXCEPT !.fail = fail,
                                                   !.seen = child[k].ready])
  /\ UNCHANGED <<DriverVars, child, dyn, req>>

request_shutdown ==
  /\ "Shutdown" \in Actors
  /\ scope.state # "Stopped" /\ req.shutdown = "None"
  /\ req' = [req EXCEPT !.shutdown = "Pending"]
  /\ UNCHANGED <<DriverVars, child, running, dyn, inflight>>

\* An elapsed shutdown budget escalates.
force_shutdown ==
  /\ "Force" \in Actors
  /\ scope.state # "Stopped" /\ req.shutdown # "None" /\ req.force = "None"
  /\ req' = [req EXCEPT !.force = "Pending"]
  /\ UNCHANGED <<DriverVars, child, running, dyn, inflight>>

\* The parent's ladder fires the latches it shares with a nested driver.
AncestorFires(l) ==
  /\ "Ancestor" \in Actors /\ Role = "Nested" /\ scope.state # "Stopped"
  /\ l \notin req.ancestor
  /\ l = "Abort" => "Shutdown" \in req.ancestor
  /\ req' = [req EXCEPT !.ancestor = @ \cup {l}]
  /\ UNCHANGED <<DriverVars, child, running, dyn, inflight>>

\* remove: one transaction marks the entry and subscribes the caller; the
\* request itself is sent after the gate is released.
remove_dynamic(k) ==
  /\ "Remove" \in Actors
  /\ scope.state \notin {"Draining", "Stopped"}
  /\ dyn[k].entry # "None" /\ dyn[k].resp = "None"
  /\ dyn' = [dyn EXCEPT ![k].entry = "Removing", ![k].resp = "Waiting"]
  /\ IF dyn[k].entry = "Resident" THEN Send(Ev("Removal", k, 0))
     ELSE UNCHANGED inflight
  /\ UNCHANGED <<DriverVars, child, running, req>>

\* A fused admission is cancelled: the latch fires first, the entry is marked
\* in a second step.
FireFusedCancel(k) ==
  /\ "FusedCancel" \in Actors
  /\ dyn[k].entry = "Resident" /\ ~dyn[k].fused /\ k \notin Declared
  /\ dyn' = [dyn EXCEPT ![k].fused = TRUE]
  /\ UNCHANGED <<DriverVars, child, running, req,
                 inflight>>
signal_fused_cancel(k) ==
  /\ dyn[k].entry = "Resident" /\ dyn[k].fused
  /\ dyn' = [dyn EXCEPT ![k].entry = "Removing"]
  /\ Send(Ev("Removal", k, 0))
  /\ UNCHANGED <<DriverVars, child, running, req>>

\* A reservation exists and its admission is queued.
start_admission ==
  /\ "Admit" \in Actors
  /\ Flavor = "Dynamic" /\ scope.state \in {"Starting", "Running"}
  /\ sup.minted < MaxKey                             \* bound
  /\ Ev("Admission", NoKey, 0) \notin inflight        \* bound
  /\ Send(Ev("Admission", NoKey, 0))
  /\ UNCHANGED <<DriverVars, child, running, dyn, req>>

\* Nothing is left to happen.
Quiescent ==
  /\ scope.state = "Stopped" /\ running = {}
  /\ UNCHANGED vars

-----------------------------------------------------------------------------
(* The specification. *)

Handlers(e) ==
  \/ HandleShutdown(e) \/ HandleForce(e) \/ handle_ready(e)
  \/ handle_self_stop(e) \/ handle_exit(e) \/ HandleConstructionDisposed(e)
  \/ HandleReadinessDue(e) \/ HandleRestartDue(e) \/ HandleStopDue(e)
  \/ handle_removal(e) \/ handle_admission(e)

Execute ==
  \/ Start \/ Flush \/ settle_supervisor \/ SettleAgain
  \/ publish_startup_complete \/ RecordFinished \/ spawn_child
  \/ ApplyImmediateReadiness \/ ApplyGatedReadiness
  \/ begin_stop_child \/ StopTimedOut \/ force_child \/ ForceLadder
  \/ Terminal \/ TerminalAborted \/ FailStartup \/ PublishFailed \/ Release
  \/ Disposed \/ prune_terminal \/ finalize_removal
  \/ publish_startup_removals \/ begin_drain_transition \/ SelfStop
  \/ ExitDispatch \/ BatchEnd \/ take_completion
  \/ \E e \in batch : Handlers(e)

Environment ==
  \/ \E k \in Keys : \/ MarkReady(k) \/ LocalStop(k)
                     \/ \E fail \in BOOLEAN : TaskEnds(k, fail)
                     \/ remove_dynamic(k)
                     \/ FireFusedCancel(k) \/ signal_fused_cancel(k)
  \/ request_shutdown \/ force_shutdown \/ start_admission
  \/ \E l \in {"Shutdown", "Abort"} : AncestorFires(l)

Next == Execute \/ CollectSome \/ DriverAborted \/ Environment \/ Quiescent

Spec == Init /\ [][Next]_vars

-----------------------------------------------------------------------------
(* Fairness.  The driver task is scheduled; every sender eventually gets    *)
(* its event into a wake (lanes are bounded per wake, so traffic on one     *)
(* cannot starve another); stop deadlines elapse; an aborted task ends.     *)

CollectEvent(t, k) ==
  \E due \in SUBSET Armed, arrived \in SUBSET inflight :
    /\ \E e \in arrived : e.type = t /\ e.child = k
    /\ Collect(due, arrived)
CollectStopDue(k) ==
  \E due \in SUBSET Armed, arrived \in SUBSET inflight :
    /\ <<k, "Stop">> \in due
    /\ Collect(due, arrived)
AbortedTaskEnds(k) ==
  child[k].aborted /\ \E fail \in BOOLEAN : TaskEnds(k, fail)

Fairness ==
  /\ WF_vars(Execute)
  /\ WF_vars(CollectSome /\ req' # req)
  /\ \A k \in Keys :
       /\ \A t \in {"Removal", "Exited", "ConstructionDisposed"} :
            SF_vars(CollectEvent(t, k))
       /\ SF_vars(CollectStopDue(k))
       /\ WF_vars(AbortedTaskEnds(k))

FairSpec == Spec /\ Fairness

-----------------------------------------------------------------------------
(* Properties. *)

\* The shell and the reducer describe the same incarnation: a child has a live
\* ActiveChild exactly while its reducer state is Active or Stopping, and a
\* stop ladder exactly while it is Stopping.  spawn_child, begin_stop_child and
\* handle_exit update the two separately.
ReducerAgrees ==
  scope.state # "Stopped" =>
    \A k \in Keys : contains(sup, k) =>
      /\ child[k].active # 0 <=> sup.inc[k] \in {"Active", "Stopping"}
      /\ child[k].ladder # "None" <=> sup.inc[k] = "Stopping"

\* No assert!, debug_assert! or arena index of the driver fails, whatever
\* order calls and latches come in: member-stage transitions start from a
\* legal stage, disposal and release edges land in the reducer, reclaim sees a
\* joined child, and a removal is finalized for a registered child.
DriverAssertions ==
  LET k == Subject
      live == child[k].active # 0
  IN
  /\ Calling("StartChild") /\ ~removal_latched(k) /\ ~live
       /\ ~is_draining(sup) /\ is_incomplete(sup, k) /\ ~is_disposing(sup, k)
     => child[k].stage \in {"Admitted", "Restarting"} /\ startable(sup, k)
  /\ todo # <<>> /\ Head(todo).op \in {"BecomeReady", "BecomeReadySettle"}
       /\ ~removal_latched(k)
     => live /\ child[k].stage = "Starting"
  /\ todo # <<>> /\ Head(todo).op \in {"StopChild", "StopTimedOut"}
       /\ live /\ child[k].ladder = "None"
     => child[k].stage \in {"Starting", "Running"}
  /\ Calling("StopTimedOut") => live /\ child[k].ladder = "None"
  /\ Calling("ExitDispatch") /\ Live(k, cur.inc)
     => child[k].stage \in {"Starting", "Running", "Stopping"}
  /\ todo # <<>> /\ Head(todo).op \in {"Terminal", "TerminalAborted"}
       /\ is_incomplete(sup, k) /\ ~is_disposing(sup, k)
     => is_disposing(DisposalStarted(sup, k), k) /\ ~live
  /\ Calling("FailStartup") => contains(sup, k)
  /\ Calling("Prune") => joined(sup, k)
  /\ Calling("FinalizeRemoval") /\ Flavor = "Dynamic" => joined(sup, k)

\* A task that runs is the live incarnation of its child, and the exit of a
\* live incarnation is always still to be handled: spawned tasks never
\* overlap and no exit is lost between the joiner, a batch and its handler.
ExitsAccounted ==
  scope.state # "Stopped" =>
    \A k \in Keys :
      /\ k \in running => child[k].active = child[k].minted /\ child[k].active # 0
      /\ child[k].active # 0 =>
           \/ k \in running
           \/ \E e \in inflight \cup batch \cup
                     (IF \E i \in DOMAIN todo : todo[i].op = "ExitDispatch"
                      THEN {cur} ELSE {}) :
                e.type = "Exited" /\ e.child = k /\ e.inc = child[k].active

\* An ordered scope that was not forced stops a child only once every later
\* child has joined (settle_ordered_stop); a child's own stop is no drain step.
OrderedTeardown ==
  /\ Calling("StopChild") /\ Flavor = "Ordered" /\ is_draining(sup)
  /\ ~sup.forced /\ cur.type # "SelfStop"
  => \A j \in Keys : j > Subject => ~is_incomplete(sup, j)

\* A scope that decided to finish has joined every child and runs no task
\* (settle_finish reads the reducer, the tasks are the shell's).
FinishedMeansJoined ==
  scope.finished # NoReason =>
    /\ \A k \in Keys : contains(sup, k) => sup.inc[k] = "Joined"
    /\ running = {}

\* The driver waits only at a fixed point: nothing is left to execute, to
\* settle or to publish, no removal answer is held back (the claim of Drop for
\* ScopeRuntime on pending_startup_removals), and the published state is the
\* reducer's.
WaitsSettled ==
  Idle => /\ sup.effects = <<>> /\ Settle(sup).effects = <<>>
          /\ held = {} /\ batch = {}
          /\ scope.state = sup.phase
          /\ charges > MaxRestarts => is_draining(sup)

\* A reported startup failure is never ahead of its child: the verdict Failed
\* is published only once an initial child is terminal that never was ready.
FailureHasCause ==
  scope'.startup = "Failed" /\ scope.startup = "None" =>
    \E k \in Keys : /\ child[k].stage = "Terminal"
                    /\ is_initial(sup, k) /\ ~initial_ready(sup, k)

\* Startup completes only when every initial child still a member has run and
\* its incarnation, if live, is past its readiness gate; and an ordered child
\* first starts only after its predecessors did and each was ready, has been
\* restarted or is waiting for its restart.
StartupStep ==
  /\ scope'.startup = "Ok" /\ scope.startup = "None" =>
       \A k \in Keys : is_initial(sup, k) =>
         /\ sup.inc[k] \notin {"Unstarted", "RestartPending"}
         /\ sup.inc[k] = "Active" => child[k].gate # "Waiting"
  /\ Flavor = "Ordered" =>
       \A k \in running' \ running : child[k].minted = 0 =>
         \A j \in 1..(k - 1) :
           /\ sup.spawned[j]
           /\ \/ sup.startup[j] = "Ready" \/ child[j].minted > 1
              \/ sup.inc[j] = "RestartPending"

\* A remover is answered Removed only when the child's entry is gone, its
\* member is terminal, no task of it runs that was not aborted with the
\* driver, and startup has already been recomputed without the child.  A
\* scope stops, its driver finished or dropped, with nobody left waiting, no
\* entry, and no task that was not aborted (Drop for ScopeRuntime).
RemovedMeansGone ==
  [][\A k \in Keys :
       /\ dyn'[k].resp = "Removed" /\ dyn[k].resp # "Removed" =>
            /\ dyn'[k].entry = "None" /\ child'[k].stage = "Terminal"
            /\ k \in running => child'[k].aborted
            /\ ~(is_starting(sup) /\ Settle(sup).phase = "Running")
       /\ scope'.state = "Stopped" =>
            /\ dyn'[k].entry = "None" /\ dyn'[k].resp # "Waiting"
            /\ k \in running' => child'[k].aborted]_vars

\* A requested shutdown stops the scope.
ShutdownStops == req.shutdown = "Pending" ~> scope.state = "Stopped"

\* Every remover is answered.
RemovalAnswered ==
  \A k \in Keys : dyn[k].resp = "Waiting" ~> dyn[k].resp = "Removed"
=============================================================================
