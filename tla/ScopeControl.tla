----------------------------- MODULE ScopeControl -----------------------------
(***************************************************************************)
(* Incarnations of one scope under concurrent stop requests.  Composes the *)
(* restart-stable cell of module ScopeCell with everyone who drives it:    *)
(*                                                                         *)
(*   - its owner: for a nested scope the parent's driver loop              *)
(*     (driver/{spawn,child,stop,events}.rs); for the root the join        *)
(*     monitor and the runtime that may be torn down (driver/system.rs);   *)
(*   - its body: the task that runs an incarnation                         *)
(*     (driver/{nested,incarnation,shutdown}.rs), with one child, "kid";   *)
(*   - callers of shutdown_and_wait (driver/shutdown.rs) and one observer  *)
(*     of wait_stopped (cells/scope/publication.rs).                       *)
(*                                                                         *)
(* A step is one critical section, or the run of code up to the next one.  *)
(* Tokio may drop a task only where it awaits: "Launched" (never polled),  *)
(* "Lowering" and "Loop" are the body's await points.                      *)
(***************************************************************************)
EXTENDS ScopeCell

CONSTANTS
  Callers,      \* tasks that call shutdown_and_wait
  Observer,     \* the task that calls wait_stopped
  Roles         \* which of "Nested" and "Root" the behaviours cover

VARIABLES
  role,     \* "Nested" or "Root"
  policy,   \* the restart condition of the nested scope's child options
  cell,     \* the scope's ScopeCell
  owner,    \* the parent driver, or the root's monitor
  events,   \* window stops queued for the parent (take_control_events)
  body,     \* the task of the current incarnation
  kid,      \* the scope's only child
  calls,    \* the callers of shutdown_and_wait
  seen,     \* the observer of wait_stopped
  early     \* history: epochs whose stop was accepted before they began

vars == <<role, policy, cell, owner, events, body, kid, calls, seen, early>>
constant == <<role, policy>>

Policies == {"Always", "OnFailure", "Never"}

BodyPcs == {"None", "Launched", "Polling", "Begun", "Entry", "Lowering",
            "Verdict", "Loop", "Epilogue", "Exited"}

NoBody ==
  [pc |-> "None", epoch |-> NoEpoch, drain |-> NoReason, framework |-> FALSE,
   forced |-> FALSE, killed |-> FALSE, overlap |-> FALSE, exit |-> "None"]
NoKid == [epoch |-> NoEpoch, stage |-> "Absent", pending |-> FALSE,
          built |-> FALSE]
NoCall == [pc |-> "Idle", epoch |-> NoEpoch, marker |-> FALSE,
           sample |-> NoEpoch, straggler |-> FALSE]

Init ==
  /\ role \in Roles
  /\ policy \in (IF role = "Nested" THEN Policies ELSE {"Never"})
  /\ cell = [NewCell EXCEPT !.stage = IF role = "Nested" THEN "Admitted"
                                      ELSE "Reserved"]
  /\ owner = [mode |-> "Up", active |-> role = "Root", ran |-> FALSE,
              live |-> role = "Nested", restart |-> FALSE, read |-> NoEpoch,
              reason |-> NoReason, cancelled |-> FALSE]
  /\ events = {}
  /\ body = IF role = "Root" THEN [NoBody EXCEPT !.pc = "Launched"] ELSE NoBody
  /\ kid = NoKid
  /\ calls = [c \in Callers |-> NoCall]
  /\ seen = [pc |-> "Idle", reason |-> NoReason]
  /\ early = {}

-----------------------------------------------------------------------------
(* The parent driver. *)

should_restart(failed) ==
  policy = "Always" \/ (policy = "OnFailure" /\ failed)
restarts_a_stopped_incarnation == should_restart(FALSE)

construction_is_suppressed == owner.mode # "Up"

\* terminate_inactive and the publication half of begin_terminal_disposal.
Retired == [owner EXCEPT !.live = FALSE, !.active = FALSE, !.restart = FALSE]
terminate_inactive ==
  /\ cell' = terminalize_child(cell, owner.ran)
  /\ owner' = Retired

\* spawn_child of the initial start, or of the restart deadline's arm in
\* handle_deadline, which drops a deadline that a stop suppresses.
\* Launching needs an epoch below MaxEpoch for the body to mint.
spawn_child ==
  /\ role = "Nested" /\ owner.live /\ ~owner.active
  /\ owner.mode = "Up" /\ (owner.restart \/ ~owner.ran)
  /\ IF refuses_start(cell, restarts_a_stopped_incarnation)
     THEN terminate_inactive /\ body' = NoBody
     ELSE /\ start_scope_child(cell).last < MaxEpoch
          /\ cell' = start_scope_child(cell)
          /\ owner' = [owner EXCEPT !.active = TRUE, !.ran = TRUE,
                                    !.restart = FALSE]
          /\ body' = [NoBody EXCEPT !.pc = "Launched"]
  /\ UNCHANGED <<constant, events, kid, calls, seen, early>>

DropSuppressedRestart ==
  /\ owner.restart /\ construction_is_suppressed
  /\ owner' = [owner EXCEPT !.restart = FALSE]
  /\ UNCHANGED <<constant, cell, events, body, kid, calls, seen, early>>

\* The execution-time decision of resolve_window_stop, on the cell c and the
\* owner o that the handler has left so far.
resolves(c, o, e) ==
  /\ o.live /\ ~o.active /\ o.mode = "Up"
  /\ pending_incarnation_shutdown(c) = e
\* Fault: a stop in the restart window is left to the next incarnation.
Fault_ResolveNothing(c, o, e) == [cell |-> c, owner |-> o]
resolve_window_stop(c, o, e) ==
  IF ~resolves(c, o, e) THEN [cell |-> c, owner |-> o]
  ELSE IF restarts_a_stopped_incarnation
  THEN [cell |-> vacate_pending_shutdown(c, e), owner |-> o]
  ELSE IF o.ran
  THEN [cell |-> terminalize_child(c, TRUE),
        owner |-> [o EXCEPT !.live = FALSE, !.restart = FALSE]]
  ELSE [cell |-> c, owner |-> o]

HandleWindowStop ==
  /\ owner.mode \in {"Up", "Latched", "Draining"}
  /\ \E e \in events :
       LET r == resolve_window_stop(cell, owner, e)
       IN /\ cell' = r.cell
          /\ owner' = r.owner
          /\ events' = events \ {e}
  /\ UNCHANGED <<constant, body, kid, calls, seen, early>>

\* handle_exit: dispatch by policy, then look again at a stop that reached
\* the window while the incarnation was still active.  A restart may trip
\* the parent's intensity, which drains the parent.
handle_exit ==
  /\ role = "Nested" /\ owner.active /\ body.pc = "Exited"
  /\ owner.mode \in {"Up", "Latched", "Draining"}
  /\ \E trip \in BOOLEAN :
       LET again == owner.mode # "Draining"
                    /\ should_restart(body.exit # "Completed")
           c == IF again
                THEN PulseMember([cell EXCEPT !.stage = "Restarting"])
                ELSE terminalize_child(cell, TRUE)
           o == IF again
                THEN [owner EXCEPT !.active = FALSE, !.restart = ~trip,
                                   !.mode = IF trip THEN "Draining" ELSE @]
                ELSE Retired
           r == resolve_window_stop(c, o, pending_incarnation_shutdown(c))
       IN cell' = r.cell /\ owner' = r.owner
  /\ body' = NoBody
  /\ UNCHANGED <<constant, events, kid, calls, seen, early>>

\* The parent's own stop is latched, then drains it; until the drain begins
\* the latch only suppresses construction.
LatchParentStop ==
  /\ role = "Nested" /\ owner.mode = "Up"
  /\ owner' = [owner EXCEPT !.mode = "Latched"]
  /\ UNCHANGED <<constant, cell, events, body, kid, calls, seen, early>>
DrainParent ==
  /\ owner.mode = "Latched"
  /\ owner' = [owner EXCEPT !.mode = "Draining"]
  /\ UNCHANGED <<constant, cell, events, body, kid, calls, seen, early>>

\* begin_stop_child: a live body is signalled, an absent one terminalized.
begin_stop_child ==
  /\ owner.mode = "Draining" /\ owner.live
  /\ IF owner.active
     THEN /\ ~body.framework
          /\ body' = [body EXCEPT !.framework = TRUE]
          /\ UNCHANGED <<cell, owner>>
     ELSE terminate_inactive /\ UNCHANGED body
  /\ UNCHANGED <<constant, events, kid, calls, seen, early>>

\* advance_ladder: the framework-abort edge, then the task abort.
AbortFramework ==
  /\ role = "Nested" /\ owner.active /\ body.framework /\ ~body.forced
  /\ body' = [body EXCEPT !.forced = TRUE]
  /\ UNCHANGED <<constant, cell, owner, events, kid, calls, seen, early>>
AbortTask ==
  /\ role = "Nested" /\ owner.active /\ body.forced /\ body.framework
  /\ ~body.killed
  /\ body' = [body EXCEPT !.killed = TRUE]
  /\ UNCHANGED <<constant, cell, owner, events, kid, calls, seen, early>>

\* The parent driver is destroyed (ScopeRuntime::drop): the body's task is
\* aborted and the membership's terminality discharged on the spot.
DropParent ==
  /\ role = "Nested" /\ owner.mode # "Gone"
  /\ owner' = [Retired EXCEPT !.mode = "Gone"]
  /\ cell' = IF owner.ran THEN terminalize_child(cell, TRUE)
             ELSE terminalize_never_started(cell)
  /\ body' = [body EXCEPT !.framework = TRUE, !.forced = TRUE,
                          !.killed = TRUE, !.overlap = body.pc = "Polling"]
  /\ events' = {}
  /\ UNCHANGED <<constant, kid, calls, seen, early>>

-----------------------------------------------------------------------------
(* The root's join monitor, and the teardown of its runtime. *)

stop_reason_into_exit(r) ==
  IF r \in {"Finished", "ShutdownRequested"} THEN "Completed" ELSE "Failed"

\* monitor_root_driver on the driver's join, or MonitorFence::drop on
\* teardown.  finish_live_root_incarnation samples the live epoch first ...
SampleLiveEpoch ==
  /\ role = "Root" /\ owner.mode = "Up"
  /\ \E cancelled \in BOOLEAN :
       /\ IF cancelled THEN body.killed ELSE body.pc = "Exited"
       /\ owner' = [owner EXCEPT !.mode = "Publishing", !.read = cell.live,
                      !.cancelled = cancelled,
                      !.reason = IF ~cancelled /\ body.exit \in StopReasons
                                 THEN body.exit ELSE "ShutdownRequested"]
  /\ UNCHANGED <<constant, cell, events, body, kid, calls, seen, early>>
\* ... and publishes against that sample in a later transaction.  On teardown
\* it can precede the driver's own epilogue, even its first transaction, or be
\* overtaken by that epilogue.
finish_live_root_incarnation ==
  /\ owner.mode = "Publishing"
  /\ cell' = IF owner.read = NoEpoch THEN finish_idle_root(cell, owner.reason)
             ELSE finish_incarnation(cell, owner.read, owner.reason, TRUE)
  /\ owner' = [owner EXCEPT !.mode = "Gone", !.read = NoEpoch]
  /\ body' = [body EXCEPT !.overlap = \/ @
                                     \/ body.pc \notin {"Launched", "Exited"}
                                     \/ owner.read # NoEpoch]
  /\ UNCHANGED <<constant, events, kid, calls, seen, early>>

\* SystemRun::join_driver finds the monitor cancelled and publishes again.
SelfHeal ==
  /\ role = "Root" /\ owner.mode = "Gone" /\ owner.cancelled
  /\ owner' = [owner EXCEPT !.mode = "Publishing", !.read = cell.live,
                            !.reason = "ShutdownRequested",
                            !.cancelled = FALSE]
  /\ UNCHANGED <<constant, cell, events, body, kid, calls, seen, early>>

TearDownRuntime ==
  /\ role = "Root" /\ ~body.killed /\ body.pc # "Exited"
  /\ body' = [body EXCEPT !.killed = TRUE]
  /\ UNCHANGED <<constant, cell, owner, events, kid, calls, seen, early>>

-----------------------------------------------------------------------------
(* The body. *)

BodyStep(pc, new) == body.pc = pc /\ body' = new
AtEpoch == body.epoch

FirstPoll ==
  /\ ~body.killed
  /\ BodyStep("Launched", [body EXCEPT !.pc = "Polling"])
  /\ UNCHANGED <<constant, cell, owner, events, kid, calls, seen, early>>

\* A body that is dropped unpolled: the start obligation of a nested scope,
\* the drop of a root's plan.
DropUnpolled ==
  /\ body.killed
  /\ BodyStep("Launched", [body EXCEPT !.pc = "Exited", !.exit = "Aborted"])
  /\ cell' = IF role = "Nested" THEN close_never_started_body(cell)
             ELSE terminalize_never_started(cell)
  /\ UNCHANGED <<constant, owner, events, kid, calls, seen, early>>

Begin ==
  /\ may_begin(cell)
  /\ BodyStep("Polling", [body EXCEPT !.pc = "Begun", !.epoch = after(cell)])
  /\ cell' = begin_incarnation(cell)
  /\ UNCHANGED <<constant, owner, events, kid, calls, seen, early>>

\* The epoch guard's or the runtime's last act.
Finish(r, exit) ==
  /\ cell' = finish_incarnation(cell, AtEpoch, r, FALSE)
  /\ body' = [body EXCEPT !.pc = "Exited", !.exit = exit]
  /\ kid' = NoKid

\* The first poll goes on: a root promotes its reservation, and finishes if
\* its membership is already terminal; a nested scope's factory may panic,
\* and lowering may fail; otherwise the children are transferred.
RefusedRoot ==
  /\ role = "Root" /\ body.pc = "Begun" /\ membership_terminal(cell)
  /\ Finish("ShutdownRequested", "Aborted")
  /\ UNCHANGED <<constant, owner, events, calls, seen, early>>
FactoryPanics ==
  /\ role = "Nested" /\ body.pc = "Begun"
  /\ Finish("ShutdownRequested", "Panicked")
  /\ UNCHANGED <<constant, owner, events, calls, seen, early>>
LoweringFails ==
  /\ role = "Nested"
  /\ BodyStep("Begun", [body EXCEPT !.pc = "Lowering"])
  /\ UNCHANGED <<constant, cell, owner, events, kid, calls, seen, early>>
TransferChildren ==
  /\ role = "Root" => ~membership_terminal(cell)
  /\ BodyStep("Begun", [body EXCEPT !.pc = "Entry"])
  /\ cell' = IF role = "Root" THEN PulseMember([cell EXCEPT !.stage = "Running"])
             ELSE cell
  /\ kid' = [NoKid EXCEPT !.epoch = AtEpoch, !.stage = "Inactive"]
  /\ UNCHANGED <<constant, owner, events, calls, seen, early>>

\* The lowering failure's verdict: a stop of any source outranks it.  The
\* startup result and the finish are two transactions.
LoweringVerdict ==
  /\ body.pc = "Lowering" /\ ~body.killed
  /\ LET r == IF has_stop_request(cell, AtEpoch) \/ body.framework
              THEN "ShutdownRequested" ELSE "StartupFailed"
     IN body' = [body EXCEPT !.pc = "Verdict", !.drain = r]
  /\ cell' = set_startup(cell, "Err")
  /\ UNCHANGED <<constant, owner, events, kid, calls, seen, early>>
LoweringFinish ==
  /\ body.pc = "Verdict"
  /\ Finish(body.drain, stop_reason_into_exit(body.drain))
  /\ UNCHANGED <<constant, owner, events, calls, seen, early>>
DropLowering ==
  /\ body.pc = "Lowering" /\ body.killed
  /\ Finish("ShutdownRequested", "Aborted")
  /\ UNCHANGED <<constant, owner, events, calls, seen, early>>

higher(old, new) ==
  IF old = NoReason THEN new
  ELSE IF stop_reason_precedence[new] > stop_reason_precedence[old]
       THEN new ELSE old

\* begin_drain_transition: the Draining edge and the pending-disposal marker
\* of a child that was never started commit together.
begin_drain(b, k, c, r) ==
  [body |-> [b EXCEPT !.drain = higher(@, r)],
   kid  |-> IF b.drain = NoReason /\ k.stage = "Inactive"
            THEN [k EXCEPT !.pending = TRUE] ELSE k,
   cell |-> IF b.drain = NoReason THEN publish_drain(c) ELSE c]

takes(req) == unconsumed(req, AtEpoch)
take_shutdown_request(c) == [c EXCEPT !.shutdown.consumed = TRUE]
take_force_request(c)    == [c EXCEPT !.force.consumed = TRUE]

Drain(b, c, r) ==
  LET d == begin_drain(b, kid, c, r)
  IN body' = d.body /\ kid' = d.kid /\ cell' = d.cell

Started(k) == [k EXCEPT !.stage = "Active", !.built = TRUE]

\* The entry of run_scope_incarnation: a request latched before the first
\* settlement is consumed ahead of it, so nothing is constructed.  The first
\* settlement may leave the child for a later one (an ordered start).
\* Fault: the first settlement runs ahead of the latched request.
Fault_SettleFirst ==
  /\ body.pc = "Entry"
  /\ body' = [body EXCEPT !.pc = "Loop"]
  /\ kid' = Started(kid)
  /\ UNCHANGED <<cell, constant, owner, events, calls, seen, early>>
Enter ==
  /\ body.pc = "Entry"
  /\ IF takes(cell.shutdown)
     THEN Drain([body EXCEPT !.pc = "Loop"], take_shutdown_request(cell),
                "ShutdownRequested")
     ELSE /\ body' = [body EXCEPT !.pc = "Loop"]
          /\ kid' \in {kid, Started(kid)}
          /\ UNCHANGED cell
  /\ UNCHANGED <<constant, owner, events, calls, seen, early>>

InLoop == body.pc = "Loop" /\ ~body.killed

StartKid ==
  /\ InLoop /\ kid.stage = "Inactive" /\ body.drain = NoReason
  /\ kid' = Started(kid)
  /\ UNCHANGED <<constant, cell, owner, events, body, calls, seen, early>>

PublishStarted ==
  /\ InLoop /\ kid.stage = "Active" /\ body.drain = NoReason
  /\ cell.state = "Starting"
  /\ cell' = set_state(set_startup(cell, "Ok"), "Running")
  /\ UNCHANGED <<constant, owner, events, body, kid, calls, seen, early>>

AcceptShutdown ==
  /\ InLoop /\ takes(cell.shutdown)
  /\ Drain(body, take_shutdown_request(cell), "ShutdownRequested")
  /\ UNCHANGED <<constant, owner, events, calls, seen, early>>
AncestorShutdown ==
  /\ InLoop /\ body.framework /\ body.drain # "ShutdownRequested"
  /\ Drain(body, cell, "ShutdownRequested")
  /\ UNCHANGED <<constant, owner, events, calls, seen, early>>
\* force_all: a drain it enters is a requested one.
AcceptForce ==
  /\ InLoop /\ takes(cell.force)
  /\ LET d == begin_drain([body EXCEPT !.forced = TRUE], kid,
                          take_force_request(cell), "ShutdownRequested")
     IN body' = d.body /\ kid' = d.kid /\ cell' = d.cell
  /\ UNCHANGED <<constant, owner, events, calls, seen, early>>

\* The child exits: cleanly, or with the failure that drains its scope.
KidExits ==
  /\ InLoop /\ kid.stage = "Active"
  /\ kid' = [kid EXCEPT !.stage = "Terminal"]
  /\ \/ /\ body.drain # NoReason \/ cell.state = "Running"
        /\ UNCHANGED <<cell, body>>
     \/ /\ body.drain = NoReason
        /\ LET r == IF cell.state = "Starting" THEN "StartupFailed"
                    ELSE "IntensityTripped"
               d == begin_drain(body, [kid EXCEPT !.stage = "Terminal"], cell, r)
           IN body' = d.body /\ cell' = d.cell
  /\ UNCHANGED <<constant, owner, events, calls, seen, early>>

\* A child that drain entry found inactive: publish_terminal commits the
\* terminal stage, and only then clears the marker.
\* Fault: the marker is cleared ahead of the terminal stage.
Fault_ClearFirst ==
  /\ InLoop /\ kid.stage = "Inactive" /\ body.drain # NoReason
  /\ kid' = IF kid.pending THEN [kid EXCEPT !.pending = FALSE]
            ELSE [kid EXCEPT !.stage = "Terminal"]
  /\ UNCHANGED <<constant, cell, owner, events, body, calls, seen, early>>
PublishTerminal ==
  /\ InLoop /\ kid.stage = "Inactive" /\ body.drain # NoReason
  /\ kid' = [kid EXCEPT !.stage = "Terminal"]
  /\ UNCHANGED <<constant, cell, owner, events, body, calls, seen, early>>
ClearMarker ==
  /\ InLoop /\ kid.stage = "Terminal" /\ kid.pending
  /\ kid' = [kid EXCEPT !.pending = FALSE]
  /\ UNCHANGED <<constant, cell, owner, events, body, calls, seen, early>>

\* finish_if_ready, then ScopeRuntime's epilogue.
Complete ==
  /\ InLoop /\ kid.stage = "Terminal" /\ ~kid.pending
  /\ body.drain # NoReason \/ cell.state = "Running"
  /\ body' = [body EXCEPT !.pc = "Epilogue",
                          !.drain = IF @ = NoReason THEN "Finished" ELSE @]
  /\ UNCHANGED <<constant, cell, owner, events, kid, calls, seen, early>>
Epilogue ==
  /\ body.pc = "Epilogue"
  /\ Finish(body.drain, IF role = "Root" THEN body.drain
                        ELSE stop_reason_into_exit(body.drain))
  /\ UNCHANGED <<constant, owner, events, calls, seen, early>>

\* The loop's task is dropped: its children are discharged, then the scope.
\* ScopeRuntime::drop
DropLoop ==
  /\ body.pc = "Loop" /\ body.killed
  /\ kid.stage # "Terminal" /\ kid' = [kid EXCEPT !.stage = "Terminal"]
  /\ UNCHANGED <<constant, cell, owner, events, body, calls, seen, early>>
DropLoopEpilogue ==
  /\ body.pc = "Loop" /\ body.killed /\ kid.stage = "Terminal"
  /\ Finish(IF body.drain = NoReason THEN "ShutdownRequested" ELSE body.drain,
            "Aborted")
  /\ UNCHANGED <<constant, owner, events, calls, seen, early>>

-----------------------------------------------------------------------------
(* shutdown_and_wait (shutdown_scope). *)

CallStep(c, from, new) == calls[c].pc = from /\ calls' = [calls EXCEPT ![c] = new]
consume(c, w) == [c EXCEPT !.signal = @ \ {w}]

\* Accepting a request and queueing its event for the parent are one
\* transaction.
AcceptRequest ==
  /\ request_target(cell) <= MaxEpoch
  /\ cell' = request_shutdown(cell)
  /\ events' = IF role = "Nested" /\ notifies_parent(cell)
                  /\ owner.mode # "Gone"
               THEN events \cup {request_target(cell)} ELSE events
  /\ early' = IF idle(cell) THEN early \cup {request_target(cell)} ELSE early
  /\ UNCHANGED <<constant, owner, body, kid, seen>>

\* ScopeRef::request_shutdown, from a handle that does not wait.
FireAndForget == AcceptRequest /\ UNCHANGED calls

\* The early exit, else the request.  The wait has subscribed before its
\* first look at the record.
RequestStop(c) ==
  /\ ~settled(cell, NoEpoch)
  /\ AcceptRequest
  /\ CallStep(c, "Idle", [NoCall EXCEPT !.pc = "Subscribe",
                                        !.epoch = request_target(cell)])

Subscribe(c) ==
  /\ CallStep(c, "Subscribe", [calls[c] EXCEPT !.pc = "Check"])
  /\ cell' = consume(cell, c)
  /\ UNCHANGED <<constant, owner, events, body, kid, seen, early>>

Returned(call) == [NoCall EXCEPT !.pc = "Done", !.epoch = call.epoch,
                                 !.straggler = call.straggler]
Check(c) ==
  /\ CallStep(c, "Check",
       IF settled(cell, calls[c].epoch) THEN Returned(calls[c])
       ELSE [calls[c] EXCEPT !.pc = IF cell.state = "Draining" THEN "Budget"
                                    ELSE "Parked"])
  /\ UNCHANGED <<constant, cell, owner, events, body, kid, seen, early>>
Woken(c) ==
  /\ c \in cell.signal
  /\ \/ CallStep(c, "Parked", [calls[c] EXCEPT !.pc = "Check"])
     \/ CallStep(c, "Joining", [calls[c] EXCEPT !.pc = "Join"])
  /\ cell' = consume(cell, c)
  /\ UNCHANGED <<constant, owner, events, body, kid, seen, early>>

\* The drain budget: the incarnation settles within it, or it elapses.  A
\* zero budget elapses at once.  The wait inside it re-checks on every pulse;
\* only its verdict matters here.
SettledInBudget(c) ==
  /\ settled(cell, calls[c].epoch)
  /\ CallStep(c, "Budget", Returned(calls[c]))
  /\ UNCHANGED <<constant, cell, owner, events, body, kid, seen, early>>

\* collect_stragglers: the resident child's marker is read first, then its
\* stage (terminal_or_disposal_pending).
ReadMarker(c) ==
  /\ CallStep(c, "Budget",
       [calls[c] EXCEPT !.pc = "Sample", !.sample = kid.epoch,
                        !.marker = kid.pending])
  /\ UNCHANGED <<constant, cell, owner, events, body, kid, seen, early>>
ReadStage(c) ==
  /\ CallStep(c, "Sample",
       [calls[c] EXCEPT !.pc = "Force", !.marker = FALSE, !.sample = NoEpoch,
          !.straggler = /\ ~calls[c].marker
                        /\ calls[c].sample = kid.epoch
                        /\ kid.stage \notin {"Terminal", "Absent"}])
  /\ UNCHANGED <<constant, cell, owner, events, body, kid, seen, early>>

Force(c) ==
  /\ CallStep(c, "Force", [calls[c] EXCEPT !.pc = "Join"])
  /\ cell' = consume(force_shutdown(cell, calls[c].epoch), c)
  /\ UNCHANGED <<constant, owner, events, body, kid, seen, early>>
Join(c) ==
  /\ CallStep(c, "Join",
       IF settled(cell, calls[c].epoch) THEN Returned(calls[c])
       ELSE [calls[c] EXCEPT !.pc = "Joining"])
  /\ UNCHANGED <<constant, cell, owner, events, body, kid, seen, early>>

-----------------------------------------------------------------------------
(* wait_stopped: the membership's terminality, then the record. *)

SeenStep(from, new) == seen.pc = from /\ seen' = new
verdict == IF cell.state = "Unstarted" THEN "NeverStarted" ELSE cell.reason

ObserveTerminal ==
  /\ Observer \in cell.signal \/ seen.pc = "Idle"
  /\ seen.pc \in {"Idle", "Member"}
  /\ seen' = [seen EXCEPT !.pc = IF membership_terminal(cell) THEN "Look"
                                 ELSE "Member"]
  /\ cell' = [cell EXCEPT !.signal = @ \ {Observer},
                          !.changed = IF membership_terminal(cell)
                                      THEN @ \cup {Observer} ELSE @]
  /\ UNCHANGED <<constant, owner, events, body, kid, calls, early>>
ObserveStopped ==
  /\ Observer \in cell.changed
  /\ SeenStep("Look", IF joined(cell)
                      THEN [pc |-> "Done", reason |-> verdict] ELSE seen)
  /\ cell' = [cell EXCEPT !.changed = @ \ {Observer}]
  /\ UNCHANGED <<constant, owner, events, body, kid, calls, early>>

-----------------------------------------------------------------------------
ParentStep == \/ spawn_child \/ DropSuppressedRestart \/ HandleWindowStop
              \/ handle_exit \/ DrainParent \/ begin_stop_child
              \/ AbortFramework
MonitorStep == SampleLiveEpoch \/ finish_live_root_incarnation \/ SelfHeal
Construction == \/ RefusedRoot \/ FactoryPanics \/ LoweringFails
                \/ TransferChildren
BodyStepOwn == \/ FirstPoll \/ DropUnpolled \/ Begin \/ Construction
               \/ LoweringVerdict \/ LoweringFinish \/ DropLowering \/ Enter
               \/ AcceptShutdown \/ AncestorShutdown \/ AcceptForce
               \/ PublishTerminal \/ ClearMarker \/ Complete
               \/ Epilogue \/ DropLoop \/ DropLoopEpilogue
Environment == LatchParentStop \/ AbortTask \/ DropParent \/ TearDownRuntime
CallerStep(c) == \/ Subscribe(c) \/ Check(c) \/ Woken(c)
                 \/ SettledInBudget(c) \/ ReadMarker(c) \/ ReadStage(c)
                 \/ Force(c) \/ Join(c)
ObserverStep == ObserveTerminal \/ ObserveStopped

Next == \/ ParentStep \/ MonitorStep \/ BodyStepOwn \/ StartKid \/ PublishStarted
        \/ KidExits \/ Environment \/ FireAndForget \/ ObserverStep
        \/ \E c \in Callers : RequestStop(c) \/ CallerStep(c)

Spec == Init /\ [][Next]_vars

\* Every task that can run is scheduled, an ordered start reaches the scope,
\* and a child that is forced does exit.  Nothing is assumed of a child that
\* is only asked to stop, nor of the drop of a driver or of the runtime.
ForcedKidExits == body.forced /\ KidExits
Fairness == /\ WF_vars(ParentStep) /\ WF_vars(MonitorStep)
            /\ WF_vars(BodyStepOwn) /\ WF_vars(ForcedKidExits)
            /\ WF_vars(ObserverStep)
            /\ \A c \in Callers : WF_vars(CallerStep(c))
FairSpec == Spec /\ Fairness

-----------------------------------------------------------------------------
(* Properties. *)

\* The two structural invariants that settled() and the debug assertion of
\* begin_nested_incarnation rest on: an idle epoch plane pairs only with an
\* unstarted or stopped record, and the converse but for a root's monitor
\* whose fence races its driver; a body that is about to begin finds both
\* planes that way, whatever its predecessor, its owner and its callers did;
\* and a live epoch has the body as its one owner.
PlanesAgree ==
  /\ idle(cell) => joined(cell)
  /\ joined(cell) => idle(cell) \/ body.overlap
  /\ body.pc = "Polling" => may_begin(cell)
  /\ cell.live # NoEpoch => cell.live = body.epoch /\ body.pc # "Exited"

\* A stop never constructs the incarnation it stops: when a request was
\* accepted before an incarnation began, in a restart window or before the
\* first start, no child of that incarnation is ever started (start_scope_child
\* against request_shutdown, vacate against begin, the take ahead of the first
\* settlement).  Exceptions as for ReturnedMeansGone.
StopConstructsNothing ==
  kid.built /\ ~body.overlap => kid.epoch \notin early

\* A returned shutdown_and_wait leaves nothing of the incarnation it addressed:
\* that incarnation is not live and has no child, now or later.  The
\* exceptions ("overlap") are a parent destroyed while the body was in its first
\* poll, which still begins, and a root's monitor whose cancelled fence races
\* the driver's epilogue.
ReturnedMeansGone ==
  \A c \in Callers :
    calls[c].pc = "Done" /\ ~body.overlap =>
      cell.live # calls[c].epoch /\ kid.epoch # calls[c].epoch

\* A child that drain entry found inactive and selected to stop is never
\* reported as a straggler of that drain: the sampler sees the pending-disposal
\* marker or the terminal stage, never the gap between them (collect_stragglers
\* against publish_terminal).  The scope's one child is always the one selected;
\* of a later ordered sibling the code promises nothing, and reports it.
Reports(c) == calls'[c].straggler /\ ~calls[c].straggler
NoPhantomStraggler ==
  [][\A c \in Callers :
       Reports(c) /\ kid.epoch = calls[c].epoch => kid.built]_vars

\* shutdown_and_wait is about the incarnation it stopped, "deliberately not
\* about the membership" (SPEC B.6), so a straggler it reports is a child of
\* that incarnation.  collect_stragglers samples whatever children the scope
\* has by then: a zero budget goes to it without another look at the record,
\* and a longer one elapses after the last poll of its wait.
StragglersAreTargets ==
  [][\A c \in Callers : Reports(c) => kid.epoch = calls[c].epoch]_vars

\* The verdict wait_stopped returned is the record's for good, and the last
\* ScopeState event of the stream agrees with it: neither the body's epilogue,
\* the monitor, its fence nor the self-heal replaces it.  Exceptions as above.
VerdictFinal ==
  seen.pc = "Done" /\ ~body.overlap =>
    /\ joined(cell) => verdict = seen.reason
    /\ cell.state = "Stopped" => cell.final = <<"Stopped", seen.reason>>

\* The same without the exception, as SPEC B.4 states it: "wait_stopped(), the
\* final snapshot, and the stream's last ScopeState event always report the
\* same, highest-precedence verdict" (publication.rs, wait_stopped).
SameVerdictAlways ==
  seen.pc = "Done" /\ cell.state = "Stopped" => cell.reason = seen.reason

\* Every shutdown_and_wait returns: a request accepted while the scope has no
\* live incarnation is vacated, refused at the construction site or resolved
\* by the parent, and one that addresses a live incarnation ends it by force.
StopReturns ==
  \A c \in Callers : calls[c].pc = "Subscribe" ~> calls[c].pc = "Done"
=============================================================================
