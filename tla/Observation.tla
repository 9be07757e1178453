---------------------------- MODULE Observation ----------------------------
(***************************************************************************)
(* Publication and observation of a nested scope: cells/gate.rs,           *)
(* cells/observe.rs, cells/member.rs and the cells/scope/ publication,     *)
(* projection and residency files.                                         *)
(*                                                                         *)
(* Two scopes: a running parent and one nested scope with one leaf child.  *)
(* Every change of a record is a transaction under an observation gate;    *)
(* before its admission the nested scope has a gate of its own, and        *)
(* admission hands it over to its parent's.  A transaction publishes       *)
(* lifecycle events while the gate is held, installs the snapshots it      *)
(* staged when it commits, and wakes the readers only after the unlock:    *)
(* the three phases are three steps, and readers, who mostly run without   *)
(* the gate, take theirs between them.                                     *)
(*                                                                         *)
(* `w' is the whole of the state a transaction may change; the operators   *)
(* named after functions of the code take it and return its successor.     *)
(***************************************************************************)
EXTENDS Naturals, Sequences, FiniteSets

CONSTANTS Readers,           \* the reading tasks
          Kinds,             \* what a reader reads: "Stream" (LifecycleEvents),
                             \*   "Watch" (wait_for_child on snapshots)
          Capacity,          \* LIFECYCLE_EVENT_CAPACITY
          MaxBehind,         \* bound: events a reader may fall behind
          MaxIncarnation,    \* incarnations of the nested scope
          MaxSubscriptions   \* times a reader of each kind may subscribe

Parent == "Parent"
Nested == "Nested"
Scopes == {Parent, Nested}
Drivers == {Parent, Nested}     \* a driver is named after its scope
Gates == {"own", "tree"}        \* the nested cell's first gate, the tree's

VARIABLES
    w,        \* the cells: records, residency, hubs, and the open transaction
    gate,     \* the gate installed in the nested cell (and its leaf's)
    lock,     \* gate -> its holder, "free" if none
    driver,   \* driver -> phase of its transaction: "idle", "open", "flush"
    owed,     \* driver -> the pulses its committed transaction still owes
    reader    \* reader -> its endpoint and where it is
vars == <<w, gate, lock, driver, owed, reader>>

-----------------------------------------------------------------------------
(***************************************************************************)
(* The cells.                                                              *)
(***************************************************************************)
Hub == [last |-> "None",   \* the last event emitted here, whoever listened
        inside |-> FALSE,  \* history: an Added is not yet matched by its Removed
        stray |-> FALSE,   \* history: an event of a membership outside its residency
        closed |-> FALSE,  \* LifecycleSignal.closed
        drift |-> FALSE,   \* an event since the cut below: its lifecycle_seq is behind
        made |-> FALSE,    \* the snapshot hub has its watch
        cut |-> <<>>,      \* the snapshot installed
        cutClosed |-> FALSE]

NewCells ==
    [stage |-> "Reserved", incarnation |-> 0, live |-> FALSE, \* nested MemberRecord
     state |-> "Unstarted",                                \* nested ScopeRecord
     resident |-> FALSE, parent |-> FALSE,                    \* residency, parent link
     leaf |-> "None",                                      \* the leaf's stage
     body |-> "None",                                      \* the nested driver's task
     dropped |-> FALSE,                                    \* the parent's driver is gone
     late |-> FALSE,                                       \* history: begun after the close
     hub |-> [s \in Scopes |-> Hub],
     unread |-> [r \in Readers |-> 0],      \* events sent to a receiver and not yet read
     unheard |-> [r \in Readers |-> 0],     \* history: events emitted that it has not
                                           \*   received or been told it lost
     staged |-> [s \in Scopes |-> {}],                     \* ObservationTxn.snapshots
     pulses |-> {}]                                        \* ObservationTxn.effects

Live(r) == reader[r].pc \in {"try", "receive", "check", "changed", "wait"}
Receivers(kind, s) ==
    {r \in Readers : reader[r].kind = kind /\ reader[r].scope = s /\ Live(r)}

(***************************************************************************)
(* project_locked, child_snapshot_locked: what a snapshot of a scope says. *)
(* The sequence watermarks it carries are compared through `drift': they   *)
(* are current exactly when no event was emitted since the cut.            *)
(***************************************************************************)
project_nested(c) ==
    [state |-> c.state, child |-> IF c.leaf = "None" THEN "Absent" ELSE c.leaf]

project_locked(c, s) ==
    IF s = Nested
    THEN project_nested(c)
    ELSE [state |-> "Running",
          child |-> IF ~c.resident THEN "Absent" ELSE c.stage,
          nested |-> IF c.resident /\ (c.live \/ c.stage = "Terminal")
                     THEN project_nested(c) ELSE <<>>]

ancestors_locked(c, s) == IF s = Nested /\ c.parent THEN {Parent} ELSE {}

(***************************************************************************)
(* SnapshotHub::publish: staged only for a hub that somebody watches and   *)
(* that is neither closed nor about to be.  A second publication of the    *)
(* transaction coalesces with the first.                                   *)
(***************************************************************************)
publish(c, s) ==
    IF /\ c.hub[s].made
       /\ Receivers("Watch", s) # {}
       /\ ~c.hub[s].cutClosed
       /\ "closed" \notin c.staged[s]
    THEN [c EXCEPT !.staged[s] = @ \cup {"published"}]
    ELSE c

publish_snapshot_chain_locked(c, s) ==
    LET own == publish(c, s)
    IN  IF Parent \in ancestors_locked(c, s) THEN publish(own, Parent) ELSE own

(* Fault: the event is not followed by a pulse. *)
Fault_QuietPublish(c, s) ==
    IF Receivers("Stream", s) = {} \/ c.hub[s].closed
    THEN c
    ELSE [c EXCEPT !.unread = [r \in Readers |->
                                 IF r \in Receivers("Stream", s) THEN @[r] + 1 ELSE @[r]]]
(* LifecycleHub::publish: the event enters the ring under the gate, and a   *)
(* pulse is owed to the subscribers.                                        *)
hub_publish(c, s) ==
    IF Receivers("Stream", s) = {} \/ c.hub[s].closed
    THEN c
    ELSE [c EXCEPT !.unread = [r \in Readers |->
                                 IF r \in Receivers("Stream", s) THEN @[r] + 1 ELSE @[r]],
                   !.pulses = @ \cup {<<"Stream", s>>}]

(***************************************************************************)
(* emit_locked: mint the sequence number, publish the snapshot chain, then *)
(* the event to the scope's hub and to its ancestors'.                     *)
(***************************************************************************)
Recorded(h, own, kind) ==
    LET within == ~own \/ kind \in {"Started", "Ready", "Exited", "RestartScheduled", "Removed"}
    IN  [h EXCEPT !.last = IF own THEN kind ELSE @,
                  !.drift = h.made,
                  !.inside = IF own /\ kind \in {"Added", "Removed"} THEN kind = "Added" ELSE @,
                  !.stray = @ \/ (within /\ ~h.inside) \/ (own /\ kind = "Added" /\ h.inside)]

emit_locked(c, s, kind) ==
    LET to == {s} \cup ancestors_locked(c, s)
        minted == [c EXCEPT !.hub = [h \in Scopes |->
                                IF h \in to THEN Recorded(@[h], h = s, kind) ELSE @[h]],
                            !.unheard = [r \in Readers |->
                                IF \E h \in to : r \in Receivers("Stream", h)
                                THEN @[r] + 1 ELSE @[r]]]
        chained == publish_snapshot_chain_locked(minted, s)
        own == hub_publish(chained, s)
    IN  IF Parent \in to \ {s} THEN hub_publish(own, Parent) ELSE own

(***************************************************************************)
(* close_observation_locked: SnapshotHub::close, then LifecycleHub::close. *)
(* A hub nobody subscribed to is made here, closed from the start.         *)
(***************************************************************************)
close_observation_locked(c, s) ==
    LET snapshots ==
            IF ~c.hub[s].made
            THEN [c EXCEPT !.hub[s].made = TRUE, !.hub[s].cutClosed = TRUE,
                           !.hub[s].cut = project_locked(c, s), !.hub[s].drift = FALSE]
            ELSE IF c.hub[s].cutClosed THEN c
            ELSE [c EXCEPT !.staged[s] = @ \cup {"closed"}]
    IN  IF c.hub[s].closed THEN c
        ELSE [snapshots EXCEPT !.hub[s].closed = TRUE,
                               !.pulses = @ \cup {<<"Stream", s>>}]

(***************************************************************************)
(* publish_stopped_locked.  Here a stopped record is only ever repeated by *)
(* an equal or weaker reason, which mutates nothing (ScopeCell has the     *)
(* precedence).                                                            *)
(***************************************************************************)
publish_stopped_locked(c) ==
    IF c.state = "Stopped" THEN c
    ELSE emit_locked([c EXCEPT !.state = "Stopped"], Nested, "Stopped")

set_state_locked(c, state) == emit_locked([c EXCEPT !.state = state], Nested, state)

-----------------------------------------------------------------------------
(***************************************************************************)
(* The transaction.  A driver opens one when the tree's gate is free, with *)
(* its body's effect on the cells; commit installs the staged snapshots    *)
(* and unlocks; flush runs the deferred pulses.                            *)
(***************************************************************************)
Open(d, c) ==
    /\ driver[d] = "idle"
    /\ lock["tree"] = "free"
    /\ \A r \in Readers : c.unread[r] <= MaxBehind
    /\ lock' = [lock EXCEPT !["tree"] = d]
    /\ driver' = [driver EXCEPT ![d] = "open"]
    /\ w' = c
    /\ UNCHANGED <<owed, reader>>

(* SnapshotPublication::install for every staged hub. *)
install(c) ==
    [c EXCEPT !.hub = [s \in Scopes |->
                  IF c.staged[s] = {} \/ c.hub[s].cutClosed THEN c.hub[s]
                  ELSE [c.hub[s] EXCEPT !.cut = project_locked(c, s), !.drift = FALSE,
                                        !.cutClosed = "closed" \in c.staged[s]]],
              !.pulses = @ \cup {<<"Watch", s>> : s \in {h \in Scopes : c.staged[h] # {}}},
              !.staged = [s \in Scopes |-> {}]]

commit(d) ==
    /\ driver[d] = "open"
    /\ w' = [install(w) EXCEPT !.pulses = {}]
    /\ owed' = [owed EXCEPT ![d] = install(w).pulses]
    /\ lock' = [lock EXCEPT !["tree"] = "free"]
    /\ driver' = [driver EXCEPT ![d] = "flush"]
    /\ reader' = [r \in Readers |->
                     IF /\ "published" \in w.staged[reader[r].scope]
                        /\ r \in Receivers("Watch", reader[r].scope)
                     THEN [reader[r] EXCEPT !.newer = TRUE] ELSE reader[r]]
    /\ UNCHANGED gate

(* The deferred effects, after the unlock: WatchSender::pulse per hub. *)
flush(d) ==
    /\ driver[d] = "flush"
    /\ driver' = [driver EXCEPT ![d] = "idle"]
    /\ owed' = [owed EXCEPT ![d] = {}]
    /\ reader' = [r \in Readers |->
                     IF Live(r) /\ <<reader[r].kind, reader[r].scope>> \in owed[d]
                     THEN [reader[r] EXCEPT !.fresh = TRUE] ELSE reader[r]]
    /\ UNCHANGED <<w, gate, lock>>

-----------------------------------------------------------------------------
(***************************************************************************)
(* The parent's driver.                                                    *)
(***************************************************************************)
(* admit_child_locked, with_handoff_gate: the nested cell's own gate is    *)
(* taken under the tree's, the member admitted, the tree's gate installed, *)
(* the parent link set, and the resident announced, in one cut.            *)
admit_child_locked ==
    /\ w.stage = "Reserved" /\ ~w.dropped
    /\ lock["own"] = "free"
    /\ gate' = "tree"
    /\ Open(Parent, emit_locked([w EXCEPT !.stage = "Admitted", !.resident = TRUE,
                                          !.parent = TRUE], Parent, "Added"))

(* start_scope_child, with the spawn of the body that follows it. *)
start_scope_child ==
    /\ w.stage \in {"Admitted", "Restarting"} /\ ~w.dropped
    /\ w.incarnation < MaxIncarnation
    /\ Open(Parent, emit_locked([w EXCEPT !.stage = "Starting", !.live = TRUE,
                                          !.incarnation = @ + 1, !.body = "Spawned"],
                                Parent, "Started"))
    /\ UNCHANGED gate

(* transition_child_stage with Running, on the nested scope's readiness. *)
publish_ready ==
    /\ w.stage = "Starting" /\ w.state = "Running" /\ ~w.dropped
    /\ Open(Parent, emit_locked([w EXCEPT !.stage = "Running"], Parent, "Ready"))
    /\ UNCHANGED gate

(* transition_child_stage with Stopping, which has no event. *)
publish_stopping ==
    /\ w.stage \in {"Starting", "Running"} /\ ~w.dropped
    /\ Open(Parent, publish_snapshot_chain_locked([w EXCEPT !.stage = "Stopping"], Parent))
    /\ UNCHANGED gate

(* publish_child_restart: one transaction, two events. *)
publish_child_restart ==
    /\ w.stage \in {"Starting", "Running", "Stopping"} /\ w.body = "Ended" /\ ~w.dropped
    /\ w.incarnation < MaxIncarnation
    /\ Open(Parent, emit_locked(emit_locked([w EXCEPT !.stage = "Restarting", !.live = FALSE,
                                                      !.body = "None"], Parent, "Exited"),
                                Parent, "RestartScheduled"))
    /\ UNCHANGED gate

(* terminalize_child, for a child that ended, that never started, or that  *)
(* the parent's own destruction ends whatever it is doing.                 *)
terminalize_child ==
    LET terminal == [w EXCEPT !.stage = "Terminal", !.live = FALSE]
        stopped == IF w.incarnation = 0 THEN publish_stopped_locked(terminal) ELSE terminal
        told == IF w.live THEN emit_locked(stopped, Parent, "Exited")
                ELSE publish_snapshot_chain_locked(stopped, Parent)
    IN  /\ w.stage \notin {"Reserved", "Terminal"}
        /\ \/ w.body = "Ended"
           \/ w.stage \in {"Admitted", "Restarting"}
           \/ w.dropped
        /\ Open(Parent, IF told.state = "Stopped" THEN close_observation_locked(told, Nested)
                        ELSE told)
        /\ UNCHANGED gate

(* prune_child_locked, and clear_residents_locked of the parent's drop:    *)
(* the parent link is cut before Removed is emitted.                       *)
prune_child_locked ==
    /\ w.stage = "Terminal" /\ w.resident
    /\ Open(Parent, emit_locked([w EXCEPT !.resident = FALSE, !.parent = FALSE],
                                Parent, "Removed"))
    /\ UNCHANGED gate

(* The parent's ScopeRuntime is dropped: it aborts the nested task and      *)
(* goes on to terminalize and clear without waiting for it.                *)
DropParent ==
    /\ driver[Parent] = "idle" /\ ~w.dropped /\ w.resident
    /\ w' = [w EXCEPT !.dropped = TRUE]
    /\ UNCHANGED <<gate, lock, driver, owed, reader>>

-----------------------------------------------------------------------------
(***************************************************************************)
(* The nested scope's driver.  It runs only after the admission, so every  *)
(* transaction of its is under the tree's gate.  Its first poll may overlap *)
(* the abort that the parent's drop sends it, so that a restarted body can *)
(* begin after the parent closed its streams (`late'; SameVerdictAlways of *)
(* ScopeControl is about that window).                                     *)
(***************************************************************************)
begin_incarnation_into ==
    /\ w.body = "Spawned"
    /\ Open(Nested, set_state_locked([w EXCEPT !.body = "Begun", !.late = w.hub[Nested].closed],
                                     "Starting"))
    /\ UNCHANGED gate

(* The task dropped before its first poll: close_never_started_body. *)
close_never_started_body ==
    LET ended == [w EXCEPT !.body = "Ended"]
        stopped == IF w.state = "Unstarted" THEN publish_stopped_locked(ended) ELSE ended
    IN  /\ w.body = "Spawned"
        /\ Open(Nested, IF w.hub[Nested].closed THEN ended
                        ELSE IF w.stage = "Terminal" /\ stopped.state = "Stopped"
                        THEN close_observation_locked(stopped, Nested)
                        ELSE stopped)
        /\ UNCHANGED gate

set_admitted_children ==
    /\ w.body = "Begun" /\ w.leaf = "None" /\ w.state = "Starting"
    /\ Open(Nested, emit_locked([w EXCEPT !.leaf = "Admitted"], Nested, "Added"))
    /\ UNCHANGED gate

(* transition_child_stage for the leaf: Starting, Running, Stopping. *)
transition_child_stage ==
    /\ w.body = "Begun"
    /\ \/ /\ w.leaf = "Admitted" /\ w.state = "Starting"
          /\ Open(Nested, emit_locked([w EXCEPT !.leaf = "Starting"], Nested, "Started"))
       \/ /\ w.leaf = "Starting"
          /\ Open(Nested, emit_locked([w EXCEPT !.leaf = "Running"], Nested, "Ready"))
       \/ /\ w.leaf \in {"Starting", "Running"} /\ w.state = "Draining"
          /\ Open(Nested, publish_snapshot_chain_locked([w EXCEPT !.leaf = "Stopping"], Nested))
    /\ UNCHANGED gate

set_state_and_startup ==
    /\ w.body = "Begun" /\ w.leaf = "Running" /\ w.state = "Starting"
    /\ Open(Nested, set_state_locked(w, "Running"))
    /\ UNCHANGED gate

publish_drain ==
    /\ w.body = "Begun" /\ w.leaf # "None" /\ w.state \in {"Starting", "Running"}
    /\ Open(Nested, set_state_locked(w, "Draining"))
    /\ UNCHANGED gate

(* terminalize_child for the leaf, orderly or by the drop of the driver:   *)
(* a leaf that never started has no Exited to carry the snapshot.          *)
terminalize_leaf ==
    /\ w.leaf \notin {"None", "Terminal"}
    /\ \/ w.leaf # "Admitted"
       \/ w.state = "Draining"
       \/ w.body = "Dropping"
    /\ LET terminal == [w EXCEPT !.leaf = "Terminal"]
       IN  Open(Nested, IF w.leaf = "Admitted"
                        THEN publish_snapshot_chain_locked(terminal, Nested)
                        ELSE emit_locked(terminal, Nested, "Exited"))
    /\ UNCHANGED gate

(* Drop for ScopeRuntime: after the drain, or at any await when aborted. *)
DropNested ==
    /\ w.body = "Begun" /\ driver[Nested] = "idle"
    /\ w' = [w EXCEPT !.body = "Dropping"]
    /\ UNCHANGED <<gate, lock, driver, owed, reader>>

clear_residents ==
    /\ w.body = "Dropping" /\ w.leaf = "Terminal"
    /\ Open(Nested, emit_locked([w EXCEPT !.leaf = "None"], Nested, "Removed"))
    /\ UNCHANGED gate

(* finish_incarnation_with_terminal: Stopped is published, and the streams *)
(* are closed when the membership is already terminal.                     *)
finish_incarnation ==
    LET stopped == publish_stopped_locked([w EXCEPT !.body = "Ended"])
    IN  /\ w.body = "Dropping" /\ w.leaf = "None"
        /\ Open(Nested, IF w.stage = "Terminal"
                        THEN close_observation_locked(stopped, Nested)
                        ELSE stopped)
        /\ UNCHANGED gate

-----------------------------------------------------------------------------
(***************************************************************************)
(* Readers.  subscribe_lifecycle and subscribe_snapshots run under the     *)
(* gate: capture it, lock it, and start over if it was replaced meanwhile. *)
(***************************************************************************)
GateOf(s) == IF s = Nested THEN gate ELSE "tree"

Step(r, fields) == reader' = [reader EXCEPT ![r] = fields]

Capture(r) ==
    /\ reader[r].pc = "off" /\ reader[r].left > 0
    /\ Step(r, [reader[r] EXCEPT !.pc = "captured", !.gate = GateOf(reader[r].scope)])
    /\ UNCHANGED <<w, gate, lock, driver, owed>>

(* Fault: a gate captured before the handoff is entered all the same. *)
Fault_NoRecheckGate(r) ==
    LET at == reader[r]
    IN  /\ at.pc = "captured"
        /\ lock[at.gate] = "free"
        /\ lock' = [lock EXCEPT ![at.gate] = r]
        /\ Step(r, [at EXCEPT !.pc = "entered", !.cut = project_locked(w, at.scope)])
        /\ UNCHANGED <<w, gate, driver, owed>>
(* with_observation_txn_probed, and the snapshot read first inside. *)
Enter(r) ==
    LET at == reader[r]
    IN  /\ at.pc = "captured"
        /\ lock[at.gate] = "free"
        /\ IF at.gate = GateOf(at.scope)
           THEN /\ lock' = [lock EXCEPT ![at.gate] = r]
                /\ Step(r, [at EXCEPT !.pc = "entered", !.cut = project_locked(w, at.scope)])
           ELSE /\ Step(r, [at EXCEPT !.gate = GateOf(at.scope)])
                /\ UNCHANGED lock
        /\ UNCHANGED <<w, gate, driver, owed>>

(* LifecycleHub::subscribe. *)
subscribe_lifecycle(r) ==
    LET at == reader[r]
    IN  /\ at.pc = "entered" /\ at.kind = "Stream"
        /\ lock' = [lock EXCEPT ![at.gate] = "free"]
        /\ Step(r, [at EXCEPT !.pc = "try", !.left = @ - 1, !.fresh = FALSE, !.cut = <<>>])
        /\ UNCHANGED <<w, gate, driver, owed>>

(* SnapshotHub::subscribe: make the hub, or refresh one that nobody        *)
(* watched; a closed hub keeps its final cut.                              *)
subscribe_snapshots(r) ==
    LET at == reader[r]
        h == w.hub[at.scope]
    IN  /\ at.pc = "entered" /\ at.kind = "Watch"
        /\ lock' = [lock EXCEPT ![at.gate] = "free"]
        /\ w' = IF ~h.made \/ (Receivers("Watch", at.scope) = {} /\ ~h.cutClosed)
                THEN [w EXCEPT !.hub[at.scope].made = TRUE, !.hub[at.scope].drift = FALSE,
                               !.hub[at.scope].cut = at.cut]
                ELSE w
        /\ Step(r, [at EXCEPT !.pc = "check", !.left = @ - 1, !.fresh = FALSE,
                              !.newer = FALSE, !.cut = <<>>])
        /\ UNCHANGED <<gate, driver, owed>>

Off(r) == [reader[r] EXCEPT !.pc = "off", !.verdict = "None", !.cut = <<>>, !.sig = FALSE,
                            !.newer = FALSE, !.fresh = FALSE]

(* The endpoint is dropped. *)
DropReader(r) ==
    /\ Live(r)
    /\ Step(r, Off(r))
    /\ w' = [w EXCEPT !.unread[r] = 0, !.unheard[r] = 0]
    /\ UNCHANGED <<gate, lock, driver, owed>>

(* LifecycleEvents::try_recv reads the closed flag first ... *)
ReadSignal(r) ==
    /\ reader[r].pc = "try"
    /\ Step(r, [reader[r] EXCEPT !.pc = "receive", !.sig = w.hub[reader[r].scope].closed])
    /\ UNCHANGED <<w, gate, lock, driver, owed>>

(* ... and then the ring.  A receiver that fell behind is told how many it *)
(* lost and goes on with the oldest event kept.                            *)
Takes(r, n) ==
    /\ Step(r, [reader[r] EXCEPT !.pc = "try", !.sig = FALSE])
    /\ w' = [w EXCEPT !.unread[r] = @ - n, !.unheard[r] = @ - n]

Ends(r) ==
    /\ Step(r, [reader[r] EXCEPT !.pc = "done", !.verdict = "Closed", !.sig = FALSE,
                                 !.fresh = FALSE])
    /\ UNCHANGED w

Empty(r) ==
    /\ Step(r, [reader[r] EXCEPT !.pc = "wait"])
    /\ UNCHANGED w

(* Fault: a closed stream ends with events left in the ring. *)
Fault_ClosedFirst(r) ==
    LET behind == w.unread[r]
    IN  /\ reader[r].pc = "receive"
        /\ \/ reader[r].sig /\ Ends(r)
           \/ ~reader[r].sig /\ behind > Capacity /\ Takes(r, behind - Capacity)
           \/ ~reader[r].sig /\ behind \in 1..Capacity /\ Takes(r, 1)
           \/ ~reader[r].sig /\ behind = 0 /\ Empty(r)
        /\ UNCHANGED <<gate, lock, driver, owed>>
try_receive(r) ==
    LET behind == w.unread[r]
    IN  /\ reader[r].pc = "receive"
        /\ \/ behind > Capacity /\ Takes(r, behind - Capacity)
           \/ behind \in 1..Capacity /\ Takes(r, 1)
           \/ behind = 0 /\ reader[r].sig /\ Ends(r)
           \/ behind = 0 /\ ~reader[r].sig /\ Empty(r)
        /\ UNCHANGED <<gate, lock, driver, owed>>

(* changed_or_closed, for both kinds of reader. *)
Awake(r) ==
    /\ reader[r].pc = "wait" /\ reader[r].fresh
    /\ Step(r, [reader[r] EXCEPT !.fresh = FALSE,
                                 !.pc = IF reader[r].kind = "Stream" THEN "try" ELSE "changed"])
    /\ UNCHANGED <<w, gate, lock, driver, owed>>

(* wait_for_child_inner: predicate (here: the child runs), closure, then   *)
(* the deadline, which may be due at any look.                             *)
wait_for_child(r) ==
    LET at == reader[r]
        h == w.hub[at.scope]
        Return(v) == [at EXCEPT !.pc = "done", !.verdict = v, !.newer = FALSE, !.fresh = FALSE,
                              !.cut = IF v = "ScopeTerminated" THEN h.cut ELSE <<>>]
    IN  /\ at.pc = "check"
        /\ \/ h.cut.child = "Running" /\ Step(r, Return("Ok"))
           \/ h.cut.child # "Running" /\ h.cutClosed /\ Step(r, Return("ScopeTerminated"))
           \/ h.cut.child # "Running" /\ ~h.cutClosed /\ Step(r, Return("TimedOut"))
           \/ h.cut.child # "Running" /\ ~h.cutClosed /\ Step(r, [at EXCEPT !.pc = "changed"])
        /\ UNCHANGED <<w, gate, lock, driver, owed>>

(* SnapshotReceiver::changed under timeout_at: a new generation or a       *)
(* closure ends it, the timer may, and otherwise it waits for a pulse.     *)
changed(r) ==
    LET at == reader[r]
    IN  /\ at.pc = "changed"
        /\ Step(r, [at EXCEPT !.fresh = FALSE, !.newer = FALSE,
                              !.pc = IF at.newer \/ w.hub[at.scope].cutClosed
                                     THEN "check" ELSE "wait"])
        /\ UNCHANGED <<w, gate, lock, driver, owed>>

Elapsed(r) ==
    /\ reader[r].pc = "wait" /\ reader[r].kind = "Watch"
    /\ Step(r, [reader[r] EXCEPT !.pc = "check"])
    /\ UNCHANGED <<w, gate, lock, driver, owed>>

-----------------------------------------------------------------------------
NewReader(k, s) ==
    [kind |-> k, scope |-> s, pc |-> "off", gate |-> "own",
     left |-> MaxSubscriptions[k], sig |-> FALSE, newer |-> FALSE, fresh |-> FALSE,
     cut |-> <<>>, verdict |-> "None"]

Init ==
    /\ w = NewCells
    /\ gate = "own"
    /\ lock = [g \in Gates |-> "free"]
    /\ driver = [d \in Drivers |-> "idle"]
    /\ owed = [d \in Drivers |-> {}]
    /\ reader \in [Readers -> {NewReader(k, s) : k \in Kinds, s \in Scopes}]

ParentStep ==
    \/ admit_child_locked \/ start_scope_child \/ publish_ready \/ publish_stopping
    \/ publish_child_restart \/ terminalize_child \/ prune_child_locked \/ DropParent

NestedStep ==
    \/ begin_incarnation_into \/ close_never_started_body \/ set_admitted_children
    \/ transition_child_stage \/ set_state_and_startup \/ publish_drain
    \/ terminalize_leaf \/ DropNested \/ clear_residents \/ finish_incarnation

Listen(r) ==
    \/ Enter(r) \/ subscribe_lifecycle(r) \/ subscribe_snapshots(r)
    \/ ReadSignal(r) \/ try_receive(r) \/ Awake(r) \/ changed(r) \/ wait_for_child(r)

Next ==
    \/ ParentStep \/ NestedStep
    \/ \E d \in Drivers : commit(d) \/ flush(d)
    \/ \E r \in Readers : Listen(r) \/ Capture(r) \/ DropReader(r) \/ Elapsed(r)

(***************************************************************************)
(* Fairness: a transaction once open runs to its end, effects included,    *)
(* for it is straight-line code; and a reader that has something to do is  *)
(* polled (its pulse wakes it).  Nothing is assumed of the drivers' choice *)
(* of transactions or of timers.                                           *)
(***************************************************************************)
Spec ==
    /\ Init /\ [][Next]_vars
    /\ \A d \in Drivers : WF_vars(commit(d) \/ flush(d))
    /\ \A r \in Readers : WF_vars(Listen(r))

-----------------------------------------------------------------------------
Quiet == \A d \in Drivers : driver[d] # "open"

(***************************************************************************)
(* A lifecycle subscriber accounts for every event emitted since it        *)
(* subscribed, in order: received, reported lost by Lagged, or still in    *)
(* the ring; and it is told the stream is closed only when nothing is left *)
(* (LifecycleEvents::try_recv, LifecycleHub::publish).  It relies on the   *)
(* gate for the first subscriber, on the closed flag being read before the *)
(* ring, and on no scope emitting after it closed.                         *)
(***************************************************************************)
StreamComplete ==
    ~w.late => \A r \in Readers : reader[r].kind = "Stream" =>
        /\ w.unread[r] = w.unheard[r]
        /\ reader[r].verdict = "Closed" => w.unread[r] = 0

(***************************************************************************)
(* Between transactions a snapshot that somebody watches, or that was left *)
(* as the final one, is exactly the projection of the records now: every   *)
(* transition of a record republishes every hub whose projection contains  *)
(* it, up the parent links, and a first watcher refreshes a stale hub      *)
(* (publish_snapshot_chain_locked, SnapshotHub::subscribe and ::close).    *)
(***************************************************************************)
SnapshotCurrent ==
    Quiet /\ ~w.late => \A s \in Scopes :
        w.hub[s].made /\ (Receivers("Watch", s) # {} \/ w.hub[s].cutClosed)
            => w.hub[s].cut = project_locked(w, s) /\ ~w.hub[s].drift

(***************************************************************************)
(* A reader is told that the scope terminated only with the final state:   *)
(* the cut it returns says Stopped (wait_for_child_inner: "the terminal    *)
(* payload cannot come from an earlier cut"), and the last event of a      *)
(* closed stream is the nested scope's Stopped.                            *)
(***************************************************************************)
ClosedMeansStopped ==
    \A r \in Readers :
        /\ reader[r].verdict = "ScopeTerminated" => reader[r].cut.state = "Stopped"
        /\ reader[r].verdict = "Closed" /\ ~w.late => w.hub[reader[r].scope].last = "Stopped"

(***************************************************************************)
(* In every stream the events of a membership stand between its Added and  *)
(* its Removed: in the parent's, those of the nested child and everything  *)
(* emitted inside it; in the nested scope's, those of the leaf             *)
(* (admit_child_locked, prune_child_locked, clear_residents_locked).       *)
(***************************************************************************)
EventsWithinResidency == \A s \in Scopes : ~w.hub[s].stray

(***************************************************************************)
(* Nobody sleeps through a publication: a subscriber with events waiting   *)
(* reads on until there are none, and a reader of a scope that closed      *)
(* returns (the deferred pulse of LifecycleHub::publish, ::close and       *)
(* install_snapshot).                                                      *)
(***************************************************************************)
Waiting(r) ==
    \/ reader[r].kind = "Stream" /\ Live(r)
       /\ (w.unread[r] > 0 \/ w.hub[reader[r].scope].closed)
    \/ reader[r].kind = "Watch" /\ Live(r) /\ w.hub[reader[r].scope].cutClosed

ReadersAwake == \A r \in Readers : Waiting(r) ~> ~Waiting(r)
=============================================================================
