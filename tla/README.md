# A TLA+ model of shelterwood

Shelterwood is a structured-supervision and actor runtime on Tokio. A *scope*
supervises children (tasks, actors, or further scopes): it starts them, waits
for their readiness, restarts them by policy, stops them through a ladder of
escalations, and reports its own startup and stop. Actors have a membership
mailbox that survives restarts. This directory models the parts of that runtime
whose correctness depends on interleavings, checks them with TLC and proves the
central invariants with TLAPS.

`PROJECT.json` holds the machine-readable side: the components, the runs, the
map from definitions to source, the mutants that show each property
can fail, the hazards, and the theorems.

## 1. The system

| Part | Source | State | Who changes it |
|---|---|---|---|
| Supervision reducer | `shelterwood-core/src/supervisor.rs` | a state per child and per incarnation, startup and removal marks, cursors of ordered startup and stop, queued effects | the scope driver only; pure |
| Scope lifecycle | `shelterwood-core/src/engine.rs` | Starting, Running, Draining with a reason, finished | through the reducer |
| Scope driver | `shelterwood/src/driver.rs`, `driver/*` | arena of children with their live incarnation, latches, gates, ladders, deadlines; intensity charges; removal answers held back | one task per scope incarnation |
| Child tasks and helpers | `driver/spawn.rs` | the body, its ready and local-stop latches, its joiner | their own tasks |
| Dynamic control plane | `driver/admission_control.rs` | entries (resident, removing), reservations, responses, fused cancellation | callers, and the driver |
| Scope control | `cells/scope/control.rs`, `engine/epochs.rs` | shutdown and force requests per incarnation, the restart window | callers, the driver, parent drivers |
| Stop ladder, readiness gate, intensity, backoff, deadline queue | `engine.rs`, `engine/*` | rungs, gate state, restart window, lazily compacted heap | the driver; pure |
| Member and scope records, observation gate, event hub | `cells/*` | published stages, snapshots, bounded event ring | the driver under the gate; read by anyone |
| Mailbox | `mailbox/cell.rs`, `cell/*`, `futures.rs` | phase, queue or latest value, parked send operations, their wakers | senders, the driver, the actor |
| Request and reply, deadlines | `mailbox/reply.rs`, `deadline.rs` | one-shot reply, timer | caller, actor, clock |
| Actor loop | `raw/context*`, `raw/offload.rs` | ready batch: continuations, mailbox turn, offload completions, timers | the actor task |
| Wait primitives | `shelterwood-runtime/src/{latch,watch,oneshot,waiters,channel}.rs`, `core/src/waker_proxy.rs` | registrations, versions, one-shot values | everyone |
| Disposal | `runtime/src/disposal.rs`, `blocking.rs`, `cells/retained.rs` | values with user destructors on their way to a lane | the driver, futures |
| System shutdown | `driver/system.rs`, `driver/shutdown.rs` | root monitor, budget, stragglers | the monitor |
| Declarations: identity, slots, builders, plans, policies | `core/src/identity.rs`, `plan.rs`, `tree/*`, `policy.rs` | fences, the slot that owns a construction, reservations, resolved options | user threads, and the driver |
| Tokio adapter | `shelterwood-runtime/src/{spawn,timer,select}.rs` | none of its own; thin wrappers | everyone |

What makes the system hard:

* the driver is one thread, but it samples latches that bodies, callers and
  parents fire between any two of its calls; its handlers call each other and
  the reducer, and one can invalidate what another has already decided;
* exits, readiness, self-stops, removals, admissions, deadlines and shutdowns
  arrive through different lanes and are reordered when a wake collects them;
* a child may be restarting, disposing of its construction or already joined
  when a stop, a removal or a force reaches it;
* the driver itself can be aborted at its await point;
* a mailbox decides a send under one lock, notifies after releasing it, and
  races timeouts, dropped futures, rebinds and a teardown that runs in pieces;
* wakers are user code and are cloned with no lock held;
* a nested scope is rebuilt into a stable cell, so a request, a fence or a
  subscriber can outlive the incarnation it was about;
* a record, its events and its snapshots change under one gate, but are read
  without it, and wakes follow the unlock.

## 2. Modules

| module | models | refines or is used by |
|---|---|---|
| `Supervisor` | the reducer and the scope lifecycle | `ScopeDriver` |
| `ScopeDriver` | one scope incarnation: driver, child tasks, control plane | |
| `Timing` | the driver's deadlines against a clock | |
| `ScopeCell`, `ScopeControl` | epochs, stop requests and records of a scope across incarnations | |
| `Observation` | publication, lifecycle streams and snapshots of two nested scopes | |
| `Declaration`, `Defaults` | memberships, constructions and policies up to admission | |
| `Mailbox` | the mailbox of one membership | implements `MailboxContract` |
| `Call` | request and reply | assumes `MailboxContract` |
| `ActorLoop`, `Offload` | the receive loop, and offloaded work | |
| `Waits` | latch, completion gate, watch, waker proxy | |

Definitions keep the names of the code where they translate one function.
`Fault_...` definitions are deliberate mistakes: each changes one definition as
a plausible bug would, and shows that a property notices. No specification uses
them.

### Supervisor

The reducer, as operators on a record `SupervisorState`, named after the
functions and events of `supervisor.rs`: `admit`, `Spawned`, `Ready`,
`IncarnationComplete`, `RestartPending`, `StopStarted`, `DisposalStarted`,
`Terminalized`, `RemovalSampled`, `RemovalLatched`, `Reclaim`, `begin_drain`,
`force`, and the three parts of `Settle`: `settle_startup`, `settle_ordered_stop`,
`settle_finish`. An event whose precondition fails leaves the state unchanged,
as in the code. Effects are a queue of records.

### ScopeDriver

One scope incarnation. The driver's handlers nest, so the module carries the
call stack they use: `todo` holds the calls still to be made, and one step
executes the call at its head. `Execute` is the disjunction of all calls;
`CollectSome` is the wake-up that fills `batch` from what is in flight, in the
order of the arbitration classes; `DriverAborted` drops the driver at its await
point and runs the epilogue of `Drop for ScopeRuntime`. `Environment` holds what
other tasks do: bodies become ready, stop themselves, end; callers remove,
admit, cancel, shut down and force; a parent fires its latches. These steps may
come between any two calls. Time is abstracted: an armed deadline may elapse at
any collection.

| variable | code |
|---|---|
| `sup` | `ScopeRuntime.supervisor` |
| `child` | the arena `children` with each child's `ActiveChild`, latches, gate, ladder, deadlines and published stage |
| `running` | child tasks that have not ended |
| `charges` | the intensity window |
| `dyn` | entries and responses of the dynamic control plane |
| `held` | `pending_startup_removals` |
| `scope` | the published scope record and the `finished` slot |
| `req` | requests in `ScopeControl`, and the ancestor latches |
| `todo`, `cur` | the call stack, the event being handled |
| `batch`, `inflight` | events collected by this wake; events in the lanes |

### Timing

What `ScopeDriver` leaves to chance: when. The deadline queue is a heap with
stale entries beside the active registrations (`push`, `cancel`, `pop_due`,
`prune_stale_head`, `compact_if_sparse`); the readiness gate, the stop ladder
with its tidy beat, the backoff with its jitter, and the rolling intensity
window read the clock in every handler. Time is relative: a deadline is the time
left to it, an age the time passed, and `Tick` moves all of them, also between
two handlers of one wake. A duration the clock cannot represent is no deadline.

### ScopeCell and ScopeControl

`ScopeCell` has the observation transactions on the restart-stable cell of one
scope as operators: `begin_incarnation`, `request_shutdown`, `vacate`,
`finish_incarnation`, `publish_stopped`, `settled` and so on, each with the
pulses it sends. `ScopeControl` drives the cell with the tasks that share it:
the owner (a parent's driver with its restart window, or the root's monitor),
the body of an incarnation with one child, callers of `shutdown_and_wait`, and
an observer of `wait_stopped`. Tasks are dropped only where they await.

### Observation

A parent and a nested scope with one leaf. A driver's transaction has three
steps: it opens under the gate and publishes its events, commits the snapshots
it staged, and flushes its pulses after the unlock. Readers (a lifecycle stream
or a snapshot watcher, on either scope) subscribe, receive, lag, wait and leave
in between. The nested scope changes gates when it is admitted.

### Declaration and Defaults

`Declaration` follows the slots of one scope from declaration to admission:
fences minted, adopted, superseded and evicted; a builder that lowers or is
dropped; a plan transferred child by child; and the dynamic route, where a
caller's reservation, definition, admission future, cancellation and removal
race the driver's `handle_admission`, whose two halves take different locks.
`Defaults` is the resolution of policies down a path of scopes, against the
reference "the nearest declaration wins, setting by setting".

### Mailbox and MailboxContract

The mailbox of one membership. One action is one critical section: what a
method does under the mailbox lock, or under an operation's own lock. What the
section owes afterwards (a pulse of the change signal, wakers to wake) waits in
`effects` and is delivered by a step of its own, because the code flushes after
the unlock. The driver binds, freezes, closes, terminalizes, or is dropped; the
actor runs the receive loop with its batch cut-off; senders submit, park, clone
and install wakers, move between tasks, time out, withdraw, are dropped.
`acceptedBy`, `receivedBy`, `disposed` and the field `seen` are history.

`MailboxContract` is what a sender and an actor may rely on: each message is
offered once, enters in order, leaves received in order or lost with its
incarnation, or goes back without having been inside. `Mailbox` implements it
(`ImplementsContract`), with the waiters that are still undecided, in the cell or
detached by the teardown, as the contract's pending line.

### Call

One call or one response wait, from its first poll to its drop. Every atomic
operation on the one-shot's state word is a step, so a reply being sent, a
deadline that closes the receiver and a dropped future meet in every order. The
mailbox is what its contract says: accepted, parked and decided once, or refused.

### ActorLoop and Offload

`ActorLoop` is one actor incarnation: the ready batch over mailbox, queued
offload completions, continuations and keyed timers, one step per lock; the
callbacks, and what they may do; deferred, local and requested stops; the drain
of the frozen mailbox. `Offload` is the work an actor hands to other tasks: the
future in its slot, in a poll, or with a destructor; the completion latch,
claimed, notified and published in three steps; the ledger, its reclamation,
the freeze, the join, and the panic slot read last. A hard abort may drop the
incarnation's task at either of its awaits, while the actor lives and during the
join: the drop freezes what is still unfrozen, aborts the tasks without joining
them, and reads the slot at once (`HardAbort`, `EndFreeze`).

### Waits

One behaviour is about one primitive: a latch fired and notified separately, the
completion-gated pair of latches, the conflating watch, or a poll through a
waker proxy. The registry of waiters is explicit, one step per lock or atomic
operation; in particular one check of a watch loads the version and then the
senders, and a value may be published, or the last sender dropped, in between.
`changed()` does not look at closure and would park for good when both happen
there; every caller of it keeps a sender alive, so the properties promise
something to those and to the users of `changed_or_closed()` (`Promised`).

## 3. What TLC checks

The runs are few, and several cover more than one instance: the variable
`instance` of an MC module picks one in the initial state and keeps it.

| run | instances | properties |
|---|---|---|
| `driver` | seven scopes: nested ordered, restarting, ended by an ancestor; root ordered with local stops, shutdown, force and an aborted driver, with one and with two incarnations; dynamic ones that admit, cancel, remove, shut down and lose their driver; a dynamic one whose initial children are removed | `ReducerAgrees`, `AssertionsHold`, `ExitsJoined`, `ReverseTeardown`, `WaitsOnlySettled`, `StartupVerdictHolds`, `RemovalAnswersHold` |
| `driver_live` | an ordered scope shut down, a dynamic one with a removal; fair | `TypeOK`, `ShutdownStops`, `RemovalAnswered` |
| `mailbox` | three senders to a queue; queue and latest value over two incarnations with try_send, timeouts, dropped futures, dropped driver | `MessagesAccounted`, `ParkedOnlyWhenFull`, `ImplementsContract` |
| `mailbox_live` | two senders, queue, two tasks per future; fair | `SendsComplete`, `AcceptedLeaves` |
| `actor` | one actor for each readiness and mailbox shutdown policy; fair | `SourcesSound`, `StopsInOrder`, `NoSourceStarves`, `StopEndsLoop` |
| `runtime` | each wait primitive, a call, two offloads; fair | `WatcherIsCurrent`, `ValueCustody`, `VerdictIsTrue`, `OffloadsAccounted`, `WaitsEnd` |
| `control` | a nested and a root scope, two epochs, one caller, one observer; fair | `PlanesAgree`, `StopConstructsNothing`, `ReturnedMeansGone`, `VerdictFinal`, `NoPhantomStraggler`, `StopReturns` |
| `observation` | two scopes, one reader of either kind; fair | `StreamsTellTheTruth`, `SnapshotCurrent`, `ReadersAwake` |
| `declaration` | one id with two memberships over two builds; policy paths of depth two; deadlines of five configurations; fair | `IdentityFenced`, `OneConstruction`, `AdmissionHonest`, `NearestWins`, `DeadlinesArmed`, `JudgedByTime`, `DeadlinesKept` |
| `stragglers`, `verdict`, `removal_release` | the disagreements of section 5 | one each, violated |

What the passing runs show, in words:

* the driver's arena and the reducer never disagree on which children live and
  which are being stopped, and none of the driver's assertions can fail;
* no exit is lost and incarnations of a child never overlap; an ordered scope
  stops a child only after every later one joined; a scope that finishes has
  joined everything;
* the driver only waits at a fixed point; startup verdicts follow their cause,
  and startup never completes over a child that is between incarnations;
* a remover is answered only when the child is gone, and is always answered, at
  the latest by the epilogue of a dropped driver; a requested shutdown always
  stops the scope;
* a stop request addresses one incarnation: it returns, nothing is constructed
  for an incarnation it already stopped, the epoch plane and the record never
  part, and a published final verdict stays;
* no rung, readiness verdict or restart is early, a drain with finite graces
  ends, and the driver sleeps with exactly the deadlines it needs armed;
* a membership's fence is never confused with that of a predecessor of the same
  id, a construction has one owner until it is destroyed, and an admission's
  answer is what happened;
* a lifecycle stream loses nothing silently, a watched snapshot is the
  projection of the records, and no reader sleeps through a publication;
* a message is in one place at a time, is accepted and received in order, never
  crosses a rebind, and what a completed send or call reports is true;
* no wakeup is lost: a sender's, the actor's, a waiter's of any primitive, a
  caller's;
* no source of the actor loop starves another, no armed timer is lost, and every
  stop ends the loop;
* offloaded work is destroyed once and announced once, and before an
  incarnation ends in order its panics are all in its verdict. After a hard
  abort the work is still destroyed and announced, later, and a panic that comes
  after the verdict was read is not in it.

**Bounds.** They are the constants of the configurations; each is as small as
the cases that matter allow, and the faults of section 2 are all found at these
sizes.

* `driver`, `driver_live`: two children are what ordered startup, ordered stop
  and the gate between them need; restarts come up to the intensity limit of one
  and past it where there are two incarnations.
* `mailbox`: a third sender makes the order of two parked senders visible, two
  incarnations make a rebind, capacity one makes the queue full and empty again
  within few steps. In `mailbox_live` two tasks per future let a future move
  between a waker's clone and its installation; timeouts and dropped futures
  stay with the safety run.
* `actor`: two messages, one of everything else, one timer key. Nothing counts
  up, so behaviours are infinite and starvation is a real question.
* `runtime`: two waiters, two notifiers and one pulse, so that a notifier can be
  overtaken; two offloads, so that the ledger is walked past one while the other
  is still at work.
* `control`: two epochs are one restart, which is where a request can miss its
  incarnation; one caller and one observer.
* `observation`: a ring of one event and a reader at most two behind, so that
  lag is common; two incarnations of the nested scope; a stream is opened once,
  a watcher comes back once, to a hub that went stale meanwhile.
* `declaration`: one id with two memberships is a removal and a re-addition, two
  builds are a restart of the scope. Layers are all combinations of mailbox and
  readiness deadline with the other settings tied to them. The deadline
  configurations are a gated child with growing, jittered backoff; a framework
  child; a patient one whose grace never ends; an abrupt one; and two children
  at once, one of them deaf to its stop.

**Reductions.** `Late` (runs of the scope driver) delays the end of a task, a
local stop, an admission and a force request to the moment the driver waits: the
driver sees them only when it next collects, so they commute with its calls.
Readiness latches, removals, fused cancellations, shutdown requests and
ancestor latches are sampled by handlers and are not delayed. `Prompt` (the
safety run of the mailbox) delivers owed notifications first: a notification
only lets a waiting party look again, which changes nothing a safety property
reads. `mailbox_live` runs without it. Both are argued here and not proved.

**Fairness.** What a scheduler and straight-line code guarantee, nothing of what
user code may choose:

* `ScopeDriver`: a handler in progress continues, a wake collects what stays
  collectable (strong fairness for lane events and the stop deadline, because
  the driver alternates between running and waiting), an aborted task ends.
  Bodies are not assumed to end, to become ready or to obey cancellation.
* `Timing`: the same, and the clock moves. A framework body that acknowledged
  its abort returns.
* `ScopeControl`: every task that can run is scheduled, and a child that is
  forced exits; one that is merely asked to stop need not. Drivers and runtimes
  may be dropped or not.
* `Observation`: an open transaction runs to its end with its flush; a reader
  that has been woken is polled.
* `Mailbox`: effects are flushed by the thread that unlocked, polls once begun
  or woken go on, the actor loop goes on while its handlers return, the driver
  runs its synchronous handlers and dispatches exits and self-stops. Senders need
  not time out or be dropped, incarnations need not end.
* `ActorLoop`: the task runs, callbacks return, time passes, and the driver
  answers a local stop and finishes a stop it began.
* `Call`, `Offload`, `Waits`: a thread inside an operation finishes it and a
  woken task is polled; time passes. The actor need never answer, work need
  never complete, nobody need publish, no incarnation need be hard-aborted.

Deadlock is checked in the scope driver runs: the only state without successors
in the code, a stopped scope without tasks, has the explicit step `Quiescent`.
The other runs do not check it, since their systems may rest in many states
(an idle mailbox, a returned call, a released slot); what must go on in them is
stated as liveness.

## 4. What is proved

For every value of the constants (any number of children, any options, any
bounds, any set of surrounding actors, any number of offloads, tasks and
notifiers):

* `ScopeDriverProofs!TypeCorrect`: `Spec => []TypeOK`. `TypeOK` is inductive.
  The argument goes through the reducer (`SupervisorProofs`): every operator maps
  `SupervisorState` to itself, cursors stay keys or none, effects stay
  executable calls. The driver part has one step per call and per handler.
* `ScopeAgreementProofs!ReducerAlwaysAgrees`: `Spec => []ReducerAgrees`.
  `ReducerAgrees` is not inductive: `handle_exit` completes an incarnation in
  the reducer and a later call disposes of it, so an arbitrary agreeing state
  could hold a completed child that nothing is about to dispose of, and
  `spawn_child` would run it while the reducer refuses. `Agreement` adds that a
  completed child's disposal is the next call, that a key the reducer does not
  hold has no live incarnation, that keys above the last one minted are not
  held, and that a stopped driver makes no call. The lemma `AgreementStep`
  reduces each call to the one child it touches.
* `OffloadProofs!OffloadsAlwaysAccounted`: `Spec => []OffloadsAccounted`, with
  hard aborts. That each future is destroyed at most once needs only its
  `Custody`: who holds it, seen from the task and from the canceller. The verdict
  of an orderly exit needs more, for it is read at the end and speaks of every
  thread: `Announced` (one claimant of the completion latch owes its
  notification), `Progress` (what the owner knows of an offload at each point of
  the teardown: outside the ledger it is done, a published latch means done while
  the actor lives, an entry already passed is cancelled and fired, one that was
  joined is done, one that was only aborted is cancelled) and `Walk` (the entry
  being cancelled and those left are in the ledger, nothing is left at the join,
  and a panic is in the slot or already in the verdict). A step of one offload's
  task leaves the clauses of all others alone; a step of the owner touches one
  entry. What the theorem does not say of a hard abort, because the code does not
  do it, is that a panic of work still in a poll reaches the verdict.
* `WaitsProofs!WatcherAlwaysCurrent`: `Spec => []WatcherIsCurrent` of the watch,
  for any tasks and notifiers. A value is published before its version, so
  `Ahead` counts the threads in between; `Seen` orders what a wait has read;
  `Found` and `Owed` say that a registered task is found by the next
  notification and that one is due while its version is old.

The assumptions are those named in the modules: the role, a plan within the
keys, options that resolution can produce, natural bounds. `OffloadProofs` and
`WaitsProofs` need none.

Only model-checked: all liveness, which is outside the prover's reach; the
remaining safety invariants of the driver; everything about scope control,
observation, declarations, deadlines, the mailbox with its refinement, calls,
the actor loop and the wait primitives other than the watch.

## 5. Where code and documents disagree

| run | code | what TLC shows |
|---|---|---|
| `stragglers` | `driver/shutdown.rs:67` | `shutdown_and_wait` samples stragglers by scope, not by epoch, and without a last look at the record: a zero budget skips the wait, a longer one elapses after the last poll of it. A restart that comes before the sample has its child reported as a straggler of the incarnation that has already stopped. The specification says the contract "is about the incarnation the latch stopped, deliberately not about the membership" (`specs/SPEC.md:4052`). |
| `verdict` | `cells/scope/publication.rs:393` | When a parent's driver is dropped between the first poll of a nested body and its begin, `wait_stopped` returns `NeverStarted`; the body then begins and publishes another reason, `ShutdownRequested`. The specification says that `wait_stopped()`, the final snapshot and the stream's last event "always report the same, highest-precedence verdict" (`specs/SPEC.md:3900`). |
| `removal_release` | `driver/admission_control.rs:742` | `handle_admission` claims a definition before it enters the gate. A remover that takes the reservation in between is answered while the driver still holds the definition. A comment says its destructor must "complete before any response releases ownership back to the caller" (`driver/admission_control.rs:619`). |

## 6. What is not modelled

* The Tokio adapter (`spawn`, `timer`, `select`, jitter's random source): thin
  wrappers. The models assume their contract: a spawned task ends once, an
  aborted one at an await point, a timer not early.
* The disposal lane as a thread pool, and how a panic of a user destructor or
  error value is caught and carried. Panics are modelled where they change
  control: the work of an offload, its destructors and wakers, child bodies.
* Typed results and exit payloads of members, formatting and reports.
* In `ScopeDriver`: children that are themselves scopes, as the parent sees them
  (`ScopeControl` has that side, with one child), and the per-lane batch limit (a
  wake takes any subset of what is in flight, which includes every bounded
  prefix).
* In `Mailbox`: continuations, offloads and timers in the ready batch, which
  `ActorLoop` has; bind tokens, which the order of the driver's calls implies.
* In `Declaration`: what an admitted child does, which is `ScopeDriver`'s; the
  typed front ends of `tree/`, which differ in the types they carry.
* In `Declaration`, further: a lowering that unwinds after its plan adopted a
  prefix of the children.
* In `Observation`: deeper nesting than two scopes. A snapshot is one variable
  there and closure a flag beside it, so one race of `Waits` is not followed up
  to it: when the last publication and the end of the hub both fall between the
  two loads of a check, `SnapshotReceiver::changed` (`cells/observe.rs:436`) can
  report closure ahead of the final snapshot.
* In `Offload`: what becomes of a panic that comes after a hard abort. It stays
  in the slot, and no verdict is left to carry it.
* Steps that are merged: the mailbox's teardown clears a waiter's registration
  and decides it in one step (`Discharge`; two locks in the code,
  `cell/effects.rs:314`), where a withdrawal in between has the outcome of one
  just before; and `ActorLoop` opens a ready batch, pushes an offload completion
  and finishes a failed teardown in one step each, with no other thread able to
  tell the halves apart.
* Of liveness: `driver_live` has neither driver aborts nor fused cancellations,
  whose removers are covered by `RemovalAnswersHold` (nobody is left waiting by a
  scope that stopped), and `mailbox_live` has no timed or dropped sends, covered
  by `MessagesAccounted`. In `control` the properties that name `overlap` say
  nothing of a root whose killed driver is still in its epilogue, nor of a nested
  body that begins after its parent was dropped.
* Macros, tests, examples and the public re-exports.

## 7. What could come next

1. Proofs of `DriverAssertions`, `ExitsAccounted`, `FinishedMeansJoined` and
   `OrderedTeardown` of the driver, on top of `Agreement`.
2. `Custody`, `NoLeak` and `ParkedOnlyWhenFull` of the mailbox, then the safety
   half of its refinement.
3. `PlanesAgree` of `ScopeControl`, the two invariants most of its comments lean
   on.
4. `ScopeDriver` with scope-typed children, composed with `ScopeCell`.
