------------------------------- MODULE Offload -------------------------------
(***************************************************************************)
(* Offloaded work of one incarnation and its teardown: the future shared   *)
(* between the task that polls it and the actor that may cancel it         *)
(* (raw/offload.rs), the ledger that holds it (raw/context/resources.rs),  *)
(* the slot that keeps the first cleanup panic (raw/disposal.rs) and the   *)
(* owner that reports the incarnation's exit (raw/definition.rs).  Every   *)
(* critical section is a step; user destructors, wakers and work may       *)
(* panic wherever they run.  A hard abort may drop the incarnation's task  *)
(* wherever it awaits.                                                     *)
(***************************************************************************)
EXTENDS Naturals, FiniteSets

CONSTANTS Offloads

VARIABLES
  state,    \* OffloadFutureState, with its disposals counted
  task,     \* the runtime task that polls: its pc, and whether it was aborted
  latch,    \* finished: fired, and finished_published
  ledger,   \* offloads with an entry in RawResources::offloads
  slot,     \* PanicSlot holds a payload
  owner,    \* the incarnation's task: pc, offload being cancelled, verdict,
            \* and whether it was aborted
  panicked  \* history: work, a destructor or a waker has panicked

vars == <<state, task, latch, ledger, slot, owner, panicked>>

Init ==
  /\ state = [o \in Offloads |-> [future |-> TRUE, polling |-> FALSE,
                                  cancelled |-> FALSE, disposed |-> 0]]
  /\ task = [o \in Offloads |-> [pc |-> "Idle", aborted |-> FALSE,
                                 outcome |-> "Pending"]]
  /\ latch = [o \in Offloads |-> [fired |-> FALSE, published |-> FALSE,
                                  notified |-> 0]]
  /\ ledger = Offloads
  /\ slot = FALSE
  /\ owner = [pc |-> "Live", at |-> "none", left |-> {}, panic |-> FALSE,
              aborted |-> FALSE]
  /\ panicked = FALSE

\* PanicSlot::record through RawDisposal: the first payload is kept.
MayPanic ==
  \/ slot' = TRUE /\ panicked' = TRUE
  \/ UNCHANGED <<slot, panicked>>
NoPanic  == UNCHANGED <<slot, panicked>>

TaskTo(o, pc)   == task' = [task EXCEPT ![o].pc = pc]
OwnerTo(pc)     == owner' = [owner EXCEPT !.pc = pc]
\* fire_finished: claim the latch, notify its waiters, then publish.
Claim(o, to, lost) ==
  IF latch[o].fired THEN lost /\ UNCHANGED latch
  ELSE to /\ latch' = [latch EXCEPT ![o].fired = TRUE]
Notify(o)  == latch' = [latch EXCEPT ![o].notified = @ + 1] /\ MayPanic
Publish(o) == latch' = [latch EXCEPT ![o].published = TRUE]

-----------------------------------------------------------------------------
(* The task: SharedOffloadFuture::poll. *)

\* A cancelled future is not polled again, and an aborted task not at all.
take_for_poll(o) ==
  /\ task[o].pc = "Idle"
  /\ IF task[o].aborted \/ state[o].cancelled
     THEN TaskTo(o, "Ended") /\ UNCHANGED state
     ELSE /\ TaskTo(o, "Polling")
          /\ state' = [state EXCEPT ![o].future = FALSE, ![o].polling = TRUE]
  /\ UNCHANGED <<latch, ledger, owner>> /\ NoPanic
\* The work stays pending, ends (its completion queued, or its token
\* cancelled), or panics.
PollWork(o) ==
  /\ task[o].pc = "Polling"
  /\ \/ task' = [task EXCEPT ![o].pc = "Polled", ![o].outcome = "Pending"] /\ NoPanic
     \/ task' = [task EXCEPT ![o].pc = "Polled", ![o].outcome = "Finished"] /\ MayPanic
  /\ UNCHANGED <<state, latch, ledger, owner>>
finish_poll(o) ==
  /\ task[o].pc = "Polled"
  /\ IF task[o].outcome = "Pending" /\ ~state[o].cancelled
     THEN /\ TaskTo(o, "Idle")
          /\ state' = [state EXCEPT ![o].polling = FALSE, ![o].future = TRUE]
     ELSE /\ TaskTo(o, "Dispose")
          /\ state' = [state EXCEPT ![o].polling = FALSE]
  /\ UNCHANGED <<latch, ledger, owner>> /\ NoPanic
TaskDispose(o) ==
  /\ task[o].pc = "Dispose" /\ TaskTo(o, "Fire")
  /\ state' = [state EXCEPT ![o].disposed = @ + 1] /\ MayPanic
  /\ UNCHANGED <<latch, ledger, owner>>
TaskFire(o) ==
  /\ task[o].pc = "Fire"
  /\ Claim(o, TaskTo(o, "Notify"), TaskTo(o, "Ended"))
  /\ UNCHANGED <<state, ledger, owner>> /\ NoPanic
TaskNotify(o) ==
  /\ task[o].pc = "Notify" /\ TaskTo(o, "Publish") /\ Notify(o)
  /\ UNCHANGED <<state, ledger, owner>>
TaskPublish(o) ==
  /\ task[o].pc = "Publish" /\ TaskTo(o, "Ended") /\ Publish(o)
  /\ UNCHANGED <<state, ledger, owner>> /\ NoPanic
TaskStep(o) == \/ take_for_poll(o) \/ PollWork(o) \/ finish_poll(o)
               \/ TaskDispose(o) \/ TaskFire(o) \/ TaskNotify(o) \/ TaskPublish(o)

-----------------------------------------------------------------------------
(* The actor: the live loop, RawResources::freeze, join_offloads, and the  *)
(* drop of RawIncarnationOwner.                                            *)

\* Fault: the ledger forgets an offload as soon as its latch is fired.
Fault_ReclaimFired ==
  /\ owner.pc = "Live"
  /\ ledger' = {o \in ledger : ~latch[o].fired}
  /\ UNCHANGED <<state, task, latch, owner>> /\ NoPanic
reclaim_finished ==
  /\ owner.pc = "Live"
  /\ ledger' = {o \in ledger : ~latch[o].published}
  /\ UNCHANGED <<state, task, latch, owner>> /\ NoPanic
\* A retained panic ends the run at the next receive boundary.
resume_pending_panic ==
  /\ owner.pc = "Live" /\ slot
  /\ slot' = FALSE
  /\ owner' = [owner EXCEPT !.pc = "Freeze", !.left = ledger, !.panic = TRUE]
  /\ UNCHANGED <<state, task, latch, ledger, panicked>>
StopRunning ==
  /\ owner.pc = "Live"
  /\ owner' = [owner EXCEPT !.pc = "Freeze", !.left = ledger]
  /\ UNCHANGED <<state, task, latch, ledger>> /\ NoPanic

\* The driver's hard abort drops the task at the await it has come to, in run
\* or in the join.  The drop of the owner still freezes what is not frozen, but
\* cannot join: the entries are let go.
HardAbort ==
  /\ \/ /\ owner.pc = "Live"
        /\ owner' = [owner EXCEPT !.pc = "Freeze", !.left = ledger, !.aborted = TRUE]
        /\ UNCHANGED ledger
     \/ /\ owner.pc = "Join"
        /\ owner' = [owner EXCEPT !.pc = "Drop", !.aborted = TRUE]
        /\ ledger' = {}
  /\ UNCHANGED <<state, task, latch>> /\ NoPanic

\* OffloadResource::cancel, for one entry after another.
Cancelling == owner.at
NextEntry ==
  /\ owner.pc = "Freeze"
  /\ \E o \in owner.left :
       owner' = [owner EXCEPT !.pc = "Signal", !.at = o, !.left = @ \ {o}]
  /\ UNCHANGED <<state, task, latch, ledger>> /\ NoPanic
EndFreeze ==
  /\ owner.pc = "Freeze" /\ owner.left = {}
  /\ OwnerTo(IF owner.aborted THEN "Drop" ELSE "Join")
  /\ ledger' = IF owner.aborted THEN {} ELSE ledger
  /\ UNCHANGED <<state, task, latch>> /\ NoPanic
\* The cancellation latch of the entry wakes whoever waits on its token.
CancelSignal ==
  /\ owner.pc = "Signal" /\ OwnerTo("Cancel") /\ MayPanic
  /\ UNCHANGED <<state, task, latch, ledger>>
cancel ==
  /\ owner.pc = "Cancel"
  /\ state' = [state EXCEPT ![Cancelling].cancelled = TRUE,
                            ![Cancelling].future = FALSE]
  /\ OwnerTo(IF state[Cancelling].polling \/ ~state[Cancelling].future
             THEN "Fire" ELSE "Dispose")
  /\ UNCHANGED <<task, latch, ledger>> /\ NoPanic
CancelDispose ==
  /\ owner.pc = "Dispose" /\ OwnerTo("Fire")
  /\ state' = [state EXCEPT ![Cancelling].disposed = @ + 1] /\ MayPanic
  /\ UNCHANGED <<task, latch, ledger>>
CancelFire ==
  /\ owner.pc = "Fire"
  /\ Claim(Cancelling, OwnerTo("Notify"), OwnerTo("Abort"))
  /\ UNCHANGED <<state, task, ledger>> /\ NoPanic
CancelNotify ==
  /\ owner.pc = "Notify" /\ OwnerTo("Publish") /\ Notify(Cancelling)
  /\ UNCHANGED <<state, task, ledger>>
CancelPublish ==
  /\ owner.pc = "Publish" /\ OwnerTo("Abort") /\ Publish(Cancelling)
  /\ UNCHANGED <<state, task, ledger>> /\ NoPanic
AbortTask ==
  /\ owner.pc = "Abort"
  /\ task' = [task EXCEPT ![Cancelling].aborted = TRUE]
  /\ owner' = [owner EXCEPT !.pc = "Freeze", !.at = "none"]
  /\ UNCHANGED <<state, latch, ledger>> /\ NoPanic
\* Every task the ledger still holds is joined.
join_offloads ==
  /\ owner.pc = "Join" /\ \A o \in ledger : task[o].pc = "Ended"
  /\ OwnerTo("Drop") /\ ledger' = {}
  /\ UNCHANGED <<state, task, latch>> /\ NoPanic
\* The owner's drop reads the slot once and for all.
DropOwner ==
  /\ owner.pc = "Drop"
  /\ owner' = [owner EXCEPT !.pc = "Exited", !.panic = @ \/ slot]
  /\ slot' = FALSE
  /\ UNCHANGED <<state, task, latch, ledger, panicked>>
OwnerStep == \/ NextEntry \/ EndFreeze \/ CancelSignal \/ cancel \/ CancelDispose
             \/ CancelFire \/ CancelNotify \/ CancelPublish \/ AbortTask
             \/ join_offloads \/ DropOwner

Next == \/ \E o \in Offloads : TaskStep(o)
        \/ reclaim_finished \/ resume_pending_panic \/ StopRunning \/ HardAbort
        \/ OwnerStep
\* Tasks are scheduled, and a freeze runs to the end of the teardown.  Nobody
\* need abort.
Fairness == WF_vars(OwnerStep) /\ \A o \in Offloads : WF_vars(TaskStep(o))
Spec == Init /\ [][Next]_vars /\ Fairness

-----------------------------------------------------------------------------
(* Properties. *)

\* An orderly teardown, which nobody aborted, is over.
OrderlyExit == owner.pc = "Exited" /\ ~owner.aborted

\* No panic is masked: a panic of the work, of a released destructor or of a
\* waker, on whichever thread it happened, is in the slot until it is in the
\* verdict, and after an orderly exit none can still come (the ledger keeps an
\* entry until its wake has returned; join_offloads; DropOwner).  A hard abort
\* cannot join, so only a panic later than its verdict may stay in the slot.
NoPanicMasked ==
  /\ panicked => slot \/ owner.panic
  /\ OrderlyExit => ~slot

\* The future of an offload is destroyed at most once, by its poller or by its
\* canceller, and never while it is being polled; after an exit it is destroyed
\* or in the hands of a poll that a hard abort left running (take_for_poll,
\* finish_poll and cancel).
DisposedOnce ==
  \A o \in Offloads :
    /\ state[o].disposed + (IF state[o].future THEN 1 ELSE 0)
         + (IF state[o].polling \/ task[o].pc = "Dispose" THEN 1 ELSE 0)
         + (IF owner.pc = "Dispose" /\ owner.at = o THEN 1 ELSE 0) = 1
    /\ owner.pc = "Exited" => ~state[o].future
    /\ OrderlyExit => state[o].disposed = 1

\* A guard's completion is notified at most once; after any exit it is claimed,
\* so the guard reports finished, and after an orderly one it was notified
\* (fire_finished is claimed by one thread).
NotifiedOnce ==
  \A o \in Offloads :
    /\ latch[o].notified <= 1
    /\ owner.pc = "Exited" => latch[o].fired
    /\ OrderlyExit => latch[o].notified = 1

\* Teardown ends, and in the end all work is destroyed and announced, also what
\* a hard abort left running.
TeardownEnds ==
  /\ owner.pc = "Freeze" ~> owner.pc = "Exited"
  /\ owner.pc = "Exited" ~>
       \A o \in Offloads : state[o].disposed = 1 /\ latch[o].notified = 1

\* Offloaded work is destroyed once and its completion announced once, both
\* before an orderly exit; a panic of it is in the verdict of its incarnation,
\* unless a hard abort gave the verdict before the panic came
\* (SharedOffloadFuture, fire_finished and the owner's drop).
OffloadsAccounted == DisposedOnce /\ NotifiedOnce /\ NoPanicMasked
=============================================================================
