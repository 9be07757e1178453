---------------------------- MODULE OffloadProofs ----------------------------
(***************************************************************************)
(* Offload for any set of offloads: custody of each future, the single     *)
(* announcement of its end, and the verdict that misses no panic.          *)
(***************************************************************************)
EXTENDS Offload, TLAPS

TaskPCs  == {"Idle", "Polling", "Polled", "Dispose", "Fire", "Notify", "Publish",
             "Ended"}
AtEntry  == {"Signal", "Cancel", "Dispose", "Fire", "Notify", "Publish", "Abort"}
OwnerPCs == {"Live", "Freeze", "Join", "Drop", "Exited"} \cup AtEntry
Joined   == {"Drop", "Exited"}

States  == [Offloads -> [future : BOOLEAN, polling : BOOLEAN,
                         cancelled : BOOLEAN, disposed : Nat]]
TaskStates == [Offloads -> [pc : TaskPCs, aborted : BOOLEAN,
                            outcome : {"Pending", "Finished"}]]
Latches == [Offloads -> [fired : BOOLEAN, published : BOOLEAN, notified : Nat]]
Owners  == [pc : OwnerPCs, at : Offloads \cup {"none"}, left : SUBSET Offloads,
            panic : BOOLEAN, aborted : BOOLEAN]
Types == /\ state \in States /\ task \in TaskStates /\ latch \in Latches
         /\ ledger \in SUBSET Offloads /\ owner \in Owners
Flags == slot \in BOOLEAN /\ panicked \in BOOLEAN

Busy(o) == owner.pc \in AtEntry /\ owner.at = o
Done(o) == /\ task[o].pc = "Ended" /\ state[o].disposed = 1
           /\ latch[o].fired /\ latch[o].notified = 1

\* Where the owner is: the ledger is walked once, nothing is left of it when the
\* tasks are joined, and an aborted owner neither runs nor joins.
Walk ==
  /\ owner.pc \in AtEntry => owner.at \in ledger
  /\ owner.left \subseteq ledger
  /\ owner.pc \in {"Live", "Join"} \cup Joined => owner.left = {}
  /\ panicked => slot \/ owner.panic
  /\ owner.pc \in {"Live", "Join"} => ~owner.aborted
  /\ owner.pc = "Exited" /\ ~owner.aborted => ~slot

\* Who has the future of one offload.
Custody(o) ==
  /\ state[o].disposed + (IF state[o].future THEN 1 ELSE 0)
       + (IF state[o].polling \/ task[o].pc = "Dispose" THEN 1 ELSE 0)
       + (IF owner.pc = "Dispose" /\ owner.at = o THEN 1 ELSE 0) = 1
  /\ state[o].polling <=> task[o].pc \in {"Polling", "Polled"}
  /\ state[o].cancelled => ~state[o].future
  /\ task[o].pc = "Idle" /\ ~state[o].cancelled => state[o].future
  /\ task[o].pc \in {"Fire", "Notify", "Publish"} => state[o].disposed = 1
  /\ task[o].pc = "Ended" => ~state[o].future

\* Who announces its end.
Announced(o) ==
  /\ latch[o].notified = IF /\ latch[o].fired /\ task[o].pc # "Notify"
                            /\ ~(owner.pc = "Notify" /\ owner.at = o)
                         THEN 1 ELSE 0
  /\ ~(task[o].pc = "Notify" /\ owner.pc = "Notify" /\ owner.at = o)
  /\ task[o].pc \in {"Notify", "Publish"} => latch[o].fired

\* How far the owner has got with it.
Progress(o) ==
  /\ task[o].aborted => state[o].cancelled
  /\ owner.pc = "Live" => ~state[o].cancelled /\ (latch[o].published => Done(o))
  /\ owner.pc \notin Joined /\ o \notin ledger => Done(o)
  /\ owner.pc \in AtEntry \ {"Signal", "Cancel"} /\ owner.at = o => state[o].cancelled
  /\ owner.at = o /\ owner.pc \in {"Notify", "Publish", "Abort"} => latch[o].fired
  /\ owner.pc # "Live" /\ o \in ledger /\ o \notin owner.left /\ ~Busy(o) =>
       state[o].cancelled /\ latch[o].fired
  /\ owner.pc \in Joined =>
       /\ latch[o].fired /\ (state[o].cancelled \/ Done(o))
       /\ ~owner.aborted => Done(o)

\* The inductive invariant.
IInv == /\ Types /\ Flags /\ Walk
        /\ \A o \in Offloads : Custody(o) /\ Announced(o) /\ Progress(o)

\* Every update of the shared state keeps its type.
LEMMA Updates ==
  ASSUME Types, NEW o \in Offloads
  PROVE  /\ [state EXCEPT ![o].future = FALSE, ![o].polling = TRUE] \in States
         /\ [state EXCEPT ![o].polling = FALSE, ![o].future = TRUE] \in States
         /\ [state EXCEPT ![o].polling = FALSE] \in States
         /\ [state EXCEPT ![o].disposed = @ + 1] \in States
         /\ [state EXCEPT ![o].cancelled = TRUE, ![o].future = FALSE] \in States
         /\ \A pc \in TaskPCs : [task EXCEPT ![o].pc = pc] \in TaskStates
         /\ \A x \in {"Pending", "Finished"} :
              [task EXCEPT ![o].pc = "Polled", ![o].outcome = x] \in TaskStates
         /\ [task EXCEPT ![o].aborted = TRUE] \in TaskStates
         /\ [latch EXCEPT ![o].fired = TRUE] \in Latches
         /\ [latch EXCEPT ![o].notified = @ + 1] \in Latches
         /\ [latch EXCEPT ![o].published = TRUE] \in Latches
<1>1. [state EXCEPT ![o].future = FALSE, ![o].polling = TRUE] \in States
  BY DEF Types, States
<1>2. [state EXCEPT ![o].polling = FALSE, ![o].future = TRUE] \in States
  BY DEF Types, States
<1>3. [state EXCEPT ![o].polling = FALSE] \in States
  BY DEF Types, States
<1>4. [state EXCEPT ![o].disposed = @ + 1] \in States
  BY DEF Types, States
<1>5. [state EXCEPT ![o].cancelled = TRUE, ![o].future = FALSE] \in States
  BY DEF Types, States
<1>6. \A pc \in TaskPCs : [task EXCEPT ![o].pc = pc] \in TaskStates
  BY DEF Types, TaskStates
<1>7. \A x \in {"Pending", "Finished"} :
       [task EXCEPT ![o].pc = "Polled", ![o].outcome = x] \in TaskStates
  BY DEF Types, TaskStates, TaskPCs
<1>8. [task EXCEPT ![o].aborted = TRUE] \in TaskStates
  BY DEF Types, TaskStates
<1>9. [latch EXCEPT ![o].fired = TRUE] \in Latches
  BY DEF Types, Latches
<1>10. [latch EXCEPT ![o].notified = @ + 1] \in Latches
  BY DEF Types, Latches
<1>11. [latch EXCEPT ![o].published = TRUE] \in Latches
  BY DEF Types, Latches
<1> QED BY <1>1, <1>2, <1>3, <1>4, <1>5, <1>6, <1>7, <1>8, <1>9, <1>10, <1>11

\* PanicSlot::record only adds: a panic is in the slot, or was accounted for
\* before the step.
LEMMA PanicRecorded ==
  ASSUME Flags, MayPanic \/ NoPanic
  PROVE  Flags' /\ (panicked' /\ ~slot' => panicked /\ ~slot)
<1>1. CASE slot' = TRUE /\ panicked' = TRUE
  BY <1>1 DEF Flags
<1>2. CASE UNCHANGED <<slot, panicked>>
  BY <1>2 DEF Flags
<1> QED BY <1>1, <1>2 DEF MayPanic, NoPanic

\* A step of the task of one offload keeps the invariant: the future passes
\* from its slot to the poll and back, or to the one destructor call.
LEMMA TaskKeeps ==
  ASSUME IInv, NEW o \in Offloads, TaskStep(o)
  PROVE  IInv'
<1>a. Types /\ Walk /\ Custody(o) /\ Announced(o) /\ Progress(o)
  BY DEF IInv
<1>b. Flags' /\ (panicked' /\ ~slot' => panicked /\ ~slot)
  BY PanicRecorded DEF IInv, TaskStep, take_for_poll, PollWork, finish_poll,
     TaskDispose, TaskFire, TaskNotify, TaskPublish, Notify
<1>c. task[o].pc # "Ended" /\ owner' = owner /\ ledger' = ledger
  BY DEF TaskStep, take_for_poll, PollWork, finish_poll,
     TaskDispose, TaskFire, TaskNotify, TaskPublish
<1>d. Walk'
  <2>1. owner.pc = "Exited" => owner.aborted
    BY <1>a, <1>c DEF Progress, Done, Joined
  <2> QED BY <1>a, <1>b, <1>c, <2>1 DEF Walk
<1>e. Types'
  BY <1>a, Updates DEF Types, TaskPCs, TaskTo, Claim, Notify, Publish, TaskStep,
     take_for_poll, PollWork, finish_poll, TaskDispose, TaskFire, TaskNotify,
     TaskPublish
<1>f. ASSUME NEW p \in Offloads \ {o} PROVE Custody(p)' /\ Announced(p)' /\ Progress(p)'
  <2>1. state'[p] = state[p] /\ task'[p] = task[p] /\ latch'[p] = latch[p]
    BY <1>a
       DEF Types, States, TaskStates, Latches, TaskTo, Claim, Notify, Publish,
       TaskStep, take_for_poll, PollWork, finish_poll, TaskDispose, TaskFire,
       TaskNotify, TaskPublish
  <2>2. Custody(p) /\ Announced(p) /\ Progress(p)
    BY DEF IInv
  <2> QED BY <1>c, <2>1, <2>2 DEF Custody, Announced, Progress, Busy, Done
<1> USE DEF TaskTo, TaskPCs, AtEntry, OwnerPCs, Joined
<1>1. CASE take_for_poll(o)
  <2>1. CASE task[o].aborted \/ state[o].cancelled
    <3>1. /\ state'[o] = state[o]
          /\ task'[o].pc = "Ended" /\ task'[o].aborted = task[o].aborted
          /\ latch'[o] = latch[o]
      BY <1>a, <1>1, <2>1 DEF Types, States, TaskStates, Latches, take_for_poll
    <3>2. Custody(o)'
      BY <1>a, <1>c, <1>1, <2>1, <3>1
         DEF Types, States, Custody, Progress, take_for_poll
    <3>3. Announced(o)'
      BY <1>a, <1>c, <1>1, <2>1, <3>1
         DEF Types, Latches, Announced, Progress, Done, take_for_poll
    <3>4. Progress(o)'
      BY <1>a, <1>c, <1>1, <2>1, <3>1
         DEF Custody, Announced, Progress, Busy, Done, take_for_poll
    <3> QED BY <1>b, <1>d, <1>e, <1>f, <3>2, <3>3, <3>4 DEF IInv
  <2>2. CASE ~(task[o].aborted \/ state[o].cancelled)
    <3>1. /\ state'[o].future = FALSE /\ state'[o].polling = TRUE
          /\ state'[o].cancelled = state[o].cancelled
          /\ state'[o].disposed = state[o].disposed
          /\ task'[o].pc = "Polling" /\ task'[o].aborted = task[o].aborted
          /\ latch'[o] = latch[o]
      BY <1>a, <1>1, <2>2 DEF Types, States, TaskStates, Latches, take_for_poll
    <3>2. Custody(o)'
      BY <1>a, <1>c, <1>1, <2>2, <3>1
         DEF Types, States, Custody, Progress, take_for_poll
    <3>3. Announced(o)'
      BY <1>a, <1>c, <1>1, <2>2, <3>1
         DEF Types, Latches, Announced, Progress, Done, take_for_poll
    <3>4. Progress(o)'
      BY <1>a, <1>c, <1>1, <2>2, <3>1
         DEF Custody, Announced, Progress, Busy, Done, take_for_poll
    <3> QED BY <1>b, <1>d, <1>e, <1>f, <3>2, <3>3, <3>4 DEF IInv
  <2> QED BY <2>1, <2>2
<1>2. CASE PollWork(o)
  <2>1. /\ state'[o] = state[o]
        /\ task'[o].pc = "Polled" /\ task'[o].aborted = task[o].aborted
        /\ latch'[o] = latch[o]
    BY <1>a, <1>2 DEF Types, States, TaskStates, Latches, PollWork
  <2>2. Custody(o)'
    BY <1>a, <1>c, <1>2, <2>1 DEF Types, States, Custody, Progress, PollWork
  <2>3. Announced(o)'
    BY <1>a, <1>c, <1>2, <2>1
       DEF Types, Latches, Announced, Progress, Done, PollWork
  <2>4. Progress(o)'
    BY <1>a, <1>c, <1>2, <2>1
       DEF Custody, Announced, Progress, Busy, Done, PollWork
  <2> QED BY <1>b, <1>d, <1>e, <1>f, <2>2, <2>3, <2>4 DEF IInv
<1>3. CASE finish_poll(o)
  <2>1. CASE task[o].outcome = "Pending" /\ ~state[o].cancelled
    <3>1. /\ state'[o].future = TRUE /\ state'[o].polling = FALSE
          /\ state'[o].cancelled = state[o].cancelled
          /\ state'[o].disposed = state[o].disposed
          /\ task'[o].pc = "Idle" /\ task'[o].aborted = task[o].aborted
          /\ latch'[o] = latch[o]
      BY <1>a, <1>3, <2>1 DEF Types, States, TaskStates, Latches, finish_poll
    <3>2. Custody(o)'
      BY <1>a, <1>c, <1>3, <2>1, <3>1
         DEF Types, States, Custody, Progress, finish_poll
    <3>3. Announced(o)'
      BY <1>a, <1>c, <1>3, <2>1, <3>1
         DEF Types, Latches, Announced, Progress, Done, finish_poll
    <3>4. Progress(o)'
      BY <1>a, <1>c, <1>3, <2>1, <3>1
         DEF Custody, Announced, Progress, Busy, Done, finish_poll
    <3> QED BY <1>b, <1>d, <1>e, <1>f, <3>2, <3>3, <3>4 DEF IInv
  <2>2. CASE ~(task[o].outcome = "Pending" /\ ~state[o].cancelled)
    <3>1. /\ state'[o].future = state[o].future /\ state'[o].polling = FALSE
          /\ state'[o].cancelled = state[o].cancelled
          /\ state'[o].disposed = state[o].disposed
          /\ task'[o].pc = "Dispose" /\ task'[o].aborted = task[o].aborted
          /\ latch'[o] = latch[o]
      BY <1>a, <1>3, <2>2 DEF Types, States, TaskStates, Latches, finish_poll
    <3>2. Custody(o)'
      BY <1>a, <1>c, <1>3, <2>2, <3>1
         DEF Types, States, Custody, Progress, finish_poll
    <3>3. Announced(o)'
      BY <1>a, <1>c, <1>3, <2>2, <3>1
         DEF Types, Latches, Announced, Progress, Done, finish_poll
    <3>4. Progress(o)'
      BY <1>a, <1>c, <1>3, <2>2, <3>1
         DEF Custody, Announced, Progress, Busy, Done, finish_poll
    <3> QED BY <1>b, <1>d, <1>e, <1>f, <3>2, <3>3, <3>4 DEF IInv
  <2> QED BY <2>1, <2>2
<1>4. CASE TaskDispose(o)
  <2>1. /\ state'[o].future = state[o].future
        /\ state'[o].polling = state[o].polling
        /\ state'[o].cancelled = state[o].cancelled
        /\ state'[o].disposed = state[o].disposed + 1
        /\ task'[o].pc = "Fire" /\ task'[o].aborted = task[o].aborted
        /\ latch'[o] = latch[o]
    BY <1>a, <1>4 DEF Types, States, TaskStates, Latches, TaskDispose
  <2>2. Custody(o)'
    BY <1>a, <1>c, <1>4, <2>1 DEF Types, States, Custody, Progress, TaskDispose
  <2>3. Announced(o)'
    BY <1>a, <1>c, <1>4, <2>1
       DEF Types, Latches, Announced, Progress, Done, TaskDispose
  <2>4. Progress(o)'
    BY <1>a, <1>c, <1>4, <2>1
       DEF Custody, Announced, Progress, Busy, Done, TaskDispose
  <2> QED BY <1>b, <1>d, <1>e, <1>f, <2>2, <2>3, <2>4 DEF IInv
<1>5. CASE TaskFire(o)
  <2>1. CASE latch[o].fired
    <3>1. /\ state'[o] = state[o]
          /\ task'[o].pc = "Ended" /\ task'[o].aborted = task[o].aborted
          /\ latch'[o] = latch[o]
      BY <1>a, <1>5, <2>1
         DEF Types, States, TaskStates, Latches, TaskFire, Claim
    <3>2. Custody(o)'
      BY <1>a, <1>c, <1>5, <2>1, <3>1
         DEF Types, States, Custody, Progress, TaskFire
    <3>3. Announced(o)'
      BY <1>a, <1>c, <1>5, <2>1, <3>1
         DEF Types, Latches, Announced, Progress, Done, TaskFire
    <3>4. Progress(o)'
      BY <1>a, <1>c, <1>5, <2>1, <3>1
         DEF Custody, Announced, Progress, Busy, Done, TaskFire
    <3> QED BY <1>b, <1>d, <1>e, <1>f, <3>2, <3>3, <3>4 DEF IInv
  <2>2. CASE ~(latch[o].fired)
    <3>1. /\ state'[o] = state[o]
          /\ task'[o].pc = "Notify" /\ task'[o].aborted = task[o].aborted
          /\ latch'[o].fired = TRUE
          /\ latch'[o].notified = latch[o].notified
          /\ latch'[o].published = latch[o].published
      BY <1>a, <1>5, <2>2
         DEF Types, States, TaskStates, Latches, TaskFire, Claim
    <3>2. Custody(o)'
      BY <1>a, <1>c, <1>5, <2>2, <3>1
         DEF Types, States, Custody, Progress, TaskFire
    <3>3. Announced(o)'
      BY <1>a, <1>c, <1>5, <2>2, <3>1
         DEF Types, Latches, Announced, Progress, Done, TaskFire
    <3>4. Progress(o)'
      BY <1>a, <1>c, <1>5, <2>2, <3>1
         DEF Custody, Announced, Progress, Busy, Done, TaskFire
    <3> QED BY <1>b, <1>d, <1>e, <1>f, <3>2, <3>3, <3>4 DEF IInv
  <2> QED BY <2>1, <2>2
<1>6. CASE TaskNotify(o)
  <2>1. /\ state'[o] = state[o]
        /\ task'[o].pc = "Publish" /\ task'[o].aborted = task[o].aborted
        /\ latch'[o].fired = latch[o].fired
        /\ latch'[o].notified = latch[o].notified + 1
        /\ latch'[o].published = latch[o].published
    BY <1>a, <1>6 DEF Types, States, TaskStates, Latches, TaskNotify, Notify
  <2>2. Custody(o)'
    BY <1>a, <1>c, <1>6, <2>1 DEF Types, States, Custody, Progress, TaskNotify
  <2>3. Announced(o)'
    BY <1>a, <1>c, <1>6, <2>1
       DEF Types, Latches, Announced, Progress, Done, TaskNotify
  <2>4. Progress(o)'
    BY <1>a, <1>c, <1>6, <2>1
       DEF Custody, Announced, Progress, Busy, Done, TaskNotify
  <2> QED BY <1>b, <1>d, <1>e, <1>f, <2>2, <2>3, <2>4 DEF IInv
<1>7. CASE TaskPublish(o)
  <2>1. /\ state'[o] = state[o]
        /\ task'[o].pc = "Ended" /\ task'[o].aborted = task[o].aborted
        /\ latch'[o].fired = latch[o].fired
        /\ latch'[o].notified = latch[o].notified /\ latch'[o].published = TRUE
    BY <1>a, <1>7 DEF Types, States, TaskStates, Latches, TaskPublish, Publish
  <2>2. Custody(o)'
    BY <1>a, <1>c, <1>7, <2>1 DEF Types, States, Custody, Progress, TaskPublish
  <2>3. Announced(o)'
    BY <1>a, <1>c, <1>7, <2>1
       DEF Types, Latches, Announced, Progress, Done, TaskPublish
  <2>4. Progress(o)'
    BY <1>a, <1>c, <1>7, <2>1
       DEF Custody, Announced, Progress, Busy, Done, TaskPublish
  <2> QED BY <1>b, <1>d, <1>e, <1>f, <2>2, <2>3, <2>4 DEF IInv
<1> QED BY <1>1, <1>2, <1>3, <1>4, <1>5, <1>6, <1>7 DEF TaskStep

\* A step of the actor's own task keeps it: the ledger is reclaimed, walked
\* and joined, and the verdict read after that.
LEMMA OwnerKeeps ==
  ASSUME IInv,
         \/ reclaim_finished \/ resume_pending_panic \/ StopRunning \/ HardAbort
         \/ OwnerStep
  PROVE  IInv'
<1>a. Types /\ Walk /\ Flags
  BY DEF IInv
<1>b. \A q \in Offloads : Custody(q) /\ Announced(q) /\ Progress(q)
  BY DEF IInv
<1> USE DEF AtEntry, OwnerPCs, Joined, TaskPCs
<1>1. CASE reclaim_finished
  <2>1. Types'
    BY <1>a, <1>1 DEF Types, Owners, reclaim_finished
  <2>2. Flags' /\ (panicked' /\ ~slot' => panicked /\ ~slot)
    BY <1>a, <1>1, PanicRecorded DEF reclaim_finished
  <2>3. Walk'
    BY <1>a, <2>2, <1>1 DEF Types, Owners, Walk, reclaim_finished
  <2>4. ASSUME NEW p \in Offloads PROVE Custody(p)' /\ Announced(p)' /\ Progress(p)'
    <3>0. Custody(p) /\ Announced(p) /\ Progress(p)
      BY <1>b
    <3> QED BY <3>0, <1>a, <1>1 DEF Types, Owners, Walk, Custody, Announced,
       Progress, Busy, Done, reclaim_finished
  <2> QED BY <2>1, <2>2, <2>3, <2>4 DEF IInv
<1>2. CASE resume_pending_panic
  <2>1. Types'
    BY <1>a, <1>2 DEF Types, Owners, resume_pending_panic
  <2>2. Flags' /\ ~slot' /\ (panicked' => owner'.panic)
    BY <1>a, <1>2 DEF Types, Owners, Flags, Walk, resume_pending_panic
  <2>3. Walk'
    BY <1>a, <2>2, <1>2 DEF Types, Owners, Walk, resume_pending_panic
  <2>4. ASSUME NEW p \in Offloads PROVE Custody(p)' /\ Announced(p)' /\ Progress(p)'
    <3>0. Custody(p) /\ Announced(p) /\ Progress(p)
      BY <1>b
    <3> QED BY <3>0, <1>a, <1>2 DEF Types, Owners, Walk, Custody, Announced,
       Progress, Busy, Done, resume_pending_panic
  <2> QED BY <2>1, <2>2, <2>3, <2>4 DEF IInv
<1>3. CASE StopRunning
  <2>1. Types'
    BY <1>a, <1>3 DEF Types, Owners, StopRunning
  <2>2. Flags' /\ (panicked' /\ ~slot' => panicked /\ ~slot)
    BY <1>a, <1>3, PanicRecorded DEF StopRunning
  <2>3. Walk'
    BY <1>a, <2>2, <1>3 DEF Types, Owners, Walk, StopRunning
  <2>4. ASSUME NEW p \in Offloads PROVE Custody(p)' /\ Announced(p)' /\ Progress(p)'
    <3>0. Custody(p) /\ Announced(p) /\ Progress(p)
      BY <1>b
    <3> QED BY <3>0, <1>a, <1>3 DEF Types, Owners, Walk, Custody, Announced,
       Progress, Busy, Done, StopRunning
  <2> QED BY <2>1, <2>2, <2>3, <2>4 DEF IInv
<1>4. CASE NextEntry
  <2>0. /\ owner.pc = "Freeze"
        /\ state' = state /\ task' = task /\ latch' = latch /\ ledger' = ledger
    BY <1>4 DEF NextEntry
  <2>1. Flags' /\ (panicked' /\ ~slot' => panicked /\ ~slot)
    BY <1>a, <1>4, PanicRecorded DEF NextEntry
  <2>2. PICK o \in owner.left :
          owner' = [owner EXCEPT !.pc = "Signal", !.at = o, !.left = @ \ {o}]
    BY <1>4 DEF NextEntry
  <2>3. o \in Offloads /\ o \in ledger
    BY <1>a DEF Types, Owners, Walk
  <2>4. /\ owner' \in Owners
        /\ owner'.pc = "Signal" /\ owner'.at = o /\ owner'.left = owner.left \ {o}
        /\ owner'.panic = owner.panic /\ owner'.aborted = owner.aborted
    BY <1>a, <2>2, <2>3 DEF Types, Owners
  <2>5. Types' /\ Walk'
    BY <1>a, <2>0, <2>1, <2>3, <2>4 DEF Types, Walk
  <2>6. ASSUME NEW p \in Offloads PROVE Custody(p)' /\ Announced(p)' /\ Progress(p)'
    BY <1>b, <2>0, <2>4 DEF Custody, Announced, Progress, Busy, Done
  <2> QED BY <2>1, <2>5, <2>6 DEF IInv
<1>13. CASE EndFreeze \/ HardAbort
  <2>0. /\ owner.pc \in {"Live", "Freeze", "Join"}
        /\ state' = state /\ task' = task /\ latch' = latch
    BY <1>13 DEF EndFreeze, HardAbort
  <2>1. Flags' /\ (panicked' /\ ~slot' => panicked /\ ~slot)
    BY <1>a, <1>13, PanicRecorded DEF EndFreeze, HardAbort
  <2>2. CASE HardAbort /\ owner.pc = "Live"
    <3>1. /\ owner' \in Owners /\ ledger' = ledger
          /\ owner'.pc = "Freeze" /\ owner'.at = owner.at /\ owner'.left = ledger
          /\ owner'.panic = owner.panic /\ owner'.aborted
      BY <1>a, <2>2 DEF Types, Owners, HardAbort
    <3>2. Types' /\ Walk'
      BY <1>a, <2>0, <2>1, <3>1 DEF Types, Walk
    <3>3. ASSUME NEW p \in Offloads
          PROVE  Custody(p)' /\ Announced(p)' /\ Progress(p)'
      BY <1>b, <2>0, <2>2, <3>1 DEF Custody, Announced, Progress, Busy, Done
    <3> QED BY <2>1, <3>2, <3>3 DEF IInv
  <2>3. CASE EndFreeze /\ ~owner.aborted
    <3>1. /\ owner' \in Owners /\ ledger' = ledger /\ owner.left = {}
          /\ owner'.pc = "Join" /\ owner'.at = owner.at /\ owner'.left = owner.left
          /\ owner'.panic = owner.panic /\ owner'.aborted = owner.aborted
      BY <1>a, <2>3 DEF Types, Owners, EndFreeze, OwnerTo
    <3>2. Types' /\ Walk'
      BY <1>a, <2>0, <2>1, <2>3, <3>1 DEF Types, Walk
    <3>3. ASSUME NEW p \in Offloads
          PROVE  Custody(p)' /\ Announced(p)' /\ Progress(p)'
      BY <1>b, <2>0, <2>3, <3>1 DEF EndFreeze, Custody, Announced, Progress, Busy,
         Done
    <3> QED BY <2>1, <3>2, <3>3 DEF IInv
  <2>4. CASE (HardAbort /\ owner.pc # "Live") \/ (EndFreeze /\ owner.aborted)
    <3>1. /\ owner' \in Owners /\ ledger' = {} /\ owner.left = {}
          /\ owner.pc \in {"Freeze", "Join"}
          /\ owner'.pc = "Drop" /\ owner'.at = owner.at /\ owner'.left = {}
          /\ owner'.panic = owner.panic /\ owner'.aborted
      BY <1>a, <2>4 DEF Types, Owners, Walk, HardAbort, EndFreeze, OwnerTo
    <3>2. Types' /\ Walk'
      BY <1>a, <2>0, <2>1, <3>1 DEF Types, Walk
    <3>3. ASSUME NEW p \in Offloads
          PROVE  Custody(p)' /\ Announced(p)' /\ Progress(p)'
      <4>1. latch[p].fired /\ (state[p].cancelled \/ Done(p))
        BY <1>b, <3>1 DEF Progress, Busy, Done
      <4> QED BY <1>b, <2>0, <3>1, <4>1 DEF Custody, Announced, Progress, Busy, Done
    <3> QED BY <2>1, <3>2, <3>3 DEF IInv
  <2> QED BY <1>13, <2>2, <2>3, <2>4
<1>14. CASE CancelSignal
  <2>1. /\ owner' \in Owners
        /\ owner.pc = "Signal" /\ owner'.pc = "Cancel"
        /\ owner'.at = owner.at /\ owner'.left = owner.left
        /\ owner'.panic = owner.panic /\ owner'.aborted = owner.aborted
        /\ state' = state /\ task' = task /\ latch' = latch /\ ledger' = ledger
    BY <1>a, <1>14 DEF Types, Owners, CancelSignal, OwnerTo
  <2>2. Flags' /\ (panicked' /\ ~slot' => panicked /\ ~slot)
    BY <1>a, <1>14, PanicRecorded DEF CancelSignal
  <2>3. Types' /\ Walk'
    BY <1>a, <2>1, <2>2 DEF Types, Walk
  <2>4. ASSUME NEW p \in Offloads PROVE Custody(p)' /\ Announced(p)' /\ Progress(p)'
    BY <1>b, <2>1 DEF Custody, Announced, Progress, Busy, Done
  <2> QED BY <2>2, <2>3, <2>4 DEF IInv
<1>5. CASE cancel
  <2>c. /\ owner.at \in Offloads
        /\ Custody(owner.at) /\ Announced(owner.at) /\ Progress(owner.at)
    BY <1>a, <1>b, <1>5 DEF Types, Walk, cancel
  <2>1. Types'
    <3>1. /\ state' \in States /\ task' \in TaskStates
          /\ latch' \in Latches /\ ledger' = ledger
      BY <2>c, <1>a, <1>5, Updates DEF Types, cancel, OwnerTo, Cancelling
    <3>2. owner' \in Owners
      BY <2>c, <1>a, <1>5 DEF Types, Owners, cancel, OwnerTo, Cancelling
    <3> QED BY <1>a, <3>1, <3>2 DEF Types
  <2>2. Flags' /\ (panicked' /\ ~slot' => panicked /\ ~slot)
    BY <1>a, <1>5, PanicRecorded DEF cancel
  <2>3. Walk'
    BY <2>c, <1>a, <2>2, <1>5
       DEF Types, Owners, Walk, cancel, OwnerTo, Cancelling
  <2>4. ASSUME NEW p \in Offloads PROVE Custody(p)' /\ Announced(p)' /\ Progress(p)'
    <3>0. Custody(p) /\ Announced(p) /\ Progress(p)
      BY DEF IInv
    <3>1. Custody(p)'
      BY <3>0, <2>c, <1>a, <1>5 DEF Types, Walk, Custody, Progress, cancel,
         States, Owners, OwnerTo, Cancelling
    <3>2. Announced(p)'
      BY <3>0, <2>c, <1>a, <1>5 DEF Types, Walk, Announced, Progress, Done,
         cancel, States, Owners, OwnerTo, Cancelling
    <3>3. Progress(p)'
      BY <3>0, <2>c, <1>a, <1>5 DEF Types, Walk, Custody, Announced, Progress,
         Busy, Done, cancel, States, Owners, OwnerTo, Cancelling
    <3> QED BY <3>1, <3>2, <3>3
  <2> QED BY <2>1, <2>2, <2>3, <2>4 DEF IInv
<1>6. CASE CancelDispose
  <2>c. /\ owner.at \in Offloads
        /\ Custody(owner.at) /\ Announced(owner.at) /\ Progress(owner.at)
    BY <1>a, <1>b, <1>6 DEF Types, Walk, CancelDispose
  <2>1. Types'
    <3>1. /\ state' \in States /\ task' \in TaskStates
          /\ latch' \in Latches /\ ledger' = ledger
      BY <2>c, <1>a, <1>6, Updates DEF Types, CancelDispose, OwnerTo, Cancelling
    <3>2. owner' \in Owners
      BY <2>c, <1>a, <1>6 DEF Types, Owners, CancelDispose, OwnerTo, Cancelling
    <3> QED BY <1>a, <3>1, <3>2 DEF Types
  <2>2. Flags' /\ (panicked' /\ ~slot' => panicked /\ ~slot)
    BY <1>a, <1>6, PanicRecorded DEF CancelDispose
  <2>3. Walk'
    BY <2>c, <1>a, <2>2, <1>6
       DEF Types, Owners, Walk, CancelDispose, OwnerTo, Cancelling
  <2>4. ASSUME NEW p \in Offloads PROVE Custody(p)' /\ Announced(p)' /\ Progress(p)'
    <3>0. Custody(p) /\ Announced(p) /\ Progress(p)
      BY DEF IInv
    <3>1. Custody(p)'
      BY <3>0, <2>c, <1>a, <1>6 DEF Types, Walk, Custody, Progress,
         CancelDispose, States, Owners, OwnerTo, Cancelling
    <3>2. Announced(p)'
      BY <3>0, <2>c, <1>a, <1>6 DEF Types, Walk, Announced, Progress, Done,
         CancelDispose, States, Owners, OwnerTo, Cancelling
    <3>3. Progress(p)'
      BY <3>0, <2>c, <1>a, <1>6 DEF Types, Walk, Custody, Announced, Progress,
         Busy, Done, CancelDispose, States, Owners, OwnerTo, Cancelling
    <3> QED BY <3>1, <3>2, <3>3
  <2> QED BY <2>1, <2>2, <2>3, <2>4 DEF IInv
<1>7. CASE CancelFire
  <2>c. /\ owner.at \in Offloads
        /\ Custody(owner.at) /\ Announced(owner.at) /\ Progress(owner.at)
    BY <1>a, <1>b, <1>7 DEF Types, Walk, CancelFire
  <2>1. Types'
    <3>1. /\ state' \in States /\ task' \in TaskStates
          /\ latch' \in Latches /\ ledger' = ledger
      BY <2>c, <1>a, <1>7, Updates
         DEF Types, CancelFire, OwnerTo, Claim, Cancelling
    <3>2. owner' \in Owners
      BY <2>c, <1>a, <1>7
         DEF Types, Owners, CancelFire, OwnerTo, Claim, Cancelling
    <3> QED BY <1>a, <3>1, <3>2 DEF Types
  <2>2. Flags' /\ (panicked' /\ ~slot' => panicked /\ ~slot)
    BY <1>a, <1>7, PanicRecorded DEF CancelFire
  <2>3. Walk'
    BY <2>c, <1>a, <2>2, <1>7
       DEF Types, Owners, Walk, CancelFire, OwnerTo, Claim, Cancelling
  <2>4. ASSUME NEW p \in Offloads PROVE Custody(p)' /\ Announced(p)' /\ Progress(p)'
    <3>0. Custody(p) /\ Announced(p) /\ Progress(p)
      BY DEF IInv
    <3>1. CASE latch[owner.at].fired
      <4>1. Custody(p)'
        BY <3>0, <2>c, <1>a, <1>7, <3>1 DEF Types, Walk, Custody, Progress,
           CancelFire, Latches, Owners, OwnerTo, Claim, Cancelling
      <4>2. Announced(p)'
        BY <3>0, <2>c, <1>a, <1>7, <3>1 DEF Types, Walk, Announced, Progress,
           Done, CancelFire, Latches, Owners, OwnerTo, Claim, Cancelling
      <4>3. Progress(p)'
        BY <3>0, <2>c, <1>a, <1>7, <3>1 DEF Types, Walk, Custody, Announced,
           Progress, Busy, Done, CancelFire, Latches, Owners, OwnerTo, Claim,
           Cancelling
      <4> QED BY <4>1, <4>2, <4>3
    <3>2. CASE ~(latch[owner.at].fired)
      <4>1. Custody(p)'
        BY <3>0, <2>c, <1>a, <1>7, <3>2 DEF Types, Walk, Custody, Progress,
           CancelFire, Latches, Owners, OwnerTo, Claim, Cancelling
      <4>2. Announced(p)'
        BY <3>0, <2>c, <1>a, <1>7, <3>2 DEF Types, Walk, Announced, Progress,
           Done, CancelFire, Latches, Owners, OwnerTo, Claim, Cancelling
      <4>3. Progress(p)'
        BY <3>0, <2>c, <1>a, <1>7, <3>2 DEF Types, Walk, Custody, Announced,
           Progress, Busy, Done, CancelFire, Latches, Owners, OwnerTo, Claim,
           Cancelling
      <4> QED BY <4>1, <4>2, <4>3
    <3> QED BY <3>1, <3>2
  <2> QED BY <2>1, <2>2, <2>3, <2>4 DEF IInv
<1>8. CASE CancelNotify
  <2>c. /\ owner.at \in Offloads
        /\ Custody(owner.at) /\ Announced(owner.at) /\ Progress(owner.at)
    BY <1>a, <1>b, <1>8 DEF Types, Walk, CancelNotify
  <2>1. Types'
    <3>1. /\ state' \in States /\ task' \in TaskStates
          /\ latch' \in Latches /\ ledger' = ledger
      BY <2>c, <1>a, <1>8, Updates
         DEF Types, CancelNotify, OwnerTo, Notify, Cancelling
    <3>2. owner' \in Owners
      BY <2>c, <1>a, <1>8
         DEF Types, Owners, CancelNotify, OwnerTo, Notify, Cancelling
    <3> QED BY <1>a, <3>1, <3>2 DEF Types
  <2>2. Flags' /\ (panicked' /\ ~slot' => panicked /\ ~slot)
    BY <1>a, <1>8, PanicRecorded DEF CancelNotify, Notify
  <2>3. Walk'
    BY <2>c, <1>a, <2>2, <1>8
       DEF Types, Owners, Walk, CancelNotify, OwnerTo, Notify, Cancelling
  <2>4. ASSUME NEW p \in Offloads PROVE Custody(p)' /\ Announced(p)' /\ Progress(p)'
    <3>0. Custody(p) /\ Announced(p) /\ Progress(p)
      BY DEF IInv
    <3>1. Custody(p)'
      BY <3>0, <2>c, <1>a, <1>8 DEF Types, Walk, Custody, Progress,
         CancelNotify, Latches, Owners, OwnerTo, Notify, Cancelling
    <3>2. Announced(p)'
      BY <3>0, <2>c, <1>a, <1>8 DEF Types, Walk, Announced, Progress, Done,
         CancelNotify, Latches, Owners, OwnerTo, Notify, Cancelling
    <3>3. Progress(p)'
      BY <3>0, <2>c, <1>a, <1>8 DEF Types, Walk, Custody, Announced, Progress,
         Busy, Done, CancelNotify, Latches, Owners, OwnerTo, Notify, Cancelling
    <3> QED BY <3>1, <3>2, <3>3
  <2> QED BY <2>1, <2>2, <2>3, <2>4 DEF IInv
<1>9. CASE CancelPublish
  <2>c. /\ owner.at \in Offloads
        /\ Custody(owner.at) /\ Announced(owner.at) /\ Progress(owner.at)
    BY <1>a, <1>b, <1>9 DEF Types, Walk, CancelPublish
  <2>1. Types'
    <3>1. /\ state' \in States /\ task' \in TaskStates
          /\ latch' \in Latches /\ ledger' = ledger
      BY <2>c, <1>a, <1>9, Updates
         DEF Types, CancelPublish, OwnerTo, Publish, Cancelling
    <3>2. owner' \in Owners
      BY <2>c, <1>a, <1>9
         DEF Types, Owners, CancelPublish, OwnerTo, Publish, Cancelling
    <3> QED BY <1>a, <3>1, <3>2 DEF Types
  <2>2. Flags' /\ (panicked' /\ ~slot' => panicked /\ ~slot)
    BY <1>a, <1>9, PanicRecorded DEF CancelPublish
  <2>3. Walk'
    BY <2>c, <1>a, <2>2, <1>9
       DEF Types, Owners, Walk, CancelPublish, OwnerTo, Publish, Cancelling
  <2>4. ASSUME NEW p \in Offloads PROVE Custody(p)' /\ Announced(p)' /\ Progress(p)'
    <3>0. Custody(p) /\ Announced(p) /\ Progress(p)
      BY DEF IInv
    <3>1. Custody(p)'
      BY <3>0, <2>c, <1>a, <1>9 DEF Types, Walk, Custody, Progress,
         CancelPublish, Latches, Owners, OwnerTo, Publish, Cancelling
    <3>2. Announced(p)'
      BY <3>0, <2>c, <1>a, <1>9 DEF Types, Walk, Announced, Progress, Done,
         CancelPublish, Latches, Owners, OwnerTo, Publish, Cancelling
    <3>3. Progress(p)'
      BY <3>0, <2>c, <1>a, <1>9 DEF Types, Walk, Custody, Announced, Progress,
         Busy, Done, CancelPublish, Latches, Owners, OwnerTo, Publish,
         Cancelling
    <3> QED BY <3>1, <3>2, <3>3
  <2> QED BY <2>1, <2>2, <2>3, <2>4 DEF IInv
<1>10. CASE AbortTask
  <2>c. /\ owner.at \in Offloads
        /\ Custody(owner.at) /\ Announced(owner.at) /\ Progress(owner.at)
    BY <1>a, <1>b, <1>10 DEF Types, Walk, AbortTask
  <2>1. Types'
    <3>1. /\ state' \in States /\ task' \in TaskStates
          /\ latch' \in Latches /\ ledger' = ledger
      BY <2>c, <1>a, <1>10, Updates DEF Types, AbortTask, Cancelling
    <3>2. owner' \in Owners
      BY <2>c, <1>a, <1>10 DEF Types, Owners, AbortTask, Cancelling
    <3> QED BY <1>a, <3>1, <3>2 DEF Types
  <2>2. Flags' /\ (panicked' /\ ~slot' => panicked /\ ~slot)
    BY <1>a, <1>10, PanicRecorded DEF AbortTask
  <2>3. Walk'
    BY <2>c, <1>a, <2>2, <1>10 DEF Types, Owners, Walk, AbortTask, Cancelling
  <2>4. ASSUME NEW p \in Offloads PROVE Custody(p)' /\ Announced(p)' /\ Progress(p)'
    <3>0. Custody(p) /\ Announced(p) /\ Progress(p)
      BY DEF IInv
    <3>1. Custody(p)'
      BY <3>0, <2>c, <1>a, <1>10 DEF Types, Walk, Custody, Progress,
         AbortTask, States, TaskStates, Latches, Owners, Cancelling
    <3>2. Announced(p)'
      BY <3>0, <2>c, <1>a, <1>10 DEF Types, Walk, Announced, Progress, Done,
         AbortTask, States, TaskStates, Latches, Owners, Cancelling
    <3>3. /\ state'[p] = state[p] /\ latch'[p] = latch[p] /\ ledger' = ledger
          /\ task'[p].pc = task[p].pc
          /\ task'[p].aborted => p = owner.at \/ task[p].aborted
          /\ owner'.pc = "Freeze" /\ owner'.at = "none" /\ owner'.left = owner.left
      BY <1>a, <2>c, <1>10 DEF Types, TaskStates, Owners, AbortTask, Cancelling
    <3>4. Progress(p)'
      BY <3>0, <2>c, <1>10, <3>3 DEF Progress, Busy, Done, AbortTask
    <3> QED BY <3>1, <3>2, <3>4
  <2> QED BY <2>1, <2>2, <2>3, <2>4 DEF IInv
<1>11. CASE join_offloads
  <2>1. Types'
    BY <1>a, <1>11 DEF Types, Owners, join_offloads, OwnerTo
  <2>2. Flags' /\ (panicked' /\ ~slot' => panicked /\ ~slot)
    BY <1>a, <1>11, PanicRecorded DEF join_offloads
  <2>3. Walk'
    BY <1>a, <2>2, <1>11 DEF Types, Owners, Walk, join_offloads, OwnerTo
  <2>4. ASSUME NEW p \in Offloads PROVE Custody(p)' /\ Announced(p)' /\ Progress(p)'
    <3>0. Custody(p) /\ Announced(p) /\ Progress(p)
      BY DEF IInv
    <3>1. Custody(p)'
      BY <3>0, <1>a, <1>11 DEF Types, Walk, Custody, Progress, join_offloads,
         States, Latches, Owners, OwnerTo
    <3>2. Announced(p)'
      BY <3>0, <1>a, <1>11 DEF Types, Walk, Announced, Progress, Done,
         join_offloads, States, Latches, Owners, OwnerTo
    <3>3. Progress(p)'
      BY <3>0, <1>a, <1>11 DEF Types, Walk, Custody, Announced, Progress,
         Busy, Done, join_offloads, States, Latches, Owners, OwnerTo
    <3> QED BY <3>1, <3>2, <3>3
  <2> QED BY <2>1, <2>2, <2>3, <2>4 DEF IInv
<1>12. CASE DropOwner
  <2>1. Types'
    BY <1>a, <1>12 DEF Types, Owners, DropOwner
  <2>2. Flags' /\ ~slot' /\ (panicked' => owner'.panic)
    BY <1>a, <1>12 DEF Types, Owners, Flags, Walk, DropOwner
  <2>3. Walk'
    BY <1>a, <2>2, <1>12 DEF Types, Owners, Walk, DropOwner
  <2>4. ASSUME NEW p \in Offloads PROVE Custody(p)' /\ Announced(p)' /\ Progress(p)'
    <3>0. Custody(p) /\ Announced(p) /\ Progress(p)
      BY <1>b
    <3> QED BY <3>0, <1>a, <1>12 DEF Types, Owners, Walk, Custody, Announced,
       Progress, Busy, Done, DropOwner
  <2> QED BY <2>1, <2>2, <2>3, <2>4 DEF IInv
<1> QED BY <1>1, <1>2, <1>3, <1>4, <1>5, <1>6, <1>7, <1>8, <1>9, <1>10, <1>11,
   <1>12, <1>13, <1>14 DEF OwnerStep

\* Offloaded work, for any number of offloads: destroyed once and announced
\* once, both before an orderly exit, and no panic of it missing from the
\* verdict, but for one that comes after the verdict of a hard abort
\* (SharedOffloadFuture, fire_finished, reclaim_finished, join_offloads and the
\* owner's drop).
THEOREM OffloadsAlwaysAccounted == Spec => []OffloadsAccounted
<1>1. Init => IInv
  <2> SUFFICES ASSUME Init PROVE IInv
    OBVIOUS
  <2> USE DEF TaskPCs, AtEntry, OwnerPCs, Joined
  <2>1. Types
    BY DEF Init, Types, States, TaskStates, Latches, Owners
  <2>2. Flags /\ Walk
    BY DEF Init, Flags, Walk
  <2>3. ASSUME NEW o \in Offloads PROVE Custody(o) /\ Announced(o) /\ Progress(o)
    <3>0. /\ owner.pc = "Live" /\ o \in ledger /\ task[o].pc = "Idle"
          /\ ~task[o].aborted
          /\ state[o].future /\ ~state[o].polling /\ ~state[o].cancelled
          /\ state[o].disposed = 0
          /\ ~latch[o].fired /\ ~latch[o].published /\ latch[o].notified = 0
      BY DEF Init
    <3>1. Custody(o)
      BY <3>0 DEF Custody
    <3>2. Announced(o)
      BY <3>0 DEF Announced
    <3>3. Progress(o)
      BY <3>0 DEF Progress
    <3> QED BY <3>1, <3>2, <3>3
  <2> QED BY <2>1, <2>2, <2>3 DEF IInv
<1>2. IInv /\ [Next]_vars => IInv'
  <2>1. ASSUME IInv, UNCHANGED vars PROVE IInv'
    BY <2>1 DEF vars, IInv, Types, Flags, Walk, Custody, Announced, Progress,
       Busy, Done
  <2>2. ASSUME IInv, Next PROVE IInv'
    BY <2>2, TaskKeeps, OwnerKeeps DEF Next
  <2> QED BY <2>1, <2>2
<1>3. IInv => OffloadsAccounted
  <2> SUFFICES ASSUME IInv PROVE OffloadsAccounted
    OBVIOUS
  <2>1. ASSUME NEW o \in Offloads, owner.pc = "Exited"
        PROVE  /\ latch[o].fired /\ ~state[o].future
               /\ ~owner.aborted => Done(o)
    <3>1. Custody(o) /\ Progress(o)
      BY DEF IInv
    <3>2. latch[o].fired /\ (state[o].cancelled \/ Done(o))
      BY <2>1, <3>1 DEF Progress, Joined
    <3>3. ~owner.aborted => Done(o)
      BY <2>1, <3>1 DEF Progress, Joined
    <3>4. ~state[o].future
      BY <3>1, <3>2 DEF Custody, Done
    <3> QED BY <3>2, <3>3, <3>4
  <2>2. DisposedOnce
    BY <2>1 DEF IInv, Custody, Done, DisposedOnce, OrderlyExit
  <2>3. NotifiedOnce
    BY <2>1 DEF IInv, Announced, Done, NotifiedOnce, OrderlyExit
  <2>4. NoPanicMasked
    BY DEF IInv, Walk, NoPanicMasked, OrderlyExit
  <2> QED BY <2>2, <2>3, <2>4 DEF OffloadsAccounted
<1> QED BY <1>1, <1>2, <1>3, PTL DEF Spec
=============================================================================
