------------------------------ MODULE Mailbox ------------------------------
(***************************************************************************)
(* The mailbox of one actor membership (crates/shelterwood/src/mailbox).   *)
(*                                                                         *)
(* Three parties meet in one cell.  Senders submit a message and, when it  *)
(* is not accepted at once, park a send operation behind the cell; they    *)
(* can also time out, be dropped, or change tasks while they wait.  The    *)
(* driver of the owning scope binds the cell to each incarnation, freezes  *)
(* it, closes it and at the end terminalizes it.  The actor task receives. *)
(*                                                                         *)
(* One action is one critical section: what a method does under the        *)
(* mailbox lock, or under an operation's own lock.  The notifications a    *)
(* critical section owes (a pulse of the change signal, wakers to wake)    *)
(* run after the lock is released; they wait in `effects` in between.      *)
(* Each sender sends one message, so a message is named by its sender.     *)
(* Incarnation 0 stands for None.                                          *)
(***************************************************************************)
EXTENDS Integers, Sequences, FiniteSets, SequencesExt

CONSTANTS Senders,          \* the send futures, each with its message
          Capacity,         \* capacity of a queue mailbox
          Kinds,            \* the mailbox kinds configure may resolve to
          MaxIncarnation,   \* bound on rebinds
          Tasks,            \* the tasks a send future may be polled from: 1..k
          Trying,           \* senders that may call try_send instead of send
          Timed,            \* senders whose send has a deadline
          Fickle,           \* senders that may drop their future
          DriverDrops       \* whether the driver may be dropped

ASSUME MailboxAssumption ==
    /\ IsFiniteSet(Senders)
    /\ Capacity \in Nat \ {0}
    /\ Kinds \subseteq {"Queue", "Latest"}
    /\ MaxIncarnation \in Nat \ {0}
    /\ Tasks \in SUBSET (Nat \ {0}) /\ 1 \in Tasks
    /\ Trying \subseteq Senders /\ Timed \subseteq Senders /\ Fickle \subseteq Senders
    /\ DriverDrops \in BOOLEAN

VARIABLES
    kind,        \* MailboxState.kind: "None" until configured
    phase,       \* MailboxState.phase
    lastBound,   \* MailboxState.last_bound
    queue,       \* MailboxState.queue, or the at most one value of `latest`
    waiters,     \* MailboxState.waiters, oldest first
    accepted,    \* the accepted-sequence counter
    op,          \* each sender's SendOperation
    send,        \* each sender's future
    woken,       \* senders whose task was woken: <<sender, task>>
    effects,     \* notifications owed after an unlock
    teardown,    \* MailboxTeardown between prepare_termination and its end
    changed,     \* whether the actor's watcher has an unseen pulse
    actor,       \* the actor task and its ready batch
    shutdown,    \* the incarnation's shutdown token
    driver,      \* the owning scope driver
    acceptedBy,  \* history: the incarnation that accepted each message
    receivedBy,  \* history: the incarnation that received each message
    disposed     \* history: messages destroyed by the framework

cell == <<kind, phase, lastBound, queue, waiters, accepted>>
sending == <<op, send, woken>>
hosting == <<teardown, actor, shutdown, driver, changed>>
history == <<acceptedBy, receivedBy, disposed>>
vars == <<cell, sending, effects, hosting, history>>

Incarnations == 0 .. MaxIncarnation

NoOperation == [outcome |-> "None", inc |-> 0, registered |-> FALSE, waker |-> 0]

\* The states of a send future: Immediate before its first poll; Polling and
\* Cloning inside a poll, before and after the operation asked for a waker.
\* `seen` is history: the newest incarnation bound during the attempt.
NewSend == [state |-> "Immediate", task |-> 1, expired |-> FALSE,
            result |-> "None", inc |-> 0, seen |-> 0]

NoActor == [pc |-> "Absent", inc |-> 0, open |-> FALSE, cutoff |-> 0,
            delivered |-> FALSE]

Init ==
    /\ kind = "None"
    /\ phase = [at |-> "Unbound", inc |-> 0]
    /\ lastBound = 0
    /\ queue = <<>> /\ waiters = <<>> /\ accepted = 0
    /\ op = [s \in Senders |-> NoOperation]
    /\ send = [s \in Senders |-> NewSend]
    /\ woken = {}
    /\ effects = [pulse |-> FALSE, wake |-> {}]
    /\ teardown = [pulse |-> FALSE, waiters |-> <<>>]
    /\ changed = FALSE
    /\ actor = NoActor
    /\ shutdown = FALSE
    /\ driver = "Live"
    /\ acceptedBy = [s \in Senders |-> 0]
    /\ receivedBy = [s \in Senders |-> 0]
    /\ disposed = {}

-----------------------------------------------------------------------------
\* The cell.

\* Phase::observation.
Observation == IF phase.at \in {"Bound", "Frozen"} THEN phase.inc ELSE 0

Messages(q) == {q[i].msg : i \in 1 .. Len(q)}

\* accept_locked refuses behind a waiter, or when a queue is full.
Accepting == waiters = <<>> /\ (kind = "Queue" => Len(queue) < Capacity)

\* push_accepted for the messages ms, onto q.  A latest mailbox keeps only
\* the newest.
Push(q, ms) ==
    LET grown == q \o [i \in 1 .. Len(ms) |->
                         [msg |-> ms[i], seq |-> accepted + i]]
    IN  IF kind = "Queue" \/ grown = <<>> THEN grown ELSE <<Last(grown)>>

\* What that push displaces.
Displaced(q, ms) == (Messages(q) \cup ToSet(ms)) \ Messages(Push(q, ms))

Record(ms, inc) ==
    acceptedBy' = [s \in Senders |-> IF s \in ms THEN inc ELSE acceptedBy[s]]

\* Fault: room is computed before the received message leaves the queue.
Fault_StaleRoom(q) ==
    LET room == IF kind = "Queue" THEN Capacity - Len(queue) ELSE Len(waiters)
    IN  SubSeq(waiters, 1, IF room < Len(waiters) THEN room ELSE Len(waiters))

\* The waiters promote_waiters admits into q: the oldest, while there is
\* room.  All of them are Waiting, so accept yields each one's message.
Promotable(q) ==
    LET room == IF kind = "Queue" THEN Capacity - Len(q) ELSE Len(waiters)
    IN  SubSeq(waiters, 1, IF room < Len(waiters) THEN room ELSE Len(waiters))

\* promote_waiters, from the operations ops.
PromoteWaiters(q, ops) ==
    LET up == Promotable(q)
    IN  /\ queue' = Push(q, up)
        /\ waiters' = SubSeq(waiters, Len(up) + 1, Len(waiters))
        /\ accepted' = accepted + Len(up)
        /\ op' = [s \in Senders |->
                    IF s \in ToSet(up)
                    THEN [NoOperation EXCEPT !.outcome = "Accepted",
                                             !.inc = phase'.inc]
                    ELSE ops[s]]
        /\ disposed' = disposed \cup Displaced(q, up)
        /\ Record(ToSet(up), phase'.inc)

\* The wakers accept takes from the promoted operations.
PromotedWakes(q) ==
    {<<s, op[s].waker>> : s \in {t \in ToSet(Promotable(q)) : op[t].waker # 0}}

Owe(pulse, wake) ==
    effects' = [pulse |-> effects.pulse \/ pulse, wake |-> effects.wake \cup wake]

\* The flush of a transaction's effects after its unlock.
FlushPulse ==
    /\ effects.pulse
    /\ effects' = [effects EXCEPT !.pulse = FALSE]
    /\ changed' = TRUE
    /\ UNCHANGED <<cell, sending, teardown, actor, shutdown, driver, history>>

FlushWake(w) ==
    /\ w \in effects.wake
    /\ effects' = [effects EXCEPT !.wake = @ \ {w}]
    /\ woken' = woken \cup {w}
    /\ UNCHANGED <<cell, op, send, hosting, history>>

-----------------------------------------------------------------------------
\* Senders.

\* The future completes with this result and incarnation evidence.
Resolve(s, state, result, inc) ==
    send' = [send EXCEPT ![s] = [NewSend EXCEPT
                !.state = state, !.result = result, !.inc = inc,
                !.seen = IF result = "TimedOut" THEN send[s].seen ELSE 0]]

\* The message of s enters the bound mailbox.
AcceptNow(s) ==
    /\ queue' = Push(queue, <<s>>)
    /\ accepted' = accepted + 1
    /\ disposed' = disposed \cup Displaced(queue, <<s>>)
    /\ Record({s}, phase.inc)
    /\ Owe(TRUE, {})
    /\ UNCHANGED <<receivedBy, waiters, op>>

\* Fault: the newest waiter is first.
Fault_ParkInFront(s) ==
    /\ waiters' = <<s>> \o waiters
    /\ op' = [op EXCEPT ![s] = [outcome |-> "Waiting", inc |-> Observation,
                                registered |-> TRUE, waker |-> 0]]
    /\ send' = [send EXCEPT ![s].state = "Polling", ![s].seen = Observation]
    /\ UNCHANGED <<queue, accepted, effects, history>>

\* WaiterQueue::park, with the incarnation the phase shows.
Park(s) ==
    /\ waiters' = Append(waiters, s)
    /\ op' = [op EXCEPT ![s] = [outcome |-> "Waiting", inc |-> Observation,
                                registered |-> TRUE, waker |-> 0]]
    /\ send' = [send EXCEPT ![s].state = "Polling", ![s].seen = Observation]
    /\ UNCHANGED <<queue, accepted, effects, history>>

\* SendFuture::poll of an Immediate future: MailboxCell::submit.
Submit(s) ==
    /\ send[s].state = "Immediate"
    /\ \/ /\ phase.at = "Terminal"
          /\ Resolve(s, "Done", "Terminated", phase.inc)
          /\ UNCHANGED <<queue, accepted, waiters, op, effects, history>>
       \/ /\ phase.at = "Bound" /\ Accepting
          /\ Resolve(s, "Sent", "Ok", phase.inc)
          /\ AcceptNow(s)
       \/ /\ phase.at # "Terminal"
          /\ ~(phase.at = "Bound" /\ Accepting)
          /\ Park(s)
    /\ UNCHANGED <<kind, phase, lastBound, woken, hosting>>

\* ActorRef::try_send: MailboxCell::try_send.
TrySend(s) ==
    /\ s \in Trying /\ send[s].state = "Immediate"
    /\ IF phase.at = "Bound" /\ Accepting
       THEN Resolve(s, "Sent", "Ok", phase.inc) /\ AcceptNow(s)
       ELSE /\ Resolve(s, "Done",
                       CASE phase.at = "Terminal" -> "Terminated"
                         [] phase.at = "Bound" -> "Full"
                         [] OTHER -> "NotRunning",
                       IF phase.at = "Terminal" THEN phase.inc ELSE Observation)
            /\ UNCHANGED <<queue, accepted, waiters, op, effects, history>>
    /\ UNCHANGED <<kind, phase, lastBound, woken, hosting>>

\* The future has taken its operation's outcome, and drops the operation.
Retired(o) == [NoOperation EXCEPT !.outcome = "Retired", !.registered = o.registered]

\* SendOperation::poll without a replacement waker.
PollOperation(s) ==
    /\ send[s].state = "Polling"
    /\ \/ /\ op[s].outcome = "Accepted"
          /\ Resolve(s, "Sent", "Ok", op[s].inc)
          /\ op' = [op EXCEPT ![s] = Retired(@)]
       \/ /\ op[s].outcome = "Terminated"
          /\ Resolve(s, "Done", "Terminated", op[s].inc)
          /\ op' = [op EXCEPT ![s] = Retired(@)]
       \/ /\ op[s].outcome = "Waiting"
          /\ send' = [send EXCEPT ![s].state =
                        IF op[s].waker = send[s].task THEN "Parked" ELSE "Cloning"]
          /\ UNCHANGED op
    /\ UNCHANGED <<cell, woken, effects, hosting, history>>

\* Fault: the waker is installed without reading the outcome again.
Fault_InstallBlind(s) ==
    /\ send[s].state = "Cloning"
    /\ op' = [op EXCEPT ![s].waker = send[s].task]
    /\ send' = [send EXCEPT ![s].state = "Parked"]
    /\ UNCHANGED <<cell, woken, effects, hosting, history>>

\* SendOperation::poll with the waker cloned since: only a Waiting operation
\* takes it, any other outcome is read again.
InstallWaker(s) ==
    /\ send[s].state = "Cloning"
    /\ \/ /\ op[s].outcome = "Waiting"
          /\ op' = [op EXCEPT ![s].waker = send[s].task]
          /\ send' = [send EXCEPT ![s].state = "Parked"]
       \/ /\ op[s].outcome # "Waiting"
          /\ send' = [send EXCEPT ![s].state = "Polling"]
          /\ UNCHANGED op
    /\ UNCHANGED <<cell, woken, effects, hosting, history>>

\* The task that holds the parked future was woken, and polls it again.
Repoll(s) ==
    /\ send[s].state = "Parked" /\ ~send[s].expired
    /\ <<s, send[s].task>> \in woken
    /\ woken' = woken \ {<<s, send[s].task>>}
    /\ send' = [send EXCEPT ![s].state = "Polling"]
    /\ UNCHANGED <<cell, op, effects, hosting, history>>

\* The parked future moves to another task, which polls it.
Migrate(s) ==
    /\ send[s].state = "Parked" /\ ~send[s].expired
    /\ \E t \in Tasks :
          /\ t > send[s].task
          /\ send' = [send EXCEPT ![s].state = "Polling", ![s].task = t]
    /\ UNCHANGED <<cell, op, woken, effects, hosting, history>>

\* The deadline of send_timeout fires: the operation is polled once more.
Expire(s) ==
    /\ s \in Timed /\ send[s].state = "Parked" /\ ~send[s].expired
    /\ send' = [send EXCEPT ![s].state = "Polling", ![s].expired = TRUE]
    /\ UNCHANGED <<cell, op, woken, effects, hosting, history>>

\* MailboxCell::withdraw under both locks: the outcome is taken, and a
\* registration leaves the waiter queue (unless teardown detached it).
WithdrawOperation(s) ==
    /\ op' = [op EXCEPT ![s] = [Retired(@) EXCEPT !.registered = FALSE]]
    /\ IF op[s].registered /\ s \in ToSet(waiters)
       THEN \E i \in DOMAIN waiters :
              waiters[i] = s /\ waiters' = RemoveAt(waiters, i)
       ELSE UNCHANGED waiters
    /\ UNCHANGED <<kind, phase, lastBound, queue, accepted>>

\* An expired send still pending withdraws; the outcome that was there is
\* what it reports.
Withdraw(s) ==
    /\ send[s].state = "Parked" /\ send[s].expired
    /\ WithdrawOperation(s)
    /\ LET o == op[s] IN
       CASE o.outcome = "Waiting" ->
              Resolve(s, "Done", "TimedOut",
                      IF o.inc # 0 THEN o.inc ELSE Observation)
         [] o.outcome = "Accepted" -> Resolve(s, "Done", "Ok", o.inc)
         [] OTHER -> Resolve(s, "Done", "Terminated", o.inc)
    /\ UNCHANGED <<woken, effects, hosting, history>>

\* A zero budget: the unsubmitted message comes back with the current binding.
ZeroBudget(s) ==
    /\ s \in Timed /\ send[s].state = "Immediate"
    /\ send' = [send EXCEPT ![s].state = "Done", ![s].result = "TimedOut",
                            ![s].inc = Observation, ![s].seen = Observation]
    /\ UNCHANGED <<cell, op, woken, effects, hosting, history>>

\* SendFuture::drop: an unaccepted message is disposed.
Drop(s) ==
    /\ s \in Fickle
    /\ \/ /\ send[s].state = "Immediate"
          /\ disposed' = disposed \cup {s}
          /\ UNCHANGED <<cell, op>>
       \/ /\ send[s].state = "Parked" /\ ~send[s].expired
          /\ WithdrawOperation(s)
          /\ disposed' = IF op[s].outcome = "Accepted" THEN disposed
                         ELSE disposed \cup {s}
    /\ Resolve(s, "Done", "Dropped", 0)
    /\ UNCHANGED <<woken, effects, hosting, acceptedBy, receivedBy>>

-----------------------------------------------------------------------------
\* The driver of the owning scope.

Configure ==
    /\ kind = "None" /\ driver = "Live" /\ phase.at = "Unbound"
    /\ kind' \in Kinds
    /\ UNCHANGED <<phase, lastBound, queue, waiters, accepted, sending, effects,
                   hosting, history>>

\* Fault: a bind does not show its incarnation to the waiters.
Fault_NoObserve(s, inc) == op[s]

\* observe_all: a bind is evidence for every operation parked through it.
Observe(s, inc) == IF s \in ToSet(waiters) THEN [op[s] EXCEPT !.inc = inc] ELSE op[s]

\* MailboxCell::bind, called by the spawn of the next incarnation.
Bind ==
    /\ kind # "None" /\ driver = "Live"
    /\ actor.pc = "Absent" /\ phase.at = "Unbound"
    /\ lastBound < MaxIncarnation
    /\ lastBound' = lastBound + 1
    /\ phase' = [at |-> "Bound", inc |-> lastBound + 1]
    /\ PromoteWaiters(queue, [s \in Senders |-> Observe(s, lastBound + 1)])
    /\ Owe(TRUE, PromotedWakes(queue))
    /\ actor' = [NoActor EXCEPT !.pc = "Spawned", !.inc = lastBound + 1]
    /\ shutdown' = FALSE
    /\ send' = [s \in Senders |->
                  IF send[s].state \in {"Polling", "Cloning", "Parked"}
                  THEN [send[s] EXCEPT !.seen = lastBound + 1] ELSE send[s]]
    /\ UNCHANGED <<kind, woken, teardown, changed, driver, receivedBy>>

\* MailboxCell::freeze: a no-op unless bound to this incarnation.
Freeze(inc) ==
    IF phase = [at |-> "Bound", inc |-> inc]
    THEN phase' = [phase EXCEPT !.at = "Frozen"] /\ Owe(TRUE, {})
    ELSE UNCHANGED <<phase, effects>>

\* The stop ladder begins: the mailbox freezes, then the token fires.
Stop ==
    /\ driver = "Live" /\ actor.pc # "Absent" /\ ~shutdown
    /\ Freeze(actor.inc)
    /\ driver' = "Stopping"
    /\ UNCHANGED <<kind, lastBound, queue, waiters, accepted, sending, teardown,
                   actor, shutdown, changed, history>>

Cancel ==
    /\ driver = "Stopping"
    /\ driver' = "Live" /\ shutdown' = TRUE
    /\ UNCHANGED <<cell, sending, effects, teardown, actor, changed, history>>

\* MailboxCell::close: the unread payload leaves for disposal, the waiters stay.
\* It does nothing when the incarnation is not the bound one.
CloseBinding(inc) ==
    IF inc # 0 /\ Observation = inc
    THEN /\ phase' = [at |-> "Unbound", inc |-> 0]
         /\ queue' = <<>>
         /\ disposed' = disposed \cup Messages(queue)
         /\ Owe(TRUE, {})
    ELSE UNCHANGED <<phase, queue, disposed, effects>>

\* The driver dispatches the exit of the incarnation.
Close ==
    /\ driver = "Live" /\ actor.pc = "Exited"
    /\ CloseBinding(actor.inc)
    /\ actor' = NoActor
    /\ UNCHANGED <<kind, lastBound, waiters, accepted, sending, teardown, shutdown,
                   driver, changed, acceptedBy, receivedBy>>

\* The driver is dropped: the scope epilogue freezes and closes the mailbox
\* of a running child, then cancels and aborts its task.
DropDriver ==
    /\ DriverDrops /\ driver = "Live" /\ phase.at # "Terminal"
    /\ Freeze(actor.inc)
    /\ driver' = "Dropping"
    /\ UNCHANGED <<kind, lastBound, queue, waiters, accepted, sending, teardown,
                   actor, shutdown, changed, history>>

CloseDropped ==
    /\ driver = "Dropping"
    /\ CloseBinding(actor.inc)
    /\ driver' = "Dropped" /\ shutdown' = TRUE
    /\ UNCHANGED <<kind, lastBound, waiters, accepted, sending, teardown, actor,
                   changed, acceptedBy, receivedBy>>

\* MailboxCell::prepare_termination, when the member turns terminal.
PrepareTermination ==
    /\ phase.at # "Terminal"
    /\ driver = "Dropped" \/ (driver = "Live" /\ actor.pc = "Absent")
    /\ phase' = [at |-> "Terminal", inc |-> lastBound]
    /\ teardown' = [pulse |-> TRUE, waiters |-> waiters]
    /\ waiters' = <<>> /\ queue' = <<>>
    /\ disposed' = disposed \cup Messages(queue)
    /\ UNCHANGED <<kind, lastBound, accepted, sending, effects, actor, shutdown,
                   driver, changed, acceptedBy, receivedBy>>

\* MailboxTeardown::finish_framework, after the observation gate is released.
TeardownPulse ==
    /\ teardown.pulse
    /\ teardown' = [teardown EXCEPT !.pulse = FALSE]
    /\ changed' = TRUE
    /\ UNCHANGED <<cell, sending, effects, actor, shutdown, driver, history>>

\* Termination::finish, one waiter: a withdrawal may have come first.
Discharge ==
    /\ ~teardown.pulse /\ teardown.waiters # <<>>
    /\ LET s == Head(teardown.waiters) IN
       IF op[s].outcome = "Waiting"
       THEN /\ op' = [op EXCEPT ![s] = [NoOperation EXCEPT !.outcome = "Terminated",
                                                           !.inc = phase.inc]]
            /\ Owe(FALSE, IF op[s].waker # 0 THEN {<<s, op[s].waker>>} ELSE {})
       ELSE /\ op' = [op EXCEPT ![s].registered = FALSE]
            /\ UNCHANGED effects
    /\ teardown' = [teardown EXCEPT !.waiters = Tail(@)]
    /\ UNCHANGED <<cell, send, woken, actor, shutdown, driver, changed, history>>

-----------------------------------------------------------------------------
\* The actor task: RawContext::recv and the mailbox stage of its selector.

\* MailboxReceiver::new takes a watcher that has seen every earlier pulse.
StartActor ==
    /\ actor.pc = "Spawned"
    /\ actor' = [actor EXCEPT !.pc = "Recv"]
    /\ changed' = FALSE
    /\ UNCHANGED <<cell, sending, effects, teardown, shutdown, driver, history>>

\* recv: a fired token freezes the intake and ends the loop; a local stop
\* freezes it and waits for the token.
Recv ==
    /\ actor.pc = "Recv"
    /\ \/ /\ shutdown
          /\ Freeze(actor.inc)
          /\ actor' = [NoActor EXCEPT !.pc = "Draining", !.inc = actor.inc]
       \/ /\ ~shutdown
          /\ actor' = [actor EXCEPT !.pc = "Select"]
          /\ UNCHANGED <<phase, effects>>
    /\ UNCHANGED <<kind, lastBound, queue, waiters, accepted, sending, teardown,
                   shutdown, driver, changed, history>>

LocalStop ==
    /\ actor.pc = "Recv"
    /\ Freeze(actor.inc)
    /\ actor' = [NoActor EXCEPT !.pc = "LocalStop", !.inc = actor.inc]
    /\ UNCHANGED <<kind, lastBound, queue, waiters, accepted, sending, teardown,
                   shutdown, driver, changed, history>>

TokenSeen ==
    /\ actor.pc = "LocalStop" /\ shutdown
    /\ actor' = [NoActor EXCEPT !.pc = "Draining", !.inc = actor.inc]
    /\ UNCHANGED <<cell, sending, effects, teardown, shutdown, driver, changed,
                   history>>

\* begin_ready_batch: a batch left open by the last delivery is kept.
OpenBatch ==
    /\ actor.pc = "Select"
    /\ actor' = IF actor.open THEN [actor EXCEPT !.pc = "Batch"]
                ELSE [actor EXCEPT !.pc = "Batch", !.open = TRUE,
                                   !.cutoff = accepted, !.delivered = FALSE]
    /\ UNCHANGED <<cell, sending, effects, teardown, shutdown, driver, changed,
                   history>>

\* MailboxCell::receive of the head: a bound mailbox promotes its waiters,
\* without a pulse.
TakeNext ==
    /\ UNCHANGED <<kind, phase, lastBound>>
    /\ receivedBy' = [receivedBy EXCEPT ![Head(queue).msg] = actor.inc]
    /\ \/ /\ phase.at = "Bound"
          /\ PromoteWaiters(Tail(queue), op)
          /\ Owe(FALSE, PromotedWakes(Tail(queue)))
       \/ /\ phase.at = "Frozen"
          /\ queue' = Tail(queue)
          /\ UNCHANGED <<waiters, accepted, op, disposed, acceptedBy, effects>>

Readable(limit) == queue # <<>> /\ Head(queue).seq <= limit

\* try_recv_live_through: only while bound, up to the batch's cutoff.
ReceiveLive ==
    /\ actor.pc = "Batch" /\ ~actor.delivered
    /\ IF phase = [at |-> "Bound", inc |-> actor.inc] /\ Readable(actor.cutoff)
       THEN /\ TakeNext
            /\ actor' = [actor EXCEPT !.pc = "Recv", !.delivered = TRUE]
       ELSE /\ actor' = [actor EXCEPT !.pc = "Exhausted"]
            /\ UNCHANGED <<cell, op, effects, history>>
    /\ UNCHANGED <<send, woken, teardown, shutdown, driver, changed>>

\* Fault: the actor waits once its turn is used, trusting receipts to pulse.
Fault_WaitAfterTurn ==
    /\ actor.pc = "Exhausted" \/ (actor.pc = "Batch" /\ actor.delivered)
    /\ actor' = [actor EXCEPT !.open = FALSE, !.cutoff = 0, !.delivered = FALSE,
                    !.pc = "Waiting"]
    /\ UNCHANGED <<cell, sending, effects, teardown, shutdown, driver, changed,
                   history>>

\* The end of select_ready: the batch is spent; go round again when its
\* mailbox turn was used or the counter moved past its cutoff, else wait.
EndBatch ==
    /\ actor.pc = "Exhausted" \/ (actor.pc = "Batch" /\ actor.delivered)
    /\ actor' = [actor EXCEPT !.open = FALSE, !.cutoff = 0, !.delivered = FALSE,
                    !.pc = IF actor.delivered \/ accepted > actor.cutoff
                           THEN "Select" ELSE "Waiting"]
    /\ UNCHANGED <<cell, sending, effects, teardown, shutdown, driver, changed,
                   history>>

\* wait_for_event ends on a pulse or on the token.
Awake ==
    /\ actor.pc = "Waiting" /\ (changed \/ shutdown)
    /\ changed' = FALSE
    /\ actor' = [actor EXCEPT !.pc = "Recv"]
    /\ UNCHANGED <<cell, sending, effects, teardown, shutdown, driver, history>>

\* try_recv in the drain: the frozen prefix, then nothing.
CanDrain ==
    /\ phase \in {[at |-> a, inc |-> actor.inc] : a \in {"Bound", "Frozen"}}
    /\ queue # <<>>

Drain ==
    /\ actor.pc = "Draining" /\ CanDrain
    /\ TakeNext
    /\ UNCHANGED <<send, woken, teardown, actor, shutdown, driver, changed>>

\* The actor returns or fails; RawInstance::run freezes the mailbox.  With the
\* Drain policy a clean return comes after the last message.
Exit ==
    /\ actor.pc \in {"Recv", "Draining"}
    /\ Freeze(actor.inc)
    /\ actor' = [NoActor EXCEPT !.pc = "Exited", !.inc = actor.inc]
    /\ UNCHANGED <<kind, lastBound, queue, waiters, accepted, sending, teardown,
                   shutdown, driver, changed, history>>

\* A hard abort drops the task at an await, or before its first poll.
Abort ==
    /\ shutdown /\ actor.pc \in {"Spawned", "Recv", "Waiting", "LocalStop", "Draining"}
    /\ actor' = [NoActor EXCEPT !.pc = "Exited", !.inc = actor.inc]
    /\ UNCHANGED <<cell, sending, effects, teardown, shutdown, driver, changed,
                   history>>

-----------------------------------------------------------------------------
SenderStep(s) ==
    \/ Submit(s) \/ TrySend(s) \/ ZeroBudget(s)
    \/ PollOperation(s) \/ InstallWaker(s) \/ Repoll(s) \/ Migrate(s)
    \/ Expire(s) \/ Withdraw(s) \/ Drop(s)

DriverStep ==
    \/ Configure \/ Bind \/ Stop \/ Cancel \/ Close
    \/ DropDriver \/ CloseDropped
    \/ PrepareTermination \/ TeardownPulse \/ Discharge

ActorStep ==
    \/ StartActor \/ Recv \/ LocalStop \/ TokenSeen \/ OpenBatch \/ ReceiveLive
    \/ EndBatch \/ Awake \/ Drain \/ Exit \/ Abort

Next ==
    \/ \E s \in Senders : SenderStep(s)
    \/ DriverStep
    \/ ActorStep
    \/ FlushPulse
    \/ \E w \in Senders \X Tasks : FlushWake(w)

Spec == Init /\ [][Next]_vars

\* What runs by itself once it can: the flush that follows every unlock, a
\* poll once begun or woken, the actor's loop while its handlers return, the
\* driver's synchronous handlers and its dispatch of an exit or a self stop,
\* and the abort of a dropped driver's task.  Whether senders time out or are
\* dropped, and whether incarnations end, is left open.
Fairness ==
    /\ WF_vars(FlushPulse)
    /\ \A w \in Senders \X Tasks : WF_vars(FlushWake(w))
    /\ \A s \in Senders :
          /\ WF_vars(PollOperation(s)) /\ WF_vars(InstallWaker(s))
          /\ WF_vars(Repoll(s)) /\ WF_vars(Withdraw(s))
    /\ WF_vars(Cancel) /\ WF_vars(Close) /\ WF_vars(CloseDropped)
    /\ WF_vars(TeardownPulse) /\ WF_vars(Discharge)
    /\ WF_vars(actor.pc = "LocalStop" /\ Stop)
    /\ WF_vars(StartActor) /\ WF_vars(Recv) /\ WF_vars(TokenSeen)
    /\ WF_vars(OpenBatch) /\ WF_vars(ReceiveLive) /\ WF_vars(EndBatch)
    /\ WF_vars(Awake) /\ WF_vars(Drain)
    /\ WF_vars(actor.pc = "Draining" /\ ~CanDrain /\ Exit)
    /\ WF_vars(driver = "Dropped" /\ Abort)


-----------------------------------------------------------------------------
\* Properties.

\* The states are well typed.
TypeOK ==
    /\ kind \in {"None", "Queue", "Latest"}
    /\ phase \in [at : {"Unbound", "Bound", "Frozen", "Terminal"}, inc : Incarnations]
    /\ lastBound \in Incarnations
    /\ queue \in Seq([msg : Senders, seq : Nat])
    /\ waiters \in Seq(Senders)
    /\ accepted \in Nat
    /\ op \in [Senders -> [outcome : {"None", "Waiting", "Accepted", "Terminated", "Retired"},
                           inc : Incarnations, registered : BOOLEAN, waker : Tasks \cup {0}]]
    /\ send \in [Senders -> [state : {"Immediate", "Polling", "Cloning", "Parked", "Sent", "Done"},
                             task : Tasks, expired : BOOLEAN,
                             result : {"None", "Ok", "TimedOut", "Terminated", "NotRunning",
                                       "Full", "Dropped"},
                             inc : Incarnations, seen : Incarnations]]
    /\ woken \in SUBSET (Senders \X Tasks)
    /\ effects \in [pulse : BOOLEAN, wake : SUBSET (Senders \X Tasks)]
    /\ teardown \in [pulse : BOOLEAN, waiters : Seq(Senders)]
    /\ actor \in [pc : {"Absent", "Spawned", "Recv", "Select", "Batch", "Exhausted",
                        "Waiting", "LocalStop", "Draining", "Exited"},
                  inc : Incarnations, open : BOOLEAN, cutoff : Nat, delivered : BOOLEAN]
    /\ changed \in BOOLEAN /\ shutdown \in BOOLEAN
    /\ driver \in {"Live", "Stopping", "Dropping", "Dropped"}
    /\ acceptedBy \in [Senders -> Incarnations]
    /\ receivedBy \in [Senders -> Incarnations]
    /\ disposed \in SUBSET Senders

\* The places a message can be.
Custodians(s) ==
    {p \in {"future", "operation", "queue", "actor", "disposal", "caller"} :
        CASE p = "future" -> send[s].state = "Immediate"
          [] p = "operation" -> op[s].outcome \in {"Waiting", "Terminated"}
          [] p = "queue" -> s \in Messages(queue)
          [] p = "actor" -> receivedBy[s] # 0
          [] p = "disposal" -> s \in disposed
          [] p = "caller" -> send[s].result \in {"TimedOut", "Terminated",
                                                 "NotRunning", "Full"}}

\* A message is in exactly one place: no path through submission, promotion,
\* displacement, withdrawal, close and the deferred teardown loses or
\* duplicates it, and the waiter queue holds exactly the registered
\* operations still waiting (the debug assertions of withdraw).
Custody ==
    /\ \A s \in Senders : Cardinality(Custodians(s)) = 1
    /\ Cardinality(Messages(queue)) = Len(queue)
    /\ Cardinality(ToSet(waiters)) = Len(waiters)
    /\ \A s \in Senders :
          /\ s \in ToSet(waiters) => op[s].outcome = "Waiting" /\ op[s].registered
          /\ op[s].outcome = "Waiting" =>
                s \in ToSet(waiters) \cup ToSet(teardown.waiters)
          /\ op[s].registered /\ s \notin ToSet(waiters) => phase.at = "Terminal"

\* What a completed send reports is true: Ok names the incarnation that
\* accepted the message, an error means it was never accepted, TimedOut names
\* the newest incarnation bound during the attempt, and Terminated the last
\* one ever bound.
EvidenceSound ==
    \A s \in Senders :
       LET f == send[s] IN
       /\ f.result = "Ok" => f.inc # 0 /\ f.inc = acceptedBy[s]
       /\ f.result \in {"TimedOut", "Terminated", "NotRunning", "Full"} =>
             acceptedBy[s] = 0
       /\ f.result = "TimedOut" => f.inc = f.seen
       /\ f.result = "Terminated" => phase.at = "Terminal" /\ f.inc = lastBound

\* A sender is left waiting by a bound mailbox only while the queue is full:
\* every path that frees a slot or binds also promotes.
ParkedOnlyWhenFull ==
    phase.at = "Bound" /\ waiters # <<>> => kind = "Queue" /\ Len(queue) = Capacity

\* A message accepted by one incarnation is received by that incarnation or
\* by none: close hands nothing to the next bind.
NoLeak ==
    \A s \in Senders : receivedBy[s] # 0 => receivedBy[s] = acceptedBy[s]

\* Every message has one custodian and what its sender was told is what
\* became of it, in the incarnation that accepted it (Mailbox::submit,
\* promote, close and the withdrawal of a send).
MessagesAccounted == TypeOK /\ Custody /\ EvidenceSound /\ NoLeak

\* The mailbox implements the contract.
Status(s) ==
    CASE send[s].state = "Immediate" -> "New"
      [] receivedBy[s] # 0 -> "Received"
      [] s \in Messages(queue) -> "Inside"
      [] op[s].outcome = "Waiting" -> "Pending"
      [] acceptedBy[s] # 0 -> "Lost"
      [] OTHER -> "Back"

Contract == INSTANCE MailboxContract WITH
    open <- phase.at = "Bound",
    gone <- phase.at = "Terminal",
    inbox <- [i \in 1 .. Len(queue) |-> queue[i].msg],
    pending <- waiters,
    status <- [s \in Senders |-> Status(s)]

\* Order of acceptance and of receipt, admission without overtaking, and what
\* becomes of every message are those of MailboxContract.
ImplementsContract == Contract!Spec

\* A send whose operation was decided completes, and once the mailbox is
\* terminal so does every send: no interleaving of the decision with the poll
\* that clones and installs a waker, or with a move to another task, loses
\* the wakeup.
SendsComplete ==
    \A s \in Senders :
       \/ op[s].outcome \in {"Accepted", "Terminated"}
       \/ phase.at = "Terminal" /\ send[s].state # "Immediate"
       ~> send[s].result # "None"

\* An accepted message does not stay in the mailbox: although neither a
\* receipt nor a promotion pulses, the actor never waits on a queue it could
\* read, and what it does not read goes when the incarnation closes.
AcceptedLeaves ==
    \A s \in Senders : s \in Messages(queue) ~> s \notin Messages(queue)

=============================================================================
