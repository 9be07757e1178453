------------------------------ MODULE ActorLoop ------------------------------
(***************************************************************************)
(* One incarnation of an actor: the callback loop of Handler::run          *)
(* (actor.rs) over the receive side of RawContext (raw/context.rs), with   *)
(* the four sources it selects from (raw/context/select.rs): the mailbox,  *)
(* queued offload completions (raw/context/resources.rs), continuations    *)
(* and keyed timers (raw/context/timers.rs).                               *)
(*                                                                         *)
(* select_ready is one step per source it asks, so messages, completions,  *)
(* cancellations and time may intervene; the samples a batch begins with   *)
(* are taken in one step, as are a completion and its pulse.  Payloads are *)
(* abstracted: the mailbox is a count of accepted messages, and a batch's  *)
(* mailbox cutoff is the number of them at the head it still covers.       *)
(* Nothing counts up, so a behaviour may run for ever.                     *)
(***************************************************************************)
EXTENDS Naturals, Sequences

CONSTANTS
  Policies,    \* effective readiness and mailbox shutdown policies
  Keys,        \* timer keys
  MaxBox,      \* bound on accepted messages in the mailbox
  MaxConts,    \* bound on queued continuations
  MaxOffloads, \* bound on offloads running or queued
  MaxDelay     \* longest timer delay, in ticks

ASSUME Bounds == MaxBox \in Nat /\ MaxConts \in Nat /\ MaxDelay \in Nat

VARIABLES
  policy,   \* effective readiness and mailbox shutdown
  pc,       \* where the actor task is
  handling, \* the source of the message being handled
  box, frozen, mailboxChanged,          \* the mailbox and its watcher
  conts, lastCont,                      \* continuations
  running, events, eventsChanged,       \* offloads, EventQueue, its signal
  timers,   \* TimerStore: per key "Off" or its kind, ticks left, index state
  batch,    \* ready_batch
  accepting, deferred, local_stop, shutdown, ready,
  overtaken \* history: a stop had begun when the initializer returned

actor == <<policy, pc, handling, batch, lastCont, accepting, deferred,
           local_stop, ready, overtaken>>
mail  == <<box, frozen, mailboxChanged>>
work  == <<running, events, eventsChanged>>
vars  == <<actor, mail, conts, work, timers, shutdown>>

Off     == [kind |-> "Off", left |-> 0, indexed |-> FALSE, captured |-> FALSE]
NoBatch == [phase |-> "None", through |-> 0, offloads |-> 0, conts |-> 0,
            delivered |-> FALSE, armings |-> {}]

Init ==
  /\ policy \in Policies
  /\ pc = "Init" /\ handling = "Init"
  /\ box = 0 /\ frozen = FALSE /\ mailboxChanged = FALSE
  /\ conts = 0 /\ lastCont = FALSE
  /\ running = 0 /\ events = <<>> /\ eventsChanged = FALSE
  /\ timers = [k \in Keys |-> Off]
  /\ batch = NoBatch
  /\ accepting = TRUE /\ deferred = FALSE /\ local_stop = FALSE
  /\ shutdown = FALSE /\ ready = FALSE /\ overtaken = FALSE

\* The abort token, which the code also asks, fires only after shutdown.
is_stopping      == deferred \/ local_stop \/ shutdown
rejects_new_work == is_stopping \/ ~accepting
InCallback       == pc \in {"Init", "Handling"}

-----------------------------------------------------------------------------
(* What a callback may do with its context. *)

\* RawResources::freeze: continuations, timers, the batch and the queued
\* completions are discarded and every offload cancelled.
freeze_resources ==
  /\ accepting' = FALSE
  /\ conts' = 0
  /\ timers' = [k \in Keys |-> Off]
  /\ batch' = NoBatch
  /\ running' = 0 /\ events' = <<>>
freeze_intake == frozen' = TRUE /\ freeze_resources

continue_with ==
  /\ InCallback /\ ~rejects_new_work /\ conts < MaxConts
  /\ conts' = conts + 1
  /\ UNCHANGED <<actor, mail, work, timers, shutdown>>

\* set_timeout and set_interval replace the key's arming; an arming already
\* captured by a fired batch is thereby superseded.
replace_timer(k, kind, after) ==
  /\ InCallback /\ ~rejects_new_work
  /\ timers' = [timers EXCEPT ![k] = [kind |-> kind, left |-> after,
                                      indexed |-> TRUE, captured |-> FALSE]]
  /\ UNCHANGED <<actor, mail, conts, work, shutdown>>
clear_timer(k) ==
  /\ InCallback /\ timers[k].kind # "Off"
  /\ timers' = [timers EXCEPT ![k] = Off]
  /\ UNCHANGED <<actor, mail, conts, work, shutdown>>

\* A zero budget queues the completion at once.
start_offload(zero) ==
  /\ InCallback /\ ~rejects_new_work
  /\ running + Len(events) < MaxOffloads
  /\ IF zero THEN /\ events' = Append(events, FALSE)
                  /\ eventsChanged' = TRUE /\ UNCHANGED running
             ELSE running' = running + 1 /\ UNCHANGED <<events, eventsChanged>>
  /\ UNCHANGED <<actor, mail, conts, timers, shutdown>>

\* Context::stop.  Inside an AfterInit initializer the stop is held back until
\* the initializer returns.
stop ==
  /\ InCallback /\ ~local_stop /\ ~deferred
  /\ IF pc = "Init" /\ policy.readiness = "AfterInit"
     THEN deferred' = TRUE /\ UNCHANGED local_stop
     ELSE local_stop' = TRUE /\ UNCHANGED deferred
  /\ freeze_intake
  /\ UNCHANGED <<policy, pc, handling, lastCont, ready, overtaken, box,
                 mailboxChanged, eventsChanged, shutdown>>

\* Fault: the pending bit is still set when readiness is attempted.
Fault_ReadyAfterStop ==
  /\ pc = "Init"
  /\ pc' = "Recv" /\ handling' = "None"
  /\ overtaken' = (local_stop \/ shutdown)
  /\ ready' = (ready \/ (policy.readiness = "AfterInit" /\ ~is_stopping))
  /\ deferred' = FALSE
  /\ local_stop' = (local_stop \/ deferred)
  /\ UNCHANGED <<policy, batch, lastCont, accepting, mail, conts, work, timers,
                 shutdown>>
\* finish_callback_init: the pending bit is consumed, readiness published, and
\* only then the stop.
finish_callback_init ==
  /\ pc = "Init"
  /\ pc' = "Recv" /\ handling' = "None"
  /\ overtaken' = (local_stop \/ shutdown)
  /\ ready' = (ready \/ (policy.readiness = "AfterInit"
                         /\ ~local_stop /\ ~shutdown))
  /\ deferred' = FALSE
  /\ local_stop' = (local_stop \/ deferred)
  /\ UNCHANGED <<policy, batch, lastCont, accepting, mail, conts, work, timers,
                 shutdown>>

\* fail_after_teardown: the callback failed; resources are frozen and joined,
\* and the boundary of the incarnation freezes the mailbox.
fail_after_teardown ==
  /\ pc \in {"Init", "Handling", "Draining"}
  /\ pc' = "Exit" /\ handling' = "None"
  /\ deferred' = FALSE /\ local_stop' = (local_stop \/ deferred)
  /\ frozen' = TRUE /\ freeze_resources
  /\ UNCHANGED <<policy, lastCont, ready, overtaken, box, mailboxChanged,
                 eventsChanged, shutdown>>
HandlerReturns ==
  /\ pc \in {"Handling", "Draining"}
  /\ pc' = (IF pc = "Handling" THEN "Recv" ELSE "Drain") /\ handling' = "None"
  /\ UNCHANGED <<policy, batch, lastCont, accepting, deferred, local_stop,
                 ready, overtaken, mail, conts, work, timers, shutdown>>

-----------------------------------------------------------------------------
(* RawContext::recv and select_ready. *)

KeepStops == UNCHANGED <<policy, accepting, deferred, local_stop, ready,
                         overtaken, shutdown>>
To(p)     == pc' = p /\ handling' = "None"
Deliver(source) == pc' = "Handling" /\ handling' = source

recv ==
  /\ pc = "Recv"
  /\ IF is_stopping
     THEN /\ freeze_intake /\ To(IF local_stop THEN "AwaitToken" ELSE "Drain")
          /\ UNCHANGED <<policy, lastCont, deferred, local_stop, ready,
                         overtaken, box, mailboxChanged, eventsChanged,
                         shutdown>>
     ELSE /\ To("Begin")
          /\ UNCHANGED <<batch, lastCont, mail, conts, work, timers>>
          /\ KeepStops
\* A local stop waits for the driver's ladder to fire the shared token.
AwaitToken ==
  /\ pc = "AwaitToken" /\ shutdown
  /\ To("Drain")
  /\ UNCHANGED <<batch, lastCont, mail, conts, work, timers>> /\ KeepStops

Due == {k \in Keys : timers[k].indexed /\ timers[k].left = 0}

\* begin_ready_batch: a steady batch, promoted when a timer is due.  The due
\* timers leave the deadline index.
begin_ready_batch ==
  /\ pc = "Begin"
  /\ LET steady == IF batch.phase # "None" THEN batch
                   ELSE [NoBatch EXCEPT !.phase = "Steady", !.through = box,
                                        !.offloads = Len(events)]
     IN IF steady.phase = "Fired" \/ Due = {}
        THEN batch' = steady /\ UNCHANGED timers
        ELSE /\ batch' = [phase |-> "Fired", through |-> box,
                          offloads |-> Len(events), conts |-> conts,
                          delivered |-> FALSE, armings |-> Due]
             /\ timers' = [k \in Keys |-> IF k \in Due
                            THEN [timers[k] EXCEPT !.indexed = FALSE,
                                                   !.captured = TRUE]
                            ELSE timers[k]]
  /\ To("Lead") /\ KeepStops
  /\ UNCHANGED <<lastCont, mail, conts, work>>

\* pop_continuation, in the lead slot and after the external stages.
continuation_is_eligible == batch.phase = "Steady" \/ batch.conts > 0
pops(lead) == /\ ~lead \/ ~lastCont
              /\ continuation_is_eligible /\ conts > 0
pop_continuation(at, lead, else) ==
  /\ pc = at
  /\ IF pops(lead)
     THEN /\ Deliver("Continuation") /\ conts' = conts - 1 /\ lastCont' = TRUE
          /\ batch' = IF batch.phase = "Steady" THEN batch
                      ELSE [batch EXCEPT !.conts = @ - 1]
     ELSE To(else) /\ UNCHANGED <<conts, lastCont, batch>>
  /\ KeepStops /\ UNCHANGED <<mail, work, timers>>

mailbox_is_eligible == batch.phase = "Fired" \/ ~batch.delivered
ReceiveMailbox ==
  /\ pc = "Mailbox"
  /\ IF mailbox_is_eligible /\ batch.through > 0 /\ ~frozen
     THEN /\ Deliver("Mailbox") /\ box' = box - 1 /\ lastCont' = FALSE
          /\ batch' = [batch EXCEPT !.through = @ - 1,
                                    !.delivered = batch.phase = "Steady"]
     ELSE To("Events") /\ UNCHANGED <<box, lastCont, batch>>
  /\ KeepStops /\ UNCHANGED <<frozen, mailboxChanged, conts, work, timers>>

\* The captured completion prefix; a cancelled completion is disposed of.
pop_batched_event ==
  /\ pc = "Events"
  /\ IF batch.offloads = 0 THEN To("Refresh") /\ UNCHANGED <<events, lastCont, batch>>
     ELSE /\ batch' = [batch EXCEPT !.offloads = @ - 1]
          /\ events' = Tail(events)
          /\ IF Head(events) THEN To("Events") /\ UNCHANGED lastCont
             ELSE Deliver("Offload") /\ lastCont' = FALSE
  /\ KeepStops /\ UNCHANGED <<mail, conts, running, eventsChanged, timers>>

external_work_is_ready == \/ batch.phase = "Steady" /\ batch.delivered
                          \/ box > batch.through \/ events # <<>>
\* Fault: another continuation is taken before external work gets its turn.
Fault_NoRefresh ==
  /\ pc = "Refresh"
  /\ To("Rest") /\ UNCHANGED batch
  /\ KeepStops /\ UNCHANGED <<lastCont, mail, conts, work, timers>>
\* Fault: a fired batch is refreshed as well, and forgets its armings.
Fault_RefreshFired ==
  /\ pc = "Refresh"
  /\ IF lastCont /\ external_work_is_ready
     THEN To("Begin") /\ batch' = NoBatch
     ELSE To("Rest") /\ UNCHANGED batch
  /\ KeepStops /\ UNCHANGED <<lastCont, mail, conts, work, timers>>
\* A steady batch starts a fresh turn rather than a second continuation.
refresh_batch ==
  /\ pc = "Refresh"
  /\ IF batch.phase = "Steady" /\ lastCont /\ external_work_is_ready
     THEN To("Begin") /\ batch' = NoBatch
     ELSE To("Rest") /\ UNCHANGED batch
  /\ KeepStops /\ UNCHANGED <<lastCont, mail, conts, work, timers>>

\* deliver_due: an interval is rearmed, a one-shot unlinked; a captured arming
\* that was cleared or superseded is skipped.
deliver_timer ==
  /\ pc = "Timers"
  /\ IF batch.armings = {} THEN To("End") /\ UNCHANGED <<batch, timers, lastCont>>
     ELSE \E k \in batch.armings :
       /\ batch' = [batch EXCEPT !.armings = @ \ {k}]
       /\ IF ~timers[k].captured
          THEN To("Timers") /\ UNCHANGED <<timers, lastCont>>
          ELSE /\ Deliver("Timer") /\ lastCont' = FALSE
               /\ timers' = [timers EXCEPT ![k] =
                    IF @.kind = "Once" THEN Off
                    ELSE [@ EXCEPT !.left = MaxDelay, !.indexed = TRUE,
                                   !.captured = FALSE]]
  /\ KeepStops /\ UNCHANGED <<mail, conts, work>>

\* The batch is done: select again if anything became ready meanwhile.
EndBatch ==
  /\ pc = "End"
  /\ batch' = NoBatch
  /\ To(IF external_work_is_ready \/ conts > 0 \/ Due # {} THEN "Begin" ELSE "Wait")
  /\ KeepStops /\ UNCHANGED <<lastCont, mail, conts, work, timers>>

\* Fault: a stop is not part of the wait.
Fault_WaitIgnoresStop ==
  /\ pc = "Wait"
  /\ \/ Due # {} /\ UNCHANGED <<mailboxChanged, eventsChanged>>
     \/ mailboxChanged /\ mailboxChanged' = FALSE /\ UNCHANGED eventsChanged
     \/ eventsChanged /\ eventsChanged' = FALSE /\ UNCHANGED mailboxChanged
  /\ To("Recv") /\ KeepStops
  /\ UNCHANGED <<batch, lastCont, box, frozen, conts, running, events, timers>>
\* wait_for_event: a stop, a due timer, or a change of mailbox or events.
wait_for_event ==
  /\ pc = "Wait"
  /\ \/ (shutdown \/ Due # {}) /\ UNCHANGED <<mailboxChanged, eventsChanged>>
     \/ mailboxChanged /\ mailboxChanged' = FALSE /\ UNCHANGED eventsChanged
     \/ eventsChanged /\ eventsChanged' = FALSE /\ UNCHANGED mailboxChanged
  /\ To("Recv") /\ KeepStops
  /\ UNCHANGED <<batch, lastCont, box, frozen, conts, running, events, timers>>

\* After recv has returned None: drain the frozen prefix by policy, on_stop.
Drain ==
  /\ pc = "Drain"
  /\ IF policy.drain /\ box > 0
     THEN box' = box - 1 /\ pc' = "Draining" /\ handling' = "Mailbox"
     ELSE UNCHANGED box /\ To("OnStop")
  /\ KeepStops
  /\ UNCHANGED <<batch, lastCont, frozen, mailboxChanged, conts, work, timers>>
on_stop ==
  /\ pc = "OnStop" /\ To("Exit") /\ KeepStops
  /\ UNCHANGED <<batch, lastCont, mail, conts, work, timers>>

-----------------------------------------------------------------------------
(* Senders, offloads, the clock and the driver. *)

Accept ==
  /\ ~frozen /\ box < MaxBox
  /\ box' = box + 1 /\ mailboxChanged' = TRUE
  /\ UNCHANGED <<actor, frozen, conts, work, timers, shutdown>>
\* EventQueue::push: the event, then the pulse of its signal.
push ==
  /\ running > 0 /\ running' = running - 1
  /\ events' = Append(events, FALSE) /\ eventsChanged' = TRUE
  /\ UNCHANGED <<actor, mail, conts, timers, shutdown>>
\* A guard cancels an offload that is running, or whose completion is queued.
CancelOffload ==
  /\ \/ running > 0 /\ running' = running - 1 /\ UNCHANGED events
     \/ /\ \E i \in DOMAIN events : events' = [events EXCEPT ![i] = TRUE]
        /\ UNCHANGED running
  /\ UNCHANGED <<actor, mail, conts, eventsChanged, timers, shutdown>>
Tick ==
  /\ \E k \in Keys : timers[k].indexed /\ timers[k].left > 0
  /\ timers' = [k \in Keys |-> IF timers[k].indexed /\ timers[k].left > 0
                               THEN [timers[k] EXCEPT !.left = @ - 1]
                               ELSE timers[k]]
  /\ UNCHANGED <<actor, mail, conts, work, shutdown>>
\* The driver's ladder freezes the mailbox, then cancels the token.
BeginStop ==
  /\ ~frozen /\ frozen' = TRUE /\ mailboxChanged' = TRUE
  /\ UNCHANGED <<actor, box, conts, work, timers, shutdown>>
CancelToken ==
  /\ frozen /\ ~shutdown /\ shutdown' = TRUE
  /\ UNCHANGED <<actor, mail, conts, work, timers>>

-----------------------------------------------------------------------------
Select == \/ recv \/ AwaitToken \/ begin_ready_batch
          \/ pop_continuation("Lead", TRUE, "Mailbox") \/ ReceiveMailbox
          \/ pop_batched_event \/ refresh_batch
          \/ pop_continuation("Rest", FALSE, "Timers") \/ deliver_timer
          \/ EndBatch \/ wait_for_event \/ Drain \/ on_stop
Return == finish_callback_init \/ HandlerReturns
Callback == \/ continue_with \/ stop \/ fail_after_teardown
            \/ \E k \in Keys : clear_timer(k)
            \/ \E k \in Keys, kind \in {"Once", "Interval"}, d \in 1..MaxDelay :
                 replace_timer(k, kind, d)
            \/ \E zero \in BOOLEAN : start_offload(zero)
Next == \/ Select \/ Return \/ Callback
        \/ Accept \/ push \/ CancelOffload \/ Tick
        \/ BeginStop \/ CancelToken

\* The actor's task runs, callbacks return, time passes,
\* and the driver answers a local stop and finishes its own.
Fairness ==
  /\ WF_vars(Select) /\ WF_vars(Return) /\ WF_vars(Tick)
  /\ WF_vars((local_stop \/ (frozen /\ ~deferred)) /\ CancelToken)
Spec == Init /\ [][Next]_vars /\ Fairness

-----------------------------------------------------------------------------
(* Properties. *)

TypeOK ==
  /\ pc \in {"Init", "Recv", "AwaitToken", "Begin", "Lead", "Mailbox", "Events",
             "Refresh", "Rest", "Timers", "End", "Wait", "Handling", "Drain",
             "Draining", "OnStop", "Exit"}
  /\ box \in 0..MaxBox /\ conts \in 0..MaxConts
  /\ batch.through <= box /\ batch.offloads <= Len(events)
  /\ batch.armings \subseteq Keys

Over == is_stopping \/ frozen \/ pc = "Exit"
\* No source starves another: an accepted message, a queued completion that
\* nobody cancels, a queued continuation and a due timer that is left alone
\* are each handled, however fast the other sources refill and whatever the
\* handlers queue for themselves (select_ready's bounded arbitration).
NoSourceStarves ==
  /\ box > 0 ~> handling = "Mailbox" \/ Over
  /\ (\E i \in DOMAIN events : ~events[i])
       ~> handling = "Offload" \/ (\A i \in DOMAIN events : events[i]) \/ Over
  /\ conts > 0 ~> handling = "Continuation" \/ Over
  /\ \A k \in Keys : timers[k].kind # "Off" /\ timers[k].left = 0
       ~> handling = "Timer" \/ timers[k].kind = "Off" \/ timers[k].left > 0 \/ Over

\* An armed timer is never lost between the deadline index and the batch that
\* fires it: it is indexed, or captured by the batch now installed (take_due,
\* promote_to_fired, deliver_due).
TimerNotLost ==
  \A k \in Keys : timers[k].kind # "Off" =>
    \/ timers[k].indexed /\ ~timers[k].captured
    \/ timers[k].captured /\ ~timers[k].indexed /\ k \in batch.armings

\* A successful AfterInit initializer makes the actor ready even when it asked
\* to stop, unless a stop had already begun from outside
\* (finish_callback_init).
ReadyBeforeOwnStop ==
  policy.readiness = "AfterInit" /\ pc \notin {"Init", "Exit"}
    => ready \/ overtaken

\* A stop, its own or the driver's, always ends the loop; a clean end has
\* handled the whole frozen prefix when the policy is to drain it
\* (RawContext::stop, recv, Handler::run).
StopEndsLoop ==
  local_stop \/ shutdown ~> pc = "Exit"
DrainedBeforeOnStop ==
  pc = "OnStop" => frozen /\ ~accepting /\ (policy.drain => box = 0)

\* A batch never promises more than its sources hold, and an armed timer is
\* in the deadline index or in the batch that fires it (refresh_batch,
\* take_due, deliver_due).
SourcesSound == TypeOK /\ TimerNotLost

\* Readiness comes before an initializer's own stop, and a clean stop after
\* the frozen prefix it had to drain (finish_callback_init, recv).
StopsInOrder == ReadyBeforeOwnStop /\ DrainedBeforeOnStop
=============================================================================
