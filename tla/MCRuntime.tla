----------------------------- MODULE MCRuntime ------------------------------
(***************************************************************************)
(* The parts below an actor, one at a time: a behaviour is one of the wait *)
(* primitives, one call, or the offloads of one incarnation (the constants *)
(* and variables of the module extended).  The parts not under way rest:   *)
(* a wait of kind Rest has no notifier and no poller, and the steps of a   *)
(* call and of offloads are not taken.                                     *)
(***************************************************************************)
EXTENDS Offload, TLC

CONSTANTS Tasks, Notifiers, MaxVersion

VARIABLE instance
VARIABLES kind, word, version, value, senders, registry, thread, wait, woken, proxy
VARIABLES op, budget, clock, fut, msg, claim, chan, reply, polled, disposed

waits == <<kind, word, version, value, senders, registry, thread, wait, woken, proxy>>
call  == <<op, budget, clock, fut, msg, claim, chan, reply, polled, disposed>>

Waits == INSTANCE Waits WITH Kinds <- {"Rest", "Latch", "Gate", "Watch", "Proxy"}
Call  == INSTANCE Call  WITH word <- claim, woken <- polled

-----------------------------------------------------------------------------
MCInit ==
  /\ instance \in {"waits", "call", "offloads"}
  /\ Waits!Init /\ (kind = "Rest" <=> instance # "waits")
  /\ Call!Init  /\ (instance # "call" => op = "Call" /\ budget = "Zero")
  /\ Init

MCNext ==
  /\ UNCHANGED instance
  /\ \/ instance = "waits"    /\ Waits!Next /\ UNCHANGED <<call, vars>>
     \/ instance = "call"     /\ Call!Next  /\ UNCHANGED <<waits, vars>>
     \/ instance = "offloads" /\ Next       /\ UNCHANGED <<waits, call>>

\* The fairness of each part, asked of the part that is under way.
During(part, step) == instance = part /\ step
MCFairness ==
  /\ Waits!Fairness
  /\ WF_call(During("call", Call!InPoll))
  /\ WF_call(During("call", Call!Sending))
  /\ WF_call(During("call", polled /\ (Call!Poll \/ Call!short_circuit)))
  /\ WF_call(During("call", Call!Tick))
  /\ WF_vars(During("offloads", OwnerStep))
  /\ \A o \in Offloads : WF_vars(During("offloads", TaskStep(o)))
MCSpec == MCInit /\ [][MCNext]_<<instance, waits, call, vars>> /\ MCFairness

-----------------------------------------------------------------------------
(* The properties of the parts. *)

\* A parked watcher, with a sender alive or watching for the close, holds the
\* value last published, or a wake is under way (borrow_and_update, then the two
\* loads of WatchWait::poll).
WatcherIsCurrent == Waits!WatcherIsCurrent

\* A reply's value is in exactly one place, and never left to drop glue
\* (OneShotSender::send against DisposingReceiver::drop).
ValueCustody == Call!ValueCustody

\* A call's verdict agrees with what the other end saw, also when the timeout
\* meets a send in progress (close_and_poll_receive).
VerdictIsTrue == Call!VerdictIsTrue

\* Everything that waits is woken in the end: parked tasks and proxied polls
\* whose source has moved on (a watcher that ignores the close, while a sender
\* is alive), a call on its budget or its reply, and the teardown that joins
\* offloads (Waiters::wake_all, OneShotClose::Pending, join_offloads).
WaitsEnd == /\ Waits!WaitEnds /\ Waits!ProxiedPollEnds
            /\ Call!CallReturns /\ TeardownEnds
=============================================================================
