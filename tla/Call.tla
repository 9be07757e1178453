-------------------------------- MODULE Call ---------------------------------
(***************************************************************************)
(* Request and reply: one call (CallFuture) or one response wait           *)
(* (ReplyReceive) from its first poll to its drop, with the deadline       *)
(* scaffold that polls it (mailbox/deadline.rs), the reply capability      *)
(* (mailbox/reply.rs), the single-delivery channel underneath              *)
(* (shelterwood-runtime/src/oneshot.rs) and the receive state that keeps   *)
(* an unclaimed value out of drop glue (mailbox/capability.rs).            *)
(*                                                                         *)
(* Every atomic operation on the channel's state word and every operation  *)
(* of the Tokio channel is a step of its own.  The mailbox is what         *)
(* MailboxContract promises: a submitted message is accepted, parked or    *)
(* refused, and a parked one is decided once.                              *)
(***************************************************************************)
EXTENDS Naturals

VARIABLES
  op,      \* "Call" or "Recv"
  budget,  \* width of the deadline: "Zero", "Finite" or "Unbounded"
  clock,   \* against the deadline: "before", "at" or "past"
  fut,     \* the future: where its poll is, its phase and its send
  msg,     \* who owns the message, and with it the Reply until it is taken
  word,    \* OneShotSender/OneShotReceiver::state
  chan,    \* the Tokio channel
  reply,   \* the Reply capability
  woken,   \* the caller's task is owed a poll
  disposed \* values handed to isolated disposal

vars == <<op, budget, clock, fut, msg, word, chan, reply, woken, disposed>>

Init ==
  /\ op \in {"Call", "Recv"}
  /\ budget \in {"Zero", "Finite", "Unbounded"}
  /\ clock = "before"
  /\ fut = [pc |-> "New", phase |-> "InitialAttempt", result |-> "None",
            send |-> IF op = "Call" THEN "Unmade" ELSE "Accepted",
            timer |-> FALSE]
  /\ msg = IF op = "Call" THEN "Unmade" ELSE "Actor"
  /\ word = "OPEN"
  /\ chan = [value |-> FALSE, rxclosed |-> FALSE, txclosed |-> FALSE,
             waker |-> FALSE]
  /\ reply = [pc |-> IF op = "Call" THEN "Unmade" ELSE "Held", sent |-> "None"]
  /\ woken = TRUE
  /\ disposed = 0

At(pc)         == fut.pc = pc
Go(pc)         == fut' = [fut EXCEPT !.pc = pc]
\* A ready poll retires the timer and returns.
Return(result) == fut' = [fut EXCEPT !.pc = "Done", !.result = result,
                                     !.timer = FALSE]

-----------------------------------------------------------------------------
(* Deadlined::poll and CallOperation::poll_deadlined. *)

\* A zero budget short-circuits on the first poll; the receiver of a response
\* wait is closed.
short_circuit ==
  /\ At("New") /\ budget = "Zero"
  /\ Return(IF op = "Call" THEN "AcceptanceTimedOut" ELSE "ResponseTimedOut")
  /\ word' = IF op = "Recv" /\ word = "OPEN" THEN "RECEIVER_CLOSED" ELSE word
  /\ chan' = [chan EXCEPT !.rxclosed = op = "Recv"]
  /\ woken' = FALSE
  /\ UNCHANGED <<op, budget, clock, msg, reply, disposed>>

Elapsed == fut.phase = "TimeoutArbitration"
Poll ==
  /\ \/ At("New") /\ budget # "Zero"
     \/ At("Pending")
  /\ Go(CASE fut.send = "Unmade" -> "Construct"
          [] fut.send = "Accepted" -> "Reply"
          [] OTHER -> "Send")
  /\ woken' = FALSE
  /\ UNCHANGED <<op, budget, clock, msg, word, chan, reply, disposed>>

\* The message constructor runs inside the first poll, on the budget; a
\* message that is overdue once built is disposed of, its receiver dropped.
Construct ==
  /\ At("Construct")
  /\ reply' = [reply EXCEPT !.pc = "Held"]
  /\ IF clock = "past" /\ budget = "Finite"
     THEN /\ Return("AcceptanceTimedOut") /\ msg' = "Disposed"
          /\ word' = "RECEIVER_CLOSED"
          /\ chan' = [chan EXCEPT !.rxclosed = TRUE]
     ELSE /\ fut' = [fut EXCEPT !.pc = "Submit", !.timer = budget = "Finite"]
          /\ msg' = "Caller" /\ UNCHANGED <<word, chan>>
  /\ UNCHANGED <<op, budget, clock, woken, disposed>>

\* fail_send: the reply side is closed, the recovered message disposed of.
fail_send(kind) ==
  /\ Return(kind)
  /\ msg' = "Disposed"
  /\ word' = IF word = "OPEN" THEN "RECEIVER_CLOSED" ELSE word
  /\ chan' = [chan EXCEPT !.rxclosed = TRUE, !.waker = FALSE]

\* The first poll of the send submits the message.
Submit ==
  /\ At("Submit")
  /\ \/ /\ fut' = [fut EXCEPT !.pc = "Reply", !.send = "Accepted"]
        /\ msg' = "Queue" /\ UNCHANGED <<word, chan>>
     \/ /\ fut' = [fut EXCEPT !.pc = "Timer", !.send = "Parked"]
        /\ msg' = "Parked" /\ UNCHANGED <<word, chan>>
     \/ fail_send("Terminated")
  /\ UNCHANGED <<op, budget, clock, reply, woken, disposed>>

\* A later poll reads the operation's outcome, and registers if there is none.
PollSend ==
  /\ At("Send")
  /\ \/ /\ fut.send = "Decided" /\ msg # "Refused"
        /\ fut' = [fut EXCEPT !.pc = "Reply", !.send = "Accepted"]
        /\ UNCHANGED <<msg, word, chan>>
     \/ /\ fut.send = "Decided" /\ msg = "Refused"
        /\ fail_send("Terminated")
     \/ /\ fut.send = "Parked"
        /\ Go(IF Elapsed THEN "Withdraw" ELSE "Timer")
        /\ UNCHANGED <<msg, word, chan>>
  /\ UNCHANGED <<op, budget, clock, reply, woken, disposed>>

\* The expired call withdraws its send: a decision that came first stands.
withdraw_send_with ==
  /\ At("Withdraw")
  /\ \/ /\ fut.send = "Decided" /\ msg # "Refused"
        /\ fut' = [fut EXCEPT !.pc = "Reply", !.send = "Accepted"]
        /\ UNCHANGED <<msg, word, chan>>
     \/ /\ fut.send = "Decided" /\ msg = "Refused"
        /\ fail_send("Terminated")
     \/ /\ fut.send = "Parked"
        /\ fail_send("AcceptanceTimedOut")
  /\ UNCHANGED <<op, budget, clock, reply, woken, disposed>>

\* poll_reply: one poll of the channel.  A pending poll leaves the proxy
\* registered, and closes the channel if the budget is spent.
TakeValue ==
  /\ chan.value
  /\ Return("Replied")
  /\ chan' = [chan EXCEPT !.value = FALSE, !.waker = FALSE]
SenderGone ==
  /\ ~chan.value /\ chan.txclosed
  /\ Return("ReplyDropped")
  /\ UNCHANGED chan
StaysPending(pc) ==
  /\ ~chan.value /\ ~chan.txclosed
  /\ Go(pc)
  /\ chan' = [chan EXCEPT !.waker = TRUE]
poll_reply ==
  /\ At("Reply")
  /\ \/ TakeValue
     \/ SenderGone
     \/ StaysPending(IF Elapsed THEN "Close" ELSE "Timer")
  /\ UNCHANGED <<op, budget, clock, msg, word, reply, woken, disposed>>

\* Fault: a send in progress is taken for a dropped capability.
Fault_SendingIsDropped ==
  /\ At("Close")
  /\ \/ /\ word = "OPEN"
        /\ word' = "RECEIVER_CLOSED"
        /\ Return("ResponseTimedOut")
        /\ chan' = [chan EXCEPT !.rxclosed = TRUE]
     \/ /\ word # "OPEN"
        /\ Return("ReplyDropped")
        /\ UNCHANGED <<word, chan>>
  /\ UNCHANGED <<op, budget, clock, msg, reply, woken, disposed>>
\* close_and_poll_receive: only an open channel is closed.  After a send or a
\* sender drop the channel answers, and it may have nothing yet.
close_and_poll_receive ==
  /\ At("Close")
  /\ \/ /\ word = "OPEN"
        /\ word' = "RECEIVER_CLOSED"
        /\ Return("ResponseTimedOut")
        /\ chan' = [chan EXCEPT !.rxclosed = TRUE, !.waker = FALSE]
     \/ /\ word = "SENDER_CLOSED"
        /\ Return("ReplyDropped")
        /\ UNCHANGED <<word, chan>>
     \/ /\ word \in {"SENDING", "SENT"}
        /\ TakeValue \/ SenderGone \/ StaysPending("Pending")
        /\ UNCHANGED word
  /\ UNCHANGED <<op, budget, clock, msg, reply, woken, disposed>>

\* The timer is polled last.  Once it has fired it is retired, the phase is
\* latched and the operation polled again.
poll_timer ==
  /\ At("Timer")
  /\ IF budget = "Finite" /\ clock # "before"
     THEN fut' = [fut EXCEPT !.phase = "TimeoutArbitration", !.timer = FALSE,
                    !.pc = IF fut.send = "Accepted" THEN "Reply" ELSE "Send"]
     ELSE fut' = [fut EXCEPT !.pc = "Pending", !.timer = budget = "Finite"]
  /\ UNCHANGED <<op, budget, clock, msg, word, chan, reply, woken, disposed>>

\* Fault: the receiver of a dropped future is left to drop glue.
Fault_DropKeepsOpen ==
  /\ fut.pc \in {"New", "Pending", "Done"}
  /\ msg' = IF msg \in {"Parked", "Refused"} THEN "Disposed" ELSE msg
  /\ Go("Dropped")
  /\ woken' = FALSE
  /\ UNCHANGED <<op, budget, clock, word, chan, reply, disposed>>
\* The future is dropped between polls, finished or not: the constructor or
\* the unaccepted message is disposed of, the receiver closed ...
Drop ==
  /\ fut.pc \in {"New", "Pending", "Done"}
  /\ msg' = IF msg \in {"Parked", "Refused"} THEN "Disposed" ELSE msg
  /\ fut' = [fut EXCEPT !.pc = IF reply.pc = "Unmade" THEN "Dropped" ELSE "CloseWord",
                        !.timer = FALSE]
  /\ woken' = FALSE
  /\ UNCHANGED <<op, budget, clock, word, chan, reply, disposed>>
\* ... first its word, then the channel ...
close ==
  /\ \/ /\ At("CloseWord") /\ Go("CloseChannel")
        /\ word' = IF word = "OPEN" THEN "RECEIVER_CLOSED" ELSE word
        /\ UNCHANGED chan
     \/ /\ At("CloseChannel") /\ Go("Take")
        /\ chan' = [chan EXCEPT !.rxclosed = TRUE, !.waker = FALSE]
        /\ UNCHANGED word
  /\ UNCHANGED <<op, budget, clock, msg, reply, woken, disposed>>
\* ... and a value already stored goes to isolated disposal.
close_and_take ==
  /\ At("Take") /\ Go("Dropped")
  /\ disposed' = IF chan.value THEN disposed + 1 ELSE disposed
  /\ chan' = [chan EXCEPT !.value = FALSE]
  /\ UNCHANGED <<op, budget, clock, msg, word, reply, woken>>

-----------------------------------------------------------------------------
(* The mailbox and the actor. *)

Wake == woken' = (woken \/ fut.pc # "Dropped")
Accept ==
  /\ fut.send = "Parked" /\ msg = "Parked"
  /\ msg' = "Queue" /\ fut' = [fut EXCEPT !.send = "Decided"] /\ Wake
  /\ UNCHANGED <<op, budget, clock, word, chan, reply, disposed>>
Terminate ==
  /\ fut.send = "Parked" /\ msg = "Parked"
  /\ msg' = "Refused" /\ fut' = [fut EXCEPT !.send = "Decided"] /\ Wake
  /\ UNCHANGED <<op, budget, clock, word, chan, reply, disposed>>
\* The handler takes the message, or the incarnation ends with it queued.
Deliver ==
  /\ msg = "Queue" /\ msg' \in {"Actor", "Disposed"}
  /\ UNCHANGED <<op, budget, clock, fut, word, chan, reply, woken, disposed>>

\* Reply::send: the word decides against a closing receiver, the channel takes
\* the value or gives it back, and the word records which.
ReplySend ==
  /\ msg = "Actor" /\ reply.pc = "Held"
  /\ \/ /\ word = "OPEN" /\ word' = "SENDING"
        /\ reply' = [reply EXCEPT !.pc = "Sending", !.sent = "Hand"]
        /\ UNCHANGED disposed
     \/ /\ word # "OPEN"
        /\ reply' = [pc |-> "Closing", sent |-> "Rejected"]
        /\ disposed' = disposed + 1
        /\ UNCHANGED word
  /\ UNCHANGED <<op, budget, clock, fut, msg, chan, woken>>
\* Fault: a caller whose deadline has elapsed is no longer woken.
Fault_NoWake ==
  /\ reply.pc = "Sending"
  /\ IF chan.rxclosed
     THEN /\ reply' = [pc |-> "Refused", sent |-> "Rejected"]
          /\ UNCHANGED <<chan, woken>>
     ELSE /\ reply' = [pc |-> "Stored", sent |-> "Delivered"]
          /\ chan' = [chan EXCEPT !.value = TRUE, !.waker = FALSE]
          /\ woken' = (woken \/ (chan.waker /\ ~Elapsed))
  /\ UNCHANGED <<op, budget, clock, fut, msg, word, disposed>>
publish_oneshot ==
  /\ reply.pc = "Sending"
  /\ IF chan.rxclosed
     THEN /\ reply' = [pc |-> "Refused", sent |-> "Rejected"]
          /\ UNCHANGED <<chan, woken>>
     ELSE /\ reply' = [pc |-> "Stored", sent |-> "Delivered"]
          /\ chan' = [chan EXCEPT !.value = TRUE, !.waker = FALSE]
          /\ woken' = (woken \/ chan.waker)
  /\ UNCHANGED <<op, budget, clock, fut, msg, word, disposed>>
StoreWord ==
  /\ reply.pc \in {"Stored", "Refused"}
  /\ word' = IF reply.pc = "Stored" THEN "SENT" ELSE "RECEIVER_CLOSED"
  /\ disposed' = IF reply.pc = "Stored" THEN disposed ELSE disposed + 1
  /\ reply' = [reply EXCEPT !.pc = "Gone"]
  /\ UNCHANGED <<op, budget, clock, fut, msg, chan, woken>>

\* The capability is dropped unanswered, by the handler or with the message
\* that carries it: the word, then the channel.
ReplyDrop ==
  /\ msg \in {"Actor", "Disposed"} /\ reply.pc = "Held"
  /\ word' = IF word = "OPEN" THEN "SENDER_CLOSED" ELSE word
  /\ reply' = [reply EXCEPT !.pc = "Closing"]
  /\ UNCHANGED <<op, budget, clock, fut, msg, chan, woken, disposed>>
DropChannel ==
  /\ reply.pc = "Closing"
  /\ reply' = [reply EXCEPT !.pc = "Gone"]
  /\ chan' = [chan EXCEPT !.txclosed = TRUE, !.waker = FALSE]
  /\ woken' = (woken \/ chan.waker)
  /\ UNCHANGED <<op, budget, clock, fut, msg, word, disposed>>

\* Time passes the deadline; an armed timer wakes the caller.
Tick ==
  /\ clock # "past"
  /\ clock' = IF clock = "before" THEN "at" ELSE "past"
  /\ woken' = (woken \/ fut.timer)
  /\ UNCHANGED <<op, budget, fut, msg, word, chan, reply, disposed>>

-----------------------------------------------------------------------------
InPoll == \/ Construct \/ Submit \/ PollSend \/ withdraw_send_with
          \/ poll_reply \/ close_and_poll_receive \/ poll_timer
          \/ close \/ close_and_take
Sending == publish_oneshot \/ StoreWord \/ DropChannel
Next == \/ short_circuit \/ Poll \/ Drop \/ InPoll
        \/ Accept \/ Terminate \/ Deliver
        \/ ReplySend \/ ReplyDrop \/ Sending \/ Tick

\* A poll, a send and a drop run to their end, a woken task is polled, and
\* time passes.  The actor need never answer and the mailbox never decide.
Fairness ==
  /\ WF_vars(InPoll)
  /\ WF_vars(Sending)
  /\ WF_vars(woken /\ (Poll \/ short_circuit))
  /\ WF_vars(Tick)
Spec == Init /\ [][Next]_vars /\ Fairness

-----------------------------------------------------------------------------
(* Properties. *)

Count(b) == IF b THEN 1 ELSE 0
\* The reply's value is always in exactly one place, whatever races: in the
\* sender's hand, in the channel, with the caller, or disposed of once.  When
\* both sides are gone none is left behind in the channel to be destroyed by
\* its drop glue (OneShotSender::send, DisposingReceiver::drop).
ValueCustody ==
  /\ Count(reply.sent = "Hand") + Count(chan.value) + disposed
       + Count(fut.result = "Replied")
       + Count(reply.pc = "Refused")
     = Count(reply.sent # "None")
  /\ At("Dropped") /\ reply.pc = "Gone" => ~chan.value

\* What the call reports is what happened at the other end, and stays so: a
\* response timeout is never reported for a reply the sender saw delivered,
\* a dropped reply never for one that was sent, and a message reported as not
\* accepted is never handled (poll_reply and withdraw_send_with under timeout
\* arbitration).
VerdictIsTrue ==
  /\ fut.result = "ResponseTimedOut" /\ budget # "Zero" => reply.sent # "Delivered"
  /\ fut.result = "ReplyDropped"     => reply.sent = "None" /\ reply.pc # "Held"
  /\ fut.result = "Replied"          => reply.sent = "Delivered"
  /\ fut.result \in {"AcceptanceTimedOut", "Terminated"} => msg \notin {"Queue", "Actor"}

\* A started call ends: on its budget, or without one as soon as the reply is
\* decided.  In particular the expired wait that met a send in progress is
\* woken by its publication (OneShotClose::Pending).
CallReturns ==
  fut.pc = "Pending" /\ (budget = "Finite" \/ reply.pc = "Gone")
    ~> fut.result # "None" \/ At("Dropped")
=============================================================================
