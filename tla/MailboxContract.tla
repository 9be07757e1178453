-------------------------- MODULE MailboxContract --------------------------
(***************************************************************************)
(* What a mailbox promises its senders and its actor, without locks,       *)
(* operations, wakers or teardown steps.  A message is offered once.  It   *)
(* waits behind older messages, enters the inbox in the order it was       *)
(* offered, and leaves it received in that order or lost with the          *)
(* incarnation (or displaced by a newer one in a latest-value mailbox); or *)
(* it goes back without ever having been inside.                           *)
(***************************************************************************)
EXTENDS Integers, Sequences, SequencesExt

CONSTANTS Senders, Capacity

VARIABLES kind,      \* "None" until the mailbox is configured
          open,      \* whether an incarnation accepts messages
          gone,      \* whether the membership is terminal
          inbox,     \* accepted, not yet received
          pending,   \* offered and in line to enter, oldest first
          status     \* where each message is

vars == <<kind, open, gone, inbox, pending, status>>

Init ==
    /\ kind = "None" /\ ~open /\ ~gone
    /\ inbox = <<>> /\ pending = <<>>
    /\ status = [s \in Senders |-> "New"]

\* Whether q has reached what the mailbox holds.
Full(q) == kind = "Queue" /\ Len(q) >= Capacity

\* The oldest pending messages enter after the messages q, as many as fit;
\* those in `taken` were received in the same step.
Admit(q, taken) ==
    \E n \in 0 .. Len(pending) :
       LET in == q \o SubSeq(pending, 1, n)
           keep == IF kind = "Latest" /\ in # <<>> THEN <<Last(in)>> ELSE in
       IN  /\ n < Len(pending) => Full(in)
           /\ n > 0 => (kind = "Queue" => Len(in) <= Capacity)
           /\ inbox' = keep
           /\ pending' = SubSeq(pending, n + 1, Len(pending))
           /\ status' = [s \in Senders |->
                           CASE s \in taken -> "Received"
                             [] s \in ToSet(keep) -> "Inside"
                             [] s \in ToSet(in) \ ToSet(keep) -> "Lost"
                             [] OTHER -> status[s]]

Configure ==
    /\ kind = "None" /\ kind' \in {"Queue", "Latest"}
    /\ UNCHANGED <<open, gone, inbox, pending, status>>

\* An offer enters at once only past an empty line.
Enter(s) ==
    /\ status[s] = "New" /\ open /\ pending = <<>> /\ ~Full(inbox)
    /\ inbox' = IF kind = "Latest" THEN <<s>> ELSE Append(inbox, s)
    /\ status' = [t \in Senders |->
                    CASE t = s -> "Inside"
                      [] t # s /\ kind = "Latest" /\ t \in ToSet(inbox) -> "Lost"
                      [] OTHER -> status[t]]
    /\ UNCHANGED <<kind, open, gone, pending>>

Wait(s) ==
    /\ status[s] = "New" /\ ~gone
    /\ open => pending # <<>> \/ Full(inbox)
    /\ pending' = Append(pending, s)
    /\ status' = [status EXCEPT ![s] = "Pending"]
    /\ UNCHANGED <<kind, open, gone, inbox>>

\* A message that was never inside goes back to its sender.
GoBack(s) ==
    /\ status[s] \in {"New", "Pending"}
    /\ IF s \in ToSet(pending)
       THEN \E i \in DOMAIN pending :
              pending[i] = s /\ pending' = RemoveAt(pending, i)
       ELSE UNCHANGED pending
    /\ status' = [status EXCEPT ![s] = "Back"]
    /\ UNCHANGED <<kind, open, gone, inbox>>

Open ==
    /\ kind # "None" /\ ~open /\ ~gone /\ inbox = <<>>
    /\ open' = TRUE
    /\ Admit(<<>>, {})
    /\ UNCHANGED <<kind, gone>>

Shut ==
    /\ open /\ open' = FALSE
    /\ UNCHANGED <<kind, gone, inbox, pending, status>>

\* The oldest accepted message is received; only an open mailbox refills.
Receive ==
    /\ inbox # <<>>
    /\ IF open THEN Admit(Tail(inbox), {Head(inbox)})
       ELSE /\ inbox' = Tail(inbox)
            /\ status' = [status EXCEPT ![Head(inbox)] = "Received"]
            /\ UNCHANGED pending
    /\ UNCHANGED <<kind, open, gone>>

\* The incarnation is over: what it had accepted and not received is lost.
\* When the membership is over too, so is the line: what is still pending can
\* only go back.
Clear ==
    /\ open' = FALSE /\ inbox' = <<>>
    /\ status' = [s \in Senders |->
                    IF s \in ToSet(inbox) THEN "Lost" ELSE status[s]]
    /\ gone' \in BOOLEAN /\ (gone => gone')
    /\ pending' = IF gone' THEN <<>> ELSE pending
    /\ UNCHANGED kind

Next ==
    \/ Configure \/ Open \/ Shut \/ Receive \/ Clear
    \/ \E s \in Senders : Enter(s) \/ Wait(s) \/ GoBack(s)

Spec == Init /\ [][Next]_vars

=============================================================================
