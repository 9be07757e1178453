----------------------------- MODULE MCMailbox -----------------------------
(***************************************************************************)
(* Two mailboxes in one run.  The constants of the configuration are those *)
(* of a mailbox of either kind that is rebound, whose driver may be        *)
(* dropped and whose senders a and b try, time out and give up, while c    *)
(* sends nothing.  Crowded is a queue of one incarnation that all three    *)
(* send to.                                                                *)
(***************************************************************************)
EXTENDS Mailbox, TLC

CONSTANTS a, b, c
VARIABLE instance

Crowded == INSTANCE Mailbox WITH
    Kinds <- {"Queue"}, MaxIncarnation <- 1, Trying <- {}, Fickle <- {},
    DriverDrops <- FALSE

MCInit == \/ instance = "rebound" /\ Init
          \/ instance = "crowded" /\ Crowded!Init
MCNext ==
    /\ UNCHANGED instance
    /\ \/ instance = "rebound" /\ Next /\ send'[c] = send[c]
       \/ instance = "crowded" /\ Crowded!Next
MCSpec == MCInit /\ [][MCNext]_<<vars, instance>>

\* One mailbox by itself, with the fairness of its parties.
AloneInit == Init /\ instance = "alone"
AloneNext == Next /\ UNCHANGED instance
AloneSpec == AloneInit /\ [][AloneNext]_<<vars, instance>> /\ Fairness

\* Owed notifications are delivered first.  Delivering one only lets a
\* waiting party poll or select again, and both may do so at any later time,
\* so the safety properties do not tell the two orders apart.
Prompt ==
    effects.pulse \/ effects.wake # {} => effects' # effects /\ cell' = cell

=============================================================================
