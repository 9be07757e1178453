---------------------------- MODULE MCDeclaration ----------------------------
(***************************************************************************)
(* A declared child, in three parts: its membership and construction (the  *)
(* constants of the configuration), the policy it resolves to, and the     *)
(* deadlines of such a policy.  A behaviour is one of the three; the       *)
(* others rest, each in a state of its own from which nothing happens.     *)
(***************************************************************************)
EXTENDS Declaration, TLC

VARIABLE instance
VARIABLES path, defaults, child
VARIABLES config, driver, body, lane, batch, past

declaration == <<nested, slots, identity, lineages, scope, builder, plan,
                 children, entries, queue, install>>
policy      == <<path, defaults, child>>
timing      == <<config, driver, body, lane, batch, past>>

-----------------------------------------------------------------------------
(* What scopes and children state: a mailbox and a readiness deadline, each *)
(* with some of the other settings beside it.                               *)

Mailboxes == {[kind |-> "Unset", capacity |-> 0], [kind |-> "Queue", capacity |-> 0],
              [kind |-> "Queue", capacity |-> 2], [kind |-> "Latest", capacity |-> 0]}
Layer(mailbox, deadline) ==
  [restart |-> IF mailbox.kind = "Queue" THEN "OnFailure" ELSE "Unset",
   shutdown |-> IF deadline = "Bounded" THEN "Abort" ELSE "Unset",
   mailbox |-> mailbox,
   mailbox_shutdown |-> IF mailbox.capacity = 2 THEN "Discard" ELSE "Unset",
   readiness_deadline |-> deadline]
Layers == {Layer(m, d) : m \in Mailboxes, d \in {"Unset", "Bounded", "Unbounded"}}
Stated(layer, readiness, retention) ==
  layer @@ [readiness |-> readiness, retention |-> retention]
Options == {Stated(l, "Unset", "Retain") : l \in {l \in Layers : l.readiness_deadline = "Unset"}}
             \cup {Stated(l, r, "Unset") : l \in {l \in Layers : l.mailbox.kind = "Unset"},
                                          r \in {"Unset", "Manual"}}
Library == [restart |-> "Always", shutdown |-> "Grace", mailbox_kind |-> "Queue",
            queue_capacity |-> 64, mailbox_shutdown |-> "Drain",
            readiness_deadline |-> "Library"]

-----------------------------------------------------------------------------
(* Children for the deadlines: how patient the stop ladder and the readiness *)
(* gate are, what restarts, after which backoff, and what the task may do.   *)

Child(grace, readiness, restart, backoff, framework, does) ==
  [grace |-> grace, readiness |-> readiness, restart |-> restart,
   backoff |-> [base |-> backoff[1], factor |-> backoff[2], max |-> backoff[3],
                jitter |-> backoff[4]],
   framework |-> framework, does |-> does]
Far     == 100
None    == <<0, 1, 0, FALSE>>
Gated   == Child(2, 1, "Always", <<1, 2, 3, TRUE>>, FALSE, {"Ready", "Failed", "Panic"})
Subtree == Child(1, Far, "OnFailure", None, TRUE, {"Ready", "Completed", "Failed"})
Abrupt  == Child(0, 0, "Never", None, FALSE, {"Stop", "Completed", "Failed", "Panic"})
Patient == Child(Far, 2, "Always", <<2, 1, 2, FALSE>>, FALSE, {"Ready", "Stop", "Completed"})
Slow    == Child(2, 1, "Never", None, FALSE, {})
Deaf    == Child(1, 0, "Never", None, FALSE, {"Stop"})

Solo(c)    == [n \in {"a"} |-> c]
Pair(c, d) == [n \in {"a", "b"} |-> IF n = "a" THEN c ELSE d]
Absent     == [n \in {} |-> Slow]
Configs    == {Solo(Gated), Solo(Subtree), Solo(Patient), Solo(Abrupt), Pair(Slow, Deaf)}

Policy == INSTANCE Defaults WITH MaxDepth <- 2
Timing == INSTANCE Timing WITH
  Configs <- Configs \cup {Absent}, MaxRestarts <- 1, Within <- 1, MaxAttempt <- 2, Never <- Far

-----------------------------------------------------------------------------
MCInit ==
  /\ instance \in {"declaration", "policy", "timing"}
  /\ Init /\ Policy!Init /\ Timing!Init
  /\ instance # "declaration" => nested
  /\ config = Absent <=> instance # "timing"

MCNext ==
  /\ UNCHANGED instance
  /\ \/ instance = "declaration" /\ Next        /\ UNCHANGED <<policy, timing>>
     \/ instance = "policy"      /\ Policy!Next /\ UNCHANGED <<declaration, timing>>
     \/ instance = "timing"      /\ Timing!Next /\ UNCHANGED <<declaration, policy>>

MCSpec == /\ MCInit /\ [][MCNext]_<<instance, declaration, policy, timing>>
          /\ Timing!Fairness

-----------------------------------------------------------------------------
(* The properties of the parts. *)

\* A child's policy is the nearest declaration's, setting by setting
\* (ResolvedDefaults::overlay and resolve_child_mailbox).
NearestWins == Policy!NearestWins

\* A sleeping driver will be woken for exactly the deadlines its records wait
\* for, no matter how many entries went stale (prune_stale_head).
DeadlinesArmed == Timing!DeadlinesArmed

\* Deadlines act, and none before its time: a drain ends every child whose
\* grace is finite and a force every child, and neither a rung of the stop
\* ladder nor a readiness verdict nor a restart is early (tidy_abort_beat,
\* force, due entries of the queue).
DeadlinesKept == Timing!NeverEarly /\ Timing!DrainEnds

\* Time is judged as it passed: a reported grace phase is the one the stop
\* was in, whatever forced it on (classification of a stop in exit.rs), and
\* the intensity budget trips exactly on the restart that exceeds it
\* (RestartIntensity::charge).
JudgedByTime == Timing!ExitTellsTruth /\ Timing!TripsOnExcess
=============================================================================
