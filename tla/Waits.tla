-------------------------------- MODULE Waits --------------------------------
(***************************************************************************)
(* The wait primitives every parked task rests on.  A behaviour is about   *)
(* one of them:                                                            *)
(*                                                                         *)
(*   "Latch"  a one-way latch, fired silently and notified later           *)
(*            (shelterwood-runtime/src/latch.rs);                          *)
(*   "Gate"   the completion-gated pair of latches of a child's readiness  *)
(*            (same file);                                                 *)
(*   "Watch"  the conflating watch of a value (watch.rs);                  *)
(*   "Proxy"  one poll of a foreign future that never sees the caller's    *)
(*            waker (shelterwood-core/src/waker_proxy.rs).                 *)
(*                                                                         *)
(* The first three park in a WaiterRegistry (waiters.rs), one step per     *)
(* atomic operation or critical section, except that a check that has its  *)
(* result removes its registration in the step of its last load.  "woken"  *)
(* holds the tasks whose waker has been called and that have not been      *)
(* polled since.                                                           *)
(***************************************************************************)
EXTENDS Integers

CONSTANTS
  Kinds,        \* the primitives to cover
  Tasks,        \* tasks that wait
  Notifiers,    \* threads that fire, complete, publish or close
  MaxVersion    \* bound on the values a watch publishes

VARIABLES
  kind,
  word,      \* Gate: the state word
  version,   \* levels: 0 or 1 for a latch, the pulse count of a watch
  value,     \* Watch: the value under its mutex
  senders,   \* Watch: live senders
  registry,  \* tasks with a waker in the registry of each level
  thread,    \* the notifiers
  wait,      \* the waiting tasks
  woken,
  proxy      \* Proxy: the foreign target, the proxy and the poll in progress

vars == <<kind, word, version, value, senders, registry, thread, wait, woken,
          proxy>>

Levels == {"fired", "completed"}
NoTask == "none"
Idle   == [pc |-> "Idle", level |-> "fired", batch |-> {}]

Init ==
  /\ kind \in Kinds
  /\ word = "OPEN"
  /\ version = [l \in Levels |-> 0]
  /\ value = 0
  /\ senders = 1
  /\ registry = [l \in Levels |-> {}]
  /\ thread = [n \in Notifiers |-> Idle]
  /\ wait \in [Tasks -> [pc : {"Start"}, seen : {0}, got : {0},
                         level : IF kind = "Gate" THEN Levels ELSE {"fired"},
                         closes : IF kind = "Watch" THEN BOOLEAN ELSE {TRUE}]]
  /\ woken = {}
  /\ proxy = [pc |-> "Idle", installed |-> FALSE, task |-> NoTask,
              owner |-> NoTask, slot |-> NoTask, wakes |-> 0, observed |-> 0,
              ready |-> FALSE, waker |-> "none", calling |-> FALSE]

-----------------------------------------------------------------------------
(* The registry: wake_all takes every waiter under the lock and wakes them *)
(* after it.                                                               *)

Level(n) == thread[n].level
Take(n) ==
  /\ thread[n].pc = "Notify"
  /\ thread' = [thread EXCEPT ![n].pc = "Waking", ![n].batch = registry[Level(n)]]
  /\ registry' = [registry EXCEPT ![Level(n)] = {}]
  /\ UNCHANGED <<kind, word, version, value, senders, wait, woken, proxy>>
Wake(n) ==
  /\ thread[n].pc = "Waking"
  /\ IF thread[n].batch = {}
     THEN thread' = [thread EXCEPT ![n] = Idle] /\ UNCHANGED woken
     ELSE \E t \in thread[n].batch :
            /\ thread' = [thread EXCEPT ![n].batch = @ \ {t}]
            /\ woken' = woken \cup {t}
  /\ UNCHANGED <<kind, word, version, value, senders, registry, wait, proxy>>

Starts(n, pc, l) ==
  /\ thread[n].pc = "Idle"
  /\ thread' = [thread EXCEPT ![n] = [Idle EXCEPT !.pc = pc, !.level = l]]

-----------------------------------------------------------------------------
(* Latch and completion gate. *)

\* fire_silently: one caller wins, and owes the notification.
fire_silently(n) ==
  /\ kind = "Latch" /\ version["fired"] = 0
  /\ Starts(n, "Notify", "fired")
  /\ version' = [version EXCEPT !["fired"] = 1]
  /\ UNCHANGED <<kind, word, value, senders, registry, wait, woken, proxy>>

\* CompletionGatedLatch::fire and complete: the word decides, then the latch
\* of the winner is fired.
GateFire(n) ==
  /\ kind = "Gate" /\ word = "OPEN"
  /\ Starts(n, "Latch", "fired")
  /\ word' = "FIRED"
  /\ UNCHANGED <<kind, version, value, senders, registry, wait, woken, proxy>>
GateComplete(n) ==
  /\ kind = "Gate" /\ word \in {"OPEN", "FIRED"}
  /\ Starts(n, "Latch", "completed")
  /\ word' = IF word = "OPEN" THEN "CLOSED" ELSE "CLOSED_FIRED"
  /\ UNCHANGED <<kind, version, value, senders, registry, wait, woken, proxy>>
GateLatch(n) ==
  /\ thread[n].pc = "Latch"
  /\ version' = [version EXCEPT ![Level(n)] = 1]
  /\ thread' = [thread EXCEPT ![n].pc = "Notify"]
  /\ UNCHANGED <<kind, word, value, senders, registry, wait, woken, proxy>>

-----------------------------------------------------------------------------
(* Watch. *)

\* modify_silently under the value's mutex, then pulse: the version, then
\* the wakes.
modify_silently(n) ==
  /\ kind = "Watch" /\ value < MaxVersion /\ senders > 0
  /\ Starts(n, "Pulse", "fired")
  /\ value' = value + 1
  /\ UNCHANGED <<kind, word, version, senders, registry, wait, woken, proxy>>
pulse(n) ==
  /\ thread[n].pc = "Pulse"
  /\ version' = [version EXCEPT !["fired"] = @ + 1]
  /\ thread' = [thread EXCEPT ![n].pc = "Notify"]
  /\ UNCHANGED <<kind, word, value, senders, registry, wait, woken, proxy>>
\* The last sender is dropped once every publication is over.
DropSender(n) ==
  /\ kind = "Watch" /\ senders > 0
  /\ \A m \in Notifiers : thread[m].pc = "Idle"
  /\ Starts(n, "Notify", "fired")
  /\ senders' = senders - 1
  /\ UNCHANGED <<kind, word, version, value, registry, wait, woken, proxy>>

-----------------------------------------------------------------------------
(* poll_registered: check, register, check again.  A check of a watch loads *)
(* the version and then the senders; a latch has only the first load.       *)

Advanced(t) ==
  version[wait[t].level] # (IF kind = "Watch" THEN wait[t].seen ELSE 0)
Closed(t) == kind = "Watch" /\ senders = 0

WaitStep(t, from, to) == wait[t].pc = from /\ wait' = [wait EXCEPT ![t].pc = to]
Keeps == UNCHANGED <<kind, word, version, value, senders, registry, thread,
                     woken, proxy>>
Removed(t) ==
  /\ registry' = [registry EXCEPT ![wait[t].level] = @ \ {t}]
  /\ UNCHANGED <<kind, word, version, value, senders, thread, woken, proxy>>

\* The first load finds a change, and the watcher has then seen this version.
Changed(t, from) ==
  /\ wait[t].pc = from /\ Advanced(t) /\ Removed(t)
  /\ wait' = [wait EXCEPT ![t].pc = "Ready",
                          ![t].seen = IF kind = "Watch" THEN version["fired"] ELSE @]
\* It finds none; a watch goes on to the senders.
Unchanged(t, from, senders_load, next) ==
  /\ ~Advanced(t) /\ Keeps
  /\ WaitStep(t, from, IF kind = "Watch" THEN senders_load ELSE next)
\* The second load.  WatchChanged treats a close as pending, with nothing
\* registered; WatchChangedOrClosed reports it.
LoadSenders(t, from, next) ==
  \/ /\ Closed(t) /\ Removed(t)
     /\ WaitStep(t, from, IF wait[t].closes THEN "Closed" ELSE "Parked")
  \/ ~Closed(t) /\ WaitStep(t, from, next) /\ Keeps

\* A watcher's task takes the value and the version under the mutex, then
\* waits for a change; other waits start at once.
\* Fault: the version is taken after a later value was published.
Fault_BorrowLate(t) ==
  /\ kind = "Watch" /\ wait[t].pc \in {"Start", "Ready"}
  /\ wait' = [wait EXCEPT ![t].pc = "Check", ![t].seen = version["fired"],
                          ![t].got = IF value > 0 THEN value - 1 ELSE 0]
  /\ Keeps
borrow_and_update(t) ==
  /\ kind = "Watch" /\ wait[t].pc \in {"Start", "Ready"}
  /\ wait' = [wait EXCEPT ![t].pc = "Check", ![t].seen = version["fired"],
                          ![t].got = value]
  /\ Keeps
Begin(t) == kind \in {"Latch", "Gate"} /\ WaitStep(t, "Start", "Check") /\ Keeps

CheckReady(t)   == Changed(t, "Check")
Check(t)        == Unchanged(t, "Check", "CheckSenders", "Register")
CheckSenders(t) == LoadSenders(t, "CheckSenders", "Register")
Register(t) ==
  /\ WaitStep(t, "Register", "Recheck")
  /\ registry' = [registry EXCEPT ![wait[t].level] = @ \cup {t}]
  /\ UNCHANGED <<kind, word, version, value, senders, thread, woken, proxy>>
RecheckReady(t)   == Changed(t, "Recheck")
Recheck(t)        == Unchanged(t, "Recheck", "RecheckSenders", "Parked")
RecheckSenders(t) == LoadSenders(t, "RecheckSenders", "Parked")
Repoll(t) ==
  /\ t \in woken /\ WaitStep(t, "Parked", "Check")
  /\ woken' = woken \ {t}
  /\ UNCHANGED <<kind, word, version, value, senders, registry, thread, proxy>>
\* The wait is dropped: LatchWait::drop, WatchWait::drop.  The task may wait
\* again later.
Cancel(t) ==
  /\ kind # "Proxy" /\ WaitStep(t, "Parked", "Start") /\ Removed(t)

-----------------------------------------------------------------------------
(* ProxiedPoll.  The future may be polled from another task each time; only *)
(* the task that polled last will poll again when woken.                    *)

ProxyStep(from, new) == kind = "Proxy" /\ proxy.pc = from /\ proxy' = new
Rest == <<kind, word, version, value, senders, registry, thread, wait>>

PollStarts(t) ==
  /\ proxy.owner = NoTask \/ t \in woken \/ proxy.owner # t
  /\ \/ ProxyStep("Idle", [proxy EXCEPT !.task = t, !.owner = t,
            !.pc = IF proxy.installed THEN "Lock" ELSE "Probe"])
     \/ ProxyStep("Pending", [proxy EXCEPT !.task = t, !.owner = t,
            !.pc = IF proxy.installed THEN "Lock" ELSE "Probe"])
  /\ woken' = woken \ {t}
  /\ UNCHANGED Rest
\* The first poll probes with the no-op waker.
Probe ==
  /\ ProxyStep("Probe", [proxy EXCEPT !.pc = IF proxy.ready THEN "Done" ELSE "Lock",
                           !.installed = ~proxy.ready,
                           !.waker = IF proxy.ready THEN @ ELSE "noop"])
  /\ UNCHANGED <<Rest, woken>>
\* register: compare, clone outside the mutex, replace; a wake that landed in
\* between goes to the new caller.
Compare ==
  /\ ProxyStep("Lock", [proxy EXCEPT
       !.pc = IF proxy.slot = proxy.task THEN "Repoll" ELSE "Replace",
       !.observed = IF proxy.slot = proxy.task THEN 0 ELSE proxy.wakes])
  /\ UNCHANGED <<Rest, woken>>
Replace ==
  /\ ProxyStep("Replace", [proxy EXCEPT !.pc = "Repoll", !.observed = 0,
       !.slot = IF proxy.wakes = proxy.observed THEN proxy.task ELSE NoTask])
  /\ woken' = IF proxy.wakes = proxy.observed THEN woken
              ELSE woken \cup {proxy.task}
  /\ UNCHANGED Rest
RepollTarget ==
  /\ ProxyStep("Repoll",
       IF proxy.ready THEN [proxy EXCEPT !.pc = "Done", !.slot = NoTask]
       ELSE [proxy EXCEPT !.pc = "Pending", !.waker = "proxy"])
  /\ UNCHANGED <<Rest, woken>>

\* The foreign primitive becomes ready and takes the waker it holds ...
TargetReady ==
  /\ kind = "Proxy" /\ ~proxy.ready
  /\ proxy' = [proxy EXCEPT !.ready = TRUE, !.calling = proxy.waker = "proxy",
                            !.waker = "none"]
  /\ UNCHANGED <<Rest, woken>>
\* ... and calls it: wake_by_ref counts the wake and takes the caller.
wake_by_ref ==
  /\ kind = "Proxy" /\ proxy.calling
  /\ proxy' = [proxy EXCEPT !.calling = FALSE, !.wakes = @ + 1, !.slot = NoTask]
  /\ woken' = IF proxy.slot = NoTask THEN woken ELSE woken \cup {proxy.slot}
  /\ UNCHANGED Rest

-----------------------------------------------------------------------------
Notify(n) == Take(n) \/ Wake(n) \/ GateLatch(n) \/ pulse(n)
Publish(n) == \/ fire_silently(n) \/ GateFire(n) \/ GateComplete(n)
              \/ modify_silently(n) \/ DropSender(n)
Poll(t) == \/ borrow_and_update(t) \/ Begin(t)
           \/ CheckReady(t) \/ Check(t) \/ CheckSenders(t) \/ Register(t)
           \/ RecheckReady(t) \/ Recheck(t) \/ RecheckSenders(t) \/ Repoll(t)
ProxyPoll == Probe \/ Compare \/ Replace \/ RepollTarget \/ wake_by_ref

Next == \/ \E n \in Notifiers : Notify(n) \/ Publish(n)
        \/ \E t \in Tasks : Poll(t) \/ Cancel(t) \/ PollStarts(t)
        \/ ProxyPoll \/ TargetReady

\* A thread that has published goes on to notify, and a woken task is polled.
\* Nobody need publish or cancel.
Fairness ==
  /\ \A n \in Notifiers : WF_vars(Notify(n))
  /\ \A t \in Tasks : WF_vars(Poll(t))
  /\ \A t \in Tasks : WF_vars(t \in woken /\ proxy.owner = t /\ PollStarts(t))
  /\ WF_vars(ProxyPoll)
Spec == Init /\ [][Next]_vars /\ Fairness

-----------------------------------------------------------------------------
(* Properties. *)

\* Who is promised anything.  A last publication and the last sender may both
\* go between the two loads of a check; WatchChanged then parks for good on the
\* value before it.  So changed() serves those who keep a sender alive, as each
\* of its callers does; changed_or_closed() serves everyone.
Promised(t) == senders > 0 \/ wait[t].closes

\* No wake is lost: a task parked on a latch, a gate or a watch that has moved
\* on does not stay parked, whichever thread published and wherever its poll
\* was (poll_registered against wake_all).
WaitEnds ==
  \A t \in Tasks :
    wait[t].pc = "Parked" /\ Promised(t) /\ (Advanced(t) \/ Closed(t))
      ~> wait[t].pc # "Parked"

\* A watcher never rests on a stale value: one that is parked, with a sender
\* alive or watching for the close, has the value current at its last wait, or
\* the publication it missed has not pulsed yet, or a wake for it is on its way
\* (modify_silently then pulse, against borrow_and_update then changed).
WatcherIsCurrent ==
  \A t \in Tasks :
    kind = "Watch" /\ Promised(t) /\ wait[t].pc = "Parked" /\ wait[t].got # value =>
      \/ t \in woken
      \/ \E n \in Notifiers :
           \/ thread[n].pc \in {"Pulse", "Notify"}
           \/ t \in thread[n].batch

\* A ready foreign future completes: its wake reaches the task that polled
\* last, even when the future moved to another task while the proxy was
\* exchanging wakers (ProxiedPoll::poll, WakerProxy::register, wake_by_ref).
ProxiedPollEnds ==
  proxy.ready /\ proxy.owner # NoTask ~> proxy.pc = "Done"
=============================================================================
