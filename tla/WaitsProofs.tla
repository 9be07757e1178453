----------------------------- MODULE WaitsProofs -----------------------------
(***************************************************************************)
(* The conflating watch for any tasks, notifiers and bound: a parked       *)
(* watcher never rests on a stale value, as long as a sender is alive or   *)
(* it watches for the close.  A value is published before its version, so  *)
(* the argument counts the threads in between: as many as the value is     *)
(* ahead of the version.                                                   *)
(***************************************************************************)
EXTENDS Waits, FiniteSetTheorems, TLAPS

Thread == [pc : {"Idle", "Pulse", "Notify", "Waking"}, level : {"fired"},
           batch : SUBSET Tasks]
\* The steps of a wait under way.
Waiting == {"Check", "CheckSenders", "Register", "Recheck", "RecheckSenders",
            "Parked"}
Wait   == [pc : Waiting \cup {"Start", "Ready", "Closed"},
           seen : Nat, got : Nat, level : {"fired"}, closes : BOOLEAN]

Types == /\ wait \in [Tasks -> Wait] /\ thread \in [Notifiers -> Thread]
         /\ version \in [Levels -> Nat] /\ registry \in [Levels -> SUBSET Tasks]
         /\ value \in Nat /\ senders \in {0, 1}

\* The threads that have published a value and not yet its version.
Pulsing == {n \in Notifiers : thread[n].pc = "Pulse"}
Ahead == /\ IsFiniteSet(Pulsing)
         /\ value = version["fired"] + Cardinality(Pulsing)
         /\ senders = 0 => Pulsing = {}

\* A wait under way has a version no newer than its value.
Seen == \A t \in Tasks : wait[t].pc \in Waiting =>
          /\ wait[t].seen <= wait[t].got /\ wait[t].got <= value
          /\ wait[t].seen <= version["fired"]

\* A registered task is found by the next notification, unless one has it.
Coming(t) == t \in woken \/ \E n \in Notifiers : t \in thread[n].batch
Found == \A t \in Tasks : wait[t].pc \in {"Recheck", "RecheckSenders", "Parked"} =>
           \/ t \in registry["fired"] \/ Coming(t)
           \/ wait[t].pc = "Parked" /\ ~Promised(t)
\* Only a thread that is waking has tasks in hand, and a task parked on an
\* older version, or about to be, has a notification ahead.
Rests(t) == wait[t].pc = "RecheckSenders" \/ (wait[t].pc = "Parked" /\ Promised(t))
Owed == /\ \A n \in Notifiers : thread[n].pc # "Waking" => thread[n].batch = {}
        /\ \A t \in Tasks : Rests(t) /\ wait[t].seen # version["fired"] =>
             Coming(t) \/ \E n \in Notifiers : thread[n].pc = "Notify"

\* The inductive invariant.
WInv == Types /\ Ahead /\ Seen /\ Found /\ Owed
IInv == kind = "Watch" => WInv

-----------------------------------------------------------------------------
(* The records the actions update stay of their type. *)

\* Every state a notifier is put in.
LEMMA ThreadUpdates ==
  ASSUME NEW r \in Thread, NEW b \in SUBSET Tasks
  PROVE  /\ Idle \in Thread
         /\ [Idle EXCEPT !.pc = "Pulse", !.level = "fired"] \in Thread
         /\ [Idle EXCEPT !.pc = "Notify", !.level = "fired"] \in Thread
         /\ [r EXCEPT !.pc = "Notify"] \in Thread
         /\ [r EXCEPT !.batch = b] \in Thread
         /\ [r EXCEPT !.pc = "Waking", !.batch = b] \in Thread
BY DEF Thread, Idle

\* Every state a wait is put in.
LEMMA WaitUpdates ==
  ASSUME NEW w \in Wait, NEW v \in Nat, NEW g \in Nat,
         NEW p \in Waiting \cup {"Start", "Ready", "Closed"}
  PROVE  /\ [w EXCEPT !.pc = p] \in Wait
         /\ [w EXCEPT !.pc = p, !.seen = v] \in Wait
         /\ [w EXCEPT !.pc = p, !.seen = v, !.got = g] \in Wait
BY DEF Wait

-----------------------------------------------------------------------------
(* A notifier's steps. *)

\* wake_all takes the registered waiters.
LEMMA TakeKeeps ==
  ASSUME WInv, NEW n \in Notifiers, Take(n)
  PROVE  WInv'
<1> USE DEF WInv
<1>1. /\ thread[n].pc = "Notify" /\ thread[n].level = "fired"
      /\ UNCHANGED <<version, value, senders, wait, woken>>
  BY DEF Types, Thread, Take
<1>2. registry["fired"] \in SUBSET Tasks
  BY DEF Types, Levels
<1>3. /\ thread' = [thread EXCEPT ![n] = [thread[n] EXCEPT !.pc = "Waking",
                                             !.batch = registry["fired"]]]
      /\ registry' = [registry EXCEPT !["fired"] = {}]
  BY <1>1 DEF Take, Level, Types
<1>4. Types'
  <2>1. [thread[n] EXCEPT !.pc = "Waking", !.batch = registry["fired"]] \in Thread
    BY <1>2, ThreadUpdates DEF Types
  <2> QED BY <1>1, <1>3, <2>1 DEF Types, Levels
<1>5. /\ thread'[n].pc = "Waking" /\ thread'[n].batch = registry["fired"]
      /\ \A m \in Notifiers : m # n => thread'[m] = thread[m]
  BY <1>3 DEF Types, Thread
<1>6. Pulsing' = Pulsing
  BY <1>1, <1>5 DEF Pulsing
<1>7. \A t \in Tasks : Coming(t) \/ t \in registry["fired"] => Coming(t)'
  BY <1>1, <1>5 DEF Coming, Owed
<1>8. Ahead' /\ Seen' /\ Found'
  BY <1>1, <1>6, <1>7 DEF Ahead, Seen, Found, Promised
<1>9. \A t \in Tasks : Rests(t)' => Coming(t)'
  BY <1>1, <1>7 DEF Found, Rests, Promised
<1>10. Owed'
  BY <1>1, <1>5, <1>9 DEF Owed
<1> QED BY <1>4, <1>8, <1>10

\* It wakes them one at a time.
LEMMA WakeKeeps ==
  ASSUME WInv, NEW n \in Notifiers, Wake(n)
  PROVE  WInv'
<1> USE DEF WInv
<1>1. /\ thread[n].pc = "Waking"
      /\ UNCHANGED <<version, value, senders, registry, wait>>
  BY DEF Wake
<1>2. /\ thread' \in [Notifiers -> Thread]
      /\ \A m \in Notifiers : m # n => thread'[m] = thread[m]
      /\ thread'[n].pc \in {"Idle", "Waking"}
      /\ thread'[n].pc = "Idle" => thread'[n].batch = {}
      /\ \A t \in Tasks : Coming(t) => Coming(t)'
  <2>1. CASE thread[n].batch = {}
    <3>1. thread' = [thread EXCEPT ![n] = Idle] /\ woken' = woken
      BY <2>1 DEF Wake
    <3>2. /\ thread' \in [Notifiers -> Thread] /\ thread'[n] = Idle
          /\ \A m \in Notifiers : m # n => thread'[m] = thread[m]
      BY <3>1, ThreadUpdates DEF Types
    <3> QED BY <2>1, <3>1, <3>2 DEF Coming, Idle
  <2>2. CASE thread[n].batch # {}
    <3>1. PICK t \in thread[n].batch :
            /\ thread' = [thread EXCEPT ![n] =
                            [thread[n] EXCEPT !.batch = thread[n].batch \ {t}]]
            /\ woken' = woken \cup {t}
      BY <2>2 DEF Wake, Types
    <3>2. thread[n] \in Thread /\ thread[n].batch \ {t} \in SUBSET Tasks
      BY DEF Types, Thread
    <3>3. thread' \in [Notifiers -> Thread]
      BY <3>1, <3>2, ThreadUpdates DEF Types
    <3>4. /\ thread'[n].pc = "Waking" /\ thread'[n].batch = thread[n].batch \ {t}
          /\ \A m \in Notifiers : m # n => thread'[m] = thread[m]
      BY <1>1, <3>1, <3>2 DEF Types, Thread
    <3> QED BY <3>1, <3>3, <3>4 DEF Coming
  <2> QED BY <2>1, <2>2
<1>3. Pulsing' = Pulsing
  BY <1>1, <1>2 DEF Pulsing
<1>4. Types' /\ Ahead' /\ Seen'
  BY <1>1, <1>2, <1>3 DEF Types, Ahead, Seen
<1>5. Found'
  BY <1>1, <1>2 DEF Found, Promised
<1>6. Owed'
  BY <1>1, <1>2 DEF Owed, Rests, Promised
<1> QED BY <1>4, <1>5, <1>6

\* pulse: the version catches up by one, and a notification is owed.
LEMMA PulseKeeps ==
  ASSUME WInv, NEW n \in Notifiers, pulse(n)
  PROVE  WInv'
<1> USE DEF WInv
<1>1. /\ thread[n].pc = "Pulse"
      /\ UNCHANGED <<value, senders, registry, wait, woken>>
      /\ thread' = [thread EXCEPT ![n] = [thread[n] EXCEPT !.pc = "Notify"]]
      /\ version' = [version EXCEPT !["fired"] = version["fired"] + 1]
  BY DEF pulse, Types
<1>2. thread[n] \in Thread /\ version["fired"] \in Nat
  BY DEF Types, Levels
<1>3. thread' \in [Notifiers -> Thread]
  BY <1>1, <1>2, ThreadUpdates DEF Types
<1>4. /\ thread'[n].pc = "Notify" /\ thread'[n].batch = thread[n].batch
      /\ \A m \in Notifiers : m # n => thread'[m] = thread[m]
  BY <1>1, <1>2 DEF Types, Thread
<1>5. version' \in [Levels -> Nat] /\ version'["fired"] = version["fired"] + 1
  BY <1>1, <1>2 DEF Types, Levels
<1>6. Types'
  BY <1>1, <1>3, <1>5 DEF Types
<1>7. Pulsing' = Pulsing \ {n} /\ n \in Pulsing
  BY <1>1, <1>4 DEF Pulsing
<1>8. Ahead'
  <2>1. /\ IsFiniteSet(Pulsing \ {n}) /\ Cardinality(Pulsing) \in Nat
        /\ Cardinality(Pulsing \ {n}) = Cardinality(Pulsing) - 1
    BY <1>7, FS_RemoveElement, FS_CardinalityType DEF Ahead
  <2> QED BY <1>1, <1>2, <1>5, <1>7, <2>1 DEF Ahead, Types
<1>9. \A t \in Tasks : Coming(t) <=> Coming(t)'
  BY <1>1, <1>4 DEF Coming
<1>10. Seen'
  BY <1>1, <1>2, <1>5 DEF Seen, Types, Wait
<1>11. Found'
  BY <1>1, <1>9 DEF Found, Promised
<1>12. Owed'
  BY <1>1, <1>4 DEF Owed
<1> QED BY <1>6, <1>8, <1>10, <1>11, <1>12

\* modify_silently: the value is ahead by one more.
LEMMA ModifyKeeps ==
  ASSUME WInv, NEW n \in Notifiers, modify_silently(n)
  PROVE  WInv'
<1> USE DEF WInv
<1>1. /\ thread[n].pc = "Idle" /\ senders > 0 /\ value' = value + 1
      /\ UNCHANGED <<version, senders, registry, wait, woken>>
      /\ thread' = [thread EXCEPT ![n] =
                      [Idle EXCEPT !.pc = "Pulse", !.level = "fired"]]
  BY DEF modify_silently, Starts
<1>2. Types'
  <2>1. thread[n] \in Thread /\ {} \in SUBSET Tasks
    BY DEF Types
  <2>2. [Idle EXCEPT !.pc = "Pulse", !.level = "fired"] \in Thread
    BY <2>1, ThreadUpdates
  <2> QED BY <1>1, <2>2 DEF Types
<1>3. /\ thread'[n].pc = "Pulse" /\ thread'[n].batch = {}
      /\ \A m \in Notifiers : m # n => thread'[m] = thread[m]
  BY <1>1 DEF Types, Idle
<1>4. Pulsing' = Pulsing \cup {n} /\ n \notin Pulsing
  BY <1>1, <1>3 DEF Pulsing
<1>5. Ahead'
  <2>1. /\ IsFiniteSet(Pulsing \cup {n}) /\ Cardinality(Pulsing) \in Nat
        /\ Cardinality(Pulsing \cup {n}) = Cardinality(Pulsing) + 1
    BY <1>4, FS_AddElement, FS_CardinalityType DEF Ahead
  <2>2. version["fired"] \in Nat /\ senders # 0
    BY <1>1 DEF Types, Levels
  <2> QED BY <1>1, <1>4, <2>1, <2>2 DEF Ahead
<1>6. \A t \in Tasks : Coming(t) <=> Coming(t)'
  BY <1>1, <1>3 DEF Coming, Owed
<1>7. Seen'
  BY <1>1 DEF Seen, Types, Wait
<1>8. Found'
  BY <1>1, <1>6 DEF Found, Promised
<1>9. Owed'
  BY <1>1, <1>3, <1>6 DEF Owed, Rests, Promised
<1> QED BY <1>2, <1>5, <1>7, <1>8, <1>9

\* The last sender is dropped.
LEMMA DropKeeps ==
  ASSUME WInv, NEW n \in Notifiers, DropSender(n)
  PROVE  WInv'
<1> USE DEF WInv
<1>1. /\ \A m \in Notifiers : thread[m].pc = "Idle"
      /\ senders > 0 /\ senders' = senders - 1
      /\ UNCHANGED <<version, value, registry, wait, woken>>
      /\ thread' = [thread EXCEPT ![n] =
                      [Idle EXCEPT !.pc = "Notify", !.level = "fired"]]
  BY DEF DropSender, Starts
<1>2. Types'
  <2>1. thread[n] \in Thread /\ {} \in SUBSET Tasks
    BY DEF Types
  <2>2. [Idle EXCEPT !.pc = "Notify", !.level = "fired"] \in Thread
    BY <2>1, ThreadUpdates
  <2> QED BY <1>1, <2>2 DEF Types
<1>3. /\ thread'[n].pc = "Notify" /\ thread'[n].batch = {}
      /\ \A m \in Notifiers : m # n => thread'[m] = thread[m]
  BY <1>1 DEF Types, Idle
<1>4. Pulsing' = {} /\ Pulsing = {}
  BY <1>1, <1>3 DEF Pulsing
<1>5. \A t \in Tasks : Coming(t) <=> Coming(t)'
  BY <1>1, <1>3 DEF Coming, Owed
<1>6. Ahead' /\ Seen'
  BY <1>1, <1>4 DEF Ahead, Seen
<1>7. Found'
  BY <1>1, <1>5 DEF Found, Promised, Types
<1>8. Owed'
  BY <1>1, <1>3, <1>5 DEF Owed
<1> QED BY <1>2, <1>6, <1>7, <1>8

-----------------------------------------------------------------------------
(* A task's steps change its own wait and registration. *)

\* What is enough to show of a task that moves.
LEMMA OneTask ==
  ASSUME WInv, NEW t \in Tasks, NEW w \in Wait, wait' = [wait EXCEPT ![t] = w],
         UNCHANGED <<version, value, senders, thread>>,
         \A u \in Tasks \ {t} : u \in woken => u \in woken',
         registry' \in [Levels -> SUBSET Tasks],
         \A u \in Tasks \ {t} : u \in registry["fired"] => u \in registry'["fired"],
         w.pc \in Waiting =>
           w.seen <= w.got /\ w.got <= value /\ w.seen <= version["fired"],
         w.pc \in {"Recheck", "RecheckSenders", "Parked"} =>
           \/ t \in registry'["fired"] \/ Coming(t)'
           \/ w.pc = "Parked" /\ senders = 0 /\ ~w.closes,
         (\/ w.pc = "RecheckSenders"
          \/ w.pc = "Parked" /\ (senders > 0 \/ w.closes))
           => \/ w.seen = version["fired"] \/ Coming(t)'
              \/ \E n \in Notifiers : thread[n].pc = "Notify"
  PROVE  WInv'
<1> USE DEF WInv
<1>1. /\ wait'[t] = w /\ \A u \in Tasks : u # t => wait'[u] = wait[u]
      /\ Types'
  BY DEF Types
<1>2. \A u \in Tasks : u # t => (Coming(u) => Coming(u)')
  BY DEF Coming
<1>3. Pulsing' = Pulsing
  BY DEF Pulsing
<1>4. Ahead' /\ Seen'
  BY <1>1, <1>3 DEF Ahead, Seen
<1>5. \A u \in Tasks : u # t =>
        (Promised(u)' <=> Promised(u)) /\ (Rests(u)' <=> Rests(u))
  BY <1>1 DEF Promised, Rests
<1>6. Promised(t)' <=> (senders > 0 \/ w.closes)
  BY <1>1 DEF Promised
<1>7. senders > 0 \/ senders = 0
  BY DEF Types
<1>8. Found'
  BY <1>1, <1>2, <1>5, <1>6, <1>7 DEF Found
<1>9. Owed'
  BY <1>1, <1>2, <1>5, <1>6 DEF Owed, Rests
<1> QED BY <1>1, <1>4, <1>8, <1>9

\* A load of the version that finds the watch moved on.
LEMMA ChangedKeeps ==
  ASSUME WInv, kind = "Watch", NEW t \in Tasks, NEW from, Changed(t, from)
  PROVE  WInv'
<1>1. wait[t] \in Wait /\ wait[t].level = "fired" /\ version["fired"] \in Nat
  BY DEF WInv, Types, Wait, Levels
<1>2. /\ registry' = [registry EXCEPT !["fired"] = @ \ {t}]
      /\ UNCHANGED <<version, value, senders, thread, woken>>
  BY <1>1 DEF Changed, Removed
<1>3. /\ registry' \in [Levels -> SUBSET Tasks]
      /\ \A u \in Tasks \ {t} : u \in registry["fired"] => u \in registry'["fired"]
  BY <1>2 DEF WInv, Types, Levels
<1> DEFINE w == [wait[t] EXCEPT !.pc = "Ready", !.seen = version["fired"]]
<1>4. wait' = [wait EXCEPT ![t] = w]
  BY DEF Changed, WInv, Types
<1>5. w \in Wait
  BY <1>1, WaitUpdates
<1>6. w.pc = "Ready"
  BY <1>1 DEF Wait
<1> HIDE DEF w
<1> QED BY <1>2, <1>3, <1>4, <1>5, <1>6, OneTask DEF Waiting

\* A step of a wait that only moves it on.
LEMMA MoveKeeps ==
  ASSUME WInv, NEW t \in Tasks,
         NEW from \in Waiting, NEW to \in Waiting \cup {"Start", "Closed"},
         WaitStep(t, from, to),
         UNCHANGED <<version, value, senders, thread>>,
         \A u \in Tasks \ {t} : u \in woken => u \in woken',
         registry' \in [Levels -> SUBSET Tasks],
         \A u \in Tasks \ {t} : u \in registry["fired"] => u \in registry'["fired"],
         to \in {"Recheck", "RecheckSenders", "Parked"} =>
           \/ t \in registry'["fired"] \/ Coming(t)'
           \/ to = "Parked" /\ senders = 0 /\ ~wait[t].closes,
         (\/ to = "RecheckSenders"
          \/ to = "Parked" /\ (senders > 0 \/ wait[t].closes))
           => \/ wait[t].seen = version["fired"] \/ Coming(t)'
              \/ \E n \in Notifiers : thread[n].pc = "Notify"
  PROVE  WInv'
<1> DEFINE w == [wait[t] EXCEPT !.pc = to]
<1>1. wait[t] \in Wait /\ wait' = [wait EXCEPT ![t] = w]
  BY DEF WInv, Types, WaitStep
<1>2. w \in Wait
  <2>1. wait[t].seen \in Nat
    BY <1>1 DEF Wait
  <2> QED BY <1>1, <2>1, WaitUpdates
<1>3. /\ w.pc = to /\ w.seen = wait[t].seen /\ w.got = wait[t].got
      /\ w.closes = wait[t].closes
  BY <1>1 DEF Wait
<1>4. /\ wait[t].seen <= wait[t].got /\ wait[t].got <= value
      /\ wait[t].seen <= version["fired"]
  BY DEF WInv, Seen, Waiting, WaitStep
<1> HIDE DEF w
<1> QED BY <1>1, <1>2, <1>3, <1>4, OneTask

\* Every other step of a task.
LEMMA PollKeeps ==
  ASSUME WInv, kind = "Watch", NEW t \in Tasks, Poll(t) \/ Cancel(t)
  PROVE  WInv'
<1>1. /\ wait[t] \in Wait /\ wait[t].level = "fired" /\ version["fired"] \in Nat
      /\ value \in Nat /\ version["fired"] <= value
  <2>1. Cardinality(Pulsing) \in Nat
    BY FS_CardinalityType DEF WInv, Ahead
  <2> QED BY <2>1 DEF WInv, Types, Wait, Levels, Ahead
<1>2. Advanced(t) <=> wait[t].seen # version["fired"]
  BY <1>1 DEF Advanced
<1>3. registry \in [Levels -> SUBSET Tasks] /\ wait \in [Tasks -> Wait]
  BY DEF WInv, Types
<1>4. wait[t].pc \in Waiting =>
        /\ wait[t].seen <= wait[t].got /\ wait[t].got <= value
        /\ wait[t].seen <= version["fired"]
  BY DEF WInv, Seen
<1>5. CASE borrow_and_update(t)
  <2> DEFINE w == [wait[t] EXCEPT !.pc = "Check", !.seen = version["fired"],
                                  !.got = value]
  <2>1. wait' = [wait EXCEPT ![t] = w] /\ w \in Wait
    BY <1>1, <1>3, <1>5, WaitUpdates DEF borrow_and_update, Waiting
  <2>2. w.pc = "Check" /\ w.seen = version["fired"] /\ w.got = value
    BY <1>1 DEF Wait
  <2>3. UNCHANGED <<version, value, senders, registry, thread, woken>>
    BY <1>5 DEF borrow_and_update, Keeps
  <2> HIDE DEF w
  <2>4. /\ w.seen <= w.got /\ w.got <= value /\ w.seen <= version["fired"]
        /\ w.pc \notin {"Recheck", "RecheckSenders", "Parked"}
    BY <1>1, <2>2
  <2>5. w.pc # "RecheckSenders" /\ w.pc # "Parked"
    BY <2>4
  <2> QED BY <1>3, <2>1, <2>3, <2>4, <2>5, OneTask
<1>6. CASE CheckReady(t) \/ RecheckReady(t)
  BY <1>6, ChangedKeeps DEF CheckReady, RecheckReady
<1>7. CASE Check(t)
  <2>1. /\ WaitStep(t, "Check", "CheckSenders")
        /\ UNCHANGED <<version, value, senders, registry, thread, woken>>
    BY <1>7 DEF Check, Unchanged, Keeps
  <2> QED BY <1>3, <2>1, MoveKeeps DEF Waiting
<1>8. CASE Register(t)
  <2>1. /\ WaitStep(t, "Register", "Recheck")
        /\ UNCHANGED <<version, value, senders, thread, woken>>
        /\ registry' = [registry EXCEPT !["fired"] = @ \cup {t}]
    BY <1>1, <1>8 DEF Register
  <2>2. /\ registry' \in [Levels -> SUBSET Tasks]
        /\ registry'["fired"] = registry["fired"] \cup {t}
    BY <1>3, <2>1 DEF Levels
  <2> QED BY <2>1, <2>2, MoveKeeps DEF Waiting
<1>9. CASE Recheck(t)
  <2>1. /\ WaitStep(t, "Recheck", "RecheckSenders")
        /\ UNCHANGED <<version, value, senders, registry, thread, woken>>
        /\ wait[t].seen = version["fired"] /\ wait[t].pc = "Recheck"
    BY <1>2, <1>9 DEF Recheck, Unchanged, Keeps, WaitStep
  <2>2. t \in registry["fired"] \/ Coming(t)
    BY <2>1 DEF WInv, Found
  <2>3. Coming(t) => Coming(t)'
    BY <2>1 DEF Coming
  <2> QED BY <1>3, <2>1, <2>2, <2>3, MoveKeeps DEF Waiting
<1>13. CASE CheckSenders(t) \/ RecheckSenders(t)
  <2>1. PICK from \in {"CheckSenders", "RecheckSenders"} :
          LoadSenders(t, from, IF from = "CheckSenders" THEN "Register" ELSE "Parked")
    BY <1>13 DEF CheckSenders, RecheckSenders
  <2>2. CASE Closed(t)
    <3>1. PICK to \in {"Closed", "Parked"} :
            WaitStep(t, from, to) /\ (to = "Parked" => ~wait[t].closes)
      BY <2>1, <2>2 DEF LoadSenders
    <3>2. /\ senders = 0 /\ UNCHANGED <<version, value, senders, thread, woken>>
          /\ registry' = [registry EXCEPT !["fired"] = @ \ {t}]
      BY <1>1, <2>1, <2>2 DEF LoadSenders, Closed, Removed
    <3>3. /\ registry' \in [Levels -> SUBSET Tasks]
          /\ registry'["fired"] = registry["fired"] \ {t}
      BY <1>3, <3>2 DEF Levels
    <3> QED BY <3>1, <3>2, <3>3, MoveKeeps DEF Waiting
  <2>3. CASE ~Closed(t)
    <3>1. UNCHANGED <<version, value, senders, registry, thread, woken>>
      BY <2>1, <2>3 DEF LoadSenders, Keeps
    <3>2. CASE from = "CheckSenders"
      <4>1. WaitStep(t, "CheckSenders", "Register")
        BY <2>1, <2>3, <3>2 DEF LoadSenders
      <4> QED BY <1>3, <3>1, <4>1, MoveKeeps DEF Waiting
    <3>3. CASE from = "RecheckSenders"
      <4>1. WaitStep(t, "RecheckSenders", "Parked") /\ wait[t].pc = "RecheckSenders"
        BY <2>1, <2>3, <3>3 DEF LoadSenders, WaitStep
      <4>2. /\ t \in registry["fired"] \/ Coming(t)
            /\ \/ wait[t].seen = version["fired"] \/ Coming(t)
               \/ \E n \in Notifiers : thread[n].pc = "Notify"
        BY <4>1 DEF WInv, Found, Owed, Rests
      <4>3. Coming(t) => Coming(t)'
        BY <3>1 DEF Coming
      <4> QED BY <1>3, <3>1, <4>1, <4>2, <4>3, MoveKeeps DEF Waiting
    <3> QED BY <3>2, <3>3
  <2> QED BY <2>2, <2>3
<1>10. CASE Repoll(t)
  <2>1. /\ WaitStep(t, "Parked", "Check") /\ woken' = woken \ {t}
        /\ UNCHANGED <<version, value, senders, registry, thread>>
    BY <1>10 DEF Repoll
  <2> QED BY <1>3, <2>1, MoveKeeps DEF Waiting
<1>11. CASE Cancel(t)
  <2>1. /\ WaitStep(t, "Parked", "Start")
        /\ UNCHANGED <<version, value, senders, thread, woken>>
        /\ registry' = [registry EXCEPT !["fired"] = @ \ {t}]
    BY <1>1, <1>11 DEF Cancel, Removed
  <2>2. /\ registry' \in [Levels -> SUBSET Tasks]
        /\ registry'["fired"] = registry["fired"] \ {t}
    BY <1>3, <2>1 DEF Levels
  <2> QED BY <2>1, <2>2, MoveKeeps DEF Waiting
<1>12. ~Begin(t)
  BY DEF Begin
<1> QED BY <1>5, <1>6, <1>7, <1>8, <1>9, <1>10, <1>11, <1>12, <1>13 DEF Poll

-----------------------------------------------------------------------------
\* The invariant holds throughout.
LEMMA InvariantHolds == Spec => []IInv
<1>1. Init => IInv
  <2> SUFFICES ASSUME Init, kind = "Watch" PROVE WInv
    BY DEF IInv
  <2>1. Types
    BY DEF Init, Types, Wait, Thread, Idle, Levels
  <2>2. Pulsing = {} /\ IsFiniteSet({}) /\ Cardinality({}) = 0
    BY FS_EmptySet DEF Init, Pulsing, Idle
  <2>3. \A t \in Tasks : wait[t].pc = "Start"
    BY DEF Init
  <2>4. Ahead /\ Seen /\ Found
    BY <2>2, <2>3 DEF Init, Ahead, Seen, Found, Waiting, Levels
  <2>5. Owed
    BY <2>3 DEF Init, Owed, Rests, Idle
  <2> QED BY <2>1, <2>4, <2>5 DEF WInv
<1>2. IInv /\ [Next]_vars => IInv'
  <2> SUFFICES ASSUME IInv, [Next]_vars, kind' = "Watch" PROVE WInv'
    BY DEF IInv
  <2>0. kind = "Watch"
    BY DEF Next, vars, Notify, Publish, Take, Wake, GateLatch, pulse,
       fire_silently, GateFire, GateComplete, modify_silently, DropSender, Poll,
       borrow_and_update, Begin, CheckReady, Check, CheckSenders, Register,
       RecheckReady, Recheck, RecheckSenders, Changed, Unchanged, LoadSenders,
       Keeps, Removed, Repoll, Cancel, PollStarts, ProxyPoll, Probe, Compare, Replace,
       RepollTarget, wake_by_ref, TargetReady, Rest
  <2>1. WInv
    BY <2>0 DEF IInv
  <2>2. CASE UNCHANGED vars
    BY <2>1, <2>2 DEF vars, WInv, Types, Ahead, Pulsing, Seen, Found, Owed, Rests,
       Promised, Coming
  <2>3. ASSUME NEW n \in Notifiers, Notify(n) \/ Publish(n) PROVE WInv'
    <3>1. ~GateLatch(n)
      BY <2>1 DEF GateLatch, WInv, Types, Thread
    <3>2. ~fire_silently(n) /\ ~GateFire(n) /\ ~GateComplete(n)
      BY <2>0 DEF fire_silently, GateFire, GateComplete
    <3> QED BY <2>1, <2>3, <3>1, <3>2, TakeKeeps, WakeKeeps, PulseKeeps,
               ModifyKeeps, DropKeeps DEF Notify, Publish
  <2>4. ASSUME NEW t \in Tasks, Poll(t) \/ Cancel(t) PROVE WInv'
    BY <2>0, <2>1, <2>4, PollKeeps
  <2>5. /\ \A t \in Tasks : ~PollStarts(t)
        /\ ~ProxyPoll /\ ~TargetReady
    BY <2>0 DEF PollStarts, ProxyPoll, Probe, Compare, Replace, RepollTarget,
       wake_by_ref, TargetReady, ProxyStep
  <2> QED BY <2>2, <2>3, <2>4, <2>5 DEF Next
<1> QED BY <1>1, <1>2, PTL DEF Spec

\* A watcher never rests on a stale value: one that is parked, with a sender
\* alive or watching for the close, holds the value last published, or the
\* publication it missed has not pulsed yet, or a wake for it is on its way
\* (modify_silently then pulse, against borrow_and_update then changed), for any
\* number of watchers and publishers.
THEOREM WatcherAlwaysCurrent == Spec => []WatcherIsCurrent
<1>1. IInv => WatcherIsCurrent
  <2> SUFFICES ASSUME WInv, kind = "Watch", NEW t \in Tasks,
                      Promised(t), wait[t].pc = "Parked", wait[t].got # value
               PROVE  \/ Coming(t)
                      \/ \E n \in Notifiers : thread[n].pc \in {"Pulse", "Notify"}
    BY DEF IInv, WatcherIsCurrent, Coming
  <2>1. CASE wait[t].seen # version["fired"]
    BY <2>1 DEF WInv, Owed, Rests
  <2>2. CASE wait[t].seen = version["fired"]
    <3>1. /\ wait[t].seen <= wait[t].got /\ wait[t].got <= value
          /\ wait[t].got \in Nat /\ value \in Nat /\ version["fired"] \in Nat
      BY DEF WInv, Seen, Waiting, Types, Wait, Levels
    <3>2. Cardinality(Pulsing) \in Nat /\ IsFiniteSet(Pulsing)
      BY FS_CardinalityType DEF WInv, Ahead
    <3>3. Cardinality(Pulsing) # 0
      BY <2>2, <3>1, <3>2 DEF WInv, Ahead
    <3>4. Pulsing # {}
      BY <3>2, <3>3, FS_EmptySet
    <3> QED BY <3>4 DEF Pulsing
  <2> QED BY <2>1, <2>2
<1> QED BY <1>1, InvariantHolds, PTL
=============================================================================
