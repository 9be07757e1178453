------------------------------- MODULE Timing -------------------------------
(***************************************************************************)
(* Time in a scope driver: the deadline queue, the readiness gate, the     *)
(* stop ladder, backoff and the intensity window, and the verdict they     *)
(* give an exit.  The scope is dynamic: a drain stops its children at      *)
(* once.                                                                   *)
(*                                                                         *)
(* Time is relative: a deadline is the time left to it, 0 once it is due,  *)
(* a start or a charge is its age, and Tick moves them all.  The driver    *)
(* reads the clock in every handler, and the clock may have moved on since *)
(* the wake that collected the event.                                      *)
(***************************************************************************)
EXTENDS Naturals, Sequences, FiniteSets

CONSTANTS
  Configs,     \* the children of an instance, each with its resolved options
  MaxRestarts, \* Intensity::max_restarts
  Within,      \* Intensity::within, the rolling window
  MaxAttempt,  \* bound: attempts are counted this far (a backoff is at its maximum)
  Never        \* a deadline the clock cannot represent or arm, beyond every other

VARIABLES
  config,   \* the options of this behaviour
  driver,   \* the deadline queue, the window, and each child's ActiveChild
  body,     \* the tasks: running, their latches
  lane,     \* events sent to the driver and not yet collected
  batch,    \* events of the current wake
  past      \* history: what really happened, and how long ago

Names    == UNION {DOMAIN c : c \in Configs}
Children == DOMAIN config

vars == <<config, driver, body, lane, batch, past>>

Lesser(a, b)  == IF a < b THEN a ELSE b
Greater(a, b) == IF a > b THEN a ELSE b

Nearer(deadline)  == IF deadline \in {0, Never} THEN deadline ELSE deadline - 1
Older(age, limit) == IF age < limit THEN age + 1 ELSE age

\* Deadline::after: a duration the clock cannot add, or arm, is no deadline.
after(duration) == IF duration >= Never THEN Never ELSE duration

-----------------------------------------------------------------------------
(* The deadline queue: a heap of entries, some of them stale, beside the    *)
(* registrations that are still active.                                     *)

NewQueue == [entries |-> {}, registrations |-> {}]

is_active(q, handle) == \E r \in q.registrations : r.handle = handle

push(q, handle, time, key) ==
  [entries       |-> q.entries \cup {[at |-> time, handle |-> handle]},
   registrations |-> q.registrations \cup {[handle |-> handle, key |-> key]}]

compact_if_sparse(q) ==
  IF Cardinality(q.entries) > 2 * Cardinality(q.registrations)
  THEN [q EXCEPT !.entries = {e \in @ : is_active(q, e.handle)}]
  ELSE q

\* A handle is never reused, so cancelling a consumed one misses.
cancel(q, handle) ==
  IF is_active(q, handle)
  THEN compact_if_sparse(
         [q EXCEPT !.registrations = {r \in @ : r.handle # handle}])
  ELSE q

Precedes(e, f) == e.at < f.at \/ (e.at = f.at /\ e.handle < f.handle)

\* Fault: stale entries stay at the head of the heap.
Fault_NoPrune(q) == q
prune_stale_head(q) ==
  [q EXCEPT !.entries =
     {e \in @ : \E f \in @ : is_active(q, f.handle) /\ (f = e \/ Precedes(f, e))}]

Peek(q) == CHOOSE e \in q.entries : \A f \in q.entries : e = f \/ Precedes(e, f)

next_deadline(q) ==
  LET p == prune_stale_head(q) IN
  IF p.entries = {} THEN Never ELSE Peek(p).at

\* The loop of a wake: pop_due until the head is in the future.  A consumed
\* registration leaves the map with its entry; stale heads are dropped.
Due(q) ==
  {r \in q.registrations : \E e \in q.entries : e.handle = r.handle /\ e.at = 0}

pop_due(q) ==
  LET due == {r.handle : r \in Due(q)} IN
  prune_stale_head(
    [q EXCEPT !.registrations = {r \in @ : r.handle \notin due},
              !.entries = {e \in @ : e.handle \notin due}])

-----------------------------------------------------------------------------
(* Policies.  A shutdown policy is its grace, 0 for Abort; a backoff is a   *)
(* base, a factor and a maximum, base 0 for Immediate and factor 1 for a    *)
(* fixed delay.                                                             *)

\* Fault: the abort follows the cancellation without a beat.
Fault_NoBeat(grace) == 0
tidy_abort_beat(grace) == Lesser(Greater(grace \div 10, 1), 10)

Power(b, n) == LET f[i \in 0..n] == IF i = 0 THEN 1 ELSE b * f[i - 1] IN f[n]

half_duration(d) == (d + 1) \div 2

Nominal(b, attempt) ==
  IF attempt <= 1 \/ b.factor = 1 THEN b.base
  ELSE Lesser(b.base * Power(b.factor, attempt - 1), b.max)

\* Equal jitter takes a delay from the upper half, by a random sample.
next_delay(b, attempt) ==
  LET delay == Lesser(Nominal(b, attempt), b.max) IN
  IF b.base = 0 THEN {0}
  ELSE IF b.jitter THEN half_duration(delay)..delay
  ELSE {delay}

\* The charge drops what has left the window and then counts this restart;
\* a charge exactly `within' ago is still inside.
charge(charges) == Append(SelectSeq(charges, LAMBDA age : age <= Within), 0)

tripped(charges) == Len(charges) > MaxRestarts

should_restart(c, exit) ==
  \/ config[c].restart = "Always"
  \/ config[c].restart = "OnFailure" /\ exit.kind # "Completed"

-----------------------------------------------------------------------------
(* Exit classification: what the task recorded, what the driver forced, and *)
(* how the task ended, by rank; the earlier source wins a tie.              *)

Outcome(kind, phase) == [kind |-> kind, phase |-> phase]
Nothing == Outcome("None", "None")

rank(o) ==
  CASE o.kind = "None" -> 0 [] o.kind = "Completed" -> 1
    [] o.kind = "Aborted" -> 2 [] o.kind = "Failed" -> 3
    [] o.kind = "ReadinessTimedOut" -> 4 [] o.kind = "Panicked" -> 5

prefer_earlier(earlier, later) ==
  IF rank(earlier) >= rank(later) THEN earlier ELSE later

reconcile_recorded_outcomes(recorded, forced) == prefer_earlier(recorded, forced)

classify_exit(recorded, join, hard) ==
  LET joined == CASE join = "Ok" -> Nothing
                  [] join = "Panic" -> Outcome("Panicked", "None")
                  [] join = "Cancelled" ->
                       Outcome("Aborted", IF hard = "None" THEN "WithinGrace" ELSE hard)
      kind == prefer_earlier(recorded, joined)
  IN IF kind = Nothing THEN Outcome("Aborted", "WithinGrace") ELSE kind

-----------------------------------------------------------------------------
(* The stop ladder. *)

NoLadder == [phase |-> "None", deadline |-> Never, grace_phase |-> "WithinGrace",
             force_requested |-> FALSE, acked |-> FALSE]
NewLadder == [NoLadder EXCEPT !.phase = "Idle"]

\* Fault: a force at the deadline forgets that the grace was over.
Fault_ForceForgetsGrace(l, grace) ==
  IF l.phase = "Cooperative" THEN [l EXCEPT !.deadline = 0, !.force_requested = TRUE]
  ELSE IF l.phase = "Finished" THEN l ELSE [l EXCEPT !.force_requested = TRUE]
\* Expedites the ladder without replacing or rewinding it.
force(l, grace) ==
  CASE l.phase = "Finished" -> l
    [] l.phase = "Cooperative" ->
         [l EXCEPT !.grace_phase = IF ~l.force_requested /\ grace # 0 /\ l.deadline = 0
                                   THEN "AfterGrace" ELSE @,
                   !.deadline = 0,
                   !.force_requested = TRUE]
    [] OTHER -> [l EXCEPT !.force_requested = TRUE]

advance(l, grace, framework) ==
  CASE l.phase = "Idle" ->
         [l EXCEPT !.phase = "Cooperative",
                   !.deadline = IF l.force_requested THEN 0 ELSE after(grace)]
    [] l.phase = "Cooperative" /\ l.deadline = 0 ->
         [l EXCEPT !.phase = "Escalated",
                   !.grace_phase = IF grace # 0 /\ ~l.force_requested
                                   THEN "AfterGrace" ELSE @,
                   !.deadline = tidy_abort_beat(IF l.force_requested THEN 0 ELSE grace)]
    [] l.phase = "Escalated" /\ l.deadline = 0 /\ framework ->
         [l EXCEPT !.phase = "AbortingFramework", !.deadline = tidy_abort_beat(0)]
    [] \/ l.phase = "Escalated" /\ l.deadline = 0 /\ ~framework
       \/ l.phase = "AbortingFramework" /\ l.deadline = 0 ->
         [l EXCEPT !.phase = "Finished", !.deadline = Never]
    [] OTHER -> l

-----------------------------------------------------------------------------
(* The driver's record.  A handle of 0 is no registration.                  *)

NewChild ==
  [live |-> FALSE, minted |-> 0, terminal |-> FALSE, ran |-> 0,
   gate |-> "Disarmed", gate_deadline |-> Never, ladder |-> NoLadder,
   forced |-> Nothing, hard |-> "None", aborted |-> FALSE, framework |-> FALSE,
   readiness_deadline |-> 0, stop_deadline |-> 0, restart_deadline |-> 0,
   attempt |-> 0]

Take(d, c, field) ==
  [d EXCEPT !.queue = cancel(@, d.child[c][field]), !.child[c][field] = 0]

\* The code never reuses a handle; the model takes one that no entry and no
\* record holds.
Held(d) == {e.handle : e \in d.queue.entries} \cup
           UNION {{d.child[c].readiness_deadline, d.child[c].stop_deadline,
                   d.child[c].restart_deadline} : c \in Children}
Handles == 1..(8 * Cardinality(Children))
Fresh(d) == CHOOSE h \in Handles : h \notin Held(d) /\ 1..(h - 1) \subseteq Held(d)

Arm(d, c, field, time, kind) ==
  IF time = Never THEN d
  ELSE [d EXCEPT
          !.queue = push(@, Fresh(d), time,
                         [type |-> kind, child |-> c, inc |-> d.child[c].minted]),
          !.child[c][field] = Fresh(d)]

\* The loop over ladder actions: a call makes at most two of them, because
\* every beat is longer than nothing.
advance_ladder(d, c) ==
  LET e  == Take(d, c, "stop_deadline")
      ch == e.child[c]
      from == [ch.ladder EXCEPT
                 !.acked = @ \/ (ch.ladder.phase = "AbortingFramework" /\ body[c].acked)]
      Step(l) == advance(l, config[c].grace, config[c].framework)
      to   == Step(Step(from))
      frames == to.phase = "AbortingFramework" /\ from.phase = "Escalated"
      aborts == to.phase = "Finished" /\ from.phase # "Finished" /\ ~from.acked
  IN
  IF ~ch.live \/ ch.ladder.phase = "None" THEN e
  ELSE Arm([e EXCEPT
              !.child[c].ladder    = to,
              !.child[c].framework = @ \/ frames,
              !.child[c].aborted   = @ \/ aborts,
              !.child[c].hard      = IF frames \/ aborts THEN to.grace_phase ELSE @,
              !.child[c].forced    = IF frames /\ @ = Nothing
                                     THEN Outcome("Aborted", to.grace_phase) ELSE @],
           c, "stop_deadline", to.deadline, "Stop")

terminate_inactive(d, c) ==
  [Take(d, c, "restart_deadline") EXCEPT !.child[c].terminal = TRUE]

begin_stop_child(d, c, forced) ==
  LET ch == d.child[c] IN
  CASE ch.terminal -> d
    [] ch.live /\ ch.ladder.phase # "None" -> d
    [] ch.live /\ ch.ladder.phase = "None" ->
         advance_ladder(
           [Take(d, c, "readiness_deadline") EXCEPT
              !.child[c].forced = forced,
              !.child[c].gate   = IF forced = Nothing /\ @ = "Waiting"
                                  THEN "Disarmed" ELSE @,
              !.child[c].gate_deadline = Never,
              !.child[c].ladder = NewLadder],
           c)
    [] OTHER -> terminate_inactive(d, c)

force_child(d, c) ==
  LET e == begin_stop_child(d, c, Nothing)
      f == IF e.child[c].live
           THEN [e EXCEPT !.child[c].ladder = force(@, config[c].grace)]
           ELSE e
  IN advance_ladder(f, c)

\* Incarnations are told apart modulo 2: no event is more than one of them late.
Successor(inc) == (inc % 2) + 1

spawn_child(d, c) ==
  LET deadline == after(config[c].readiness)
      gated    == config[c].readiness # 0
      e == [Take(d, c, "restart_deadline") EXCEPT
              !.child[c] = [NewChild EXCEPT
                !.live = TRUE, !.minted = Successor(d.child[c].minted),
                !.attempt = d.child[c].attempt,
                !.gate = IF gated THEN "Waiting" ELSE "Ready",
                !.gate_deadline = IF gated THEN deadline ELSE Never]]
  IN IF gated THEN Arm(e, c, "readiness_deadline", deadline, "Readiness") ELSE e

BecameReady(d, c) ==
  [Take(d, c, "readiness_deadline") EXCEPT !.child[c].gate = "Ready",
                                           !.child[c].gate_deadline = Never]

-----------------------------------------------------------------------------
(* Events, in the order of their arbitration classes.  StartChild,          *)
(* StopChild and ForceChild are effects the driver flushes at once.         *)

Class(e) ==
  CASE e.type \in {"StartChild", "StopChild", "ForceChild"} -> 0
    [] e.type \in {"Shutdown", "Force"}       -> 1
    [] e.type = "SelfStop"  -> 2 [] e.type = "Exited"    -> 3
    [] e.type = "Ready"     -> 4 [] e.type = "Readiness" -> 5
    [] e.type = "Restart"   -> 6 [] e.type = "Stop"      -> 7

First(e) == e \in batch /\ \A f \in batch : Class(e) <= Class(f)

Event(type, c, inc) == [type |-> type, child |-> c, inc |-> inc]
ForAll(type) == {Event(type, c, 0) : c \in Children}

Live(e) == driver.child[e.child].live /\ driver.child[e.child].minted = e.inc
Handled(e) == batch' = batch \ {e}

NewPast == [stopAge |-> 0, forceAge |-> Never, exitAge |-> 0, timedOut |-> FALSE,
            cutShort |-> FALSE]

Idle == [running |-> FALSE, signal |-> FALSE, stopped |-> FALSE, acked |-> FALSE]

Init ==
  /\ config \in Configs
  /\ driver = [queue |-> NewQueue, charges |-> <<>>, draining |-> FALSE, hard_forced |-> FALSE,
               child |-> [c \in Children |-> NewChild]]
  /\ body = [c \in Children |-> Idle]
  /\ lane = {} /\ batch = ForAll("StartChild")
  /\ past = [child |-> [c \in Children |-> NewPast],
             charged |-> [age \in 0..Within |-> 0], tripped |-> FALSE, excess |-> FALSE,
             honest |-> TRUE]

-----------------------------------------------------------------------------
(* The driver. *)

\* A wake takes what its lanes hold and what is due at one reading of the
\* clock.
Collect ==
  /\ batch = {}
  /\ lane \cup Due(driver.queue) # {}
  /\ batch' = lane \cup {r.key : r \in Due(driver.queue)}
  /\ driver' = [driver EXCEPT !.queue = pop_due(@)]
  /\ lane' = {}
  /\ UNCHANGED <<config, body, past>>

\* The history of a step that may force the child's ladder.
Record(c) ==
  IF driver'.child[c].ladder.force_requested /\ ~driver.child[c].ladder.force_requested
  THEN [past EXCEPT !.child[c].forceAge = 0,
                    !.child[c].cutShort = past.child[c].stopAge < config[c].grace]
  ELSE past

HandleStopChild(e) ==
  /\ First(e) /\ e.type = "StopChild"
  /\ driver' = begin_stop_child(driver, e.child, Nothing)
  /\ past' = Record(e.child)
  /\ Handled(e) /\ UNCHANGED <<config, body, lane>>

HandleForceChild(e) ==
  /\ First(e) /\ e.type = "ForceChild"
  /\ driver' = force_child(driver, e.child)
  /\ past' = Record(e.child)
  /\ Handled(e) /\ UNCHANGED <<config, body, lane>>

\* A drain stops every child; a force drains and expedites every child.
HandleDrain(e) ==
  /\ First(e) /\ e.type \in {"Shutdown", "Force"}
  /\ driver' = [driver EXCEPT !.draining = TRUE, !.hard_forced = @ \/ e.type = "Force"]
  /\ batch' = (batch \ {e}) \cup
              (IF e.type = "Force" THEN ForAll("ForceChild")
               ELSE IF driver.draining THEN {} ELSE ForAll("StopChild"))
  /\ UNCHANGED <<config, body, lane, past>>

\* A local stop keeps readiness that was marked before it.
handle_self_stop(e) ==
  /\ First(e) /\ e.type = "SelfStop"
  /\ LET c == e.child
         d == IF body[c].signal /\ driver.child[c].gate = "Waiting"
              THEN BecameReady(driver, c) ELSE driver
     IN driver' = IF Live(e) THEN begin_stop_child(d, c, Nothing) ELSE driver
  /\ past' = Record(e.child)
  /\ Handled(e) /\ UNCHANGED <<config, body, lane>>

handle_ready(e) ==
  /\ First(e) /\ e.type = "Ready"
  /\ driver' = IF Live(e) /\ driver.child[e.child].gate = "Waiting"
               THEN BecameReady(driver, e.child) ELSE driver
  /\ Handled(e) /\ UNCHANGED <<config, body, lane, past>>

\* What an exit leaves of the child: no live incarnation, no deadline of it,
\* and a verdict.  A run that lasted for the window forgives the attempts
\* before it.
Retire(e) ==
  LET c  == e.child
      d  == IF e.seen /\ driver.child[c].gate = "Waiting"
            THEN BecameReady(driver, c) ELSE driver
      f  == Take(Take(d, c, "readiness_deadline"), c, "stop_deadline")
      stable == driver.child[c].ran >= Within
  IN [f EXCEPT !.child[c] = [NewChild EXCEPT
        !.minted  = d.child[c].minted,
        !.attempt = IF stable THEN 0 ELSE d.child[c].attempt]]

Verdict(e) ==
  LET ch == driver.child[e.child] IN
  classify_exit(reconcile_recorded_outcomes(e.recorded, ch.forced), e.join, ch.hard)

schedule_restart(d, c, delay) ==
  LET e == [d EXCEPT !.charges = charge(@), !.child[c].attempt = Older(@, MaxAttempt)] IN
  IF tripped(e.charges) THEN [e EXCEPT !.draining = TRUE]
  ELSE Arm(e, c, "restart_deadline", after(delay), "Restart")

\* What happened to the incarnation, by the history of it.
TellsTruth(c, exit, e) ==
  LET p == past.child[c] IN
  /\ exit.kind = "Panicked" <=> e.join = "Panic"
  /\ exit.kind = "ReadinessTimedOut" <=> p.timedOut /\ e.join # "Panic"
  /\ exit.kind = "Failed" <=> e.recorded.kind = "Failed" /\ ~p.timedOut /\ e.join # "Panic"
  /\ exit.kind = "Aborted" =>
       (exit.phase = "AfterGrace" <=> config[c].grace # 0 /\ ~p.cutShort)

Total(count) ==
  LET sum[age \in 0..Within] == count[age] + (IF age = 0 THEN 0 ELSE sum[age - 1])
  IN sum[Within]

handle_exit(e) ==
  LET c        == e.child
      exit     == Verdict(e)
      retired  == Retire(e)
      restarts == ~driver.draining /\ should_restart(c, exit)
      attempt  == Older(retired.child[c].attempt, MaxAttempt)
  IN
  /\ First(e) /\ e.type = "Exited" /\ Live(e)
  /\ IF restarts
     THEN \E delay \in next_delay(config[c].backoff, attempt) :
            driver' = schedule_restart(retired, c, delay)
     ELSE driver' = [retired EXCEPT !.child[c].terminal = TRUE]
  /\ batch' = (batch \ {e}) \cup
              (IF driver'.draining /\ ~driver.draining THEN ForAll("StopChild") ELSE {})
  /\ past' = [past EXCEPT
       !.child[c] = NewPast,
       !.honest = @ /\ TellsTruth(c, exit, e),
       !.charged[0] = IF restarts THEN @ + 1 ELSE @,
       !.tripped = @ \/ (driver'.draining /\ ~driver.draining),
       !.excess = @ \/ (restarts /\ Total(past.charged) + 1 > MaxRestarts)]
  /\ body' = [body EXCEPT ![c] = Idle]
  /\ UNCHANGED <<config, lane>>

\* The signal wins a tie with its deadline.
ReadinessDue(e) ==
  LET c  == e.child
      d  == [driver EXCEPT !.child[c].readiness_deadline = 0]
      ch == driver.child[c]
      waiting  == Live(e) /\ ch.gate = "Waiting"
      timedOut == waiting /\ ~body[c].signal /\ ch.gate_deadline = 0
  IN
  /\ First(e) /\ e.type = "Readiness"
  /\ driver' = CASE ~Live(e) -> driver
                 [] timedOut -> begin_stop_child(
                      [d EXCEPT !.child[c].gate = "Disarmed"],
                      c, Outcome("ReadinessTimedOut", "None"))
                 [] waiting /\ body[c].signal -> BecameReady(d, c)
                 [] OTHER -> d
  /\ past' = [Record(c) EXCEPT !.child[c].timedOut = @ \/ timedOut]
  /\ Handled(e) /\ UNCHANGED <<config, body, lane>>

construction_is_suppressed == driver.draining \/ \E e \in lane : Class(e) = 1

Spawn(c) ==
  /\ driver' = spawn_child(driver, c)
  /\ body' = [body EXCEPT ![c] = [Idle EXCEPT !.running = TRUE]]
  /\ past' = [past EXCEPT !.child[c] = NewPast]

StartChild(e) ==
  /\ First(e) /\ e.type = "StartChild"
  /\ Spawn(e.child)
  /\ Handled(e) /\ UNCHANGED <<config, lane>>

RestartDue(e) ==
  /\ First(e) /\ e.type = "Restart"
  /\ IF construction_is_suppressed
     THEN /\ driver' = [driver EXCEPT !.child[e.child].restart_deadline = 0]
          /\ UNCHANGED <<body, past>>
     ELSE Spawn(e.child)
  /\ Handled(e) /\ UNCHANGED <<config, lane>>

StopDue(e) ==
  /\ First(e) /\ e.type = "Stop"
  /\ driver' = IF Live(e) THEN advance_ladder(driver, e.child) ELSE driver
  /\ Handled(e) /\ UNCHANGED <<config, body, lane, past>>

-----------------------------------------------------------------------------
(* The tasks, the clock and the requests.  While a batch runs its handlers  *)
(* can see the clock, the ready and abort latches and a request for the     *)
(* scope's stop, and nothing else, so the rest happens between wakes.       *)

Seen(types) == batch = {} \/ \E e \in batch : e.type \in types

mark_ready(c) ==
  /\ Seen({"SelfStop", "Readiness"})
  /\ body[c].running /\ ~body[c].signal /\ "Ready" \in config[c].does
  /\ body' = [body EXCEPT ![c].signal = TRUE]
  /\ lane' = lane \cup {Event("Ready", c, driver.child[c].minted)}
  /\ UNCHANGED <<config, driver, batch, past>>

stop_self(c) ==
  /\ batch = {} /\ body[c].running /\ ~body[c].stopped /\ "Stop" \in config[c].does
  /\ lane' = lane \cup {Event("SelfStop", c, driver.child[c].minted)}
  /\ body' = [body EXCEPT ![c].stopped = TRUE]
  /\ UNCHANGED <<config, driver, batch, past>>

\* A framework body answers its abort before it returns.
Acknowledge(c) ==
  /\ Seen({"Stop"})
  /\ body[c].running /\ driver.child[c].framework /\ ~body[c].acked
  /\ body' = [body EXCEPT ![c].acked = TRUE]
  /\ UNCHANGED <<config, driver, lane, batch, past>>

Ended(c, recorded, join) ==
  /\ batch = {} /\ body[c].running
  /\ body' = [body EXCEPT ![c].running = FALSE]
  /\ lane' = lane \cup {[type |-> "Exited", child |-> c, inc |-> driver.child[c].minted,
                         recorded |-> recorded, join |-> join, seen |-> body[c].signal]}
  /\ UNCHANGED <<config, driver, batch, past>>

Returns(c) == \E kind \in {"Completed", "Failed"} \cap config[c].does : Ended(c, Outcome(kind, "None"), "Ok")

\* A panic unwinds the task before it records anything, or after it recorded
\* a result (a destructor of the body).
Panics(c) == "Panic" \in config[c].does /\ \E r \in {Nothing, Outcome("Failed", "None")} : Ended(c, r, "Panic")

Aborted(c) == driver.child[c].aborted /\ Ended(c, Nothing, "Cancelled")

\* A shutdown request and the force of its budget; a request is consumed once
\* in an epoch.
Request(type) ==
  /\ Seen({"Restart"})
  /\ IF type = "Shutdown" THEN ~driver.draining ELSE ~driver.hard_forced
  /\ lane' = lane \cup {Event(type, "scope", 0)}
  /\ lane' # lane
  /\ UNCHANGED <<config, driver, body, batch, past>>

\* One unit of time.  Ages stop where nothing tells them apart any more.
Elapsed(c, ch) ==
  [ch EXCEPT !.gate_deadline = Nearer(@), !.ladder.deadline = Nearer(@),
             !.ran = IF ch.live THEN Older(@, Greater(Within, after(config[c].readiness) % Never))
                     ELSE 0]

Aged(c, p) ==
  [p EXCEPT !.stopAge = IF driver.child[c].ladder.phase = "None" THEN 0
                        ELSE Older(@, (config[c].grace % Never) + 1),
            !.forceAge = IF @ = Never THEN Never ELSE Older(@, 1),
            !.exitAge  = IF driver.child[c].live \/ driver.child[c].terminal THEN 0
                         ELSE Older(@, config[c].backoff.max)]

Tick ==
  /\ driver' = [driver EXCEPT
       !.queue.entries = {[e EXCEPT !.at = Nearer(@)] : e \in @},
       !.charges = [i \in DOMAIN @ |-> Older(@[i], Within + 1)],
       !.child = [c \in Children |-> Elapsed(c, @[c])]]
  /\ past' = [past EXCEPT
       !.child = [c \in Children |-> Aged(c, @[c])],
       !.charged = [age \in 0..Within |-> IF age = 0 THEN 0 ELSE @[age - 1]]]
  /\ UNCHANGED <<config, body, lane, batch>>

Next ==
  \/ Collect \/ Tick
  \/ \E e \in batch :
       \/ HandleStopChild(e) \/ HandleForceChild(e) \/ HandleDrain(e)
       \/ handle_self_stop(e) \/ handle_ready(e) \/ handle_exit(e)
       \/ ReadinessDue(e) \/ StartChild(e) \/ RestartDue(e) \/ StopDue(e)
  \/ \E c \in Children :
       \/ mark_ready(c) \/ stop_self(c) \/ Acknowledge(c)
       \/ Returns(c) \/ Panics(c) \/ Aborted(c)
  \/ Request("Shutdown") \/ Request("Force")

\* A wake handles its batch to the end, the clock moves, a hard abort ends a
\* task, and a framework body that answered its abort returns.
Fairness ==
  /\ WF_vars(Collect) /\ WF_vars(Tick)
  /\ []<>(batch = {})
  /\ \A c \in Names :
       /\ WF_vars(c \in Children /\ Aborted(c))
       /\ WF_vars(c \in Children /\ body[c].acked /\ Returns(c))

Spec == Init /\ [][Next]_vars /\ Fairness

-----------------------------------------------------------------------------
(* Properties. *)

\* The deadlines the driver's records are waiting for.
Awaited ==
  {a \in {<<driver.child[c].gate_deadline, "Readiness", c>> :
            c \in {c \in Children : driver.child[c].live /\ driver.child[c].gate = "Waiting"}}
     \cup {<<driver.child[c].ladder.deadline, "Stop", c>> :
            c \in {c \in Children : driver.child[c].live}} : a[1] # Never}

\* Whenever the driver goes to sleep, the queue will wake it for exactly the
\* deadlines its records still wait for, and the queue's own answer is the
\* earliest of them: no gate or ladder waits for a deadline that was
\* cancelled, consumed or skipped with a stale head, and no deadline of an
\* ended incarnation is left behind.
DeadlinesArmed ==
  batch = {} =>
    LET q == driver.queue
        Armed(r) == CHOOSE e \in q.entries : e.handle = r.handle
        pending == {r \in q.registrations : r.key.type # "Restart"}
    IN
    /\ \A r \in q.registrations : \E e \in q.entries : e.handle = r.handle
    /\ {<<Armed(r).at, r.key.type, r.key.child>> : r \in pending} = Awaited
    /\ Cardinality(pending) = Cardinality(Awaited)
    /\ \A r \in q.registrations : next_deadline(q) <= Armed(r).at
    /\ next_deadline(q) \in {Never} \cup {Armed(r).at : r \in q.registrations}
    /\ \A c \in Children :
         driver.child[c].restart_deadline # 0 =>
           ~driver.child[c].live /\ is_active(q, driver.child[c].restart_deadline)

\* The verdict of an exit says what happened to the incarnation: a panic is
\* never masked; a readiness timeout is reported only if one fired, and loses
\* only to a panic; an application failure loses only to those two; a grace
\* is said to have expired exactly when no force cut it short.
ExitTellsTruth == past.honest

\* A timed step never comes early: a hard abort waits for the grace, or for a
\* force, and for the tidy beat after it; a restart waits for the delay of
\* its attempt, of which jitter takes at most half; a readiness timeout waits
\* for its deadline and never beats a signal.
NeverEarly ==
  [][\A c \in Children :
       LET ch == driver.child[c]
           to == driver'.child[c]
           p  == past.child[c]
       IN
       /\ to.aborted /\ ~ch.aborted =>
            p.stopAge > config[c].grace \/ p.forceAge \in 1..(Never - 1)
       /\ to.live /\ ~ch.live /\ ch.minted # 0 =>
            p.exitAge >= half_duration(Nominal(config[c].backoff, ch.attempt))
       /\ past'.child[c].timedOut /\ ~p.timedOut =>
            ch.ran >= config[c].readiness /\ ~body[c].signal
    ]_vars

\* The scope drains for its restarts exactly when more of them than the
\* policy allows fell within one closed window, whatever its lazily trimmed
\* record of charges still holds.
TripsOnExcess == past.tripped <=> past.excess

\* A drain ends every child whose grace is finite, and a force ends every
\* child: each rung of the ladder is armed until the task is gone.
DrainEnds ==
  \A c \in Names :
    (c \in Children /\ ((driver.draining /\ config[c].grace # Never)
                          \/ driver.child[c].ladder.force_requested))
      ~> (c \in Children /\ driver.child[c].terminal)

=============================================================================
