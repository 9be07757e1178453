------------------------------ MODULE ScopeCell ------------------------------
(***************************************************************************)
(* The restart-stable cell of one scope: its incarnation epochs            *)
(* (shelterwood-core/src/engine/epochs.rs), its control plane of shutdown  *)
(* and force requests (cells/scope/control.rs), and the record it          *)
(* publishes (cells/scope/publication.rs).                                 *)
(*                                                                         *)
(* Every operator below is the body of one observation transaction: it     *)
(* maps the cell the gate protects to the cell the transaction leaves.     *)
(* Wakes are part of the transaction.  "signal" holds the watchers of the  *)
(* member record, and "changed" those of the scope record, that have a     *)
(* pulse they have not consumed.                                           *)
(***************************************************************************)
EXTENDS Integers

CONSTANTS
  MaxEpoch,     \* bound on the epochs a behaviour mints or vacates
  Watchers      \* the tasks that may watch a record of the cell

ASSUME MaxEpochAssumption == MaxEpoch \in Nat \ {0}

-----------------------------------------------------------------------------
(* State. *)

NoEpoch == 0
Epochs  == 1..MaxEpoch

NoReason == "None"
StopReasons == {"Finished", "IntensityTripped", "StartupFailed",
                "ShutdownRequested", "NeverStarted"}

stop_reason_precedence ==
  [r \in StopReasons |->
     CASE r = "Finished"          -> 1
       [] r = "IntensityTripped"  -> 2
       [] r = "StartupFailed"     -> 3
       [] r = "ShutdownRequested" -> 4
       [] r = "NeverStarted"      -> 5]

ScopeStates == {"Unstarted", "Starting", "Running", "StartupFailed",
                "Draining", "Stopped"}
MemberStages == {"Reserved", "Admitted", "Starting", "Running", "Stopping",
                 "Restarting", "Terminal"}

Request == [epoch : 0..MaxEpoch, consumed : BOOLEAN]
NoRequest == [epoch |-> NoEpoch, consumed |-> FALSE]

Cell ==
  [live     : 0..MaxEpoch,                  \* ScopeEpochs::Live.current
   last     : 0..MaxEpoch,                  \* last_stopped
   shutdown : Request,
   force    : Request,
   state    : ScopeStates,
   reason   : StopReasons \cup {NoReason},
   startup  : {"None", "Ok", "Err"},
   stage    : MemberStages,
   closed   : BOOLEAN,                      \* the lifecycle stream
   final    : ScopeStates \X (StopReasons \cup {NoReason}),
                                            \* the last ScopeState event sent
   signal   : SUBSET Watchers,
   changed  : SUBSET Watchers]

NewCell ==
  [live |-> NoEpoch, last |-> NoEpoch, shutdown |-> NoRequest,
   force |-> NoRequest, state |-> "Unstarted", reason |-> NoReason,
   startup |-> "None", stage |-> "Reserved", closed |-> FALSE,
   final |-> <<"Unstarted", NoReason>>, signal |-> {}, changed |-> {}]

-----------------------------------------------------------------------------
(* Epochs. *)

idle(c)        == c.live = NoEpoch
after(c)       == c.last + 1
is_current(c, e) == c.live = e
request_target(c) == IF idle(c) THEN after(c) ELSE c.live
request_is_pending(c, e) == idle(c) /\ e > c.last

finished(c, e) == c.last >= e

can_vacate(c, e) == idle(c) /\ after(c) = e

-----------------------------------------------------------------------------
(* Publication. *)

PulseMember(c) == [c EXCEPT !.signal  = Watchers]
PulseRecord(c) == [c EXCEPT !.changed = Watchers]

\* emit_locked(ScopeState): nothing reaches a closed stream.
emit_state(c) ==
  IF c.closed THEN c ELSE [c EXCEPT !.final = <<c.state, c.reason>>]

close_observation(c) == [c EXCEPT !.closed = TRUE]

membership_terminal(c) == c.stage = "Terminal"
terminalize_member(c)  == PulseMember([c EXCEPT !.stage = "Terminal"])

\* set_startup_locked: the first verdict stands.
set_startup(c, verdict) ==
  IF c.startup # "None" THEN c
  ELSE PulseRecord(PulseMember([c EXCEPT !.startup = verdict]))

set_state(c, s) ==
  emit_state(PulseRecord(PulseMember([c EXCEPT !.state = s])))

publish_drain(c) == set_state(set_startup(c, "Err"), "Draining")

\* publish_stopped_locked: a verdict commits only when it strictly outranks
\* the one recorded.
outranks(c, r) ==
  \/ c.state # "Stopped"
  \/ stop_reason_precedence[r] > stop_reason_precedence[c.reason]

\* Fault: the last verdict to arrive replaces the one recorded.
Fault_LastWriterWins(c, r) ==
  emit_state(PulseRecord(PulseMember(
    [c EXCEPT !.state = "Stopped", !.reason = r, !.startup =
                IF c.startup = "None" THEN "Err" ELSE c.startup])))
publish_stopped(c, r) ==
  IF outranks(c, r)
  THEN emit_state(PulseRecord(PulseMember(
         [c EXCEPT !.state = "Stopped", !.reason = r, !.startup =
                     IF c.startup = "None" THEN "Err" ELSE c.startup])))
  ELSE PulseMember(c)

-----------------------------------------------------------------------------
(* The incarnation boundary. *)

\* begin_incarnation_into: the record must be idle, and the plane mints.
may_begin(c) == idle(c) /\ c.state \in {"Unstarted", "Stopped"}
begin_incarnation(c) ==
  emit_state(PulseMember(PulseRecord(
    [c EXCEPT !.live = after(c), !.state = "Starting", !.reason = NoReason,
              !.startup = "None"])))

clear_requests(c, e) ==
  [c EXCEPT !.shutdown = IF @.epoch <= e THEN NoRequest ELSE @,
            !.force    = IF @.epoch <= e THEN NoRequest ELSE @]

\* finish_incarnation_with_terminal.  "terminal" says that the caller, the
\* root's join monitor, carries the membership's exit.
\* Fault: the incarnation's end leaves the plane live.
Fault_FinishKeepsEpoch(c, e, r, terminal) ==
  IF ~is_current(c, e) THEN c
  ELSE publish_stopped(clear_requests(c, e), r)
finish_incarnation(c, e, r, terminal) ==
  IF ~is_current(c, e)
  THEN IF terminal
       THEN close_observation(PulseRecord(terminalize_member(c)))
       ELSE c
  ELSE LET retired == [clear_requests(c, e) EXCEPT !.live = NoEpoch,
                                                   !.last = e]
           stopped == publish_stopped(retired, r)
           settled == IF terminal THEN terminalize_member(stopped)
                      ELSE stopped
       IN IF membership_terminal(settled) THEN close_observation(settled)
          ELSE settled

\* The arm of finish_live_root_incarnation without a live epoch.
finish_idle_root(c, r) ==
  close_observation(terminalize_member(publish_stopped(c, r)))

-----------------------------------------------------------------------------
(* Requests. *)

\* request_shutdown_locked; the parent hears of a pending target through
\* notifies_parent.
absorbs(c)     == c.shutdown.epoch >= request_target(c)
request_shutdown(c) ==
  IF absorbs(c) THEN c
  ELSE PulseMember([c EXCEPT !.shutdown =
                      [epoch |-> request_target(c), consumed |-> FALSE]])
notifies_parent(c) == ~absorbs(c) /\ idle(c)

force_shutdown(c, e) ==
  PulseMember(IF is_current(c, e)
              THEN [c EXCEPT !.force = [epoch |-> e, consumed |-> FALSE]]
              ELSE c)

unconsumed(req, e) == req.epoch = e /\ ~req.consumed
pending_incarnation_shutdown(c) ==
  IF ~c.shutdown.consumed /\ request_is_pending(c, c.shutdown.epoch)
  THEN c.shutdown.epoch ELSE NoEpoch

vacate_pending_shutdown(c, e) ==
  IF unconsumed(c.shutdown, e) /\ can_vacate(c, e)
  THEN PulseMember([c EXCEPT !.last = e, !.shutdown = NoRequest])
  ELSE c

has_stop_request(c, e) == e \in {c.shutdown.epoch, c.force.epoch}

\* settled: a shutdown wait has crossed its finality fence.
joined(c) == c.state \in {"Stopped", "Unstarted"}

\* Fault: membership terminality alone settles a wait.
Fault_SettledByMembership(c, e) ==
  (e # NoEpoch /\ finished(c, e)) \/ membership_terminal(c)
settled(c, e) ==
  \/ e # NoEpoch /\ finished(c, e)
  \/ membership_terminal(c) /\ joined(c)
-----------------------------------------------------------------------------
(* What the parent driver, and a body that never began, publish. *)

terminal_close(c) == IF c.state = "Stopped" THEN close_observation(c) ELSE c

\* terminalize_child.  "ran" says that the member was ever handed an
\* incarnation (last_incarnation).
terminalize_child(c, ran) ==
  IF membership_terminal(c) THEN c
  ELSE LET t == terminalize_member(c)
       IN terminal_close(IF ran THEN t ELSE publish_stopped(t, "NeverStarted"))

\* start_scope_child: the request that is pending when construction starts
\* refuses it, or is vacated by a policy that restarts.
refuses_start(c, restart_stopped) ==
  pending_incarnation_shutdown(c) # NoEpoch /\ ~restart_stopped

start_scope_child(c) ==
  LET e == pending_incarnation_shutdown(c)
  IN PulseMember(
       [c EXCEPT !.stage = "Starting",
                 !.last = IF e = NoEpoch THEN @ ELSE e,
                 !.shutdown = IF e = NoEpoch THEN @ ELSE NoRequest])

close_never_started_body(c) ==
  IF c.closed THEN c
  ELSE LET p == IF c.state = "Unstarted"
                THEN publish_stopped(c, "NeverStarted") ELSE c
       IN IF membership_terminal(p) THEN terminal_close(p) ELSE p

terminalize_never_started(c) ==
  IF c.closed THEN c
  ELSE close_observation(publish_stopped(terminalize_member(c), "NeverStarted"))
=============================================================================
