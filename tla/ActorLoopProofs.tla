--------------------------- MODULE ActorLoopProofs ---------------------------
(***************************************************************************)
(* The receive loop for any timer keys, policies and bounds: what a ready  *)
(* batch promises is there, no armed timer is lost, and a stop keeps its   *)
(* order.                                                                  *)
(***************************************************************************)
EXTENDS ActorLoop, SequenceTheorems, TLAPS

PCs == {"Init", "Recv", "AwaitToken", "Begin", "Lead", "Mailbox", "Events",
        "Refresh", "Rest", "Timers", "End", "Wait", "Handling", "Drain",
        "Draining", "OnStop", "Exit"}
Timer   == [kind : {"Off", "Once", "Interval"}, left : Nat,
            indexed : BOOLEAN, captured : BOOLEAN]
Batches == [phase : {"None", "Steady", "Fired"}, through : Nat, offloads : Nat,
            conts : Nat, delivered : BOOLEAN, armings : SUBSET Keys]

Types == /\ pc \in PCs /\ box \in 0..MaxBox /\ conts \in 0..MaxConts
         /\ events \in Seq(BOOLEAN) /\ timers \in [Keys -> Timer] /\ batch \in Batches

\* What the batch covers is there.
Prefix == batch.through <= box /\ batch.offloads <= Len(events)

\* Only a fired batch has armings, none is left when it ends, and a timer that
\* is switched off is neither indexed nor captured.
Armed == /\ batch.phase # "Fired" \/ pc = "End" => batch.armings = {}
         /\ \A k \in Keys : timers[k].kind = "Off" =>
              ~timers[k].indexed /\ ~timers[k].captured
         /\ TimerNotLost

\* After recv has returned None nothing is accepted and no batch is open.
Winding == /\ pc \in {"AwaitToken", "Drain", "Draining", "OnStop", "Exit"} =>
                batch = NoBatch /\ frozen /\ ~accepting
           /\ StopsInOrder

\* The inductive invariant.
IInv == Types /\ Prefix /\ Armed /\ Winding

-----------------------------------------------------------------------------
(* The records the actions update stay of their type. *)

\* What each update of a batch leaves alone.
LEMMA BatchUpdates ==
  ASSUME NEW b \in Batches, NEW n \in Nat, NEW d \in BOOLEAN, NEW k
  PROVE  /\ NoBatch \in Batches
         /\ [b EXCEPT !.conts = n] \in Batches
         /\ [b EXCEPT !.offloads = n] \in Batches
         /\ [b EXCEPT !.through = n, !.delivered = d] \in Batches
         /\ [b EXCEPT !.armings = b.armings \ {k}] \in Batches
BY DEF Batches, NoBatch

\* A timer that is captured, rearmed or that ticks is still a timer.
LEMMA TimerUpdates ==
  ASSUME NEW t \in Timer, NEW n \in Nat
  PROVE  /\ Off \in Timer
         /\ [t EXCEPT !.left = n] \in Timer
         /\ [t EXCEPT !.indexed = FALSE, !.captured = TRUE] \in Timer
         /\ [t EXCEPT !.left = n, !.indexed = TRUE, !.captured = FALSE] \in Timer
BY DEF Timer, Off

-----------------------------------------------------------------------------
(* Each action keeps the invariant. *)

\* What a callback does with its context, and how it ends.
LEMMA CallbackKeeps ==
  ASSUME IInv, Callback \/ Return
  PROVE  IInv'
<1> USE DEF IInv, PCs, Timer, Batches, Off, NoBatch, actor, mail, work
<1>1. CASE continue_with
  <2>1. Types'
    BY <1>1, Bounds DEF Types, Prefix, continue_with, InCallback
  <2>2. Prefix'
    BY <1>1 DEF Types, Prefix, Winding, continue_with, InCallback
  <2>3. Armed'
    BY <1>1 DEF Types, Armed, TimerNotLost, continue_with, InCallback
  <2>4. Winding'
    BY <1>1 DEF Winding, StopsInOrder, ReadyBeforeOwnStop,
       DrainedBeforeOnStop, continue_with, InCallback
  <2> QED BY <2>1, <2>2, <2>3, <2>4
<1>2. CASE stop
  <2>1. Types'
    BY <1>2, Bounds
       DEF Types, Prefix, stop, freeze_intake, freeze_resources, InCallback
  <2>2. Prefix'
    BY <1>2 DEF Types, Prefix, Winding, stop, freeze_intake, freeze_resources,
       InCallback
  <2>3. Armed'
    BY <1>2 DEF Types, Armed, TimerNotLost, stop, freeze_intake,
       freeze_resources, InCallback
  <2>4. Winding'
    BY <1>2 DEF Winding, StopsInOrder, ReadyBeforeOwnStop,
       DrainedBeforeOnStop, stop, freeze_intake, freeze_resources, InCallback
  <2> QED BY <2>1, <2>2, <2>3, <2>4
<1>3. CASE fail_after_teardown
  <2>1. Types'
    BY <1>3, Bounds DEF Types, Prefix, fail_after_teardown, freeze_resources
  <2>2. Prefix'
    BY <1>3 DEF Types, Prefix, Winding, fail_after_teardown, freeze_resources
  <2>3. Armed'
    BY <1>3
       DEF Types, Armed, TimerNotLost, fail_after_teardown, freeze_resources
  <2>4. Winding'
    BY <1>3 DEF Winding, StopsInOrder, ReadyBeforeOwnStop,
       DrainedBeforeOnStop, fail_after_teardown, freeze_resources
  <2> QED BY <2>1, <2>2, <2>3, <2>4
<1>4. ASSUME NEW k \in Keys, clear_timer(k) PROVE IInv'
  <2>1. Types'
    BY <1>4, Bounds DEF Types, Prefix, clear_timer, InCallback
  <2>2. Prefix'
    BY <1>4 DEF Types, Prefix, Winding, clear_timer, InCallback
  <2>3. Armed'
    BY <1>4 DEF Types, Armed, TimerNotLost, clear_timer, InCallback
  <2>4. Winding'
    BY <1>4 DEF Winding, StopsInOrder, ReadyBeforeOwnStop,
       DrainedBeforeOnStop, clear_timer, InCallback
  <2> QED BY <2>1, <2>2, <2>3, <2>4
<1>5. ASSUME NEW k \in Keys, NEW kind \in {"Once", "Interval"},
             NEW d \in 1..MaxDelay, replace_timer(k, kind, d)
      PROVE  IInv'
  <2>1. Types'
    BY <1>5, Bounds DEF Types, Prefix, replace_timer, InCallback
  <2>2. Prefix'
    BY <1>5 DEF Types, Prefix, Winding, replace_timer, InCallback
  <2>3. Armed'
    BY <1>5 DEF Types, Armed, TimerNotLost, replace_timer, InCallback
  <2>4. Winding'
    BY <1>5 DEF Winding, StopsInOrder, ReadyBeforeOwnStop,
       DrainedBeforeOnStop, replace_timer, InCallback
  <2> QED BY <2>1, <2>2, <2>3, <2>4
<1>6. ASSUME NEW zero \in BOOLEAN, start_offload(zero) PROVE IInv'
  <2>0. Len(events) \in Nat
    BY LenProperties DEF Types
  <2>a. events' \in Seq(BOOLEAN) /\ Len(events) <= Len(events')
    <3>1. CASE zero
      <4>1. events' = Append(events, FALSE)
        BY <1>6, <3>1 DEF start_offload
      <4> QED BY <2>0, <4>1, AppendProperties DEF Types
    <3>2. CASE ~zero
      <4>1. events' = events
        BY <1>6, <3>2 DEF start_offload
      <4> QED BY <2>0, <4>1 DEF Types
    <3> QED BY <3>1, <3>2
  <2>1. Types'
    BY <1>6, <2>a DEF Types, start_offload
  <2>2. Prefix'
    BY <1>6, <2>0, <2>a DEF Types, Prefix, start_offload
  <2>3. Armed'
    BY <1>6 DEF Types, Armed, TimerNotLost, start_offload, InCallback
  <2>4. Winding'
    BY <1>6 DEF Winding, StopsInOrder, ReadyBeforeOwnStop,
       DrainedBeforeOnStop, start_offload, InCallback
  <2> QED BY <2>1, <2>2, <2>3, <2>4
<1>7. CASE finish_callback_init
  <2>1. Types'
    BY <1>7, Bounds DEF Types, Prefix, finish_callback_init
  <2>2. Prefix'
    BY <1>7 DEF Types, Prefix, Winding, finish_callback_init
  <2>3. Armed'
    BY <1>7 DEF Types, Armed, TimerNotLost, finish_callback_init
  <2>4. Winding'
    BY <1>7 DEF Winding, StopsInOrder, ReadyBeforeOwnStop,
       DrainedBeforeOnStop, finish_callback_init
  <2> QED BY <2>1, <2>2, <2>3, <2>4
<1>8. CASE HandlerReturns
  <2>1. Types'
    BY <1>8, Bounds DEF Types, Prefix, HandlerReturns
  <2>2. Prefix'
    BY <1>8 DEF Types, Prefix, Winding, HandlerReturns
  <2>3. Armed'
    BY <1>8 DEF Types, Armed, TimerNotLost, HandlerReturns
  <2>4. Winding'
    BY <1>8 DEF Winding, StopsInOrder, ReadyBeforeOwnStop,
       DrainedBeforeOnStop, HandlerReturns
  <2> QED BY <2>1, <2>2, <2>3, <2>4
<1> QED BY <1>1, <1>2, <1>3, <1>4, <1>5, <1>6, <1>7, <1>8 DEF Callback, Return

\* pop_continuation, in either of its two places: the batch's share of the
\* continuations shrinks, nothing else.
LEMMA PopKeeps ==
  ASSUME IInv, NEW at \in {"Lead", "Rest"}, NEW lead \in BOOLEAN,
         NEW else \in {"Mailbox", "Timers"}, pop_continuation(at, lead, else)
  PROVE  IInv'
<1> USE DEF IInv, PCs, Timer, Batches, Off, NoBatch, actor, mail, work
<1>1. CASE pops(lead)
  <2>1. CASE batch.phase = "Steady"
    <3>1. Types'
      BY <1>1, <2>1, Bounds
         DEF Types, Prefix, pop_continuation, pops, Deliver, KeepStops
    <3>2. Prefix'
      BY <1>1, <2>1
         DEF Types, Prefix, Winding, pop_continuation, pops, Deliver, KeepStops
    <3>3. Armed'
      BY <1>1, <2>1 DEF Types, Armed, TimerNotLost, pop_continuation, pops,
         Deliver, KeepStops
    <3>4. Winding'
      BY <1>1, <2>1 DEF Winding, StopsInOrder, ReadyBeforeOwnStop,
         DrainedBeforeOnStop, pop_continuation, pops, Deliver, KeepStops
    <3> QED BY <3>1, <3>2, <3>3, <3>4
  <2>2. CASE batch.phase # "Steady"
    <3>0. batch' = [batch EXCEPT !.conts = @ - 1] /\ batch.conts > 0
      BY <1>1, <2>2 DEF pop_continuation, pops, continuation_is_eligible
    <3>a. /\ batch' \in Batches /\ batch'.through = batch.through
          /\ batch'.offloads = batch.offloads /\ batch'.phase = batch.phase
          /\ batch'.armings = batch.armings
      <4>1. batch \in Batches /\ batch.conts - 1 \in Nat
        BY <3>0 DEF Types
      <4>2. batch' \in Batches
        BY <3>0, <4>1, BatchUpdates
      <4> QED BY <3>0, <4>1, <4>2
    <3>1. Types'
      BY <1>1, <3>a, Bounds
         DEF Types, Prefix, pop_continuation, pops, Deliver, KeepStops
    <3>2. Prefix'
      BY <1>1, <3>a
         DEF Types, Prefix, Winding, pop_continuation, pops, Deliver, KeepStops
    <3>3. Armed'
      BY <1>1, <3>a DEF Types, Armed, TimerNotLost, pop_continuation, pops,
         Deliver, KeepStops
    <3>4. Winding'
      BY <1>1, <3>a DEF Winding, StopsInOrder, ReadyBeforeOwnStop,
         DrainedBeforeOnStop, pop_continuation, pops, Deliver, KeepStops
    <3> QED BY <3>1, <3>2, <3>3, <3>4
  <2> QED BY <2>1, <2>2
<1>2. CASE ~pops(lead)
  <2>1. Types'
    BY <1>2, Bounds DEF Types, Prefix, pop_continuation, To, KeepStops
  <2>2. Prefix'
    BY <1>2 DEF Types, Prefix, Winding, pop_continuation, To, KeepStops
  <2>3. Armed'
    BY <1>2 DEF Types, Armed, TimerNotLost, pop_continuation, To, KeepStops
  <2>4. Winding'
    BY <1>2 DEF Winding, StopsInOrder, ReadyBeforeOwnStop,
       DrainedBeforeOnStop, pop_continuation, To, KeepStops
  <2> QED BY <2>1, <2>2, <2>3, <2>4
<1> QED BY <1>1, <1>2

\* begin_ready_batch: the timers that leave the index are the new batch's.
LEMMA BeginKeeps ==
  ASSUME IInv, begin_ready_batch
  PROVE  IInv'
<1> USE DEF IInv, PCs, Timer, Batches, Off, NoBatch, actor, mail, work
<1> DEFINE steady == IF batch.phase # "None" THEN batch
                     ELSE [NoBatch EXCEPT !.phase = "Steady", !.through = box,
                                          !.offloads = Len(events)]
           fires == ~(steady.phase = "Fired" \/ Due = {})
<1>1. /\ steady \in Batches /\ steady.through <= box
      /\ steady.offloads <= Len(events) /\ steady.armings = batch.armings
      /\ steady.phase # "Fired" => batch.armings = {}
  <2>1. CASE batch.phase # "None"
    BY <2>1 DEF Types, Prefix, Armed
  <2>2. CASE batch.phase = "None"
    <3>1. Len(events) \in Nat /\ box \in Nat
      BY LenProperties DEF Types
    <3>2. steady = [NoBatch EXCEPT !.phase = "Steady", !.through = box,
                                   !.offloads = Len(events)]
      BY <2>2
    <3>3. /\ steady \in Batches /\ steady.through = box /\ steady.armings = {}
          /\ steady.offloads = Len(events)
      <4> DEFINE new == [phase |-> "Steady", through |-> box,
                         offloads |-> Len(events), conts |-> 0,
                         delivered |-> FALSE, armings |-> {}]
      <4>1. steady = new
        <5> HIDE DEF steady
        <5> QED BY <3>2
      <4>2. new \in Batches
        BY <3>1
      <4>3. new.through = box /\ new.armings = {} /\ new.offloads = Len(events)
        OBVIOUS
      <4> HIDE DEF steady, new
      <4> QED BY <4>1, <4>2, <4>3
    <3>4. batch.armings = {}
      BY <2>2 DEF Armed
    <3> HIDE DEF steady
    <3> QED BY <3>1, <3>3, <3>4
  <2> QED BY <2>1, <2>2
<1>2. pc = "Begin" /\ pc' = "Lead" /\ UNCHANGED <<box, conts, events>>
  BY DEF begin_ready_batch, To
<1>3. Winding'
  BY <1>2 DEF begin_ready_batch, KeepStops, Winding, StopsInOrder, ReadyBeforeOwnStop, DrainedBeforeOnStop
<1>4. CASE ~fires
  <2>1. batch' = steady /\ timers' = timers
    BY <1>4 DEF begin_ready_batch
  <2> HIDE DEF steady
  <2>2. Types' /\ Prefix'
    BY <1>1, <1>2, <2>1 DEF Types, Prefix
  <2>3. Armed'
    BY <1>1, <1>2, <2>1 DEF Armed, TimerNotLost
  <2> QED BY <1>3, <2>2, <2>3
<1>5. CASE fires
  <2>1. /\ batch' = [phase |-> "Fired", through |-> box, offloads |-> Len(events),
                     conts |-> conts, delivered |-> FALSE, armings |-> Due]
        /\ timers' = [k \in Keys |-> IF k \in Due
                       THEN [timers[k] EXCEPT !.indexed = FALSE, !.captured = TRUE]
                       ELSE timers[k]]
    BY <1>5 DEF begin_ready_batch
  <2>2. batch.armings = {}
    BY <1>1, <1>5
  <2> HIDE DEF steady
  <2>3. Due \subseteq Keys /\ Len(events) \in Nat /\ conts \in Nat /\ box \in Nat
    BY Bounds DEF Due, Types
  <2>4. batch' \in Batches /\ Prefix'
    <3>1. batch' \in Batches
      BY <2>1, <2>3
    <3>2. batch'.through = box /\ batch'.offloads = Len(events)
      BY <2>1
    <3> QED BY <1>2, <2>3, <3>1, <3>2 DEF Prefix
  <2>5. timers' \in [Keys -> Timer]
    BY <2>1 DEF Types
  <2>6. Types'
    BY <1>2, <2>4, <2>5 DEF Types
  <2>7. Armed'
    BY <1>2, <2>1, <2>2 DEF Types, Armed, TimerNotLost, Due
  <2> QED BY <1>3, <2>4, <2>6, <2>7
<1> QED BY <1>4, <1>5

\* deliver_timer: a captured arming is fired and rearmed or switched off; one
\* that was cleared or superseded is skipped.
LEMMA DeliverKeeps ==
  ASSUME IInv, deliver_timer
  PROVE  IInv'
<1> USE DEF IInv, PCs, Timer, Batches, Off, NoBatch, actor, mail, work
<1>1. CASE batch.armings = {}
  <2>1. Types'
    BY <1>1, Bounds DEF Types, Prefix, deliver_timer, To, KeepStops
  <2>2. Prefix'
    BY <1>1 DEF Types, Prefix, Winding, deliver_timer, To, KeepStops
  <2>3. Armed'
    BY <1>1 DEF Types, Armed, TimerNotLost, deliver_timer, To, KeepStops
  <2>4. Winding'
    BY <1>1 DEF Winding, StopsInOrder, ReadyBeforeOwnStop,
       DrainedBeforeOnStop, deliver_timer, To, KeepStops
  <2> QED BY <2>1, <2>2, <2>3, <2>4
<1>2. CASE batch.armings # {}
  <2>1. PICK k \in batch.armings :
          /\ batch' = [batch EXCEPT !.armings = @ \ {k}]
          /\ IF ~timers[k].captured
             THEN To("Timers") /\ UNCHANGED <<timers, lastCont>>
             ELSE /\ Deliver("Timer") /\ lastCont' = FALSE
                  /\ timers' = [timers EXCEPT ![k] =
                       IF @.kind = "Once" THEN Off
                       ELSE [@ EXCEPT !.left = MaxDelay, !.indexed = TRUE,
                                      !.captured = FALSE]]
    BY <1>2 DEF deliver_timer
  <2>2. /\ k \in Keys /\ pc = "Timers" /\ pc' \in {"Timers", "Handling"}
        /\ UNCHANGED <<box, conts, events>>
    BY <2>1 DEF deliver_timer, To, Deliver, Types
  <2>3. /\ batch' \in Batches /\ batch'.through = batch.through
        /\ batch'.offloads = batch.offloads /\ batch'.phase = batch.phase
        /\ batch'.armings = batch.armings \ {k}
    BY <2>1 DEF Types
  <2>4. Winding'
    BY <2>2 DEF deliver_timer, KeepStops, Winding, StopsInOrder, ReadyBeforeOwnStop, DrainedBeforeOnStop
  <2>5. Prefix'
    BY <2>2, <2>3 DEF Prefix
  <2>6. CASE ~timers[k].captured
    <3>1. timers' = timers
      BY <2>1, <2>6
    <3>2. Types'
      BY <2>2, <2>3, <3>1 DEF Types
    <3>3. Armed'
      BY <2>2, <2>3, <2>6, <3>1 DEF Armed, TimerNotLost
    <3> QED BY <2>4, <2>5, <3>2, <3>3
  <2>7. CASE timers[k].captured
    <3>1. PICK t \in Timer :
            /\ timers' = [timers EXCEPT ![k] = t]
            /\ t.kind = "Off" => ~t.indexed /\ ~t.captured
            /\ t.kind # "Off" => t.indexed /\ ~t.captured
      <4>1. timers[k] \in Timer /\ MaxDelay \in Nat
        BY <2>2, Bounds DEF Types
      <4>2. CASE timers[k].kind = "Once"
        <5>1. timers' = [timers EXCEPT ![k] = Off]
          BY <2>1, <2>2, <2>7, <4>2 DEF Types
        <5> QED BY <4>1, <5>1, TimerUpdates
      <4>3. CASE timers[k].kind # "Once"
        <5> DEFINE t == [timers[k] EXCEPT !.left = MaxDelay, !.indexed = TRUE,
                                          !.captured = FALSE]
        <5>1. timers' = [timers EXCEPT ![k] = t]
          BY <2>1, <2>2, <2>7, <4>3 DEF Types
        <5>2. t \in Timer
          BY <4>1, TimerUpdates
        <5>3. /\ t.kind = timers[k].kind /\ t.indexed = TRUE
              /\ t.captured = FALSE
          BY <4>1
        <5>4. timers[k].kind # "Off"
          BY <2>2, <2>7 DEF Armed
        <5> QED BY <5>1, <5>2, <5>3, <5>4
      <4> QED BY <4>2, <4>3
    <3>2. /\ timers' \in [Keys -> Timer] /\ timers'[k] = t
          /\ \A j \in Keys \ {k} : timers'[j] = timers[j]
      BY <2>2, <3>1 DEF Types
    <3>3. Types'
      BY <2>2, <2>3, <3>1 DEF Types
    <3>4. Armed'
      BY <2>2, <2>3, <3>1, <3>2 DEF Armed, TimerNotLost
    <3> QED BY <2>4, <2>5, <3>3, <3>4
  <2> QED BY <2>6, <2>7
<1> QED BY <1>1, <1>2

\* The other steps of recv and select_ready.
LEMMA SelectKeeps ==
  ASSUME IInv, Select
  PROVE  IInv'
<1> USE DEF IInv, PCs, Timer, Batches, Off, NoBatch, actor, mail, work
<1>1. CASE recv
  <2>1. CASE is_stopping
    <3>1. Types'
      <4>1. /\ pc' \in PCs /\ conts' = 0 /\ timers' = [k \in Keys |-> Off]
            /\ batch' = NoBatch /\ events' = <<>> /\ box' = box
        BY <1>1, <2>1 DEF recv, freeze_intake, freeze_resources, To
      <4> QED BY <4>1, Bounds DEF Types
    <3>2. Prefix'
      BY <1>1, <2>1 DEF Types, Prefix, Winding, recv, freeze_intake,
         freeze_resources, To, KeepStops
    <3>3. Armed'
      BY <1>1, <2>1 DEF Types, Armed, TimerNotLost, recv, freeze_intake,
         freeze_resources, To, KeepStops
    <3>4. Winding'
      BY <1>1, <2>1 DEF Winding, StopsInOrder, ReadyBeforeOwnStop,
         DrainedBeforeOnStop, recv, freeze_intake, freeze_resources, To,
         KeepStops
    <3> QED BY <3>1, <3>2, <3>3, <3>4
  <2>2. CASE ~(is_stopping)
    <3>1. Types'
      BY <1>1, <2>2, Bounds DEF Types, Prefix, recv, freeze_intake,
         freeze_resources, To, KeepStops
    <3>2. Prefix'
      BY <1>1, <2>2 DEF Types, Prefix, Winding, recv, freeze_intake,
         freeze_resources, To, KeepStops
    <3>3. Armed'
      BY <1>1, <2>2 DEF Types, Armed, TimerNotLost, recv, freeze_intake,
         freeze_resources, To, KeepStops
    <3>4. Winding'
      BY <1>1, <2>2 DEF Winding, StopsInOrder, ReadyBeforeOwnStop,
         DrainedBeforeOnStop, recv, freeze_intake, freeze_resources, To,
         KeepStops
    <3> QED BY <3>1, <3>2, <3>3, <3>4
  <2> QED BY <2>1, <2>2
<1>2. CASE AwaitToken
  <2>1. Types'
    BY <1>2, Bounds DEF Types, Prefix, AwaitToken, To, KeepStops
  <2>2. Prefix'
    BY <1>2 DEF Types, Prefix, Winding, AwaitToken, To, KeepStops
  <2>3. Armed'
    BY <1>2 DEF Types, Armed, TimerNotLost, AwaitToken, To, KeepStops
  <2>4. Winding'
    BY <1>2 DEF Winding, StopsInOrder, ReadyBeforeOwnStop,
       DrainedBeforeOnStop, AwaitToken, To, KeepStops
  <2> QED BY <2>1, <2>2, <2>3, <2>4
<1>3. CASE ReceiveMailbox
  <2>1. CASE mailbox_is_eligible /\ batch.through > 0 /\ ~frozen
    <3>0. /\ batch' \in Batches /\ batch'.through = batch.through - 1
          /\ batch'.offloads = batch.offloads /\ batch'.phase = batch.phase
          /\ batch'.armings = batch.armings
      <4>1. /\ batch \in Batches /\ batch.through - 1 \in Nat
            /\ (batch.phase = "Steady") \in BOOLEAN
        BY <2>1 DEF Types
      <4>2. batch' = [batch EXCEPT !.through = batch.through - 1,
                                   !.delivered = batch.phase = "Steady"]
        BY <1>3, <2>1 DEF ReceiveMailbox
      <4>3. batch' \in Batches
        BY <4>1, <4>2, BatchUpdates
      <4> QED BY <4>1, <4>2, <4>3
    <3>a. box' = box - 1 /\ pc = "Mailbox" /\ pc' = "Handling"
      BY <1>3, <2>1 DEF ReceiveMailbox, Deliver
    <3>1. Types'
      <4>1. box' \in 0..MaxBox
        BY <2>1, <3>a, Bounds DEF Types, Prefix
      <4> QED BY <1>3, <3>0, <3>a, <4>1 DEF Types, ReceiveMailbox
    <3>2. Prefix'
      BY <1>3, <3>0, <3>a DEF Types, Prefix, ReceiveMailbox
    <3>3. Armed'
      BY <1>3, <3>0, <3>a DEF Armed, TimerNotLost, ReceiveMailbox
    <3>4. Winding'
      BY <1>3, <3>a DEF ReceiveMailbox, KeepStops, Winding, StopsInOrder,
         ReadyBeforeOwnStop, DrainedBeforeOnStop
    <3> QED BY <3>1, <3>2, <3>3, <3>4
  <2>2. CASE ~(mailbox_is_eligible /\ batch.through > 0 /\ ~frozen)
    <3>1. Types'
      BY <1>3, <2>2, Bounds DEF Types, Prefix, ReceiveMailbox, To, KeepStops
    <3>2. Prefix'
      BY <1>3, <2>2 DEF Types, Prefix, Winding, ReceiveMailbox, To, KeepStops
    <3>3. Armed'
      BY <1>3, <2>2
         DEF Types, Armed, TimerNotLost, ReceiveMailbox, To, KeepStops
    <3>4. Winding'
      BY <1>3, <2>2 DEF Winding, StopsInOrder, ReadyBeforeOwnStop,
         DrainedBeforeOnStop, ReceiveMailbox, To, KeepStops
    <3> QED BY <3>1, <3>2, <3>3, <3>4
  <2> QED BY <2>1, <2>2
<1>4. CASE pop_batched_event
  <2>1. CASE batch.offloads = 0
    <3>1. Types'
      BY <1>4, <2>1, Bounds DEF Types, Prefix, pop_batched_event, To, KeepStops
    <3>2. Prefix'
      BY <1>4, <2>1 DEF Types, Prefix, Winding, pop_batched_event, To, KeepStops
    <3>3. Armed'
      BY <1>4, <2>1
         DEF Types, Armed, TimerNotLost, pop_batched_event, To, KeepStops
    <3>4. Winding'
      BY <1>4, <2>1 DEF Winding, StopsInOrder, ReadyBeforeOwnStop,
         DrainedBeforeOnStop, pop_batched_event, To, KeepStops
    <3> QED BY <3>1, <3>2, <3>3, <3>4
  <2>2. CASE batch.offloads # 0
    <3>0. /\ batch' \in Batches /\ batch'.through = batch.through
          /\ batch'.offloads = batch.offloads - 1 /\ batch'.phase = batch.phase
          /\ batch'.armings = batch.armings
      <4>1. batch \in Batches /\ batch.offloads - 1 \in Nat
        BY <2>2 DEF Types
      <4>2. batch' = [batch EXCEPT !.offloads = batch.offloads - 1]
        BY <1>4, <2>2 DEF pop_batched_event
      <4>3. batch' \in Batches
        BY <4>1, <4>2, BatchUpdates
      <4> QED BY <4>1, <4>2, <4>3
    <3>a. Len(events) \in Nat /\ events # <<>>
      BY <2>2 DEF Types, Prefix
    <3>b. events' = Tail(events)
      BY <1>4, <2>2 DEF pop_batched_event
    <3>c. events' \in Seq(BOOLEAN) /\ Len(events') = Len(events) - 1
      BY <3>a, <3>b, HeadTailProperties DEF Types
    <3>d. /\ pc = "Events" /\ pc' \in {"Events", "Handling"}
          /\ UNCHANGED <<box, conts, timers>>
      BY <1>4, <2>2 DEF pop_batched_event, To, Deliver
    <3>1. Types'
      BY <3>0, <3>c, <3>d DEF Types
    <3>2. Prefix'
      BY <2>2, <3>0, <3>a, <3>c, <3>d DEF Types, Prefix
    <3>3. Armed'
      BY <3>0, <3>d DEF Armed, TimerNotLost
    <3>4. Winding'
      BY <1>4, <3>d DEF pop_batched_event, KeepStops, Winding, StopsInOrder,
         ReadyBeforeOwnStop, DrainedBeforeOnStop
    <3> QED BY <3>1, <3>2, <3>3, <3>4
  <2> QED BY <2>1, <2>2
<1>5. CASE refresh_batch
  <2>1. CASE batch.phase = "Steady" /\ lastCont /\ external_work_is_ready
    <3>1. Types'
      <4>1. batch' = NoBatch /\ pc' = "Begin"
        BY <1>5, <2>1 DEF refresh_batch, To
      <4> QED BY <1>5, <4>1 DEF Types, refresh_batch
    <3>2. Prefix'
      BY <1>5, <2>1 DEF Types, Prefix, Winding, refresh_batch, To, KeepStops
    <3>3. Armed'
      BY <1>5, <2>1 DEF Types, Armed, TimerNotLost, refresh_batch, To, KeepStops
    <3>4. Winding'
      BY <1>5, <2>1 DEF Winding, StopsInOrder, ReadyBeforeOwnStop,
         DrainedBeforeOnStop, refresh_batch, To, KeepStops
    <3> QED BY <3>1, <3>2, <3>3, <3>4
  <2>2. CASE ~(batch.phase = "Steady" /\ lastCont /\ external_work_is_ready)
    <3>1. Types'
      BY <1>5, <2>2, Bounds DEF Types, Prefix, refresh_batch, To, KeepStops
    <3>2. Prefix'
      BY <1>5, <2>2 DEF Types, Prefix, Winding, refresh_batch, To, KeepStops
    <3>3. Armed'
      BY <1>5, <2>2 DEF Types, Armed, TimerNotLost, refresh_batch, To, KeepStops
    <3>4. Winding'
      BY <1>5, <2>2 DEF Winding, StopsInOrder, ReadyBeforeOwnStop,
         DrainedBeforeOnStop, refresh_batch, To, KeepStops
    <3> QED BY <3>1, <3>2, <3>3, <3>4
  <2> QED BY <2>1, <2>2
<1>6. CASE EndBatch
  <2>1. Types'
    BY <1>6, Bounds DEF Types, Prefix, EndBatch, To, KeepStops
  <2>2. Prefix'
    BY <1>6 DEF Types, Prefix, Winding, EndBatch, To, KeepStops
  <2>3. Armed'
    BY <1>6 DEF Types, Armed, TimerNotLost, EndBatch, To, KeepStops
  <2>4. Winding'
    BY <1>6 DEF Winding, StopsInOrder, ReadyBeforeOwnStop,
       DrainedBeforeOnStop, EndBatch, To, KeepStops
  <2> QED BY <2>1, <2>2, <2>3, <2>4
<1>7. CASE wait_for_event
  <2>1. Types'
    BY <1>7, Bounds DEF Types, Prefix, wait_for_event, To, KeepStops
  <2>2. Prefix'
    BY <1>7 DEF Types, Prefix, Winding, wait_for_event, To, KeepStops
  <2>3. Armed'
    BY <1>7 DEF Types, Armed, TimerNotLost, wait_for_event, To, KeepStops
  <2>4. Winding'
    BY <1>7 DEF Winding, StopsInOrder, ReadyBeforeOwnStop,
       DrainedBeforeOnStop, wait_for_event, To, KeepStops
  <2> QED BY <2>1, <2>2, <2>3, <2>4
<1>8. CASE Drain
  <2>1. Types'
    BY <1>8, Bounds DEF Types, Prefix, Drain, To, KeepStops
  <2>2. Prefix'
    BY <1>8 DEF Types, Prefix, Winding, Drain, To, KeepStops
  <2>3. Armed'
    BY <1>8 DEF Types, Armed, TimerNotLost, Drain, To, KeepStops
  <2>4. Winding'
    <3>1. box \in Nat
      BY DEF Types
    <3>2. CASE policy.drain /\ box > 0
      BY <1>8, <3>2 DEF Winding, StopsInOrder, ReadyBeforeOwnStop,
         DrainedBeforeOnStop, Drain, KeepStops
    <3>3. CASE ~(policy.drain /\ box > 0)
      BY <1>8, <3>1, <3>3 DEF Winding, StopsInOrder, ReadyBeforeOwnStop,
         DrainedBeforeOnStop, Drain, To, KeepStops
    <3> QED BY <3>2, <3>3
  <2> QED BY <2>1, <2>2, <2>3, <2>4
<1>9. CASE on_stop
  <2>1. Types'
    BY <1>9, Bounds DEF Types, Prefix, on_stop, To, KeepStops
  <2>2. Prefix'
    BY <1>9 DEF Types, Prefix, Winding, on_stop, To, KeepStops
  <2>3. Armed'
    BY <1>9 DEF Types, Armed, TimerNotLost, on_stop, To, KeepStops
  <2>4. Winding'
    BY <1>9 DEF Winding, StopsInOrder, ReadyBeforeOwnStop,
       DrainedBeforeOnStop, on_stop, To, KeepStops
  <2> QED BY <2>1, <2>2, <2>3, <2>4
<1> QED BY <1>1, <1>2, <1>3, <1>4, <1>5, <1>6, <1>7, <1>8, <1>9, PopKeeps, BeginKeeps, DeliverKeeps
   DEF Select

\* Senders, offloads, the clock and the driver.
LEMMA EnvironmentKeeps ==
  ASSUME IInv, Accept \/ push \/ CancelOffload \/ Tick \/ BeginStop \/ CancelToken
  PROVE  IInv'
<1> USE DEF IInv, PCs, Timer, Batches, Off, NoBatch, actor, mail, work
<1>1. CASE Accept
  <2>1. Types'
    BY <1>1, Bounds DEF Types, Prefix, Accept
  <2>2. Prefix'
    BY <1>1 DEF Types, Prefix, Winding, Accept
  <2>3. Armed'
    BY <1>1 DEF Types, Armed, TimerNotLost, Accept
  <2>4. Winding'
    BY <1>1 DEF Winding, StopsInOrder, ReadyBeforeOwnStop,
       DrainedBeforeOnStop, Accept
  <2> QED BY <2>1, <2>2, <2>3, <2>4
<1>2. CASE push
  <2>1. Types'
    BY <1>2, Bounds DEF Types, Prefix, push
  <2>2. Prefix'
    BY <1>2 DEF Types, Prefix, Winding, push
  <2>3. Armed'
    BY <1>2 DEF Types, Armed, TimerNotLost, push
  <2>4. Winding'
    BY <1>2
       DEF Winding, StopsInOrder, ReadyBeforeOwnStop, DrainedBeforeOnStop, push
  <2> QED BY <2>1, <2>2, <2>3, <2>4
<1>3. CASE CancelOffload
  <2>0. events' \in Seq(BOOLEAN) /\ Len(events') = Len(events)
    <3>1. CASE events' = events
      BY <3>1 DEF Types
    <3>2. CASE \E i \in DOMAIN events : events' = [events EXCEPT ![i] = TRUE]
      <4>1. PICK i \in DOMAIN events : events' = [events EXCEPT ![i] = TRUE]
        BY <3>2
      <4>2. i \in 1..Len(events)
        BY LenProperties DEF Types
      <4> QED BY <4>1, <4>2, ExceptSeq DEF Types
    <3> QED BY <1>3, <3>1, <3>2 DEF CancelOffload
  <2>1. Types'
    BY <1>3, <2>0, Bounds DEF Types, Prefix, CancelOffload
  <2>2. Prefix'
    BY <1>3, <2>0 DEF Types, Prefix, Winding, CancelOffload
  <2>3. Armed'
    BY <1>3, <2>0 DEF Types, Armed, TimerNotLost, CancelOffload
  <2>4. Winding'
    BY <1>3, <2>0 DEF Winding, StopsInOrder, ReadyBeforeOwnStop,
       DrainedBeforeOnStop, CancelOffload
  <2> QED BY <2>1, <2>2, <2>3, <2>4
<1>4. CASE Tick
  <2>0. timers' \in [Keys -> Timer]
    <3>1. \A k \in Keys : timers[k].left > 0 =>
            [timers[k] EXCEPT !.left = @ - 1] \in Timer
      <4>1. ASSUME NEW k \in Keys, timers[k].left > 0
            PROVE  [timers[k] EXCEPT !.left = @ - 1] \in Timer
        <5>1. timers[k] \in Timer /\ timers[k].left - 1 \in Nat
          BY <4>1 DEF Types
        <5> QED BY <5>1, TimerUpdates
      <4> QED BY <4>1
    <3> QED BY <1>4, <3>1 DEF Types, Tick
  <2>1. Types'
    BY <1>4, <2>0 DEF Types, Tick
  <2>2. Prefix'
    BY <1>4, <2>0 DEF Types, Prefix, Winding, Tick
  <2>3. Armed'
    BY <1>4, <2>0 DEF Types, Armed, TimerNotLost, Tick
  <2>4. Winding'
    BY <1>4, <2>0
       DEF Winding, StopsInOrder, ReadyBeforeOwnStop, DrainedBeforeOnStop, Tick
  <2> QED BY <2>1, <2>2, <2>3, <2>4
<1>5. CASE BeginStop
  <2>1. Types'
    BY <1>5, Bounds DEF Types, Prefix, BeginStop
  <2>2. Prefix'
    BY <1>5 DEF Types, Prefix, Winding, BeginStop
  <2>3. Armed'
    BY <1>5 DEF Types, Armed, TimerNotLost, BeginStop
  <2>4. Winding'
    BY <1>5 DEF Winding, StopsInOrder, ReadyBeforeOwnStop,
       DrainedBeforeOnStop, BeginStop
  <2> QED BY <2>1, <2>2, <2>3, <2>4
<1>6. CASE CancelToken
  <2>1. Types'
    BY <1>6, Bounds DEF Types, Prefix, CancelToken
  <2>2. Prefix'
    BY <1>6 DEF Types, Prefix, Winding, CancelToken
  <2>3. Armed'
    BY <1>6 DEF Types, Armed, TimerNotLost, CancelToken
  <2>4. Winding'
    BY <1>6 DEF Winding, StopsInOrder, ReadyBeforeOwnStop,
       DrainedBeforeOnStop, CancelToken
  <2> QED BY <2>1, <2>2, <2>3, <2>4
<1> QED BY <1>1, <1>2, <1>3, <1>4, <1>5, <1>6

-----------------------------------------------------------------------------
\* The invariant holds throughout.
LEMMA InvariantHolds == Spec => []IInv
<1>1. Init => IInv
  BY Bounds DEF Init, IInv, Types, PCs, Timer, Batches, Off, NoBatch, Prefix, Armed,
     TimerNotLost, Winding, StopsInOrder, ReadyBeforeOwnStop, DrainedBeforeOnStop
<1>2. IInv /\ [Next]_vars => IInv'
  <2>1. ASSUME IInv, UNCHANGED vars PROVE IInv'
    BY <2>1 DEF vars, actor, mail, work, IInv, Types, Prefix, Armed,
       TimerNotLost, Winding, StopsInOrder, ReadyBeforeOwnStop, DrainedBeforeOnStop
  <2> QED BY <2>1, CallbackKeeps, SelectKeeps, EnvironmentKeeps DEF Next
<1> QED BY <1>1, <1>2, PTL DEF Spec

\* For any keys, policies and bounds: a batch never promises more than its
\* sources hold, and no armed timer is lost (refresh_batch, take_due,
\* deliver_due).
THEOREM SourcesAlwaysSound == Spec => []SourcesSound
<1>1. IInv => SourcesSound
  BY DEF IInv, Types, PCs, Batches, Prefix, Armed, SourcesSound, TypeOK
<1> QED BY <1>1, InvariantHolds, PTL

\* And readiness, the drained prefix and the stop keep their order
\* (finish_callback_init, recv, Handler::run).
THEOREM StopsAlwaysInOrder == Spec => []StopsInOrder
<1>1. IInv => StopsInOrder
  BY DEF IInv, Winding
<1> QED BY <1>1, InvariantHolds, PTL
=============================================================================
