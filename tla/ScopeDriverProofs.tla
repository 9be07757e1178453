------------------------- MODULE ScopeDriverProofs -------------------------
(***************************************************************************)
(* Type correctness of the scope driver, for every number of children,     *)
(* flavor, role, choice of child options, intensity and set of actors:     *)
(* THEOREM TypeCorrect.  In particular the driver never executes a call    *)
(* for a missing key.  The lemmas say of each action that it keeps TypeOK. *)
(***************************************************************************)
EXTENDS ScopeDriver, SupervisorProofs

-----------------------------------------------------------------------------
(* Calls and the call stack. *)

\* The calls the handlers push are calls.
LEMMA CallTypes ==
  /\ \A op \in ChildCalls, S \in SUBSET Keys : S # {} => On(op, S) \in Call
  /\ \A op \in ScopeCalls : Do(op) \in Call
  /\ \A op \in ScopeCalls, r \in StopReasons \cup {NoReason} :
       Verdict(op, r) \in Call
  BY DEF On, Do, Verdict, Call, Concerning

\* A call is for children exactly when it names some.
LEMMA CallShape ==
  ASSUME NEW c \in Call
  PROVE  /\ c.op \in ChildCalls \cup ScopeCalls
         /\ c.on \in SUBSET Keys
         /\ c.op \in ChildCalls => c.on # {}
         /\ c.reason \in StopReasons \cup {NoReason}
<1>1. \A op \in ChildCalls : op \notin ScopeCalls
  BY DEF ChildCalls, ScopeCalls, ChildEffects, ScopeEffects
<1>2. QED
  BY <1>1 DEF Call, Concerning

\* Every effect of the reducer is a call the driver can execute.
LEMMA EffectsAreCalls ==
  ASSUME NEW q \in Seq(Effect)
  PROVE  q \in Seq(Call)
<1>1. Effect \subseteq Call
  <2>1. ChildEffects \subseteq ChildCalls /\ ScopeEffects \subseteq ScopeCalls
    BY DEF ChildCalls, ScopeCalls
  <2> QED BY <2>1 DEF Effect, Call, Concerning
<1>2. QED
  BY <1>1

\* The child a call is about is a key.
LEMMA SubjectType ==
  ASSUME todo \in Seq(Call), todo # <<>>, Head(todo).op \in ChildCalls
  PROVE  Subject \in Keys
<1>1. Head(todo) \in Call
  OBVIOUS
<1>2. Head(todo).on \in SUBSET Keys /\ Head(todo).on # {}
  BY <1>1, CallShape
<1>3. QED
  BY <1>2, LowestIsMember DEF Subject

\* The stack below the head call is typed.
LEMMA ReturnType ==
  ASSUME todo \in Seq(Call), todo # <<>>
  PROVE  Return \in Seq(Call)
<1> DEFINE h == Head(todo)
           rest == h.on \ {Subject}
           g == [h EXCEPT !.on = rest]
<1>1. h \in Call /\ Tail(todo) \in Seq(Call)
  OBVIOUS
<1>2. rest # {} => g \in Call
  <2> HIDE DEF h
  <2> QED BY <1>1 DEF Call, Concerning
<1>3. rest # {} => <<g>> \o Tail(todo) \in Seq(Call)
  <2> HIDE DEF g, rest
  <2> QED BY <1>1, <1>2
<1>4. QED
  BY <1>1, <1>3 DEF Return

\* Making further calls keeps the stack typed.
LEMMA EnterType ==
  ASSUME todo \in Seq(Call), todo # <<>>, NEW calls \in Seq(Call),
         Enter(calls)
  PROVE  todo' \in Seq(Call)
  BY ReturnType DEF Enter

\* The short call sequences used below are sequences of calls.
LEMMA CallSequences ==
  /\ <<>> \in Seq(Call)
  /\ \A c \in Call : <<c>> \in Seq(Call)
  /\ \A c, d \in Call : <<c, d>> \in Seq(Call)
  /\ \A c, d, e \in Call : <<c, d, e>> \in Seq(Call)
  OBVIOUS

-----------------------------------------------------------------------------
(* Type correctness, one lemma for each part of the driver. *)

\* The idle marker is an event.
LEMMA NoEventType == NoEvent \in Event
  BY BoundsAssumption DEF NoEvent, Ev, Event, EventOf, ScopeEvents

\* run_scope_incarnation starts typed.
LEMMA InitType == Init => TypeOK
<1> SUFFICES ASSUME Init PROVE TypeOK
  OBVIOUS
<1>1. sup \in SupervisorState
  <2>1. Declared \subseteq Keys
    BY InitialAssumption, MaxKeyAssumption DEF Declared, Keys
  <2>2. (IF Flavor = "Ordered" /\ Initial > 0 THEN 1 ELSE NoKey) \in 0..MaxKey
    BY MaxKeyAssumption DEF NoKey
  <2>3. <<>> \in Seq(Effect)
    OBVIOUS
  <2>4. NewSupervisor \in SupervisorState
    BY <2>3, MaxKeyAssumption
       DEF NewSupervisor, SupervisorState, ChildStates, IncarnationStates,
           StartupMemberships, LifecyclePhases, StartupPhases, NoKey
  <2>5. QED
    BY <2>2, <2>4, InitialAssumption
       DEF Init, InitialSupervisor, SupervisorState, ChildStates,
           StartupMemberships
<1>2. child \in [Keys -> ChildRuntime]
  BY BoundsAssumption DEF Init, FreshChild, ChildRuntime, Stages
<1>3. dyn \in [Keys -> DynamicEntry]
  BY DEF Init, DynamicEntry
<1>4. scope \in ScopeRecord /\ req \in Requests
  BY DEF Init, ScopeRecord, Requests, LifecyclePhases
<1>5. todo \in Seq(Call)
  BY CallTypes, CallSequences DEF Init, ScopeCalls
<1>6. cur \in Event
  BY NoEventType DEF Init
<1>7. running \in SUBSET Keys /\ charges \in 0..(MaxRestarts + 1)
      /\ held \in SUBSET Keys /\ batch \in SUBSET Event
      /\ inflight \in SUBSET Event
  BY BoundsAssumption DEF Init
<1>8. QED
  BY <1>1, <1>2, <1>3, <1>4, <1>5, <1>6, <1>7 DEF TypeOK

\* flush_supervisor_effects and settle_supervisor keep the state typed.
LEMMA SettlingType ==
  ASSUME TypeOK, \/ Start \/ Flush \/ settle_supervisor \/ SettleAgain
                 \/ publish_startup_complete \/ RecordFinished
  PROVE  TypeOK'
<1> USE DEF TypeOK
<1>0. todo \in Seq(Call) /\ todo # <<>>
  BY DEF Start, Flush, settle_supervisor, SettleAgain,
         publish_startup_complete, RecordFinished, Calling
<1>1. CASE Start
  <2> DEFINE calls == (IF req.shutdown = "Pending"
                       THEN <<Verdict("Drain", "ShutdownRequested")>>
                       ELSE <<>>) \o <<Do("Settle"), Do("Complete")>>
  <2>1. calls \in Seq(Call)
    BY CallTypes, CallSequences DEF ScopeCalls, StopReasons
  <2>2. todo' \in Seq(Call)
    <3> HIDE DEF calls
    <3> QED BY <1>0, <1>1, <2>1, EnterType DEF Start, calls
  <2>3. req' \in Requests
    BY <1>1 DEF Start, Requests
  <2> QED BY <1>1, <2>2, <2>3 DEF Start
<1>2. CASE Flush
  <2>1. sup' \in SupervisorState
    <3>1. <<>> \in Seq(Effect)
      OBVIOUS
    <3> QED BY <1>2, <3>1, EffectsType DEF Flush
  <2>2. sup.effects \in Seq(Call)
    BY EffectsAreCalls DEF SupervisorState
  <2>3. todo' \in Seq(Call)
    BY <1>0, <1>2, <2>2 DEF Flush
  <2> QED BY <1>2, <2>1, <2>3 DEF Flush
<1>3. CASE settle_supervisor
  <2> DEFINE calls == IF sup'.effects = <<>> THEN <<>>
                      ELSE <<Do("Flush"), Do("SettleAgain")>>
  <2>1. calls \in Seq(Call)
    BY CallTypes, CallSequences DEF ScopeCalls
  <2>2. todo' \in Seq(Call)
    <3> HIDE DEF calls
    <3> QED BY <1>0, <1>3, <2>1, EnterType DEF settle_supervisor, calls
  <2> QED BY <1>3, <2>2, SettleType DEF settle_supervisor
<1>4. CASE SettleAgain
  <2> DEFINE calls == IF scope.finished = NoReason THEN <<Do("Settle")>>
                      ELSE <<>>
  <2>1. calls \in Seq(Call)
    BY CallTypes, CallSequences DEF ScopeCalls
  <2>2. todo' \in Seq(Call)
    <3> HIDE DEF calls
    <3> QED BY <1>0, <1>4, <2>1, EnterType DEF SettleAgain, calls
  <2> QED BY <1>4, <2>2 DEF SettleAgain
<1>5. CASE publish_startup_complete
  <2>1. todo' \in Seq(Call)
    BY <1>0, <1>5, CallSequences, EnterType DEF publish_startup_complete
  <2>2. scope' \in ScopeRecord
    BY <1>5 DEF publish_startup_complete, ScopeRecord, LifecyclePhases
  <2> QED BY <1>5, <2>1, <2>2 DEF publish_startup_complete
<1>6. CASE RecordFinished
  <2>1. todo' \in Seq(Call)
    BY <1>0, <1>6, CallSequences, EnterType DEF RecordFinished
  <2>2. Head(todo).reason \in StopReasons \cup {NoReason}
    BY <1>0, CallShape
  <2>3. scope' \in ScopeRecord
    BY <1>6, <2>2 DEF RecordFinished, ScopeRecord
  <2> QED BY <1>6, <2>1, <2>3 DEF RecordFinished
<1>7. QED
  BY <1>1, <1>2, <1>3, <1>4, <1>5, <1>6

\* Setting one field of a child keeps the arena typed.
LEMMA FieldTypes ==
  ASSUME child \in [Keys -> ChildRuntime], NEW k \in Keys
  PROVE  /\ \A t \in SUBSET {"Readiness", "Restart", "Stop"} :
              [child EXCEPT ![k].timers = t] \in [Keys -> ChildRuntime]
         /\ \A b \in BOOLEAN :
              /\ [child EXCEPT ![k].built = b] \in [Keys -> ChildRuntime]
              /\ [child EXCEPT ![k].ready = b] \in [Keys -> ChildRuntime]
              /\ [child EXCEPT ![k].stop = b] \in [Keys -> ChildRuntime]
         /\ \A g \in Stages :
              [child EXCEPT ![k].stage = g] \in [Keys -> ChildRuntime]
         /\ \A g \in {"Waiting", "Ready", "Disarmed"} :
              [child EXCEPT ![k].gate = g] \in [Keys -> ChildRuntime]
<1> DEFINE c == child[k]
<1>1. c \in ChildRuntime
  OBVIOUS
<1>2. \A d \in ChildRuntime : [child EXCEPT ![k] = d] \in [Keys -> ChildRuntime]
  OBVIOUS
<1>3. ASSUME NEW t \in SUBSET {"Readiness", "Restart", "Stop"}
      PROVE  [child EXCEPT ![k].timers = t] \in [Keys -> ChildRuntime]
  <2>1. [c EXCEPT !.timers = t] \in ChildRuntime
    BY <1>1 DEF ChildRuntime
  <2> QED BY <1>2, <2>1
<1>4. ASSUME NEW b \in BOOLEAN
      PROVE  /\ [child EXCEPT ![k].built = b] \in [Keys -> ChildRuntime]
             /\ [child EXCEPT ![k].ready = b] \in [Keys -> ChildRuntime]
             /\ [child EXCEPT ![k].stop = b] \in [Keys -> ChildRuntime]
  <2>1. /\ [c EXCEPT !.built = b] \in ChildRuntime
        /\ [c EXCEPT !.ready = b] \in ChildRuntime
        /\ [c EXCEPT !.stop = b] \in ChildRuntime
    BY <1>1 DEF ChildRuntime
  <2> QED BY <1>2, <2>1
<1>5. ASSUME NEW g \in Stages
      PROVE  [child EXCEPT ![k].stage = g] \in [Keys -> ChildRuntime]
  <2>1. [c EXCEPT !.stage = g] \in ChildRuntime
    BY <1>1 DEF ChildRuntime
  <2> QED BY <1>2, <2>1
<1>6. ASSUME NEW g \in {"Waiting", "Ready", "Disarmed"}
      PROVE  [child EXCEPT ![k].gate = g] \in [Keys -> ChildRuntime]
  <2>1. [c EXCEPT !.gate = g] \in ChildRuntime
    BY <1>1 DEF ChildRuntime
  <2> QED BY <1>2, <2>1
<1>7. QED
  BY <1>3, <1>4, <1>5, <1>6

\* Sampling a removal keeps the reducer typed.
LEMMA RemovalSampledType ==
  ASSUME NEW s \in SupervisorState, NEW k \in Keys
  PROVE  Sampled(s, k) \in SupervisorState
  BY MemberTypes DEF Sampled

\* spawn_child and apply_readiness_effect keep the state typed.
LEMMA StartingType ==
  ASSUME TypeOK, \/ spawn_child \/ ApplyImmediateReadiness \/ ApplyGatedReadiness
  PROVE  TypeOK'
<1> USE DEF TypeOK
<1>0. todo \in Seq(Call) /\ todo # <<>> /\ Head(todo).op \in ChildCalls
  BY DEF spawn_child, ApplyImmediateReadiness, ApplyGatedReadiness, Calling,
         ChildCalls, ChildEffects
<1> DEFINE k == Subject
<1>1. k \in Keys
  BY <1>0, SubjectType
<1>2. CASE spawn_child
  <2> DEFINE calls == IF Options[k].readiness = "Gated" THEN <<>>
                      ELSE <<On("BecomeReady", {k})>>
  <2>1. calls \in Seq(Call) /\ <<>> \in Seq(Call)
    BY <1>1, CallTypes, CallSequences DEF ChildCalls
  <2>2. \/ Enter(<<>>) \/ Enter(calls)
    BY <1>2 DEF spawn_child
  <2>3. todo' \in Seq(Call)
    <3> HIDE DEF calls
    <3> QED BY <1>0, <2>1, <2>2, EnterType
  <2>4. sup' \in SupervisorState
    BY <1>1, <1>2, MemberTypes DEF spawn_child
  <2>5. ASSUME child[k].minted < MaxIncarnation
        PROVE  Incarnate(k) \in ChildRuntime
    <3> DEFINE c == child[k]
               m == c.minted + 1
               b == c.built /\ ~Options[k].oneshot
               g == IF Options[k].readiness = "Gated" THEN "Waiting" ELSE "Ready"
               t == IF Options[k].readiness = "Gated" /\ Options[k].deadline
                    THEN {"Readiness"} ELSE {}
    <3>1. c \in ChildRuntime
      BY <1>1
    <3>2. m \in 0..MaxIncarnation
      BY <2>5, <3>1, BoundsAssumption DEF ChildRuntime
    <3>3. b \in BOOLEAN /\ g \in {"Waiting", "Ready", "Disarmed"}
          /\ t \in SUBSET {"Readiness", "Restart", "Stop"}
      OBVIOUS
    <3> QED BY <3>1, <3>2, <3>3 DEF Incarnate, ChildRuntime, Stages
  <2>6. child' \in [Keys -> ChildRuntime] /\ running' \in SUBSET Keys
    <3> HIDE DEF k
    <3> QED BY <1>1, <1>2, <2>5 DEF spawn_child, k
  <2> QED BY <1>2, <2>3, <2>4, <2>6 DEF spawn_child
<1>3. ASSUME BecomeReady(k)
      PROVE  /\ sup' \in SupervisorState /\ child' \in [Keys -> ChildRuntime]
             /\ UNCHANGED <<charges, scope, cur, held, batch, running, dyn,
                            req, inflight>>
  <2> HIDE DEF k
  <2>1. sup' \in SupervisorState
    BY <1>1, <1>3, RemovalSampledType, MemberTypes DEF BecomeReady
  <2>2. child' \in [Keys -> ChildRuntime]
    <3> DEFINE c == child[k]
               g == IF is_removing(sup', k) THEN c.stage ELSE "Running"
               t == c.timers \ {"Readiness"}
    <3>1. c \in ChildRuntime
      BY <1>1
    <3>2. g \in Stages /\ t \in SUBSET {"Readiness", "Restart", "Stop"}
      BY <3>1 DEF ChildRuntime, Stages
    <3>3. child' = [child EXCEPT ![k] = [c EXCEPT !.timers = t, !.ready = TRUE,
                                                 !.stage = g]]
      BY <1>1, <1>3 DEF BecomeReady
    <3>4. [c EXCEPT !.timers = t, !.ready = TRUE, !.stage = g] \in ChildRuntime
      <4> HIDE DEF c, g, t
      <4> QED BY <3>1, <3>2 DEF ChildRuntime
    <3> QED BY <1>1, <3>3, <3>4
  <2> QED BY <1>3, <2>1, <2>2 DEF BecomeReady
<1>4. CASE ApplyImmediateReadiness
  <2>1. todo' \in Seq(Call)
    BY <1>0, <1>4, CallSequences, EnterType DEF ApplyImmediateReadiness
  <2> QED BY <1>3, <1>4, <2>1 DEF ApplyImmediateReadiness
<1>5. CASE ApplyGatedReadiness
  <2> DEFINE calls == IF is_removing(sup', k) THEN <<>> ELSE <<Do("Settle")>>
  <2>1. calls \in Seq(Call)
    BY CallTypes, CallSequences DEF ScopeCalls
  <2>2. todo' \in Seq(Call)
    <3> HIDE DEF calls
    <3> QED BY <1>0, <1>5, <2>1, EnterType DEF ApplyGatedReadiness, calls
  <2> QED BY <1>3, <1>5, <2>2 DEF ApplyGatedReadiness
<1>6. QED
  BY <1>2, <1>4, <1>5

\* begin_stop_child and force_child keep the state typed.
LEMMA StoppingType ==
  ASSUME TypeOK, \/ begin_stop_child \/ StopTimedOut \/ force_child
                 \/ ForceLadder \/ SelfStop
  PROVE  TypeOK'
<1> USE DEF TypeOK
<1>0. todo \in Seq(Call) /\ todo # <<>> /\ Head(todo).op \in ChildCalls
  BY DEF begin_stop_child, StopTimedOut, force_child, ForceLadder, SelfStop,
         Calling, ChildCalls, ChildEffects
<1> DEFINE k == Subject
           c == child[k]
<1>1. k \in Keys
  BY <1>0, SubjectType
<1>2. c \in ChildRuntime
  BY <1>1
<1>3. \A op \in ChildCalls : <<On(op, {k})>> \in Seq(Call)
  BY <1>1, CallTypes, CallSequences
<1>4. ASSUME NEW timeout \in BOOLEAN, BeginStop(timeout)
      PROVE  TypeOK'
  <2>1. \/ Enter(<<>>) \/ Enter(<<On("Terminal", {k})>>)
    BY <1>4 DEF BeginStop
  <2>2. todo' \in Seq(Call)
    BY <1>0, <1>3, <2>1, CallSequences, EnterType DEF ChildCalls
  <2>3. sup' \in SupervisorState
    BY <1>1, <1>4, MemberTypes DEF BeginStop
  <2> DEFINE g == IF c.gate = "Waiting" THEN "Disarmed" ELSE c.gate
             l == IF Options[k].shutdown = "Abort" THEN "Escalated"
                  ELSE "Cooperative"
             t == (c.timers \ {"Readiness"}) \cup {"Stop"}
             u == c.timers \ {"Restart"}
             c1 == [c EXCEPT !.stage = "Stopping", !.timedOut = timeout,
                             !.gate = g, !.ladder = l, !.timers = t]
             c2 == [c EXCEPT !.timers = u]
  <2>4. /\ g \in {"Waiting", "Ready", "Disarmed"}
        /\ l \in {"None", "Cooperative", "Escalated", "Finished"}
        /\ t \in SUBSET {"Readiness", "Restart", "Stop"}
        /\ u \in SUBSET {"Readiness", "Restart", "Stop"}
    BY <1>2 DEF ChildRuntime
  <2>5. c1 \in ChildRuntime /\ c2 \in ChildRuntime
    <3> HIDE DEF c, g, l, t, u
    <3> QED BY <1>2, <2>4 DEF ChildRuntime, Stages
  <2>6. \/ UNCHANGED child
        \/ child' = [child EXCEPT ![k] = c1]
        \/ child' = [child EXCEPT ![k] = c2]
    BY <1>1, <1>4 DEF BeginStop
  <2>7. child' \in [Keys -> ChildRuntime]
    <3> HIDE DEF c1, c2, k
    <3> QED BY <1>1, <2>5, <2>6
  <2> QED BY <1>4, <2>2, <2>3, <2>7 DEF BeginStop
<1>5. CASE force_child
  <2>1. <<On("StopChild", {k}), On("ForceLadder", {k})>> \in Seq(Call)
    BY <1>1, CallTypes, CallSequences DEF ChildCalls, ChildEffects
  <2>2. todo' \in Seq(Call)
    BY <1>0, <1>5, <2>1, EnterType DEF force_child
  <2> QED BY <1>5, <2>2 DEF force_child
<1>6. CASE ForceLadder
  <2>1. \/ Enter(<<>>) \/ Enter(<<On("Disposed", {k})>>)
    BY <1>6 DEF ForceLadder
  <2>2. todo' \in Seq(Call)
    BY <1>0, <1>3, <2>1, CallSequences, EnterType DEF ChildCalls
  <2> DEFINE c1 == [c EXCEPT !.ladder = "Escalated", !.timers = @ \cup {"Stop"}]
  <2>3. c1 \in ChildRuntime
    <3> HIDE DEF c
    <3> QED BY <1>2 DEF ChildRuntime
  <2>4. child' = child \/ child' = [child EXCEPT ![k] = c1]
    BY <1>1, <1>6 DEF ForceLadder
  <2>5. child' \in [Keys -> ChildRuntime]
    <3> HIDE DEF c1, k
    <3> QED BY <1>1, <2>3, <2>4
  <2> QED BY <1>6, <2>2, <2>5 DEF ForceLadder
<1>7. CASE SelfStop
  <2>1. \/ Enter(<<>>) \/ Enter(<<On("StopChild", {k})>>)
    BY <1>7 DEF SelfStop
  <2>2. todo' \in Seq(Call)
    BY <1>0, <1>3, <2>1, CallSequences, EnterType DEF ChildCalls, ChildEffects
  <2> QED BY <1>7, <2>2 DEF SelfStop
<1>8. QED
  BY <1>4, <1>5, <1>6, <1>7 DEF begin_stop_child, StopTimedOut

\* Terminal disposal and startup failure keep the state typed.
LEMMA TerminalType ==
  ASSUME TypeOK, \/ Terminal \/ TerminalAborted \/ FailStartup \/ Release
                 \/ Disposed
  PROVE  TypeOK'
<1> USE DEF TypeOK
<1>0. todo \in Seq(Call) /\ todo # <<>> /\ Head(todo).op \in ChildCalls
  BY DEF Terminal, TerminalAborted, FailStartup, Release, Disposed, Calling,
         ChildCalls
<1> DEFINE k == Subject
<1>1. k \in Keys
  BY <1>0, SubjectType
<1>2. \A op \in ChildCalls : <<On(op, {k})>> \in Seq(Call)
  BY <1>1, CallTypes, CallSequences
<1>3. ASSUME NEW aborted \in BOOLEAN, BeginTerminal(aborted)
      PROVE  TypeOK'
  <2>1. \/ Enter(<<>>) \/ Enter(<<On("Release", {k})>>)
        \/ Enter(<<On("FailStartup", {k}), On("Release", {k})>>)
    BY <1>3 DEF BeginTerminal
  <2>2. <<On("FailStartup", {k}), On("Release", {k})>> \in Seq(Call)
    BY <1>1, CallTypes, CallSequences DEF ChildCalls
  <2>3. todo' \in Seq(Call)
    BY <1>0, <1>2, <2>1, <2>2, CallSequences, EnterType DEF ChildCalls
  <2>4. sup' \in SupervisorState
    BY <1>1, <1>3, MemberTypes DEF BeginTerminal
  <2>5. child' \in [Keys -> ChildRuntime]
    <3> HIDE DEF k
    <3>1. publish_terminal(k) \in [Keys -> ChildRuntime]
      BY <1>1, FieldTypes DEF publish_terminal, Stages
    <3> QED BY <1>3, <3>1 DEF BeginTerminal, k
  <2> QED BY <1>3, <2>3, <2>4, <2>5 DEF BeginTerminal
<1>4. CASE FailStartup
  <2> DEFINE later == {j \in Keys : /\ Flavor = "Ordered" /\ j > k
                                    /\ contains(sup, j) /\ ~sup.spawned[j]
                                    /\ sup.inc[j] \notin {"Disposing", "Joined"}}
             first == IF later = {} THEN <<>> ELSE <<On("Terminal", later)>>
             last  == IF Role = "Root" THEN <<Do("PublishFailed")>>
                      ELSE <<Verdict("Drain", "StartupFailed")>>
  <2>1. first \in Seq(Call) /\ last \in Seq(Call)
    <3>1. later # {} => On("Terminal", later) \in Call
      BY CallTypes DEF ChildCalls
    <3>2. Do("PublishFailed") \in Call /\ Verdict("Drain", "StartupFailed") \in Call
      BY CallTypes DEF ScopeCalls, StopReasons
    <3> HIDE DEF later
    <3> QED BY <3>1, <3>2, CallSequences
  <2>2. first \o last \in Seq(Call)
    <3> HIDE DEF first, last
    <3> QED BY <2>1
  <2>3. \/ Enter(<<>>) \/ Enter(first \o last)
    BY <1>4 DEF FailStartup
  <2>4. todo' \in Seq(Call)
    <3> HIDE DEF first, last
    <3> QED BY <1>0, <2>2, <2>3, CallSequences, EnterType
  <2>5. sup' \in SupervisorState
    BY <1>4, LifecycleTypes DEF FailStartup
  <2> QED BY <1>4, <2>4, <2>5 DEF FailStartup
<1>5. CASE Release
  <2>1. \/ Enter(<<>>) \/ Enter(<<On("Disposed", {k})>>)
    BY <1>5 DEF Release
  <2>2. todo' \in Seq(Call)
    BY <1>0, <1>2, <2>1, CallSequences, EnterType DEF ChildCalls
  <2>3. child' \in [Keys -> ChildRuntime]
    <3> DEFINE b == child[k].built /\ ~contains(sup, k)
    <3>1. b \in BOOLEAN
      OBVIOUS
    <3>2. child' = [child EXCEPT ![k].built = b]
      BY <1>1, <1>5 DEF Release
    <3> HIDE DEF b, k
    <3> QED BY <1>1, <3>1, <3>2, FieldTypes
  <2>4. inflight' \in SUBSET Event
    <3>1. Ev("ConstructionDisposed", k, 0) \in Event
      BY <1>1, BoundsAssumption DEF Ev, Event, EventOf, ChildEvents
    <3> QED BY <1>5, <3>1 DEF Release
  <2> QED BY <1>5, <2>2, <2>3, <2>4 DEF Release
<1>6. CASE Disposed
  <2>1. \/ Enter(<<>>) \/ Enter(<<Do("Flush")>>) \/ Enter(<<On("Prune", {k})>>)
    BY <1>6 DEF Disposed
  <2>2. <<Do("Flush")>> \in Seq(Call)
    BY CallTypes, CallSequences DEF ScopeCalls
  <2>3. todo' \in Seq(Call)
    BY <1>0, <1>2, <2>1, <2>2, CallSequences, EnterType DEF ChildCalls
  <2>4. sup' \in SupervisorState
    BY <1>1, <1>6, RemovalTypes DEF Disposed
  <2> QED BY <1>6, <2>3, <2>4 DEF Disposed
<1>7. QED
  BY <1>3, <1>4, <1>5, <1>6 DEF Terminal, TerminalAborted

\* Pruning, finalizing and answering removals keep the state typed.
LEMMA RemovingType ==
  ASSUME TypeOK, \/ prune_terminal \/ finalize_removal
                 \/ publish_startup_removals
  PROVE  TypeOK'
<1> USE DEF TypeOK
<1>0. todo \in Seq(Call) /\ todo # <<>> /\ Enter(<<>>)
  BY DEF prune_terminal, finalize_removal, publish_startup_removals, Calling
<1>1. todo' \in Seq(Call)
  BY <1>0, CallSequences, EnterType
<1> DEFINE k == Subject
<1>2. prune_terminal \/ finalize_removal => k \in Keys
  BY <1>0, SubjectType
     DEF prune_terminal, finalize_removal, Calling, ChildCalls, ChildEffects
<1>3. ASSUME k \in Keys
      PROVE  /\ ReleaseEntry(k) => /\ dyn' \in [Keys -> DynamicEntry]
                                   /\ held' \in SUBSET Keys
             /\ Reclaim(sup, k) \in SupervisorState
             /\ [child EXCEPT ![k].timers = {}] \in [Keys -> ChildRuntime]
  <2> HIDE DEF k
  <2>1. Reclaim(sup, k) \in SupervisorState
    BY <1>3, MemberTypes
  <2>2. [child EXCEPT ![k].timers = {}] \in [Keys -> ChildRuntime]
    BY <1>3, FieldTypes
  <2>3. ASSUME ReleaseEntry(k)
        PROVE  dyn' \in [Keys -> DynamicEntry] /\ held' \in SUBSET Keys
    <3> DEFINE a == IF dyn[k].resp = "Waiting" /\ ~is_starting(sup)
                    THEN "Removed" ELSE dyn[k].resp
    <3>1. a \in {"None", "Waiting", "Removed"}
      BY <1>3 DEF DynamicEntry
    <3>2. dyn' = [dyn EXCEPT ![k].entry = "None", ![k].resp = a]
      BY <1>3, <2>3 DEF ReleaseEntry
    <3>3. dyn' \in [Keys -> DynamicEntry]
      <4> HIDE DEF a
      <4> QED BY <1>3, <3>1, <3>2 DEF DynamicEntry
    <3> QED BY <1>3, <2>3, <3>3 DEF ReleaseEntry
  <2> QED BY <2>1, <2>2, <2>3
<1>4. CASE prune_terminal
  BY <1>1, <1>2, <1>3, <1>4 DEF prune_terminal
<1>5. CASE finalize_removal
  BY <1>1, <1>2, <1>3, <1>5 DEF finalize_removal
<1>6. CASE publish_startup_removals
  <2>1. dyn' \in [Keys -> DynamicEntry]
    BY <1>6 DEF publish_startup_removals, DynamicEntry
  <2> QED BY <1>1, <1>6, <2>1 DEF publish_startup_removals
<1>7. QED
  BY <1>4, <1>5, <1>6

\* A drain reason maps to a startup verdict.
LEMMA StartupVerdictType ==
  ASSUME NEW r
  PROVE  StartupVerdict(r) \in {"None", "Ok", "Failed", "Tripped", "Shutdown"}
  BY DEF StartupVerdict

\* publish_drain keeps the scope record typed.
LEMMA PublishDrainType ==
  ASSUME scope \in ScopeRecord, NEW r, PublishDrain(r)
  PROVE  scope' \in ScopeRecord
<1> DEFINE v == IF /\ scope.startup = "None"
                   /\ is_starting(sup) \/ r = "StartupFailed"
                THEN StartupVerdict(r) ELSE scope.startup
<1>1. v \in {"None", "Ok", "Failed", "Tripped", "Shutdown"}
  BY StartupVerdictType DEF ScopeRecord
<1>2. scope' = [scope EXCEPT !.state = "Draining", !.startup = v]
  BY DEF PublishDrain
<1>3. QED
  <2> HIDE DEF v
  <2> QED BY <1>1, <1>2 DEF ScopeRecord, LifecyclePhases

\* Drop for ScopeRuntime leaves a typed state.
LEMMA EpilogueType ==
  ASSUME TypeOK, NEW r \in StopReasons \cup {NoReason}, Epilogue(r)
  PROVE  TypeOK'
<1> USE DEF TypeOK
<1>1. child' \in [Keys -> ChildRuntime]
  <2>1. ASSUME NEW k \in Keys
        PROVE  [child[k] EXCEPT !.active = 0, !.timers = {}, !.built = FALSE,
                                !.aborted = @ \/ child[k].active # 0,
                                !.stage = "Terminal"] \in ChildRuntime
    <3> DEFINE c == child[k]
               a == c.aborted \/ c.active # 0
    <3>1. c \in ChildRuntime /\ a \in BOOLEAN
      OBVIOUS
    <3> DEFINE z == 0
    <3>2. z \in 0..MaxIncarnation /\ "Terminal" \in Stages
      BY BoundsAssumption DEF Stages
    <3>3. [c EXCEPT !.active = z, !.timers = {}, !.built = FALSE,
                    !.aborted = a, !.stage = "Terminal"] \in ChildRuntime
      <4> HIDE DEF c, a, z
      <4> QED BY <3>1, <3>2 DEF ChildRuntime
    <3> QED BY <3>3
  <2> QED BY <2>1 DEF Epilogue
<1>2. dyn' \in [Keys -> DynamicEntry]
  BY DEF Epilogue, DynamicEntry
<1>3. scope' \in ScopeRecord
  BY DEF Epilogue, ScopeRecord
<1>4. todo' \in Seq(Call)
  BY CallSequences DEF Epilogue
<1>5. cur' \in Event
  BY NoEventType DEF Epilogue
<1>6. QED
  BY <1>1, <1>2, <1>3, <1>4, <1>5 DEF Epilogue

\* Drain entry, the batch end and completion keep the state typed.
LEMMA DrainingType ==
  ASSUME TypeOK, \/ PublishFailed \/ begin_drain_transition \/ BatchEnd
                 \/ take_completion \/ DriverAborted
  PROVE  TypeOK'
<1> USE DEF TypeOK
<1>1. \A a, b \in ScopeCalls : <<Do(a), Do(b)>> \in Seq(Call)
  BY CallTypes, CallSequences
<1>2. CASE PublishFailed
  <2>1. todo # <<>> /\ Enter(<<>>)
    BY <1>2 DEF PublishFailed, Calling
  <2>2. todo' \in Seq(Call)
    BY <2>1, CallSequences, EnterType
  <2>3. scope' \in ScopeRecord
    BY <1>2 DEF PublishFailed, ScopeRecord, LifecyclePhases
  <2> QED BY <1>2, <2>2, <2>3 DEF PublishFailed
<1>3. CASE begin_drain_transition
  <2> DEFINE r == Head(todo).reason
  <2>1. todo # <<>> /\ (\/ Enter(<<>>) \/ Enter(<<Do("Flush"), Do("Settle")>>))
    BY <1>3 DEF begin_drain_transition, Calling
  <2>2. todo' \in Seq(Call)
    BY <1>1, <2>1, CallSequences, EnterType DEF ScopeCalls
  <2>3. r \in StopReasons \cup {NoReason}
    BY <2>1, CallShape
  <2>4. begin_drain(sup, r) \in SupervisorState
    BY <2>3, LifecycleTypes
  <2>5. sup' \in SupervisorState
    BY <1>3, <2>4, SettleType DEF begin_drain_transition
  <2>6. scope' \in ScopeRecord
    BY <1>3, PublishDrainType DEF begin_drain_transition
  <2> QED BY <1>3, <2>2, <2>5, <2>6 DEF begin_drain_transition
<1>4. CASE BatchEnd
  <2>1. todo # <<>>
        /\ Enter(<<Do("Settle"), Do("PublishRemovals"), Do("Complete")>>)
    BY <1>4 DEF BatchEnd, Calling
  <2>2. <<Do("Settle"), Do("PublishRemovals"), Do("Complete")>> \in Seq(Call)
    BY CallTypes, CallSequences DEF ScopeCalls
  <2>3. todo' \in Seq(Call)
    BY <2>1, <2>2, EnterType
  <2> QED BY <1>4, <2>3, NoEventType DEF BatchEnd
<1>5. CASE take_completion
  <2>1. CASE scope.finished # NoReason
    <3>1. scope.finished \in StopReasons \cup {NoReason}
      BY DEF ScopeRecord
    <3> QED BY <1>5, <2>1, <3>1, EpilogueType DEF take_completion
  <2>2. CASE scope.finished = NoReason
    <3>1. todo # <<>> /\ Enter(<<>>)
      BY <1>5, <2>2 DEF take_completion, Calling
    <3>2. todo' \in Seq(Call)
      BY <3>1, CallSequences, EnterType
    <3> QED BY <1>5, <2>2, <3>2 DEF take_completion
  <2> QED BY <2>1, <2>2
<1>6. CASE DriverAborted
  <2>1. (IF is_draining(sup) THEN sup.reason ELSE "ShutdownRequested")
          \in StopReasons \cup {NoReason}
    BY DEF SupervisorState, StopReasons
  <2> QED BY <1>6, <2>1, EpilogueType DEF DriverAborted
<1>7. QED
  BY <1>2, <1>3, <1>4, <1>5, <1>6

\* Collecting a wake keeps the state typed.
LEMMA CollectType ==
  ASSUME TypeOK, CollectSome
  PROVE  TypeOK'
<1> USE DEF TypeOK
<1>1. PICK due \in SUBSET Armed, arrived \in SUBSET inflight :
        Collect(due, arrived)
  BY DEF CollectSome
<1>2. RequestEvents \subseteq Event
  <2>1. \A t \in ScopeEvents : Ev(t, NoKey, 0) \in Event
    BY BoundsAssumption DEF Ev, Event, EventOf
  <2> QED BY <2>1 DEF RequestEvents, ScopeEvents
<1>3. \A d \in due : DueEvent(d) \in Event
  <2> TAKE d \in due
  <2>1. d \in Keys \X DOMAIN Timer
    BY DEF Armed
  <2>2. d[1] \in Keys /\ Timer[d[2]] \in ChildEvents
    BY <2>1 DEF Timer, ChildEvents
  <2>3. child[d[1]].active \in 0..MaxIncarnation
    BY <2>2 DEF ChildRuntime
  <2> QED BY <2>2, <2>3 DEF DueEvent, Ev, Event, EventOf
<1>4. batch' \in SUBSET Event /\ inflight' \in SUBSET Event
  BY <1>1, <1>2, <1>3 DEF Collect, Uncollected
<1>5. child' \in [Keys -> ChildRuntime]
  <2>1. ASSUME NEW k \in Keys
        PROVE  [child[k] EXCEPT !.timers = {t \in @ : <<k, t>> \notin due}]
                 \in ChildRuntime
    <3> DEFINE c == child[k]
               u == {t \in c.timers : <<k, t>> \notin due}
    <3>1. c \in ChildRuntime
      OBVIOUS
    <3>2. u \in SUBSET {"Readiness", "Restart", "Stop"}
      BY <3>1 DEF ChildRuntime
    <3>3. [c EXCEPT !.timers = u] \in ChildRuntime
      <4> HIDE DEF c, u
      <4> QED BY <3>1, <3>2 DEF ChildRuntime
    <3> QED BY <3>3
  <2> QED BY <1>1, <2>1 DEF Collect
<1>6. req' \in Requests
  BY <1>1 DEF Collect, Requests
<1>7. todo' \in Seq(Call)
  BY <1>1, CallTypes, CallSequences DEF Collect, ScopeCalls
<1>8. QED
  BY <1>1, <1>4, <1>5, <1>6, <1>7 DEF Collect

\* A slot whose incarnation was taken is a child record.
LEMMA InactiveType ==
  ASSUME NEW c \in ChildRuntime
  PROVE  Inactive(c) \in ChildRuntime
<1> DEFINE u == c.timers \ {"Readiness", "Stop"}
           z == 0
<1>1. u \in SUBSET {"Readiness", "Restart", "Stop"} /\ z \in 0..MaxIncarnation
  BY BoundsAssumption DEF ChildRuntime
<1>2. Inactive(c) =
        [c EXCEPT !.active = z, !.gate = "Disarmed", !.ladder = "None",
                  !.timedOut = FALSE, !.ready = FALSE, !.stop = FALSE,
                  !.aborted = FALSE, !.timers = u]
  BY DEF Inactive
<1>3. QED
  <2> HIDE DEF u, z
  <2> QED BY <1>1, <1>2 DEF ChildRuntime

\* handle_exit keeps the state typed; intensity charges stay bounded.
LEMMA ExitType ==
  ASSUME TypeOK, ExitDispatch
  PROVE  TypeOK'
<1> USE DEF TypeOK
<1> DEFINE k == Subject
           s == Sampled(IncarnationComplete(sup, k), k)
           c == child[k]
           idle == Inactive(c)
<1>0. todo \in Seq(Call) /\ todo # <<>> /\ Head(todo).op \in ChildCalls
  BY DEF ExitDispatch, Calling, ChildCalls
<1>1. k \in Keys
  BY <1>0, SubjectType
<1>2. s \in SupervisorState
  BY <1>1, MemberTypes, RemovalSampledType
<1>3. RestartPending(s, k) \in SupervisorState
  <2> HIDE DEF s, k
  <2> QED BY <1>1, <1>2, MemberTypes
<1>4. sup' \in SupervisorState
  BY <1>2, <1>3 DEF ExitDispatch
<1>5. c \in ChildRuntime
  BY <1>1
<1>6. /\ idle \in ChildRuntime
      /\ \A t \in SUBSET {"Readiness", "Restart", "Stop"} :
           [idle EXCEPT !.stage = "Restarting", !.timers = t] \in ChildRuntime
  <2>3. idle \in ChildRuntime
    BY <1>5, InactiveType
  <2>4. ASSUME NEW t \in SUBSET {"Readiness", "Restart", "Stop"}
        PROVE  [idle EXCEPT !.stage = "Restarting", !.timers = t]
                 \in ChildRuntime
    <3> HIDE DEF idle
    <3> QED BY <2>3 DEF ChildRuntime, Stages
  <2> QED BY <2>3, <2>4
<1>7. child' \in [Keys -> ChildRuntime] /\ charges' \in 0..(MaxRestarts + 1)
  <2>1. CASE UNCHANGED <<child, charges>>
    BY <2>1
  <2>2. CASE child' = [child EXCEPT ![k] = idle] /\ UNCHANGED charges
    <3> HIDE DEF idle, k
    <3> QED BY <1>1, <1>6, <2>2
  <2>3. ASSUME NEW aged \in 0..charges, NEW t,
               t = (IF Trips(aged) \/ ~Options[k].backoff THEN idle.timers
                    ELSE idle.timers \cup {"Restart"}),
               child' = [child EXCEPT ![k] =
                           [idle EXCEPT !.stage = "Restarting", !.timers = t]],
               charges' = (IF Trips(aged) THEN MaxRestarts + 1 ELSE Charge(aged))
        PROVE  child' \in [Keys -> ChildRuntime]
               /\ charges' \in 0..(MaxRestarts + 1)
    <3>1. idle.timers \in SUBSET {"Readiness", "Restart", "Stop"}
      <4> HIDE DEF idle
      <4> QED BY <1>6 DEF ChildRuntime
    <3>2. t \in SUBSET {"Readiness", "Restart", "Stop"}
      <4> HIDE DEF idle
      <4> QED BY <2>3, <3>1
    <3>3. child' \in [Keys -> ChildRuntime]
      <4> HIDE DEF idle, k
      <4> QED BY <1>1, <1>6, <2>3, <3>2
    <3>4. charges' \in 0..(MaxRestarts + 1)
      BY <2>3, BoundsAssumption DEF Trips, Charge
    <3> QED BY <3>3, <3>4
  <2>4. \/ UNCHANGED <<child, charges>>
        \/ child' = [child EXCEPT ![k] = idle] /\ UNCHANGED charges
        \/ \E aged \in 0..charges :
             /\ child' = [child EXCEPT ![k] =
                            [idle EXCEPT !.stage = "Restarting",
                               !.timers = IF Trips(aged) \/ ~Options[k].backoff
                                          THEN idle.timers
                                          ELSE idle.timers \cup {"Restart"}]]
             /\ charges' = IF Trips(aged) THEN MaxRestarts + 1
                           ELSE Charge(aged)
    BY DEF ExitDispatch
  <2> HIDE DEF idle, k
  <2> QED BY <2>1, <2>2, <2>3, <2>4
<1>8. todo' \in Seq(Call)
  <2>1. \/ Enter(<<>>) \/ Enter(<<On("TerminalAborted", {k})>>)
        \/ Enter(<<On("Terminal", {k})>>)
        \/ Enter(<<Verdict("Drain", "IntensityTripped")>>)
    BY DEF ExitDispatch
  <2>2. /\ <<On("TerminalAborted", {k})>> \in Seq(Call)
        /\ <<On("Terminal", {k})>> \in Seq(Call)
        /\ <<Verdict("Drain", "IntensityTripped")>> \in Seq(Call)
    BY <1>1, CallTypes, CallSequences DEF ChildCalls, ScopeCalls, StopReasons
  <2> QED BY <1>0, <2>1, <2>2, CallSequences, EnterType
<1>9. QED
  BY <1>4, <1>7, <1>8 DEF ExitDispatch

\* Every event handler keeps the state typed.
LEMMA HandlerType ==
  ASSUME TypeOK, NEW e \in batch, Handlers(e)
  PROVE  TypeOK'
<1> USE DEF TypeOK
<1>1. Dispatching(e)
  BY DEF Handlers, HandleShutdown, HandleForce, handle_ready, handle_self_stop,
         handle_exit, HandleConstructionDisposed, HandleReadinessDue,
         HandleRestartDue, HandleStopDue, handle_removal, handle_admission
<1>2. /\ todo # <<>> /\ e \in Event
      /\ batch' \in SUBSET Event /\ cur' \in Event
  BY <1>1 DEF Dispatching, Calling
<1> DEFINE k == e.child
<1>3. e.type \in ChildEvents => k \in Keys
  <2>1. \A t \in ChildEvents : t \notin ScopeEvents
    BY DEF ChildEvents, ScopeEvents
  <2> QED BY <1>2, <2>1 DEF Event, EventOf
<1>4. ASSUME NEW calls \in Seq(Call), Handle(calls)
      PROVE  /\ todo' \in Seq(Call)
             /\ UNCHANGED <<scope, held, running, inflight>>
  BY <1>4 DEF Handle
<1>5. /\ \A op \in ScopeCalls : <<Do(op)>> \in Seq(Call)
      /\ k \in Keys => \A op \in ChildCalls : <<On(op, {k})>> \in Seq(Call)
  BY CallTypes, CallSequences
<1>6. CASE HandleShutdown(e)
  <2>1. <<Verdict("Drain", "ShutdownRequested")>> \in Seq(Call)
    BY CallTypes, CallSequences DEF ScopeCalls, StopReasons
  <2>2. req' \in Requests
    BY <1>6 DEF HandleShutdown, Requests
  <2> QED BY <1>2, <1>4, <1>6, <2>1, <2>2 DEF HandleShutdown
<1>7. CASE HandleForce(e)
  <2>1. <<Do("Flush"), Do("Settle")>> \in Seq(Call)
    BY CallTypes, CallSequences DEF ScopeCalls
  <2>2. todo' \in Seq(Call)
    BY <1>7, <2>1 DEF HandleForce
  <2>3. sup' \in SupervisorState
    BY <1>7, LifecycleTypes DEF HandleForce, StopReasons
  <2>4. scope' \in ScopeRecord
    BY <1>7, PublishDrainType DEF HandleForce
  <2> QED BY <1>2, <1>7, <2>2, <2>3, <2>4 DEF HandleForce
<1>8. k \in Keys => \A g \in {"Waiting", "Ready", "Disarmed"} :
                      [child EXCEPT ![k].gate = g] \in [Keys -> ChildRuntime]
  BY FieldTypes
<1>9. CASE handle_ready(e)
  <2>1. k \in Keys
    BY <1>3, <1>9 DEF handle_ready, ChildEvents
  <2>2. child' \in [Keys -> ChildRuntime]
    BY <1>8, <1>9, <2>1 DEF handle_ready
  <2>3. \/ Handle(<<>>) \/ Handle(<<On("BecomeReadySettle", {k})>>)
    BY <1>9 DEF handle_ready
  <2> QED BY <1>2, <1>4, <1>5, <1>9, <2>1, <2>2, <2>3, CallSequences
          DEF handle_ready, ChildCalls
<1>10. CASE handle_self_stop(e)
  <2> DEFINE credit == IF Signalled(k, e.inc) /\ child[k].ready
                       THEN <<On("BecomeReadySettle", {k})>> ELSE <<>>
             calls  == credit \o <<On("SelfStop", {k})>>
  <2>1. k \in Keys
    BY <1>3, <1>10 DEF handle_self_stop, ChildEvents
  <2>2. child' \in [Keys -> ChildRuntime]
    BY <1>8, <1>10, <2>1 DEF handle_self_stop
  <2>3. credit \in Seq(Call) /\ <<On("SelfStop", {k})>> \in Seq(Call)
    BY <1>5, <2>1, CallSequences DEF ChildCalls
  <2>4. calls \in Seq(Call)
    <3> HIDE DEF credit
    <3> QED BY <2>3
  <2>5. Handle(calls)
    BY <1>10 DEF handle_self_stop
  <2>6. todo' \in Seq(Call) /\ UNCHANGED <<scope, held, running, inflight>>
    <3> HIDE DEF calls
    <3> QED BY <1>4, <2>4, <2>5
  <2> QED BY <1>2, <1>10, <2>2, <2>6 DEF handle_self_stop
<1>11. CASE handle_exit(e)
  <2> DEFINE credit == IF Signalled(k, e.inc) /\ e.seen
                       THEN <<On("BecomeReadySettle", {k})>> ELSE <<>>
             calls  == credit \o <<On("ExitDispatch", {k})>>
  <2>1. k \in Keys
    BY <1>3, <1>11 DEF handle_exit, ChildEvents
  <2>2. child' \in [Keys -> ChildRuntime]
    BY <1>8, <1>11, <2>1 DEF handle_exit
  <2>3. credit \in Seq(Call) /\ <<On("ExitDispatch", {k})>> \in Seq(Call)
    BY <1>5, <2>1, CallSequences DEF ChildCalls
  <2>4. calls \in Seq(Call)
    <3> HIDE DEF credit
    <3> QED BY <2>3
  <2>5. Handle(calls)
    BY <1>11 DEF handle_exit
  <2>6. todo' \in Seq(Call) /\ UNCHANGED <<scope, held, running, inflight>>
    <3> HIDE DEF calls
    <3> QED BY <1>4, <2>4, <2>5
  <2> QED BY <1>2, <1>11, <2>2, <2>6 DEF handle_exit
<1>12. CASE HandleConstructionDisposed(e)
  BY <1>2, <1>3, <1>4, <1>5, <1>12
     DEF HandleConstructionDisposed, ChildEvents, ChildCalls
<1>13. CASE HandleReadinessDue(e)
  <2>1. k \in Keys
    BY <1>3, <1>13 DEF HandleReadinessDue, ChildEvents
  <2>2. child' \in [Keys -> ChildRuntime]
    BY <1>8, <1>13, <2>1 DEF HandleReadinessDue
  <2>3. \/ Handle(<<>>) \/ Handle(<<On("BecomeReadySettle", {k})>>)
        \/ Handle(<<On("StopTimedOut", {k})>>)
    BY <1>13 DEF HandleReadinessDue
  <2> QED BY <1>2, <1>4, <1>5, <1>13, <2>1, <2>2, <2>3, CallSequences
          DEF HandleReadinessDue, ChildCalls
<1>14. CASE HandleRestartDue(e)
  <2>1. k \in Keys
    BY <1>3, <1>14 DEF HandleRestartDue, ChildEvents
  <2>2. <<On("StartChild", {k}), Do("Settle")>> \in Seq(Call)
    BY <2>1, CallTypes, CallSequences DEF ChildCalls, ChildEffects, ScopeCalls
  <2>3. \/ Handle(<<>>) \/ Handle(<<On("StartChild", {k}), Do("Settle")>>)
    BY <1>14 DEF HandleRestartDue
  <2> QED BY <1>2, <1>4, <1>14, <2>2, <2>3, CallSequences DEF HandleRestartDue
<1>15. CASE HandleStopDue(e)
  <2>1. k \in Keys
    BY <1>3, <1>15 DEF HandleStopDue, ChildEvents
  <2>2. ASSUME NEW c \in ChildRuntime
        PROVE  Advance(c) \in ChildRuntime
    <3> DEFINE t == c.timers \cup {"Stop"}
               u == c.timers \ {"Stop"}
    <3>1. /\ t \in SUBSET {"Readiness", "Restart", "Stop"}
          /\ u \in SUBSET {"Readiness", "Restart", "Stop"}
      BY DEF ChildRuntime
    <3>2. /\ [c EXCEPT !.ladder = "Escalated", !.timers = t] \in ChildRuntime
          /\ [c EXCEPT !.ladder = "Finished", !.timers = u, !.aborted = TRUE]
               \in ChildRuntime
      <4> HIDE DEF t, u
      <4> QED BY <3>1 DEF ChildRuntime
    <3> QED BY <3>2 DEF Advance
  <2>3. \/ UNCHANGED child \/ child' = [child EXCEPT ![k] = Advance(child[k])]
    BY <1>15 DEF HandleStopDue
  <2>4. child' \in [Keys -> ChildRuntime]
    BY <2>1, <2>2, <2>3
  <2> QED BY <1>2, <1>4, <1>15, <2>4, CallSequences DEF HandleStopDue
<1>16. CASE handle_removal(e)
  <2>1. k \in Keys
    BY <1>3, <1>16 DEF handle_removal, ChildEvents
  <2>2. sup' \in SupervisorState
    BY <1>16, <2>1, RemovalTypes DEF handle_removal
  <2>3. \/ Handle(<<>>) \/ Handle(<<Do("Flush")>>)
    BY <1>16 DEF handle_removal
  <2> QED BY <1>2, <1>4, <1>5, <1>16, <2>2, <2>3, CallSequences
          DEF handle_removal, ScopeCalls
<1>17. CASE handle_admission(e)
  <2> DEFINE n == sup.minted + 1
  <2>1. CASE Handle(<<>>) /\ UNCHANGED <<sup, child, dyn>>
    BY <1>2, <1>4, <1>17, <2>1, CallSequences DEF handle_admission
  <2>2. CASE /\ n \in Keys /\ sup' = admit(sup, FALSE)
             /\ child' = [child EXCEPT ![n].stage = "Admitted"]
             /\ dyn' = [dyn EXCEPT ![n].entry = "Resident"]
             /\ Handle(<<On("StartChild", {n})>>)
    <3>1. <<On("StartChild", {n})>> \in Seq(Call)
      BY <2>2, CallTypes, CallSequences DEF ChildCalls, ChildEffects
    <3>2. sup' \in SupervisorState
      BY <2>2, AdmitType
    <3>3. child' \in [Keys -> ChildRuntime]
      BY <2>2, FieldTypes DEF Stages
    <3>4. dyn' \in [Keys -> DynamicEntry]
      <4> HIDE DEF n
      <4> QED BY <2>2 DEF DynamicEntry
    <3> QED BY <1>2, <1>4, <1>17, <2>2, <3>1, <3>2, <3>3, <3>4
            DEF handle_admission
  <2> QED BY <1>17, <2>1, <2>2 DEF handle_admission
<1>18. QED
  BY <1>6, <1>7, <1>9, <1>10, <1>11, <1>12, <1>13, <1>14, <1>15, <1>16, <1>17
     DEF Handlers

\* Child tasks, callers and ancestors keep the state typed.
LEMMA EnvironmentType ==
  ASSUME TypeOK, Environment
  PROVE  TypeOK'
<1> USE DEF TypeOK
<1>1. ASSUME NEW e \in Event, Send(e)
      PROVE  inflight' \in SUBSET Event
  BY <1>1 DEF Send
<1>2. ASSUME NEW k \in Keys
      PROVE  /\ \A t \in ChildEvents : \A i \in 0..MaxIncarnation :
                  Ev(t, k, i) \in Event
             /\ child[k].minted \in 0..MaxIncarnation
             /\ 0 \in 0..MaxIncarnation
  <2>1. child[k].minted \in 0..MaxIncarnation
    BY DEF ChildRuntime
  <2> QED BY <2>1, BoundsAssumption DEF Ev, Event, EventOf
<1>3. ASSUME NEW k \in Keys, MarkReady(k) \/ LocalStop(k)
      PROVE  TypeOK'
  <2>1. child' \in [Keys -> ChildRuntime]
    <3>1. \/ child' = [child EXCEPT ![k].ready = TRUE]
          \/ child' = [child EXCEPT ![k].stop = TRUE]
      BY <1>3 DEF MarkReady, LocalStop
    <3>2. \A b \in BOOLEAN :
            /\ [child EXCEPT ![k].ready = b] \in [Keys -> ChildRuntime]
            /\ [child EXCEPT ![k].stop = b] \in [Keys -> ChildRuntime]
      BY FieldTypes
    <3>3. /\ [child EXCEPT ![k].ready = TRUE] \in [Keys -> ChildRuntime]
          /\ [child EXCEPT ![k].stop = TRUE] \in [Keys -> ChildRuntime]
      BY <3>2, Zenon
    <3> QED BY <3>1, <3>3
  <2>2. inflight' \in SUBSET Event
    BY <1>1, <1>2, <1>3 DEF MarkReady, LocalStop, ChildEvents
  <2> QED BY <1>3, <2>1, <2>2 DEF MarkReady, LocalStop, DriverVars
<1>4. ASSUME NEW k \in Keys, NEW fail \in BOOLEAN, TaskEnds(k, fail)
      PROVE  TypeOK'
  <2> DEFINE e == [Ev("Exited", k, child[k].minted) EXCEPT
                     !.fail = fail, !.seen = child[k].ready]
  <2>1. child[k].ready \in BOOLEAN
    BY DEF ChildRuntime
  <2>2. e \in Event
    BY <1>2, <2>1 DEF Ev, Event, EventOf, ChildEvents
  <2>3. inflight' \in SUBSET Event
    <3> HIDE DEF e
    <3> QED BY <1>1, <1>4, <2>2 DEF TaskEnds, e
  <2> QED BY <1>4, <2>3 DEF TaskEnds, DriverVars
<1>5. ASSUME NEW k \in Keys,
             remove_dynamic(k) \/ FireFusedCancel(k) \/ signal_fused_cancel(k)
      PROVE  TypeOK'
  <2>1. dyn' \in [Keys -> DynamicEntry]
    <3>1. /\ [dyn[k] EXCEPT !.entry = "Removing", !.resp = "Waiting"]
               \in DynamicEntry
          /\ [dyn[k] EXCEPT !.fused = TRUE] \in DynamicEntry
          /\ [dyn[k] EXCEPT !.entry = "Removing"] \in DynamicEntry
      BY DEF DynamicEntry
    <3>2. \E d \in DynamicEntry : dyn' = [dyn EXCEPT ![k] = d]
      BY <1>5, <3>1
         DEF remove_dynamic, FireFusedCancel, signal_fused_cancel
    <3> QED BY <3>2
  <2>2. inflight' \in SUBSET Event
    BY <1>1, <1>2, <1>5
       DEF remove_dynamic, FireFusedCancel, signal_fused_cancel, ChildEvents
  <2> QED BY <1>5, <2>1, <2>2
          DEF remove_dynamic, FireFusedCancel, signal_fused_cancel, DriverVars
<1>6. ASSUME \/ request_shutdown \/ force_shutdown
             \/ \E l \in {"Shutdown", "Abort"} : AncestorFires(l)
      PROVE  TypeOK'
  <2>1. req' \in Requests
    BY <1>6 DEF request_shutdown, force_shutdown, AncestorFires, Requests
  <2> QED BY <1>6, <2>1
          DEF request_shutdown, force_shutdown, AncestorFires, DriverVars
<1>7. ASSUME start_admission
      PROVE  TypeOK'
  <2>1. Ev("Admission", NoKey, 0) \in Event
    BY BoundsAssumption DEF Ev, Event, EventOf, ScopeEvents
  <2> QED BY <1>1, <1>7, <2>1 DEF start_admission, DriverVars
<1>8. QED
  BY <1>3, <1>4, <1>5, <1>6, <1>7 DEF Environment

\* Every reachable state of the driver is typed.  The arena, the control plane
\* and the reducer are only ever indexed with a registered key, each call on
\* the stack names the children it is for, each event its child, and no
\* counter leaves its bound.
THEOREM TypeCorrect == Spec => []TypeOK
<1>1. Init => TypeOK
  BY InitType
<1>2. ASSUME TypeOK, [Next]_vars
      PROVE  TypeOK'
  <2>1. CASE Execute
    BY <1>2, <2>1, SettlingType, StartingType, StoppingType, TerminalType,
       RemovingType, DrainingType, ExitType, HandlerType DEF Execute
  <2>2. CASE CollectSome
    BY <1>2, <2>2, CollectType
  <2>3. CASE DriverAborted
    BY <1>2, <2>3, DrainingType
  <2>4. CASE Environment
    BY <1>2, <2>4, EnvironmentType
  <2>5. CASE Quiescent \/ UNCHANGED vars
    BY <1>2, <2>5 DEF Quiescent, vars, TypeOK
  <2>6. QED
    BY <1>2, <2>1, <2>2, <2>3, <2>4, <2>5 DEF Next
<1>3. QED
  BY <1>1, <1>2, PTL DEF Spec
=============================================================================
