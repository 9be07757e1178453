------------------------ MODULE ScopeAgreementProofs ------------------------
(***************************************************************************)
(* The shell and the reducer agree: THEOREM ReducerAlwaysAgrees shows that *)
(* ReducerAgrees holds of the scope driver for every value of the          *)
(* constants.                                                              *)
(*                                                                         *)
(* ReducerAgrees alone is not inductive.  handle_exit completes an         *)
(* incarnation in the reducer and only a later call disposes of it, so an  *)
(* arbitrary agreeing state could hold a completed child that nothing is   *)
(* going to dispose of, and spawn_child would run it while the reducer     *)
(* refuses to.  Agreement adds that a completed child's disposal is the    *)
(* next call, that a key the reducer does not hold has no live             *)
(* incarnation, that keys above the last one minted are not held, and that *)
(* a stopped driver makes no call.                                         *)
(***************************************************************************)
EXTENDS ScopeDriverProofs

Terminating(k) ==
  /\ todo # <<>>
  /\ Head(todo).op \in {"Terminal", "TerminalAborted"}
  /\ Head(todo).on = {k}

AgreesOn(k) ==
  /\ child[k].active # 0 <=>
       contains(sup, k) /\ sup.inc[k] \in {"Active", "Stopping"}
  /\ child[k].ladder # "None" <=> contains(sup, k) /\ sup.inc[k] = "Stopping"
  /\ contains(sup, k) /\ sup.inc[k] = "Complete" => Terminating(k)

Agreement ==
  /\ scope.state = "Stopped" => todo = <<>>
  /\ \A k \in Keys : k > sup.minted => ~contains(sup, k)
  /\ scope.state # "Stopped" => \A k \in Keys : AgreesOn(k)

\* What a step leaves alone about child k.
Same(k) ==
  /\ sup'.state[k] = sup.state[k] /\ sup'.inc[k] = sup.inc[k]
  /\ child'[k].active = child[k].active /\ child'[k].ladder = child[k].ladder

-----------------------------------------------------------------------------
(* How a step is shown to keep Agreement. *)

\* A driver that has calls to make is not stopped, and unless the next one is
\* a disposal no child is completed.
LEMMA Underway ==
  ASSUME Agreement, todo # <<>>,
         Head(todo).op \notin {"Terminal", "TerminalAborted"}
  PROVE  /\ scope.state # "Stopped"
         /\ \A j \in Keys : ~Terminating(j)
  BY DEF Agreement, Terminating

\* A step of the driver that touches only the children in K keeps Agreement if
\* it leaves those in agreement and no other child was completed.
LEMMA AgreementStep ==
  ASSUME Agreement, NEW K \in SUBSET Keys,
         scope.state # "Stopped", scope'.state # "Stopped",
         sup'.minted = sup.minted,
         \A j \in Keys \ K : Same(j) /\ ~Terminating(j),
         \A j \in K : AgreesOn(j)' /\ (contains(sup', j) => contains(sup, j))
  PROVE  Agreement'
<1>1. \A j \in Keys \ K : AgreesOn(j)'
  BY DEF Agreement, AgreesOn, Same, contains
<1>2. \A k \in Keys : k > sup'.minted => ~contains(sup', k)
  BY DEF Agreement, Same, contains
<1>3. QED
  BY <1>1, <1>2 DEF Agreement

\* A step of another actor keeps it.
LEMMA AgreementKept ==
  ASSUME Agreement, todo' = todo, sup' = sup, scope' = scope,
         \A k \in Keys : /\ child'[k].active = child[k].active
                         /\ child'[k].ladder = child[k].ladder
  PROVE  Agreement'
  BY DEF Agreement, AgreesOn, Terminating, contains

\* A call that changes no member and no child keeps it.
LEMMA QuietCall ==
  ASSUME Agreement, todo # <<>>,
         Head(todo).op \notin {"Terminal", "TerminalAborted"},
         SameMembers(sup, sup'), child' = child, scope'.state # "Stopped"
  PROVE  Agreement'
<1>1. scope.state # "Stopped" /\ \A j \in Keys : ~Terminating(j)
  BY Underway
<1>2. sup'.minted = sup.minted /\ \A j \in Keys : Same(j)
  BY DEF SameMembers, Same
<1> DEFINE K == {}
<1>3. K \in SUBSET Keys /\ \A j \in K : FALSE
  OBVIOUS
<1>4. QED
  <2> HIDE DEF K
  <2> QED BY <1>1, <1>2, <1>3, AgreementStep

\* A call that changes only child k, by sampling or moving its member, keeps
\* it if that child is in agreement afterwards.
LEMMA ChildCall ==
  ASSUME Agreement, NEW k \in Keys, todo # <<>>,
         Head(todo).op \notin {"Terminal", "TerminalAborted"},
         SameExcept(sup, sup', k), contains(sup', k) => contains(sup, k),
         \A j \in Keys \ {k} : child'[j] = child[j],
         scope'.state # "Stopped", AgreesOn(k)'
  PROVE  Agreement'
<1>1. scope.state # "Stopped" /\ \A j \in Keys : ~Terminating(j)
  BY Underway
<1>2. sup'.minted = sup.minted /\ \A j \in Keys \ {k} : Same(j)
  BY DEF SameExcept, Same
<1> DEFINE K == {k}
<1>3. QED
  <2>1. K \in SUBSET Keys
    OBVIOUS
  <2>2. \A j \in Keys \ K : Same(j) /\ ~Terminating(j)
    BY <1>1, <1>2
  <2>3. \A j \in K : AgreesOn(j)' /\ (contains(sup', j) => contains(sup, j))
    OBVIOUS
  <2> HIDE DEF K
  <2> QED BY <1>1, <1>2, <2>1, <2>2, <2>3, AgreementStep

-----------------------------------------------------------------------------
(* The initial state and every part of the next-state relation. *)

\* Shell and reducer agree at the start: no child is live.
LEMMA InitAgrees == Init => Agreement
<1> SUFFICES ASSUME Init PROVE Agreement
  OBVIOUS
<1>1. scope.state # "Stopped"
  BY DEF Init
<1>2. \A k \in Keys : child[k].active = 0 /\ child[k].ladder = "None"
  BY DEF Init, FreshChild
<1>3. \A k \in Keys : sup.inc[k] = "Unstarted"
  BY DEF Init, InitialSupervisor, NewSupervisor
<1>4. \A k \in Keys : k > sup.minted => sup.state[k] = "Absent"
  <2>1. sup.minted = Initial
    BY DEF Init, InitialSupervisor, NewSupervisor
  <2>2. \A k \in Keys : k > Initial => k \notin Declared
    BY InitialAssumption DEF Declared
  <2>3. \A k \in Keys : k \notin Declared => sup.state[k] = "Absent"
    BY DEF Init, InitialSupervisor, NewSupervisor
  <2> QED BY <2>1, <2>2, <2>3
<1>5. QED
  BY <1>1, <1>2, <1>3, <1>4 DEF Agreement, AgreesOn, contains

\* Calls that touch neither a live incarnation nor its reducer state.
LEMMA QuietCallsAgree ==
  ASSUME TypeOK, Agreement,
         \/ Start \/ Flush \/ settle_supervisor \/ SettleAgain
         \/ publish_startup_complete \/ RecordFinished \/ force_child
         \/ SelfStop \/ FailStartup \/ PublishFailed
         \/ publish_startup_removals \/ begin_drain_transition \/ BatchEnd
  PROVE  Agreement'
<1>1. todo # <<>> /\ Head(todo).op \notin {"Terminal", "TerminalAborted"}
      /\ child' = child
  BY DEF Start, Flush, settle_supervisor, SettleAgain,
         publish_startup_complete, RecordFinished, force_child, SelfStop,
         FailStartup, PublishFailed, publish_startup_removals,
         begin_drain_transition, BatchEnd, Calling
<1>2. scope.state # "Stopped" /\ sup \in SupervisorState
      /\ scope \in ScopeRecord
  BY <1>1, Underway DEF TypeOK
<1>3. SameMembers(sup, sup) /\ SameMembers(sup, [sup EXCEPT !.effects = <<>>])
  BY <1>2 DEF SameMembers, SupervisorState
<1>4. CASE \/ Start \/ SettleAgain \/ force_child \/ SelfStop
           \/ publish_startup_removals \/ BatchEnd
  BY <1>1, <1>2, <1>3, <1>4, QuietCall
     DEF Start, SettleAgain, force_child, SelfStop, publish_startup_removals,
         BatchEnd
<1>5. CASE Flush
  BY <1>1, <1>2, <1>3, <1>5, QuietCall DEF Flush
<1>6. CASE settle_supervisor
  BY <1>1, <1>2, <1>6, SettleKeeps, QuietCall DEF settle_supervisor
<1>7. CASE publish_startup_complete \/ RecordFinished \/ PublishFailed
  <2>1. scope'.state # "Stopped"
    BY <1>2, <1>7
       DEF publish_startup_complete, RecordFinished, PublishFailed, ScopeRecord
  <2> QED BY <1>1, <1>3, <1>7, <2>1, QuietCall
          DEF publish_startup_complete, RecordFinished, PublishFailed
<1>8. CASE FailStartup
  <2>1. SameMembers(sup, sup')
    BY <1>2, <1>8, LifecycleKeeps DEF FailStartup
  <2> QED BY <1>1, <1>2, <1>8, <2>1, QuietCall DEF FailStartup
<1>9. CASE begin_drain_transition
  <2> DEFINE r == Head(todo).reason
             d == begin_drain(sup, r)
  <2>1. r \in StopReasons \cup {NoReason}
    BY <1>1, CallShape DEF TypeOK
  <2>2. d \in SupervisorState /\ SameMembers(sup, d)
    <3> HIDE DEF r
    <3> QED BY <1>2, <2>1, LifecycleTypes, LifecycleKeeps
  <2>3. SameMembers(d, Settle(d))
    BY <2>2, SettleKeeps
  <2>4. SameMembers(sup, sup')
    BY <1>9, <2>2, <2>3 DEF begin_drain_transition, SameMembers
  <2>5. scope'.state # "Stopped"
    BY <1>2, <1>9 DEF begin_drain_transition, PublishDrain, ScopeRecord
  <2> QED BY <1>1, <1>9, <2>4, <2>5, QuietCall DEF begin_drain_transition
<1>10. QED
  BY <1>4, <1>5, <1>6, <1>7, <1>8, <1>9

\* spawn_child runs a task only where the reducer records one: the child is
\* resident, not live, not disposing, not joined and, since this call is no
\* disposal, not completed; what is left is startable.
LEMMA SpawnAgrees ==
  ASSUME TypeOK, Agreement, spawn_child
  PROVE  Agreement'
<1>0. todo # <<>> /\ Head(todo).op = "StartChild" /\ scope' = scope
  BY DEF spawn_child, Calling
<1>k. PICK k \in Keys : k = Subject
  BY <1>0, SubjectType DEF TypeOK, ChildCalls, ChildEffects
<1>1. /\ todo # <<>> /\ Head(todo).op \notin {"Terminal", "TerminalAborted"}
      /\ k \in Keys /\ scope' = scope
  BY <1>0
<1>2. /\ scope.state # "Stopped" /\ ~Terminating(k) /\ AgreesOn(k)
      /\ sup \in SupervisorState
  BY <1>1, Underway DEF TypeOK, Agreement
<1>3. CASE sup' = RemovalSampled(sup, k) /\ UNCHANGED child
  <2>1. SameExcept(sup, sup', k)
    BY <1>1, <1>2, <1>3, MemberStepsKeep
  <2>2. sup'.inc[k] = sup.inc[k] /\ (contains(sup', k) <=> contains(sup, k))
    BY <1>1, <1>2, <1>3 DEF RemovalSampled, contains, SupervisorState
  <2>3. AgreesOn(k)'
    BY <1>2, <1>3, <2>2 DEF AgreesOn
  <2> QED BY <1>1, <1>2, <1>3, <2>1, <2>2, <2>3, ChildCall
<1>4. CASE UNCHANGED <<sup, child>>
  <2>1. SameMembers(sup, sup')
    BY <1>4 DEF SameMembers
  <2> QED BY <1>1, <1>2, <1>4, <2>1, QuietCall
<1>5. CASE /\ ~removal_latched(k) /\ child[k].active = 0
           /\ ~joined(sup, k) /\ ~is_disposing(sup, k)
           /\ child' = [child EXCEPT ![k] = Incarnate(k)]
           /\ sup' = Spawned(sup, k)
  <2>1. startable(sup, k)
    <3>1. sup.state[k] = "Resident" /\ contains(sup, k)
      BY <1>5 DEF removal_latched, is_removing, contains
    <3>2. sup.inc[k] \in IncarnationStates
          /\ sup.inc[k] \notin {"Active", "Stopping", "Complete", "Joined",
                                "Disposing"}
      BY <1>1, <1>2, <1>5, <3>1
         DEF AgreesOn, joined, is_disposing, SupervisorState
    <3> QED BY <3>1, <3>2 DEF startable, IncarnationStates
  <2>2. SameExcept(sup, sup', k)
    BY <1>1, <1>2, <1>5, MemberStepsKeep
  <2>3. sup'.inc[k] = "Active" /\ contains(sup', k) /\ contains(sup, k)
    BY <1>1, <1>2, <1>5, <2>1
       DEF Spawned, startable, contains, SupervisorState
  <2>4. child'[k].active # 0 /\ child'[k].ladder = "None"
    <3>1. child[k].minted \in Nat /\ child'[k] = Incarnate(k)
      BY <1>1, <1>5, BoundsAssumption DEF TypeOK, ChildRuntime
    <3> QED BY <3>1 DEF Incarnate
  <2>5. AgreesOn(k)'
    BY <2>3, <2>4 DEF AgreesOn
  <2>6. \A j \in Keys \ {k} : child'[j] = child[j]
    BY <1>5 DEF TypeOK
  <2> QED BY <1>1, <1>2, <2>2, <2>3, <2>5, <2>6, ChildCall
<1>6. QED
  BY <1>k, <1>3, <1>4, <1>5 DEF spawn_child

\* Sampling the removal sources moves no incarnation.
LEMMA SampledKeeps ==
  ASSUME NEW s \in SupervisorState, NEW k \in Keys
  PROVE  /\ SameExcept(s, Sampled(s, k), k)
         /\ Sampled(s, k).inc[k] = s.inc[k]
         /\ contains(Sampled(s, k), k) <=> contains(s, k)
<1>1. /\ SameExcept(s, RemovalSampled(s, k), k)
      /\ RemovalSampled(s, k).inc[k] = s.inc[k]
      /\ contains(RemovalSampled(s, k), k) <=> contains(s, k)
  BY MemberStepsKeep DEF RemovalSampled, contains, SupervisorState
<1>2. SameExcept(s, s, k)
  BY DEF SameExcept
<1>3. QED
  BY <1>1, <1>2 DEF Sampled

\* apply_readiness_effect only credits readiness.
LEMMA ReadinessAgrees ==
  ASSUME TypeOK, Agreement, ApplyImmediateReadiness \/ ApplyGatedReadiness
  PROVE  Agreement'
<1>0. /\ todo # <<>> /\ Head(todo).op \in {"BecomeReady", "BecomeReadySettle"}
      /\ BecomeReady(Subject)
  BY DEF ApplyImmediateReadiness, ApplyGatedReadiness, Calling
<1>k. PICK k \in Keys : k = Subject
  BY <1>0, SubjectType DEF TypeOK, ChildCalls
<1>1. /\ todo # <<>> /\ Head(todo).op \notin {"Terminal", "TerminalAborted"}
      /\ k \in Keys /\ BecomeReady(k)
  BY <1>0, <1>k
<1> DEFINE u == Sampled(sup, k)
<1>2. /\ scope.state # "Stopped" /\ ~Terminating(k) /\ AgreesOn(k)
      /\ sup \in SupervisorState
  BY <1>1, Underway DEF TypeOK, Agreement
<1>3. /\ u \in SupervisorState /\ SameExcept(sup, u, k)
      /\ u.inc[k] = sup.inc[k] /\ (contains(u, k) <=> contains(sup, k))
  BY <1>1, <1>2, RemovalSampledType, SampledKeeps
<1>4. SameMembers(u, sup')
  <2> HIDE DEF u
  <2> QED BY <1>1, <1>3, MemberStepsKeep DEF BecomeReady, u
<1>5. /\ SameExcept(sup, sup', k) /\ sup'.inc[k] = sup.inc[k]
      /\ (contains(sup', k) <=> contains(sup, k))
  <2> HIDE DEF u
  <2> QED BY <1>3, <1>4 DEF SameExcept, SameMembers, contains
<1>6. /\ child'[k].active = child[k].active
      /\ child'[k].ladder = child[k].ladder
      /\ \A j \in Keys \ {k} : child'[j] = child[j]
  BY <1>1 DEF BecomeReady, TypeOK, ChildRuntime
<1>7. AgreesOn(k)'
  BY <1>2, <1>5, <1>6 DEF AgreesOn
<1>8. QED
  BY <1>1, <1>2, <1>5, <1>6, <1>7, ChildCall DEF BecomeReady

\* A stop arms a ladder exactly when it moves the member to Stopping.
LEMMA StopAgrees ==
  ASSUME TypeOK, Agreement, begin_stop_child \/ StopTimedOut
  PROVE  Agreement'
<1>0. /\ todo # <<>> /\ Head(todo).op \in {"StopChild", "StopTimedOut"}
      /\ scope' = scope
  BY DEF begin_stop_child, StopTimedOut, BeginStop, Calling
<1>k. PICK k \in Keys : k = Subject
  BY <1>0, SubjectType DEF TypeOK, ChildCalls, ChildEffects
<1>1. todo # <<>> /\ Head(todo).op \notin {"Terminal", "TerminalAborted"}
  BY <1>0
<1>2. /\ scope.state # "Stopped" /\ ~Terminating(k) /\ AgreesOn(k)
      /\ sup \in SupervisorState /\ child \in [Keys -> ChildRuntime]
  BY <1>1, Underway DEF TypeOK, Agreement
<1>3. PICK timeout \in BOOLEAN : BeginStop(timeout)
  BY DEF begin_stop_child, StopTimedOut
<1>4. CASE sup' = sup /\ UNCHANGED child
  <2>1. SameMembers(sup, sup')
    BY <1>4 DEF SameMembers
  <2> QED BY <1>0, <1>1, <1>2, <1>4, <2>1, QuietCall
<1>5. CASE /\ child[k].active # 0 /\ child[k].ladder = "None"
           /\ sup' = StopStarted(sup, k)
           /\ child'[k].active = child[k].active /\ child'[k].ladder # "None"
           /\ \A j \in Keys \ {k} : child'[j] = child[j]
  <2>1. sup.inc[k] = "Active" /\ contains(sup, k)
    BY <1>2, <1>5 DEF AgreesOn
  <2>2. SameExcept(sup, sup', k)
    BY <1>2, <1>5, MemberStepsKeep
  <2>3. sup'.inc[k] = "Stopping" /\ contains(sup', k)
    BY <1>2, <1>5, <2>1
       DEF StopStarted, Transition, contains, SupervisorState
  <2>4. AgreesOn(k)'
    BY <1>5, <2>3 DEF AgreesOn
  <2> QED BY <1>0, <1>1, <1>2, <1>5, <2>1, <2>2, <2>4, ChildCall
<1>6. CASE /\ sup' = sup
           /\ child'[k].active = child[k].active
           /\ child'[k].ladder = child[k].ladder
           /\ \A j \in Keys \ {k} : child'[j] = child[j]
  <2>1. SameExcept(sup, sup', k)
    BY <1>6 DEF SameExcept
  <2>2. AgreesOn(k)'
    BY <1>2, <1>6 DEF AgreesOn
  <2> QED BY <1>0, <1>1, <1>2, <1>6, <2>1, <2>2, ChildCall
<1>7. QED
  <2>1. \/ sup' = sup /\ UNCHANGED child
        \/ /\ child[k].active # 0 /\ child[k].ladder = "None"
           /\ sup' = StopStarted(sup, k)
           /\ child' = [child EXCEPT
                ![k].stage = "Stopping", ![k].timedOut = timeout,
                ![k].gate = IF @ = "Waiting" THEN "Disarmed" ELSE @,
                ![k].ladder = IF Options[k].shutdown = "Abort"
                              THEN "Escalated" ELSE "Cooperative",
                ![k].timers = (@ \ {"Readiness"}) \cup {"Stop"}]
        \/ sup' = sup /\ child' = [child EXCEPT ![k].timers = @ \ {"Restart"}]
    BY <1>k, <1>3 DEF BeginStop
  <2> QED BY <1>2, <1>4, <1>5, <1>6, <2>1 DEF ChildRuntime

\* force_child moves only a ladder that exists.
LEMMA ForceLadderAgrees ==
  ASSUME TypeOK, Agreement, ForceLadder
  PROVE  Agreement'
<1>0. todo # <<>> /\ Head(todo).op = "ForceLadder" /\ scope' = scope /\ sup' = sup
  BY DEF ForceLadder, Calling
<1>k. PICK k \in Keys : k = Subject
  BY <1>0, SubjectType DEF TypeOK, ChildCalls
<1>1. todo # <<>> /\ Head(todo).op \notin {"Terminal", "TerminalAborted"}
  BY <1>0
<1>2. /\ scope.state # "Stopped" /\ ~Terminating(k) /\ AgreesOn(k)
      /\ child \in [Keys -> ChildRuntime]
  BY <1>1, Underway DEF TypeOK, Agreement
<1>3. /\ child'[k].active = child[k].active
      /\ child'[k].ladder # "None" <=> child[k].ladder # "None"
      /\ \A j \in Keys \ {k} : child'[j] = child[j]
  BY <1>k, <1>2 DEF ForceLadder, ChildRuntime
<1>4. SameExcept(sup, sup', k)
  BY <1>0 DEF SameExcept
<1>5. AgreesOn(k)'
  BY <1>0, <1>2, <1>3 DEF AgreesOn
<1>6. QED
  BY <1>0, <1>1, <1>2, <1>3, <1>4, <1>5, ChildCall

\* The disposal of a completed child is the call that names it, so no other
\* child is completed and this one is not afterwards.
LEMMA TerminalAgrees ==
  ASSUME TypeOK, Agreement, Terminal \/ TerminalAborted
  PROVE  Agreement'
<1>0. todo # <<>> /\ Head(todo).op \in {"Terminal", "TerminalAborted"}
      /\ scope' = scope
  BY DEF Terminal, TerminalAborted, BeginTerminal, Calling
<1>k. PICK k \in Keys : k = Subject
  BY <1>0, SubjectType DEF TypeOK, ChildCalls
<1>1. PICK aborted \in BOOLEAN : BeginTerminal(aborted)
  BY DEF Terminal, TerminalAborted
<1>2. /\ scope.state # "Stopped" /\ AgreesOn(k)
      /\ sup \in SupervisorState /\ child \in [Keys -> ChildRuntime]
  BY <1>0 DEF TypeOK, Agreement
<1>3. \A j \in Keys \ {k} : ~Terminating(j)
  <2> TAKE j \in Keys \ {k}
  <2>1. Lowest({j}) = j
    <3>1. {j} \in SUBSET Keys /\ {j} # {}
      OBVIOUS
    <3> QED BY <3>1, LowestIsMember
  <2> QED BY <1>k, <2>1 DEF Terminating, Subject
<1>4. /\ SameExcept(sup, sup', k) /\ (contains(sup', k) => contains(sup, k))
      /\ child'[k].active = child[k].active
      /\ child'[k].ladder = child[k].ladder
      /\ \A j \in Keys \ {k} : child'[j] = child[j]
      /\ AgreesOn(k)'
  <2>1. CASE /\ ~contains(sup, k) \/ is_disposing(sup, k) \/ joined(sup, k)
             /\ UNCHANGED <<sup, child>>
    <3>1. SameExcept(sup, sup', k)
      BY <2>1 DEF SameExcept
    <3>2. AgreesOn(k)'
      BY <1>2, <2>1 DEF AgreesOn, is_disposing, joined
    <3> QED BY <2>1, <3>1, <3>2
  <2>2. CASE /\ contains(sup, k)
             /\ sup' = DisposalStarted(sup, k) /\ child' = publish_terminal(k)
    <3>1. SameExcept(sup, sup', k) /\ contains(sup', k)
      BY <1>2, <2>2, MemberStepsKeep
         DEF DisposalStarted, Transition, contains, SupervisorState
    <3>2. /\ child'[k].active = child[k].active
          /\ child'[k].ladder = child[k].ladder
          /\ \A j \in Keys \ {k} : child'[j] = child[j]
      BY <1>2, <2>2 DEF publish_terminal, ChildRuntime
    <3>3. \/ sup.inc[k] \in {"Unstarted", "Complete", "RestartPending"}
             /\ sup'.inc[k] = "Disposing"
          \/ sup.inc[k] # "Complete" /\ sup'.inc[k] = sup.inc[k]
      BY <1>2, <2>2 DEF DisposalStarted, Transition, SupervisorState
    <3>4. AgreesOn(k)'
      BY <1>2, <2>2, <3>1, <3>2, <3>3 DEF AgreesOn
    <3> QED BY <2>2, <3>1, <3>2, <3>4
  <2>3. QED
    BY <1>k, <1>1, <2>1, <2>2 DEF BeginTerminal
<1> DEFINE K == {k}
<1>5. /\ K \in SUBSET Keys /\ sup'.minted = sup.minted
      /\ \A j \in Keys \ K : Same(j) /\ ~Terminating(j)
      /\ \A j \in K : AgreesOn(j)' /\ (contains(sup', j) => contains(sup, j))
  BY <1>3, <1>4 DEF SameExcept, Same
<1>6. QED
  <2> HIDE DEF K
  <2> QED BY <1>0, <1>2, <1>5, AgreementStep

\* Release, the join and the reclaim find no live incarnation.
LEMMA ReleaseAgrees ==
  ASSUME TypeOK, Agreement,
         Release \/ Disposed \/ prune_terminal \/ finalize_removal
  PROVE  Agreement'
<1>0. /\ todo # <<>>
      /\ Head(todo).op \in {"Release", "Disposed", "Prune", "FinalizeRemoval"}
      /\ scope' = scope
  BY DEF Release, Disposed, prune_terminal, finalize_removal, Calling
<1>k. PICK k \in Keys : k = Subject
  BY <1>0, SubjectType DEF TypeOK, ChildCalls, ChildEffects
<1>1. todo # <<>> /\ Head(todo).op \notin {"Terminal", "TerminalAborted"}
  BY <1>0
<1>2. /\ scope.state # "Stopped" /\ ~Terminating(k) /\ AgreesOn(k)
      /\ sup \in SupervisorState /\ child \in [Keys -> ChildRuntime]
  BY <1>1, Underway DEF TypeOK, Agreement
<1>3. /\ child'[k].active = child[k].active
      /\ child'[k].ladder = child[k].ladder
      /\ \A j \in Keys \ {k} : child'[j] = child[j]
  <2>1. \/ UNCHANGED child
        \/ child' = [child EXCEPT ![k].timers = {}]
        \/ \E b : child' = [child EXCEPT ![k].built = b]
    BY <1>k DEF Release, Disposed, prune_terminal, finalize_removal
  <2> QED BY <1>2, <2>1 DEF ChildRuntime
<1>4. CASE sup' = sup
  <2>1. SameExcept(sup, sup', k)
    BY <1>4 DEF SameExcept
  <2>2. AgreesOn(k)'
    BY <1>2, <1>3, <1>4 DEF AgreesOn
  <2> QED BY <1>0, <1>1, <1>2, <1>3, <1>4, <2>1, <2>2, ChildCall
<1>5. CASE is_disposing(sup, k) /\ sup' = Terminalized(sup, k)
  <2>1. SameExcept(sup, sup', k)
    BY <1>2, <1>5, MemberStepsKeep
  <2>2. contains(sup', k) /\ sup'.inc[k] = "Joined" /\ contains(sup, k)
    <3> DEFINE t == Transition(sup, k, {"Disposing"}, "Joined")
    <3>1. /\ t \in SupervisorState /\ t.inc[k] = "Joined"
          /\ t.state = sup.state /\ contains(sup, k)
      BY <1>2, <1>5 DEF is_disposing, Transition, contains, SupervisorState,
                        IncarnationStates
    <3>2. SameMembers(t, Emit(t, On("FinalizeRemoval", {k})))
      <4> HIDE DEF t
      <4> QED BY <3>1, EmitKeeps
    <3> QED BY <1>5, <3>1, <3>2 DEF Terminalized, SameMembers, contains
  <2>3. AgreesOn(k)'
    BY <1>2, <1>3, <1>5, <2>2 DEF AgreesOn, is_disposing
  <2> QED BY <1>0, <1>1, <1>2, <1>3, <2>1, <2>2, <2>3, ChildCall
<1>6. CASE joined(sup, k) /\ sup' = Reclaim(sup, k)
  <2>1. SameExcept(sup, sup', k)
    BY <1>2, <1>6, MemberStepsKeep
  <2>2. ~contains(sup', k)
    BY <1>2, <1>6 DEF Reclaim, contains, SupervisorState
  <2>3. AgreesOn(k)'
    BY <1>2, <1>3, <1>6, <2>2 DEF AgreesOn, joined
  <2> QED BY <1>0, <1>1, <1>2, <1>3, <2>1, <2>2, <2>3, ChildCall
<1>7. QED
  BY <1>k, <1>4, <1>5, <1>6
     DEF Release, Disposed, prune_terminal, finalize_removal, Reclaim

\* An exit of the live incarnation completes it in the reducer, takes it from
\* the arena, and either makes its disposal the next call or leaves the child
\* waiting for its restart.
LEMMA ExitAgrees ==
  ASSUME TypeOK, Agreement, ExitDispatch
  PROVE  Agreement'
<1>0. todo # <<>> /\ Head(todo).op = "ExitDispatch" /\ scope' = scope
  BY DEF ExitDispatch, Calling
<1>k. PICK k \in Keys : k = Subject
  BY <1>0, SubjectType DEF TypeOK, ChildCalls
<1>1. todo # <<>> /\ Head(todo).op \notin {"Terminal", "TerminalAborted"}
  BY <1>0
<1>2. /\ scope.state # "Stopped" /\ ~Terminating(k) /\ AgreesOn(k)
      /\ sup \in SupervisorState /\ child \in [Keys -> ChildRuntime]
  BY <1>1, Underway DEF TypeOK, Agreement
<1> DEFINE u == IncarnationComplete(sup, k)
           s == Sampled(u, k)
           idle == Inactive(child[k])
<1>3. CASE UNCHANGED <<sup, child>>
  <2>1. SameMembers(sup, sup')
    BY <1>3 DEF SameMembers
  <2> QED BY <1>0, <1>1, <1>2, <1>3, <2>1, QuietCall
<1>4. idle.active = 0 /\ idle.ladder = "None"
  BY <1>2 DEF Inactive, ChildRuntime
<1>5. ASSUME Live(k, cur.inc)
      PROVE  /\ s \in SupervisorState /\ SameExcept(sup, s, k)
             /\ contains(sup, k) /\ contains(s, k) /\ s.inc[k] = "Complete"
  <2>1. contains(sup, k) /\ sup.inc[k] \in {"Active", "Stopping"}
    BY <1>2, <1>5 DEF Live, AgreesOn
  <2>2. u \in SupervisorState /\ SameExcept(sup, u, k)
    BY <1>2, MemberTypes, MemberStepsKeep
  <2>3. contains(u, k) /\ u.inc[k] = "Complete"
    BY <1>2, <2>1 DEF IncarnationComplete, Transition, contains, SupervisorState
  <2> HIDE DEF u
  <2>4. /\ s \in SupervisorState /\ SameExcept(u, s, k)
        /\ contains(s, k) /\ s.inc[k] = "Complete"
    BY <2>2, <2>3, RemovalSampledType, SampledKeeps
  <2> HIDE DEF s
  <2> QED BY <2>1, <2>2, <2>4 DEF SameExcept
<1>6. CASE /\ Live(k, cur.inc)
           /\ sup' = s /\ child' = [child EXCEPT ![k] = idle]
           /\ \E op \in {"Terminal", "TerminalAborted"} :
                Enter(<<On(op, {k})>>)
  <2>1. PICK op \in {"Terminal", "TerminalAborted"} : Enter(<<On(op, {k})>>)
    BY <1>6
  <2>2. Return \in Seq(Call) /\ On(op, {k}) \in Call
    BY <1>0, ReturnType, CallTypes DEF TypeOK, ChildCalls
  <2>3. todo' # <<>> /\ Head(todo') = On(op, {k})
    <3> DEFINE q == Return
               h == On(op, {k})
    <3>1. q \in Seq(Call) /\ h \in Call /\ todo' = <<h>> \o q
      BY <2>1, <2>2 DEF Enter
    <3> HIDE DEF q, h
    <3>2. todo' # <<>> /\ Head(todo') = h
      BY <3>1
    <3> QED BY <3>2 DEF h
  <2>4. Terminating(k)'
    BY <2>3 DEF Terminating, On
  <2>5. child'[k] = idle /\ \A j \in Keys \ {k} : child'[j] = child[j]
    BY <1>2, <1>6
  <2>6. AgreesOn(k)'
    <3> HIDE DEF s, idle
    <3> QED BY <1>4, <1>5, <1>6, <2>4, <2>5 DEF AgreesOn
  <2> HIDE DEF s, idle
  <2> QED BY <1>0, <1>1, <1>2, <1>5, <1>6, <2>5, <2>6, ChildCall
<1>7. CASE /\ Live(k, cur.inc) /\ sup' = RestartPending(s, k)
           /\ \E g, t : child' = [child EXCEPT ![k] =
                            [idle EXCEPT !.stage = g, !.timers = t]]
  <2> HIDE DEF s
  <2>1. /\ SameExcept(s, sup', k) /\ contains(sup', k)
        /\ sup'.inc[k] = "RestartPending"
    BY <1>5, <1>7, MemberStepsKeep
       DEF RestartPending, contains, SupervisorState
  <2>2. SameExcept(sup, sup', k)
    BY <1>5, <1>7, <2>1 DEF SameExcept
  <2>3. /\ child'[k].active = 0 /\ child'[k].ladder = "None"
        /\ \A j \in Keys \ {k} : child'[j] = child[j]
    <3>1. idle \in ChildRuntime
      BY <1>2, InactiveType
    <3> HIDE DEF idle
    <3> QED BY <1>2, <1>4, <1>7, <3>1 DEF ChildRuntime
  <2>4. AgreesOn(k)'
    BY <2>1, <2>3 DEF AgreesOn
  <2> QED BY <1>0, <1>1, <1>2, <1>5, <1>7, <2>2, <2>3, <2>4, ChildCall
<1>8. QED
  BY <1>k, <1>3, <1>6, <1>7 DEF ExitDispatch

\* The epilogue publishes Stopped and leaves no call.
LEMMA EndAgrees ==
  ASSUME TypeOK, Agreement, take_completion \/ DriverAborted
  PROVE  Agreement'
<1>1. ASSUME NEW r, Epilogue(r)
      PROVE  Agreement'
  <2>1. scope'.state = "Stopped" /\ todo' = <<>> /\ sup' = sup
    BY <1>1 DEF Epilogue, TypeOK, ScopeRecord
  <2> QED BY <2>1 DEF Agreement
<1>2. CASE take_completion /\ scope.finished = NoReason
  <2>1. /\ todo # <<>> /\ Head(todo).op \notin {"Terminal", "TerminalAborted"}
        /\ child' = child /\ sup' = sup /\ scope' = scope
    BY <1>2 DEF take_completion, Calling
  <2>2. SameMembers(sup, sup') /\ scope.state # "Stopped"
    BY <2>1, Underway DEF SameMembers
  <2> QED BY <2>1, <2>2, QuietCall
<1>3. QED
  BY <1>1, <1>2 DEF take_completion, DriverAborted

\* Collecting a wake consumes only timers and requests.
LEMMA CollectAgrees ==
  ASSUME TypeOK, Agreement, CollectSome
  PROVE  Agreement'
<1>1. PICK due, arrived : Collect(due, arrived)
  BY DEF CollectSome
<1>2. todo = <<>> /\ scope.state # "Stopped" /\ sup' = sup /\ scope' = scope
  BY <1>1 DEF Collect, Idle
<1>3. \A k \in Keys : /\ child'[k].active = child[k].active
                      /\ child'[k].ladder = child[k].ladder
  BY <1>1 DEF Collect, TypeOK, ChildRuntime
<1> DEFINE K == {}
<1>4. K \in SUBSET Keys /\ (\A j \in K : FALSE)
      /\ \A j \in Keys : Same(j) /\ ~Terminating(j)
  BY <1>2, <1>3 DEF Same, Terminating
<1>5. QED
  <2> HIDE DEF K
  <2> QED BY <1>2, <1>4, AgreementStep

\* Handlers run from the batch loop.  They move gates and ladders of live
\* children, commit removals and admit a child under a fresh key.
LEMMA HandlerAgrees ==
  ASSUME TypeOK, Agreement, NEW e \in batch, Handlers(e)
  PROVE  Agreement'
<1>1. Dispatching(e)
  BY DEF Handlers, HandleShutdown, HandleForce, handle_ready, handle_self_stop,
         handle_exit, HandleConstructionDisposed, HandleReadinessDue,
         HandleRestartDue, HandleStopDue, handle_removal, handle_admission
<1>2. /\ todo # <<>> /\ Head(todo).op \notin {"Terminal", "TerminalAborted"}
      /\ e \in Event
  BY <1>1 DEF Dispatching, Calling, TypeOK
<1>3. /\ scope.state # "Stopped" /\ \A j \in Keys : ~Terminating(j) /\ AgreesOn(j)
      /\ sup \in SupervisorState /\ child \in [Keys -> ChildRuntime]
      /\ scope \in ScopeRecord
  BY <1>2, Underway DEF TypeOK, Agreement
<1>4. SameMembers(sup, sup)
  BY DEF SameMembers
<1> DEFINE k == e.child
<1>5. e.type \in ChildEvents => k \in Keys
  <2>1. \A t \in ChildEvents : t \notin ScopeEvents
    BY DEF ChildEvents, ScopeEvents
  <2> QED BY <1>2, <2>1 DEF Event, EventOf
<1>6. CASE HandleShutdown(e) \/ HandleConstructionDisposed(e) \/ HandleRestartDue(e)
  BY <1>2, <1>3, <1>4, <1>6, QuietCall
     DEF HandleShutdown, HandleConstructionDisposed, HandleRestartDue, Handle
<1>7. CASE HandleForce(e)
  <2>1. SameMembers(sup, sup')
    BY <1>3, <1>7, LifecycleKeeps DEF HandleForce, StopReasons
  <2>2. scope'.state # "Stopped"
    BY <1>3, <1>7 DEF HandleForce, PublishDrain, ScopeRecord
  <2> QED BY <1>2, <1>7, <2>1, <2>2, QuietCall DEF HandleForce
<1>8. ASSUME k \in Keys, sup' = sup, scope' = scope,
             /\ child'[k].active = child[k].active
             /\ child'[k].ladder # "None" <=> child[k].ladder # "None"
             /\ \A j \in Keys \ {k} : child'[j] = child[j]
      PROVE  Agreement'
  <2>1. SameExcept(sup, sup', k)
    BY <1>8 DEF SameExcept
  <2>2. AgreesOn(k)'
    BY <1>3, <1>8 DEF AgreesOn
  <2> QED BY <1>2, <1>3, <1>8, <2>1, <2>2, ChildCall
<1>9. CASE \/ handle_ready(e) \/ handle_self_stop(e) \/ handle_exit(e)
           \/ HandleReadinessDue(e)
  <2>1. k \in Keys /\ sup' = sup /\ scope' = scope
    BY <1>5, <1>9 DEF handle_ready, handle_self_stop, handle_exit,
                      HandleReadinessDue, Handle, ChildEvents
  <2>2. \/ child' = child
        \/ \E g : child' = [child EXCEPT ![k].gate = g]
    BY <1>9 DEF handle_ready, handle_self_stop, handle_exit, HandleReadinessDue
  <2>3. /\ child'[k].active = child[k].active
        /\ child'[k].ladder = child[k].ladder
        /\ \A j \in Keys \ {k} : child'[j] = child[j]
    <3> HIDE DEF k
    <3>1. ASSUME NEW g, child' = [child EXCEPT ![k].gate = g]
          PROVE  /\ child'[k].active = child[k].active
                 /\ child'[k].ladder = child[k].ladder
                 /\ \A j \in Keys \ {k} : child'[j] = child[j]
      BY <1>3, <2>1, <3>1 DEF ChildRuntime
    <3> QED BY <2>2, <3>1
  <2> QED BY <1>8, <2>1, <2>3
<1>10. CASE HandleStopDue(e)
  <2>1. k \in Keys /\ sup' = sup /\ scope' = scope
    BY <1>5, <1>10 DEF HandleStopDue, Handle, ChildEvents
  <2>2. \/ child' = child \/ child' = [child EXCEPT ![k] = Advance(child[k])]
    BY <1>10 DEF HandleStopDue
  <2>3. ASSUME NEW c \in ChildRuntime
        PROVE  /\ Advance(c).active = c.active
               /\ Advance(c).ladder # "None" <=> c.ladder # "None"
    BY DEF Advance, ChildRuntime
  <2>4. /\ child'[k].active = child[k].active
        /\ child'[k].ladder # "None" <=> child[k].ladder # "None"
        /\ \A j \in Keys \ {k} : child'[j] = child[j]
    BY <1>3, <2>1, <2>2, <2>3
  <2> QED BY <1>8, <2>1, <2>4
<1>11. CASE handle_removal(e)
  <2>1. k \in Keys /\ child' = child /\ scope' = scope
    BY <1>5, <1>11 DEF handle_removal, Handle, ChildEvents
  <2>2. /\ SameExcept(sup, sup', k) /\ sup'.inc[k] = sup.inc[k]
        /\ contains(sup', k) <=> contains(sup, k)
    <3> DEFINE t == [sup EXCEPT !.state[k] = "Removing"]
               a == On(IF sup.inc[k] = "Joined" THEN "FinalizeRemoval"
                       ELSE "StopChild", {k})
    <3>1. \/ sup' = sup
          \/ /\ sup.state[k] \in {"Resident", "RemovalSampled"}
             /\ sup' = RemovalLatched(sup, k) /\ sup' = Emit(t, a)
      BY <1>11 DEF handle_removal, RemovalLatched
    <3>2. /\ t \in SupervisorState /\ t.inc = sup.inc
          /\ t.state[k] = "Removing"
      BY <1>3, <2>1 DEF SupervisorState, ChildStates
    <3>3. SameMembers(t, Emit(t, a))
      <4> HIDE DEF t, a
      <4> QED BY <3>2, EmitKeeps
    <3>4. SameExcept(sup, sup, k) /\ SameExcept(sup, RemovalLatched(sup, k), k)
      BY <1>3, <2>1, MemberStepsKeep DEF SameExcept
    <3> HIDE DEF t, a
    <3> QED BY <3>1, <3>2, <3>3, <3>4 DEF SameMembers, contains
  <2>3. AgreesOn(k)'
    BY <1>3, <2>1, <2>2 DEF AgreesOn
  <2> QED BY <1>2, <1>3, <2>1, <2>2, <2>3, ChildCall
<1>12. CASE handle_admission(e)
  <2>1. CASE UNCHANGED <<sup, child>>
    BY <1>2, <1>3, <1>4, <1>12, <2>1, QuietCall DEF handle_admission, Handle
  <2>2. CASE ~UNCHANGED <<sup, child>>
    <3>0. PICK n \in Keys : n = sup.minted + 1
      BY <1>12, <2>2 DEF handle_admission
    <3>1. /\ sup' = admit(sup, FALSE) /\ scope' = scope
          /\ child' = [child EXCEPT ![n].stage = "Admitted"]
      BY <1>12, <2>2, <3>0 DEF handle_admission, Handle
    <3>2. sup.minted \in Nat
      BY <1>3, MaxKeyAssumption DEF SupervisorState
    <3>3. /\ sup'.minted = n /\ sup'.inc[n] = "Unstarted"
          /\ \A j \in Keys \ {n} : /\ sup'.state[j] = sup.state[j]
                                   /\ sup'.inc[j] = sup.inc[j]
      BY <1>3, <3>0, <3>1 DEF admit, SupervisorState
    <3>4. ~contains(sup, n)
      BY <3>0, <3>2 DEF Agreement
    <3>5. \A j \in Keys : /\ child'[j].active = child[j].active
                          /\ child'[j].ladder = child[j].ladder
      BY <1>3, <3>1 DEF ChildRuntime
    <3>6. \A j \in Keys : AgreesOn(j)'
      BY <1>3, <3>3, <3>4, <3>5 DEF AgreesOn, contains
    <3>7. \A j \in Keys : j > sup'.minted => ~contains(sup', j)
      <4> TAKE j \in Keys
      <4>1. j \in Nat
        BY KeysAreNumbers
      <4>2. j > n => j > sup.minted /\ j # n
        BY <3>0, <3>2, <4>1
      <4> QED BY <3>3, <4>2 DEF Agreement, contains
    <3> QED BY <1>3, <3>1, <3>6, <3>7 DEF Agreement
  <2> QED BY <2>1, <2>2
<1>13. QED
  BY <1>6, <1>7, <1>9, <1>10, <1>11, <1>12 DEF Handlers

\* The other actors own neither side of the agreement.
LEMMA EnvironmentAgrees ==
  ASSUME TypeOK, Agreement, Environment
  PROVE  Agreement'
<1>1. todo' = todo /\ sup' = sup /\ scope' = scope
  BY DEF Environment, MarkReady, LocalStop, TaskEnds, remove_dynamic,
         FireFusedCancel, signal_fused_cancel, request_shutdown,
         force_shutdown, start_admission, AncestorFires, DriverVars
<1>2. \/ child' = child
      \/ \E k \in Keys : \/ child' = [child EXCEPT ![k].ready = TRUE]
                         \/ child' = [child EXCEPT ![k].stop = TRUE]
  BY DEF Environment, MarkReady, LocalStop, TaskEnds, remove_dynamic,
         FireFusedCancel, signal_fused_cancel, request_shutdown,
         force_shutdown, start_admission, AncestorFires
<1>3. \A k \in Keys : /\ child'[k].active = child[k].active
                      /\ child'[k].ladder = child[k].ladder
  BY <1>2 DEF TypeOK, ChildRuntime
<1>4. QED
  BY <1>1, <1>3, AgreementKept

\* The shell and the reducer always describe the same incarnation, for any
\* number of children, flavor, role, options, intensity and actors: a child is
\* live in the arena exactly while its member is Active or Stopping, and has a
\* stop ladder exactly while it is Stopping.
THEOREM ReducerAlwaysAgrees == Spec => []ReducerAgrees
<1>1. Init => TypeOK /\ Agreement
  BY InitType, InitAgrees
<1>2. ASSUME TypeOK, Agreement, [Next]_vars
      PROVE  Agreement'
  <2>1. CASE Execute
    BY <1>2, <2>1, QuietCallsAgree, SpawnAgrees, ReadinessAgrees, StopAgrees,
       ForceLadderAgrees, TerminalAgrees, ReleaseAgrees, ExitAgrees,
       EndAgrees, HandlerAgrees DEF Execute
  <2>2. CASE CollectSome
    BY <1>2, <2>2, CollectAgrees
  <2>3. CASE DriverAborted
    BY <1>2, <2>3, EndAgrees
  <2>4. CASE Environment
    BY <1>2, <2>4, EnvironmentAgrees
  <2>5. CASE Quiescent \/ UNCHANGED vars
    BY <1>2, <2>5, AgreementKept DEF Quiescent, vars
  <2>6. QED
    BY <1>2, <2>1, <2>2, <2>3, <2>4, <2>5 DEF Next
<1>3. Agreement => ReducerAgrees
  BY DEF Agreement, AgreesOn, ReducerAgrees
<1>4. QED
  BY <1>1, <1>2, <1>3, TypeCorrect, PTL DEF Spec
=============================================================================
