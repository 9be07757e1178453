-------------------------- MODULE SupervisorProofs --------------------------
(***************************************************************************)
(* Facts about the reducer of Supervisor.tla, for every number of keys and *)
(* both scope flavors: what the extremal-key queries return, and that      *)
(* every transition keeps the state well typed.                            *)
(***************************************************************************)
EXTENDS Supervisor, WellFoundedInduction, TLAPS

-----------------------------------------------------------------------------
(* Extremal keys. *)

\* Registration keys are positive numbers.
LEMMA KeysAreNumbers ==
  /\ MaxKey \in Nat /\ MaxKey > 0
  /\ \A k \in Keys : k \in Nat /\ k # NoKey /\ k \in 0..MaxKey
BY MaxKeyAssumption DEF Keys, NoKey

\* A nonempty set of naturals has a least element.
LEMMA LeastElement ==
  ASSUME NEW T \in SUBSET Nat, T # {}
  PROVE  \E x \in T : \A y \in T : x <= y
<1> DEFINE R == {ss \in Nat \X Nat : ss[1] < ss[2]}
<1>1. IsWellFoundedOn(R, Nat)
  BY NatLessThanWellFounded DEF OpToRel
<1>2. \E x \in T : \A y \in T : ~(<<y, x>> \in R)
  <2> HIDE DEF R
  <2> QED BY <1>1, WFMin
<1>3. PICK x \in T : \A y \in T : ~(<<y, x>> \in R)
  BY <1>2
<1>4. ASSUME NEW y \in T
      PROVE  x <= y
  <2>1. x \in Nat /\ y \in Nat /\ <<y, x>> \in Nat \X Nat
    OBVIOUS
  <2>2. ~(y < x)
    BY <1>3, <2>1
  <2> QED BY <2>1, <2>2
<1>5. QED
  BY <1>4

\* Lowest and Highest of a set of keys are None or a member of the set, and
\* None only for the empty set: the range queries of the child map.
LEMMA LowestIsMember ==
  ASSUME NEW S \in SUBSET Keys, S # {}
  PROVE  Lowest(S) \in S /\ \A j \in S : Lowest(S) <= j
<1>1. \E k \in S : \A j \in S : k <= j
  BY LeastElement, KeysAreNumbers
<1>2. QED
  BY <1>1 DEF Lowest

\* previous_key and the stop cursor name a member of the set they search.
LEMMA HighestIsMember ==
  ASSUME NEW S \in SUBSET Keys, S # {}
  PROVE  Highest(S) \in S /\ \A j \in S : j <= Highest(S)
<1> DEFINE T == {MaxKey - k : k \in S}
<1>1. T \in SUBSET Nat /\ T # {}
  <2>1. \A k \in S : k \in Nat /\ MaxKey - k \in Nat
    BY MaxKeyAssumption DEF Keys
  <2> QED BY <2>1
<1>2. PICK t \in T : \A u \in T : t <= u
  BY <1>1, LeastElement
<1>3. PICK k \in S : t = MaxKey - k
  BY <1>2
<1>4. \A j \in S : j <= k
  <2> TAKE j \in S
  <2>1. MaxKey - j \in T
    OBVIOUS
  <2>2. MaxKey - k <= MaxKey - j
    BY <2>1, <1>2, <1>3
  <2>3. j \in Int /\ k \in Int /\ MaxKey \in Int
    BY MaxKeyAssumption, KeysAreNumbers
  <2> QED BY <2>2, <2>3
<1>5. QED
  BY <1>4 DEF Highest

\* The range queries of the reducer return a key or None.
LEMMA RangeQueryTypes ==
  ASSUME NEW S \in SUBSET Keys
  PROVE  Lowest(S) \in 0..MaxKey /\ Highest(S) \in 0..MaxKey
<1>1. CASE S = {}
  BY <1>1, MaxKeyAssumption DEF Lowest, Highest, NoKey
<1>2. CASE S # {}
  <2>1. Lowest(S) \in Keys /\ Highest(S) \in Keys
    BY <1>2, LowestIsMember, HighestIsMember
  <2> QED BY <2>1, MaxKeyAssumption DEF Keys
<1>3. QED
  BY <1>1, <1>2

-----------------------------------------------------------------------------
(* Every transition keeps the type of the reducer's state. *)

\* The effect vector of a state is a sequence of effects.
LEMMA EffectsType ==
  ASSUME NEW s \in SupervisorState, NEW q \in Seq(Effect)
  PROVE  [s EXCEPT !.effects = q] \in SupervisorState
  BY DEF SupervisorState

\* Pushing an effect keeps the state typed.
LEMMA EmitType ==
  ASSUME NEW s \in SupervisorState, NEW e \in Effect
  PROVE  Emit(s, e) \in SupervisorState
<1>1. s.effects \in Seq(Effect)
  BY DEF SupervisorState
<1>2. Append(s.effects, e) \in Seq(Effect)
  BY <1>1
<1>3. QED
  BY <1>2, EffectsType DEF Emit

\* Pushing an effect for a set of children keeps the state typed.
LEMMA EmitOnType ==
  ASSUME NEW s \in SupervisorState, NEW op \in ChildEffects,
         NEW S \in SUBSET Keys
  PROVE  EmitOn(s, op, S) \in SupervisorState
<1>1. S # {} => On(op, S) \in Effect
  BY DEF On, Effect, Concerning
<1>2. QED
  BY <1>1, EmitType DEF EmitOn

\* The scope-level effects are effects.
LEMMA VerdictType ==
  ASSUME NEW op \in ScopeEffects, NEW r \in StopReasons \cup {NoReason}
  PROVE  Verdict(op, r) \in Effect
  BY DEF Verdict, Effect, Concerning

\* The per-child events of apply keep the state typed.
LEMMA MemberTypes ==
  ASSUME NEW s \in SupervisorState, NEW k \in Keys
  PROVE  /\ Spawned(s, k) \in SupervisorState
         /\ Ready(s, k) \in SupervisorState
         /\ IncarnationComplete(s, k) \in SupervisorState
         /\ RestartPending(s, k) \in SupervisorState
         /\ StopStarted(s, k) \in SupervisorState
         /\ DisposalStarted(s, k) \in SupervisorState
         /\ RemovalSampled(s, k) \in SupervisorState
         /\ Reclaim(s, k) \in SupervisorState
<1>1. ASSUME NEW E, NEW n \in IncarnationStates
      PROVE  Transition(s, k, E, n) \in SupervisorState
  BY DEF Transition, SupervisorState
<1>2. Spawned(s, k) \in SupervisorState
  BY DEF Spawned, SupervisorState, IncarnationStates
<1>3. Ready(s, k) \in SupervisorState
  BY DEF Ready, SupervisorState, StartupMemberships
<1>4. RestartPending(s, k) \in SupervisorState
  BY DEF RestartPending, SupervisorState, IncarnationStates, StartupMemberships
<1>5. RemovalSampled(s, k) \in SupervisorState /\ Reclaim(s, k) \in SupervisorState
  BY DEF RemovalSampled, Reclaim, SupervisorState, ChildStates
<1>6. QED
  BY <1>1, <1>2, <1>3, <1>4, <1>5
     DEF IncarnationComplete, StopStarted, DisposalStarted, IncarnationStates

\* The removal events and Reclaim keep the state typed.
LEMMA RemovalTypes ==
  ASSUME NEW s \in SupervisorState, NEW k \in Keys
  PROVE  /\ Terminalized(s, k) \in SupervisorState
         /\ RemovalLatched(s, k) \in SupervisorState
<1>1. \A op \in ChildEffects : On(op, {k}) \in Effect
  BY DEF On, Effect, Concerning
<1>2. Transition(s, k, {"Disposing"}, "Joined") \in SupervisorState
  BY DEF Transition, SupervisorState, IncarnationStates
<1>3. Terminalized(s, k) \in SupervisorState
  BY <1>1, <1>2, EmitType DEF Terminalized, ChildEffects
<1>4. [s EXCEPT !.state[k] = "Removing"] \in SupervisorState
  BY DEF SupervisorState, ChildStates
<1>5. RemovalLatched(s, k) \in SupervisorState
  BY <1>1, <1>4, EmitType DEF RemovalLatched, ChildEffects
<1>6. QED
  BY <1>3, <1>5

\* admit keeps the state typed while keys are left to mint.
LEMMA AdmitType ==
  ASSUME NEW s \in SupervisorState, s.minted + 1 \in Keys,
         NEW initial \in BOOLEAN
  PROVE  admit(s, initial) \in SupervisorState
<1>1. s.minted + 1 \in 0..MaxKey
  BY MaxKeyAssumption DEF Keys
<1>2. QED
  BY <1>1 DEF admit, SupervisorState, ChildStates, IncarnationStates,
              StartupMemberships

\* The registered and the incomplete children are sets of keys.
LEMMA ChildSetTypes ==
  ASSUME NEW s
  PROVE  Children(s) \in SUBSET Keys /\ Incomplete(s) \in SUBSET Keys
  BY DEF Children, Incomplete

\* fail_startup, begin_drain and force keep the state typed.
LEMMA LifecycleTypes ==
  ASSUME NEW s \in SupervisorState, NEW r \in StopReasons \cup {NoReason}
  PROVE  /\ fail_startup(s) \in SupervisorState
         /\ begin_drain(s, r) \in SupervisorState
         /\ force(s) \in SupervisorState
<1>1. fail_startup(s) \in SupervisorState
  BY DEF fail_startup, SupervisorState, LifecyclePhases
<1>2. ASSUME NEW u \in SupervisorState, NEW v \in StopReasons \cup {NoReason}
      PROVE  begin_drain(u, v) \in SupervisorState
  <2> DEFINE d == CASE u.phase = "Starting" -> "Pending"
                    [] u.phase = "Running"  -> "Complete"
                    [] OTHER                -> "Failed"
             t == [u EXCEPT !.phase = "Draining", !.reason = v, !.drained = d]
             c == Highest(Children(u))
  <2>1. [u EXCEPT !.reason = v] \in SupervisorState
    BY DEF SupervisorState
  <2>2. d \in StartupPhases
    BY DEF StartupPhases
  <2>3. t \in SupervisorState
    <3> HIDE DEF d
    <3> QED BY <2>2 DEF SupervisorState, LifecyclePhases
  <2>4. c \in 0..MaxKey
    BY ChildSetTypes, RangeQueryTypes
  <2>5. [t EXCEPT !.cursor = c] \in SupervisorState
    <3> HIDE DEF t, c
    <3> QED BY <2>3, <2>4 DEF SupervisorState
  <2>6. EmitOn(t, "StopChild", Incomplete(u)) \in SupervisorState
    <3> HIDE DEF t
    <3> QED BY <2>3, EmitOnType, ChildSetTypes DEF ChildEffects
  <2>7. QED
    BY <2>1, <2>5, <2>6 DEF begin_drain
<1>3. [s EXCEPT !.forced = TRUE] \in SupervisorState
  BY DEF SupervisorState
<1>4. begin_drain([s EXCEPT !.forced = TRUE], "ShutdownRequested")
        \in SupervisorState
  BY <1>2, <1>3 DEF StopReasons
<1>5. force(s) \in SupervisorState
  BY <1>4, EmitOnType, ChildSetTypes DEF force, ChildEffects
<1>6. QED
  BY <1>1, <1>2, <1>5

\* complete_startup keeps the state typed.
LEMMA CompleteStartupType ==
  ASSUME NEW u \in SupervisorState
  PROVE  complete_startup(u) \in SupervisorState
<1>1. Emit(u, Verdict("StartupCompleted", NoReason)) \in SupervisorState
  BY EmitType, VerdictType DEF ScopeEffects
<1>2. ASSUME NEW v \in SupervisorState
      PROVE  [v EXCEPT !.phase = "Running"] \in SupervisorState
  BY DEF SupervisorState, LifecyclePhases
<1>3. QED
  BY <1>1, <1>2 DEF complete_startup

\* settle_startup keeps the state typed, for both flavors.
LEMMA SettleStartupType ==
  ASSUME NEW u \in SupervisorState
  PROVE  settle_startup(u) \in SupervisorState
<1>1. settle_ordered_start(u) \in SupervisorState
  <2> DEFINE gate == Lowest({k \in Keys : u.next # NoKey /\ k >= u.next
                                            /\ Gates(u, k)})
             t    == [u EXCEPT !.next = gate]
  <2>1. gate \in 0..MaxKey
    BY RangeQueryTypes
  <2>2. t \in SupervisorState
    <3> HIDE DEF gate
    <3> QED BY <2>1 DEF SupervisorState
  <2>3. gate # NoKey => On("StartChild", {gate}) \in Effect
    <3> HIDE DEF gate
    <3>1. gate # NoKey => gate \in Keys
      BY <2>1, MaxKeyAssumption DEF Keys, NoKey
    <3> QED BY <3>1 DEF On, Effect, Concerning, ChildEffects
  <2>4. gate # NoKey => Emit(t, On("StartChild", {gate})) \in SupervisorState
    <3> HIDE DEF gate, t
    <3> QED BY <2>2, <2>3, EmitType
  <2>5. QED
    BY <2>2, <2>4, CompleteStartupType DEF settle_ordered_start
<1>2. settle_dynamic_start(u) \in SupervisorState
  BY CompleteStartupType, EmitOnType DEF settle_dynamic_start, ChildEffects
<1>3. QED
  BY <1>1, <1>2 DEF settle_startup

\* settle_ordered_stop keeps the state typed: its cursors stay keys.
LEMMA SettleStopType ==
  ASSUME NEW u \in SupervisorState
  PROVE  settle_ordered_stop(u) \in SupervisorState
<1> DEFINE last == Highest({k \in Incomplete(u) : k <= u.cursor})
           prev == previous_key(u, last)
           t    == [u EXCEPT !.waiting = last, !.cursor = prev]
<1>1. last \in 0..MaxKey
  BY RangeQueryTypes, ChildSetTypes
<1>2. prev \in 0..MaxKey
  <2> HIDE DEF last
  <2> QED BY RangeQueryTypes, ChildSetTypes DEF previous_key
<1>3. t \in SupervisorState
  <2> HIDE DEF last, prev
  <2> QED BY <1>1, <1>2 DEF SupervisorState
<1>4. last # NoKey => On("StopChild", {last}) \in Effect
  <2> HIDE DEF last
  <2>1. last # NoKey => last \in Keys
    BY <1>1, MaxKeyAssumption DEF Keys, NoKey
  <2> QED BY <2>1 DEF On, Effect, Concerning, ChildEffects
<1>5. last # NoKey => Emit(t, On("StopChild", {last})) \in SupervisorState
  <2> HIDE DEF last, t
  <2> QED BY <1>3, <1>4, EmitType
<1>6. QED
  BY <1>3, <1>5 DEF settle_ordered_stop

\* Settle keeps the state typed.
LEMMA SettleType ==
  ASSUME NEW s \in SupervisorState
  PROVE  Settle(s) \in SupervisorState
<1>1. ASSUME NEW u \in SupervisorState
      PROVE  settle_finish(u) \in SupervisorState
  <2>1. FinishReason(u) \in StopReasons \cup {NoReason}
    BY DEF FinishReason, SupervisorState, StopReasons
  <2>2. Emit(u, Verdict("Finished", FinishReason(u))) \in SupervisorState
    BY <2>1, EmitType, VerdictType DEF ScopeEffects
  <2>3. ASSUME NEW v \in SupervisorState
        PROVE  [v EXCEPT !.emitted = TRUE] \in SupervisorState
    BY DEF SupervisorState
  <2>4. QED
    BY <2>2, <2>3 DEF settle_finish
<1>2. QED
  BY <1>1, SettleStartupType, SettleStopType DEF Settle

-----------------------------------------------------------------------------
(* What a transition does to the members.  The scope-wide transitions leave *)
(* every member alone; the others touch the member they name.               *)

SameMembers(s, t) ==
  t.state = s.state /\ t.inc = s.inc /\ t.minted = s.minted

SameExcept(s, t, k) ==
  /\ t.minted = s.minted
  /\ \A j \in Keys \ {k} : t.state[j] = s.state[j] /\ t.inc[j] = s.inc[j]

\* Pushing an effect changes no child record.
LEMMA EmitKeeps ==
  ASSUME NEW s \in SupervisorState, NEW e
  PROVE  SameMembers(s, Emit(s, e))
<1> DEFINE q == Append(s.effects, e)
<1>1. SameMembers(s, [s EXCEPT !.effects = q])
  <2> HIDE DEF q
  <2> QED BY DEF SameMembers, SupervisorState
<1>2. QED
  BY <1>1 DEF Emit

\* Pushing effects for a set of children changes no child record.
LEMMA EmitOnKeeps ==
  ASSUME NEW s \in SupervisorState, NEW op, NEW S
  PROVE  SameMembers(s, EmitOn(s, op, S))
<1>1. SameMembers(s, s)
  BY DEF SameMembers
<1>2. QED
  BY <1>1, EmitKeeps DEF EmitOn

\* Lifecycle transitions change no child record.
LEMMA LifecycleKeeps ==
  ASSUME NEW s \in SupervisorState, NEW r \in StopReasons \cup {NoReason}
  PROVE  /\ SameMembers(s, fail_startup(s))
         /\ SameMembers(s, begin_drain(s, r))
         /\ SameMembers(s, force(s))
<1>1. SameMembers(s, fail_startup(s))
  BY DEF fail_startup, SameMembers, SupervisorState
<1>2. ASSUME NEW u \in SupervisorState, NEW v \in StopReasons \cup {NoReason}
      PROVE  SameMembers(u, begin_drain(u, v))
  <2> DEFINE d == CASE u.phase = "Starting" -> "Pending"
                    [] u.phase = "Running"  -> "Complete"
                    [] OTHER                -> "Failed"
             t == [u EXCEPT !.phase = "Draining", !.reason = v, !.drained = d]
             c == Highest(Children(u))
  <2>1. d \in StartupPhases
    BY DEF StartupPhases
  <2>2. t \in SupervisorState /\ SameMembers(u, t)
    <3> HIDE DEF d
    <3> QED BY <2>1 DEF SupervisorState, LifecyclePhases, SameMembers
  <2>3. SameMembers(u, [t EXCEPT !.cursor = c])
    <3> HIDE DEF t, c
    <3> QED BY <2>2 DEF SupervisorState, SameMembers
  <2>4. SameMembers(u, EmitOn(t, "StopChild", Incomplete(u)))
    <3> HIDE DEF t
    <3>1. SameMembers(t, EmitOn(t, "StopChild", Incomplete(u)))
      BY <2>2, EmitOnKeeps
    <3> QED BY <2>2, <3>1 DEF SameMembers
  <2>5. SameMembers(u, u) /\ SameMembers(u, [u EXCEPT !.reason = v])
    BY DEF SameMembers, SupervisorState
  <2>6. QED
    BY <2>3, <2>4, <2>5 DEF begin_drain
<1>3. SameMembers(s, force(s))
  <2> DEFINE f == [s EXCEPT !.forced = TRUE]
             d == begin_drain(f, "ShutdownRequested")
  <2>1. f \in SupervisorState /\ SameMembers(s, f)
    BY DEF SupervisorState, SameMembers
  <2>2. "ShutdownRequested" \in StopReasons \cup {NoReason}
    BY DEF StopReasons
  <2>3. d \in SupervisorState /\ SameMembers(f, d)
    <3> HIDE DEF f
    <3> QED BY <1>2, <2>1, <2>2, LifecycleTypes
  <2>4. SameMembers(d, EmitOn(d, "ForceChild", Incomplete(s)))
    <3> HIDE DEF d
    <3> QED BY <2>3, EmitOnKeeps
  <2>5. QED
    BY <2>1, <2>3, <2>4 DEF SameMembers, force
<1>4. QED
  BY <1>1, <1>2, <1>3

\* A per-child event changes the record of its child only.
LEMMA MemberStepsKeep ==
  ASSUME NEW s \in SupervisorState, NEW k \in Keys
  PROVE  /\ SameExcept(s, Spawned(s, k), k)
         /\ SameMembers(s, Ready(s, k))
         /\ SameExcept(s, IncarnationComplete(s, k), k)
         /\ SameExcept(s, RestartPending(s, k), k)
         /\ SameExcept(s, StopStarted(s, k), k)
         /\ SameExcept(s, DisposalStarted(s, k), k)
         /\ SameExcept(s, Terminalized(s, k), k)
         /\ SameExcept(s, RemovalSampled(s, k), k)
         /\ SameExcept(s, RemovalLatched(s, k), k)
         /\ SameExcept(s, Reclaim(s, k), k)
<1>1. ASSUME NEW E, NEW n
      PROVE  SameExcept(s, Transition(s, k, E, n), k)
  BY DEF Transition, SameExcept, SupervisorState
<1>2. /\ SameExcept(s, Spawned(s, k), k)
      /\ SameExcept(s, RestartPending(s, k), k)
      /\ SameExcept(s, RemovalSampled(s, k), k)
      /\ SameExcept(s, Reclaim(s, k), k)
  BY DEF Spawned, RestartPending, RemovalSampled, Reclaim, SameExcept,
         SupervisorState
<1>3. SameMembers(s, Ready(s, k))
  BY DEF Ready, SameMembers, SupervisorState
<1>4. SameExcept(s, Terminalized(s, k), k)
  <2> DEFINE t == Transition(s, k, {"Disposing"}, "Joined")
  <2>1. t \in SupervisorState
    BY DEF Transition, SupervisorState, IncarnationStates
  <2>2. SameMembers(t, Emit(t, On("FinalizeRemoval", {k})))
    <3> HIDE DEF t
    <3> QED BY <2>1, EmitKeeps
  <2>3. SameExcept(s, t, k)
    BY <1>1
  <2> HIDE DEF t
  <2> QED BY <2>2, <2>3 DEF Terminalized, SameExcept, SameMembers, t
<1>5. SameExcept(s, RemovalLatched(s, k), k)
  <2> DEFINE t == [s EXCEPT !.state[k] = "Removing"]
             e == On(IF s.inc[k] = "Joined" THEN "FinalizeRemoval"
                     ELSE "StopChild", {k})
  <2>1. t \in SupervisorState /\ SameExcept(s, t, k)
    BY DEF SupervisorState, ChildStates, SameExcept
  <2>2. SameMembers(t, Emit(t, e))
    <3> HIDE DEF t, e
    <3> QED BY <2>1, EmitKeeps
  <2>3. SameExcept(s, s, k)
    BY DEF SameExcept
  <2>4. RemovalLatched(s, k) = s \/ RemovalLatched(s, k) = Emit(t, e)
    BY DEF RemovalLatched
  <2> HIDE DEF t, e
  <2> QED BY <2>1, <2>2, <2>3, <2>4 DEF SameExcept, SameMembers
<1>6. QED
  BY <1>1, <1>2, <1>3, <1>4, <1>5
     DEF IncarnationComplete, StopStarted, DisposalStarted

\* Settle only decides: it changes no child record.
LEMMA SettleKeeps ==
  ASSUME NEW s \in SupervisorState
  PROVE  SameMembers(s, Settle(s))
<1>0. \A a, b, c : SameMembers(a, b) /\ SameMembers(b, c) => SameMembers(a, c)
  BY DEF SameMembers
<1>1. ASSUME NEW u \in SupervisorState
      PROVE  SameMembers(u, complete_startup(u))
  <2> DEFINE v == Emit(u, Verdict("StartupCompleted", NoReason))
  <2>1. v \in SupervisorState /\ SameMembers(u, v)
    BY EmitType, EmitKeeps, VerdictType DEF ScopeEffects
  <2>2. SameMembers(u, u) /\ SameMembers(u, [v EXCEPT !.phase = "Running"])
    <3> HIDE DEF v
    <3> QED BY <2>1 DEF SameMembers, SupervisorState
  <2>3. QED
    BY <2>2 DEF complete_startup
<1>2. ASSUME NEW u \in SupervisorState
      PROVE  SameMembers(u, settle_ordered_start(u))
  <2> DEFINE gate == Lowest({k \in Keys : u.next # NoKey /\ k >= u.next
                                            /\ Gates(u, k)})
             t    == [u EXCEPT !.next = gate]
  <2>1. gate \in 0..MaxKey
    BY RangeQueryTypes
  <2>2. t \in SupervisorState /\ SameMembers(u, t)
    <3> HIDE DEF gate
    <3> QED BY <2>1 DEF SupervisorState, SameMembers
  <2>3. SameMembers(u, complete_startup(t))
    <3> HIDE DEF t
    <3> QED BY <1>0, <1>1, <2>2
  <2>4. SameMembers(u, Emit(t, On("StartChild", {gate})))
    <3> HIDE DEF t, gate
    <3> QED BY <1>0, <2>2, EmitKeeps
  <2>5. QED
    BY <2>2, <2>3, <2>4 DEF settle_ordered_start
<1>3. ASSUME NEW u \in SupervisorState
      PROVE  SameMembers(u, settle_dynamic_start(u))
  <2> DEFINE S == {k \in Keys : is_initial(u, k) /\ ~u.spawned[k]
                                  /\ startable(u, k)}
             v == EmitOn(u, "StartChild", S)
  <2>1. v \in SupervisorState /\ SameMembers(u, v)
    BY EmitOnType, EmitOnKeeps DEF ChildEffects
  <2>2. SameMembers(u, complete_startup(v))
    <3> HIDE DEF v
    <3> QED BY <1>0, <1>1, <2>1
  <2>3. QED
    BY <2>2 DEF settle_dynamic_start
<1>4. settle_startup(s) \in SupervisorState /\ SameMembers(s, settle_startup(s))
  <2>1. SameMembers(s, s)
    BY DEF SameMembers
  <2>2. SameMembers(s, settle_startup(s))
    BY <1>2, <1>3, <2>1 DEF settle_startup
  <2>3. settle_startup(s) \in SupervisorState
    BY SettleStartupType
  <2> QED BY <2>2, <2>3
<1>5. ASSUME NEW u \in SupervisorState
      PROVE  SameMembers(u, settle_ordered_stop(u))
  <2> DEFINE last == Highest({k \in Incomplete(u) : k <= u.cursor})
             prev == previous_key(u, last)
             t    == [u EXCEPT !.waiting = last, !.cursor = prev]
  <2>1. last \in 0..MaxKey
    BY RangeQueryTypes, ChildSetTypes
  <2>2. prev \in 0..MaxKey
    <3> HIDE DEF last
    <3> QED BY RangeQueryTypes, ChildSetTypes DEF previous_key
  <2>3. t \in SupervisorState /\ SameMembers(u, t) /\ SameMembers(u, u)
    <3> HIDE DEF last, prev
    <3> QED BY <2>1, <2>2 DEF SupervisorState, SameMembers
  <2>4. SameMembers(u, Emit(t, On("StopChild", {last})))
    <3> HIDE DEF last, t
    <3> QED BY <1>0, <2>3, EmitKeeps
  <2>5. QED
    BY <2>3, <2>4 DEF settle_ordered_stop
<1>6. ASSUME NEW u \in SupervisorState
      PROVE  SameMembers(u, settle_finish(u))
  <2> DEFINE v == Emit(u, Verdict("Finished", FinishReason(u)))
  <2>1. FinishReason(u) \in StopReasons \cup {NoReason}
    BY DEF FinishReason, SupervisorState, StopReasons
  <2>2. v \in SupervisorState /\ SameMembers(u, v)
    BY <2>1, EmitType, EmitKeeps, VerdictType DEF ScopeEffects
  <2>3. SameMembers(u, u) /\ SameMembers(u, [v EXCEPT !.emitted = TRUE])
    <3> HIDE DEF v
    <3> QED BY <2>2 DEF SameMembers, SupervisorState
  <2>4. QED
    BY <2>3 DEF settle_finish
<1>7. SameMembers(s, settle_ordered_stop(settle_startup(s)))
  BY <1>0, <1>4, <1>5
<1>8. settle_ordered_stop(settle_startup(s)) \in SupervisorState
  BY <1>4, SettleStopType
<1>9. QED
  BY <1>0, <1>6, <1>7, <1>8 DEF Settle
=============================================================================
