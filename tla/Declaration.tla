----------------------------- MODULE Declaration -----------------------------
(***************************************************************************)
(* From a declared id to a supervised child: membership identity           *)
(* (identity.rs), the slot that owns a child's construction and the        *)
(* builder and plan it passes through (plan.rs), and the dynamic route     *)
(* with its reservations, admissions and removals (tree/slots.rs,          *)
(* tree/admission.rs, driver/admission_control.rs).  One scope is          *)
(* followed through its incarnations; what an admitted child then does is  *)
(* ScopeDriver's.  User calls come from any thread and interleave with the *)
(* driver at every lock and observation gate.                              *)
(***************************************************************************)
EXTENDS Naturals, Sequences, FiniteSets, Functions

CONSTANTS Ids, MaxSlots, MaxBuilds

VARIABLES
  nested,    \* the scope is rebuilt into a stable cell (root_override)
  slots,     \* every SlotCell minted, with its member, handle and answers
  identity,  \* ScopeIdentity of the builder's own root and of the stable cell
  lineages,  \* NEXT_LINEAGE
  scope,     \* phase and number of the incarnation
  builder,   \* BuilderCore::slots
  plan,      \* ScopePlan::children
  children,  \* ScopeRuntime's arena: slots converted by ChildRuntime::from_plan
  entries,   \* DynamicState::entries
  queue,     \* admission requests on the control lane
  install    \* the slot whose admission the driver holds outside the gate

vars == <<nested, slots, identity, lineages, scope, builder, plan, children,
          entries, queue, install>>

-----------------------------------------------------------------------------
(* Identity: a fence is a lineage and a generation; a counter is the last  *)
(* fence it issued.                                                        *)

Untracked == [lineage |-> 0, generation |-> 0]
NoMap == [id \in Ids |-> Untracked]

Supersedes(f, g) == f.lineage = g.lineage /\ f.generation > g.generation
Successor(f) == [f EXCEPT !.generation = @ + 1]

\* mint_membership: the successor of a tracked id, or a lineage never used.
mint_membership(map, id) ==
  IF map[id] = Untracked THEN [lineage |-> lineages + 1, generation |-> 1]
                         ELSE Successor(map[id])
\* adopt_or_mint_membership: an untracked id takes the declared fence over.
adopt_or_mint_membership(map, id, provisional) ==
  IF map[id] = Untracked THEN provisional ELSE Successor(map[id])

\* MemberCell::membership: a rebased fence hides the declared one.
membership(r) == IF r.rebased = Untracked THEN r.fence ELSE r.rebased

\* ScopeIdentity::evict of each member: only the fence issued last.
Evict(map, rs) ==
  [id \in Ids |-> IF \E r \in rs : r.id = id /\ membership(r) = map[id]
                  THEN Untracked ELSE map[id]]

-----------------------------------------------------------------------------
(* Slots. *)

\* Where a construction is once its slot has given it up.
Holders == {"Plan", "Driver", "Disposing", "Disposed"}

\* mint_reserved_slot: a reserved member of scope map `home`, undefined.
NewSlot(id, home, handle, fused) ==
  [id |-> id, build |-> scope.build, home |-> home,
   fence |-> mint_membership(identity[home], id), rebased |-> Untracked,
   stage |-> "Reserved", admitted |-> FALSE,
   definition |-> "Undefined", holders |-> {}, then |-> {},
   handle |-> handle, fused |-> fused, latch |-> FALSE,
   response |-> "None", removal |-> "None", exact |-> 0]

Mint(id, home, handle, fused) ==
  LET r == NewSlot(id, home, handle, fused)
  IN  /\ Len(slots) < MaxSlots
      /\ slots' = Append(slots, r)
      /\ identity' = [identity EXCEPT ![home][id] = r.fence]
      /\ lineages' = lineages + (IF r.fence.generation = 1 THEN 1 ELSE 0)

Known == 1..Len(slots)
RecordsOf(S) == {slots[s] : s \in S}

\* The answers owed once nothing of the construction is left: the dropped
\* entry answers its remover, the request answers its admission.
Answered(r, owed) ==
  [r EXCEPT !.removal = IF "Removal" \in owed /\ @ = "Waiting" THEN "Removed" ELSE @,
            !.response = IF "Admission" \in owed THEN "Err" ELSE @]

\* dispose_definition_then: what is owed waits for the destructor.
dispose_then(r, owed) == [r EXCEPT !.holders = (@ \ {"Driver", "Plan"}) \cup {"Disposing"},
                                   !.then = owed]
NeverStarted(r) == [r EXCEPT !.stage = "Terminal"]

\* Fault: the definition is disposed of and left in the slot.
Fault_KeepDefinition(r, owed) ==
  IF r.definition = "Defined"
  THEN NeverStarted(dispose_then(r, owed))
  ELSE NeverStarted(Answered(r, owed))
\* take_never_started_locked, then the answers `owed`.
take_never_started(r, owed) ==
  IF r.definition = "Defined"
  THEN NeverStarted(dispose_then([r EXCEPT !.definition = "Lowered"], owed))
  ELSE NeverStarted(Answered(r, owed))

\* DynamicState::entry, compared by membership with the slot asked about.
NoEntry == [slot |-> 0, state |-> "None"]
EntryOf(s) ==
  LET e == entries[slots[s].id]
  IN  IF e.slot # 0 /\ membership(slots[e.slot]) = membership(slots[s])
      THEN e ELSE NoEntry
DropEntry(s) == entries' = [entries EXCEPT ![slots[s].id] = NoEntry]

Init ==
  /\ nested \in BOOLEAN
  /\ slots = <<>>
  /\ identity = [own |-> NoMap, stable |-> NoMap]
  /\ lineages = 0
  /\ scope = [phase |-> "Idle", build |-> 0]
  /\ builder = <<>> /\ plan = <<>> /\ queue = <<>>
  /\ children = {}
  /\ entries = [id \in Ids |-> NoEntry]
  /\ install = 0

-----------------------------------------------------------------------------
(* The builder.  A root's builder declares into the cell that will run; a  *)
(* nested scope's factory declares into a throwaway root whose fences the  *)
(* stable cell adopts.                                                     *)

Home == IF nested THEN "own" ELSE "stable"
route == <<children, entries, queue, install>>

\* BuilderCore::new, for each incarnation of a nested scope.
NewBuilder ==
  /\ scope.phase = "Idle"
  /\ scope.build < (IF nested THEN MaxBuilds ELSE 1)
  /\ scope' = [phase |-> "Building", build |-> scope.build + 1]
  /\ identity' = [identity EXCEPT !.own = NoMap]
  /\ UNCHANGED <<nested, slots, lineages, builder, plan, route>>

\* BuilderCore::reserve: an id already declared here is refused.
reserve(id) == \A i \in DOMAIN builder : slots[builder[i]].id # id

\* reserve_* and add_* of a Tree or DynamicTree builder.
ReserveStatic(id) ==
  /\ scope.phase = "Building" /\ reserve(id)
  /\ Mint(id, Home, "Static", FALSE)
  /\ builder' = Append(builder, Len(slots) + 1)
  /\ UNCHANGED <<nested, scope, plan, route>>

\* SlotCell::define, which panics on a second definition and otherwise keeps
\* the construction, whatever has become of the member.
define(s) == slots[s].definition = "Undefined"
Defined(r) == [r EXCEPT !.definition = "Defined"]

\* A static slot is its own handle and may outlive the builder.
DefineStatic(s) ==
  /\ slots[s].handle = "Static" /\ define(s)
  /\ slots' = [slots EXCEPT ![s] = Defined(@)]
  /\ UNCHANGED <<nested, identity, lineages, scope, builder, plan, route>>

Declared == {builder[i] : i \in DOMAIN builder}
Settle(new) == slots' = [s \in Known |-> IF s \in DOMAIN new THEN new[s] ELSE slots[s]]
EvictFrom(map, S) == identity' = [identity EXCEPT ![map] = Evict(@, RecordsOf(S))]

\* The armed builder goes and terminalizes its slots, left as `new`.  Nothing was
\* adopted yet: their fences are in the builder's own map.
Disarm(new) ==
  /\ scope.phase = "Building"
  /\ Settle(new)
  /\ EvictFrom(Home, Declared)
  /\ scope' = [scope EXCEPT !.phase = "Idle"]
  /\ builder' = <<>>
  /\ UNCHANGED <<nested, lineages, plan, route>>
\* BuilderCore::lower finds an undefined slot and disposes of the others'
\* definitions first.
LowerFails ==
  /\ \E s \in Declared : slots[s].definition = "Undefined"
  /\ Disarm([s \in Declared |-> take_never_started(slots[s], {})])
DropBuilder == Disarm([s \in Declared |-> NeverStarted(slots[s])])
\* Once a dropped builder's slot goes too, so does the definition it still has.
ReleaseSlot(s) ==
  /\ slots[s].handle = "Static" /\ slots[s].stage = "Terminal"
  /\ slots[s].definition = "Defined"
  /\ slots' = [slots EXCEPT ![s] = dispose_then([@ EXCEPT !.definition = "Lowered"], {})]
  /\ UNCHANGED <<nested, identity, lineages, scope, builder, plan, route>>

\* BuilderCore::lower with every slot defined: the stable cell adopts each
\* fence, a slot it could not adopt is rebased, and the plan claims every
\* construction.
Adopted(r) ==
  LET f == adopt_or_mint_membership(identity.stable, r.id, r.fence)
  IN  [r EXCEPT !.rebased = IF f = r.fence THEN Untracked ELSE f, !.home = "stable"]
Planned(r) == [r EXCEPT !.definition = "Lowered", !.holders = {"Plan"}]

Lower ==
  /\ scope.phase = "Building"
  /\ \A s \in Declared : slots[s].definition = "Defined"
  /\ LET Lowered(r) == Planned(IF nested THEN Adopted(r) ELSE r)
     IN  /\ Settle([s \in Declared |-> Lowered(slots[s])])
         /\ identity' =
              IF ~nested THEN identity
              ELSE [identity EXCEPT !.stable =
                     [id \in Ids |->
                       IF \E s \in Declared : slots[s].id = id
                       THEN adopt_or_mint_membership(@, id,
                              slots[CHOOSE s \in Declared : slots[s].id = id].fence)
                       ELSE @[id]]]
  /\ plan' = builder /\ builder' = <<>>
  /\ scope' = [scope EXCEPT !.phase = "Planned"]
  /\ UNCHANGED <<nested, lineages, route>>

-----------------------------------------------------------------------------
(* From plan to driver. *)

\* One child leaves the plan for the arena, its terminality with it.
Transfer ==
  /\ scope.phase = "Planned" /\ plan # <<>>
  /\ plan' = Tail(plan)
  /\ children' = children \cup {Head(plan)}
  /\ slots' = [slots EXCEPT ![Head(plan)].holders = {"Driver"}]
  /\ UNCHANGED <<nested, identity, lineages, scope, builder, entries, queue, install>>

\* register_initial, finish_transfer and publish_initial_children: the route
\* opens with every planned child resident.
Publish ==
  /\ scope.phase = "Planned" /\ plan = <<>>
  /\ scope' = [scope EXCEPT !.phase = "Live"]
  /\ entries' = [id \in Ids |->
                  IF \E s \in children : slots[s].id = id
                  THEN [slot |-> CHOOSE s \in children : slots[s].id = id,
                        state |-> "Resident"]
                  ELSE NoEntry]
  /\ Settle([s \in children |-> [slots[s] EXCEPT !.stage = "Admitted", !.admitted = TRUE]])
  /\ UNCHANGED <<nested, identity, lineages, builder, plan, children, queue, install>>

\* The driver unwinds while it converts the plan: terminalize_plan takes the
\* suffix down, discharge_child_terminality the converted prefix.
DropPlan ==
  /\ scope.phase = "Planned"
  /\ LET owed == children \cup {plan[i] : i \in DOMAIN plan}
     IN  /\ Settle([s \in owed |-> NeverStarted(dispose_then(slots[s], {}))])
         /\ EvictFrom("stable", owed)
  /\ scope' = [scope EXCEPT !.phase = "Idle"]
  /\ plan' = <<>> /\ children' = {}
  /\ UNCHANGED <<nested, lineages, builder, entries, queue, install>>

-----------------------------------------------------------------------------
(* The user's side of the dynamic route. *)

fixed == <<nested, scope, builder, plan>>

\* DynamicControl::reserve, under the gate: an open route, no such entry.
reserves(id) == scope.phase = "Live" /\ entries[id].slot = 0

\* reserve_* and add_* of a DynamicScopeRef: `fused` for add_*, whose slot is
\* defined and handed to its Admission before the call returns.
ReserveDynamic(id, fused) ==
  /\ reserves(id)
  /\ Mint(id, "stable", "Slot", fused)
  /\ entries' = [entries EXCEPT ![id] = [slot |-> Len(slots) + 1, state |-> "Reserved"]]
  /\ UNCHANGED <<fixed, children, queue, install>>

\* DynamicSlotEndpoint::define: the slot becomes an unpolled Admission.
DefineDynamic(s) ==
  /\ slots[s].handle = "Slot" /\ define(s)
  /\ slots' = [slots EXCEPT ![s] = [Defined(@) EXCEPT !.handle = "Unpolled"]]
  /\ UNCHANGED <<fixed, identity, lineages, route>>

\* Admission::poll: the first poll queues the request, a later one returns
\* the answer.  The lane of an incarnation that is over answers at once.
Poll(s) ==
  /\ UNCHANGED <<fixed, identity, lineages, children, entries, install>>
  /\ \/ /\ slots[s].handle = "Unpolled"
        /\ LET open == scope.phase \in {"Live", "Draining"} /\ slots[s].build = scope.build
           IN  /\ queue' = IF open THEN Append(queue, s) ELSE queue
               /\ slots' = [slots EXCEPT
                    ![s].handle = "InFlight",
                    ![s].response = IF open THEN @ ELSE "Err"]
     \/ /\ slots[s].handle = "InFlight" /\ slots[s].response # "None"
        /\ slots' = [slots EXCEPT ![s].handle = "Done"]
        /\ UNCHANGED queue

\* cancel_dynamic_reservation_parts, then the answers `owed`: only the
\* reservation of this very membership.  The handle is left as `handle`.
Cancels(s) == EntryOf(s).state = "Reserved"
Cancel(s, owed, handle) ==
  IF Cancels(s)
  THEN /\ slots' = [slots EXCEPT ![s] = [take_never_started(@, owed \cup {"Removal"})
                                           EXCEPT !.handle = handle]]
       /\ DropEntry(s)
       /\ EvictFrom("stable", {s})
  ELSE /\ slots' = [slots EXCEPT ![s] = [Answered(@, owed) EXCEPT !.handle = handle]]
       /\ UNCHANGED <<entries, identity>>

\* A first poll outside a runtime queues nothing and gives the reservation up.
PollRefused(s) ==
  /\ slots[s].handle = "Unpolled"
  /\ Cancel(s, {}, "Refused")
  /\ UNCHANGED <<fixed, lineages, children, queue, install>>

\* A split slot dropped before it is defined.
DropSlot(s) ==
  /\ slots[s].handle = "Slot" /\ ~slots[s].fused
  /\ Cancel(s, {}, "Dropped")
  /\ UNCHANGED <<fixed, lineages, children, queue, install>>

\* Drop for Admission.  A fused one first fires its latch, which latches the
\* removal of a child already resident; a split one in flight detaches.
DropAdmission(s) ==
  LET annuls == slots[s].handle = "Unpolled" \/ slots[s].fused
      fires  == slots[s].fused /\ EntryOf(s).state = "Resident"
  IN  /\ slots[s].handle \in {"Unpolled", "InFlight"}
      /\ slots' = [slots EXCEPT ![s].handle = IF annuls THEN "Annulling" ELSE "Dropped",
                                ![s].latch = slots[s].fused]
      /\ entries' = IF fires THEN [entries EXCEPT ![slots[s].id].state = "Removing"]
                    ELSE entries
      /\ UNCHANGED <<fixed, identity, lineages, children, queue, install>>
\* The second half of annul: reservation.cancel(), a gate of its own.
Annul(s) ==
  /\ slots[s].handle = "Annulling"
  /\ Cancel(s, {}, "Dropped")
  /\ UNCHANGED <<fixed, lineages, children, queue, install>>

\* DynamicControl::remove on an entry: a reservation ends at once, a resident
\* is marked for the driver.
RemoveEntry(t, by) ==
  LET asked(r) == [r EXCEPT !.removal = IF @ = "None" THEN "Waiting" ELSE @,
                            !.exact = IF by = 0 THEN @ ELSE by]
  IN  IF entries[slots[t].id].state = "Reserved"
      THEN /\ slots' = [slots EXCEPT ![t] = take_never_started(asked(@), {"Removal"})]
           /\ DropEntry(t)
           /\ EvictFrom("stable", {t})
      ELSE /\ slots' = [slots EXCEPT ![t] = asked(@)]
           /\ entries' = [entries EXCEPT ![slots[t].id].state = "Removing"]
           /\ UNCHANGED identity

Remove(id) ==
  /\ scope.phase = "Live" /\ entries[id].slot # 0
  /\ RemoveEntry(entries[id].slot, 0)
  /\ UNCHANGED <<fixed, lineages, children, queue, install>>

\* Fault: the entry of the same id is removed, whatever its membership.
Fault_RemoveById(s) ==
  /\ scope.phase = "Live" /\ entries[slots[s].id].slot # 0
  /\ RemoveEntry(entries[slots[s].id].slot, s)
  /\ UNCHANGED <<fixed, lineages, children, queue, install>>
\* remove_exact through a handle: its own membership, or nothing.
RemoveExact(s) ==
  /\ scope.phase = "Live" /\ EntryOf(s).slot # 0
  /\ RemoveEntry(EntryOf(s).slot, s)
  /\ UNCHANGED <<fixed, lineages, children, queue, install>>

-----------------------------------------------------------------------------
(* The driver's side. *)

\* handle_admission up to the gate.  A drain, a fired latch or a definition
\* somebody else claimed rejects the request; otherwise the construction is
\* claimed under the definition lock alone.
HandleAdmission ==
  /\ queue # <<>> /\ install = 0
  /\ queue' = Tail(queue)
  /\ LET s == Head(queue)
     IN  IF scope.phase = "Draining" \/ slots[s].latch \/ slots[s].definition # "Defined"
         THEN Cancel(s, {"Admission"}, slots[s].handle) /\ UNCHANGED install
         ELSE /\ install' = s
              /\ slots' = [slots EXCEPT ![s].definition = "Lowered",
                                        ![s].holders = {"Driver"}]
              /\ UNCHANGED <<entries, identity>>
  /\ UNCHANGED <<fixed, lineages, children>>

\* Fault: a fused cancellation that fired is not looked at again.
Fault_AdmitsCancelled(s) == EntryOf(s).state = "Reserved"
Admits(s) == EntryOf(s).state = "Reserved" /\ ~slots[s].latch

\* The gate of handle_admission: promote the reservation, or take down what
\* is left of it and answer after the disposal.
Install ==
  /\ install # 0
  /\ install' = 0
  /\ LET s == install
         owed == {"Admission"} \cup (IF EntryOf(s).state = "Reserved" THEN {"Removal"} ELSE {})
     IN  IF Admits(s)
         THEN /\ entries' = [entries EXCEPT ![slots[s].id].state = "Resident"]
              /\ children' = children \cup {s}
              /\ slots' = [slots EXCEPT ![s].stage = "Admitted", ![s].admitted = TRUE,
                                        ![s].response = "Ok"]
              /\ UNCHANGED identity
         ELSE /\ IF EntryOf(s).state = "Reserved" THEN DropEntry(s) ELSE UNCHANGED entries
              /\ slots' = [slots EXCEPT ![s] = NeverStarted(dispose_then(@, owed))]
              /\ EvictFrom("stable", {s})
              /\ UNCHANGED children
  /\ UNCHANGED <<fixed, lineages, queue>>

\* A destructor finishes on the disposal lane and releases what waited for it.
Dispose(s) ==
  /\ "Disposing" \in slots[s].holders
  /\ slots' = [slots EXCEPT ![s] =
       [Answered(@, @.then) EXCEPT !.holders = (@ \ {"Disposing"}) \cup {"Disposed"},
                                   !.then = {}]]
  /\ UNCHANGED <<fixed, identity, lineages, route>>

\* terminalize_child, for any exit that is final; the construction goes to
\* disposal behind the published exit.
TerminalizeChild(s) ==
  /\ scope.phase \in {"Live", "Draining"} /\ install = 0
  /\ s \in children /\ slots[s].stage # "Terminal"
  /\ slots' = [slots EXCEPT ![s] = NeverStarted(dispose_then(@, {}))]
  /\ EvictFrom("stable", {s})
  /\ UNCHANGED <<fixed, lineages, route>>

\* finalize_removal of a latched removal, or prune_terminal under
\* Retention::Remove, which answers a removal latched meanwhile.
Reclaim(s) ==
  /\ install = 0
  /\ s \in children /\ "Disposed" \in slots[s].holders
  /\ children' = children \ {s}
  /\ IF EntryOf(s).slot # 0 THEN DropEntry(s) ELSE UNCHANGED entries
  /\ slots' = [slots EXCEPT ![s] = Answered(@, {"Removal"})]
  /\ UNCHANGED <<fixed, identity, lineages, queue, install>>

\* close_admission at drain entry.
BeginDrain ==
  /\ scope.phase = "Live" /\ install = 0
  /\ scope' = [scope EXCEPT !.phase = "Draining"]
  /\ UNCHANGED <<nested, slots, identity, lineages, builder, plan, route>>

\* DynamicControl::close for one entry: a reservation ends here, a resident
\* is taken down with the incarnation and its remover answered after that.
Closed(r, s) ==
  IF entries[r.id].slot = s /\ entries[r.id].state = "Reserved"
  THEN take_never_started(r, {"Removal"})
  ELSE IF s \in children
  THEN Answered(IF r.stage = "Terminal" THEN r ELSE NeverStarted(dispose_then(r, {})), {"Removal"})
  ELSE r

\* The incarnation ends, drained or dropped: the route closes and every
\* request still on the lane is answered as lost.
Finish ==
  /\ scope.phase \in {"Live", "Draining"} /\ install = 0
  /\ scope' = [scope EXCEPT !.phase = "Idle"]
  /\ LET gone == children \cup {entries[id].slot : id \in {i \in Ids : entries[i].slot # 0}}
         lost == {queue[i] : i \in DOMAIN queue}
     IN  /\ slots' = [s \in Known |->
              LET r == Closed(slots[s], s)
              IN  IF s \in lost THEN [r EXCEPT !.response = "Err"] ELSE r]
         /\ EvictFrom("stable", gone)
  /\ queue' = <<>> /\ children' = {}
  /\ entries' = [id \in Ids |-> NoEntry]
  /\ UNCHANGED <<nested, lineages, builder, plan, install>>

Next ==
  \/ NewBuilder \/ LowerFails \/ DropBuilder \/ Lower \/ Transfer \/ Publish \/ DropPlan
  \/ HandleAdmission \/ Install \/ BeginDrain \/ Finish
  \/ \E id \in Ids : ReserveStatic(id) \/ Remove(id)
  \/ \E id \in Ids, fused \in BOOLEAN : ReserveDynamic(id, fused)
  \/ \E s \in Known :
       \/ DefineStatic(s) \/ ReleaseSlot(s) \/ DefineDynamic(s)
       \/ Poll(s) \/ PollRefused(s) \/ DropSlot(s)
       \/ DropAdmission(s) \/ Annul(s) \/ RemoveExact(s)
       \/ Dispose(s) \/ TerminalizeChild(s) \/ Reclaim(s)

Spec == Init /\ [][Next]_vars

-----------------------------------------------------------------------------
(* Properties. *)

Live(r) == r.stage # "Terminal"

\* The stable cell tracks an id exactly while a live member of it holds the
\* fence issued last; no membership ever supersedes another, so a re-added
\* id is a stranger to the handles of its predecessor; and remove_exact only
\* ever reaches the membership its handle names.  A missed or misdirected
\* eviction, anywhere a slot is given up, breaks it.
IdentityFenced ==
  /\ \A id \in Ids :
       identity.stable[id] # Untracked <=>
         \E s \in Known : /\ slots[s].id = id /\ Live(slots[s])
                          /\ slots[s].home = "stable"
                          /\ membership(slots[s]) = identity.stable[id]
  /\ \A s, t \in Known : s # t =>
       /\ membership(slots[s]) # membership(slots[t])
       /\ ~Supersedes(membership(slots[s]), membership(slots[t]))
  /\ \A s \in Known : slots[s].exact \in {0, s}

\* A construction has one holder from definition to destruction, whoever
\* claims it first: lowering, admission, a remover, a cancelled handle or
\* the closing route; and the construction of a slot that ended is on its
\* way to destruction, but for the one the driver holds outside the gate.
OneConstruction ==
  \A s \in Known :
    LET r == slots[s]
    IN  /\ Cardinality(r.holders) + (IF r.definition = "Defined" THEN 1 ELSE 0)
             = (IF r.definition = "Undefined" THEN 0 ELSE 1)
        /\ ~Live(r) /\ s # install => r.holders \subseteq {"Disposing", "Disposed"}

\* What an Admission reports is what happened: Ok for a child that was
\* admitted, an error for one that never was and never will be; and a fused
\* Admission, once dropped, leaves no child running that nobody is removing.
AdmissionHonest ==
  \A s \in Known :
    LET r == slots[s]
    IN  /\ r.response = "Ok" => r.admitted
        /\ r.response = "Err" \/ r.handle = "Refused" => ~r.admitted /\ ~Live(r)
        /\ r.handle = "Dropped" /\ r.fused /\ Live(r) =>
             EntryOf(s).state = "Removing" \/ s = install \/ s \in Range(queue)

\* What the driver's comments promise a remover: by the time it is answered,
\* a construction that was never admitted has been destroyed.
RemovedMeansReleased ==
  \A s \in Known :
    slots[s].removal = "Removed" /\ ~slots[s].admitted =>
      slots[s].holders \subseteq {"Disposed"}
=============================================================================
