------------------------------ MODULE Defaults ------------------------------
(***************************************************************************)
(* How a child's policy is resolved (policy.rs, plan.rs): each scope on    *)
(* the way down overlays its ScopeDefaults on what it inherited, a subtree *)
(* edge may reset the inheritance, and the child's own options come last.  *)
(* A behaviour descends one path of the tree and declares a child at its   *)
(* end.                                                                    *)
(***************************************************************************)
EXTENDS Naturals, Sequences, FiniteSetsExt

CONSTANTS
  Layers,    \* ScopeDefaults values a scope may carry
  Options,   \* CommonOptions values a child may carry
  Library,   \* ResolvedDefaults::default()
  MaxDepth

VARIABLES
  path,      \* the scopes descended through: [edge, values]
  defaults,  \* ResolvedDefaults of the innermost scope
  child      \* the child declared there, with what it was resolved to

vars == <<path, defaults, child>>

Unset == "Unset"
Kinds == {"Raw", "Task", "Scope"}
Modes == {"Restartable", "OneShot"}
NoChild == [kind |-> "None"]

\* Mailbox: a kind and the capacity a queue states, 0 when it defers.
NoMailbox == [kind |-> Unset, capacity |-> 0]

resolve(value, inherited) == IF value = Unset THEN inherited ELSE value

\* ResolvedDefaults::resolve_child_mailbox; Latest has no capacity.
resolve_child_mailbox(d, value) ==
  LET kind == resolve(value.kind, d.mailbox_kind)
  IN  [kind |-> kind,
       capacity |-> IF kind = "Latest" THEN 0
                    ELSE IF value.capacity # 0 THEN value.capacity
                    ELSE d.queue_capacity]

\* Fault: a default of another kind resets the capacity.
Fault_ForgetCapacity(d, values) ==
  LET m == resolve_child_mailbox(d, values.mailbox)
  IN  [restart |-> resolve(values.restart, d.restart),
       shutdown |-> resolve(values.shutdown, d.shutdown),
       mailbox_kind |-> m.kind,
       queue_capacity |-> IF m.kind = "Latest" THEN Library.queue_capacity ELSE m.capacity,
       mailbox_shutdown |-> resolve(values.mailbox_shutdown, d.mailbox_shutdown),
       readiness_deadline |-> resolve(values.readiness_deadline, d.readiness_deadline)]
\* ResolvedDefaults::overlay: the capacity outlives a default of another kind.
overlay(d, values) ==
  [restart |-> resolve(values.restart, d.restart),
   shutdown |-> resolve(values.shutdown, d.shutdown),
   mailbox_kind |-> resolve(values.mailbox.kind, d.mailbox_kind),
   queue_capacity |-> IF values.mailbox.capacity # 0 THEN values.mailbox.capacity
                      ELSE d.queue_capacity,
   mailbox_shutdown |-> resolve(values.mailbox_shutdown, d.mailbox_shutdown),
   readiness_deadline |-> resolve(values.readiness_deadline, d.readiness_deadline)]

resolve_common(options, d, mode, default_readiness) ==
  [restart |-> IF mode = "OneShot" THEN "Never" ELSE resolve(options.restart, d.restart),
   shutdown |-> resolve(options.shutdown, d.shutdown),
   mailbox |-> resolve_child_mailbox(d, options.mailbox),
   mailbox_shutdown |-> resolve(options.mailbox_shutdown, d.mailbox_shutdown),
   readiness |-> resolve(options.readiness, default_readiness),
   readiness_deadline |-> resolve(options.readiness_deadline, d.readiness_deadline),
   retention |-> resolve(options.retention, IF mode = "OneShot" THEN "Remove" ELSE "Retain")]

\* SlotCell::resolve_defined_policy: a raw actor's type-level readiness was
\* folded in at erasure; a scope's readiness is structural.
resolve_defined_policy(kind, mode, options, metadata) ==
  CASE kind = "Raw"   -> resolve_common(options, defaults, mode, metadata)
    [] kind = "Task"  -> resolve_common(options, defaults, mode, "Immediate")
    [] kind = "Scope" -> resolve_common([options EXCEPT !.readiness = Unset],
                                        defaults, mode, "Manual")

\* The readiness setters of definition.rs: a task refuses AfterInit (so does
\* a raw actor; a callback actor, erased to Raw, does not), a scope has none.
Settable(kind, options) ==
  /\ kind = "Task" => options.readiness # "AfterInit"
  /\ kind = "Scope" => options.readiness = Unset

Init ==
  /\ path = <<>>
  /\ defaults = Library
  /\ child = NoChild

\* BuilderCore::lower of one more scope, under an edge that inherits or resets.
Descend(edge, values) ==
  /\ Len(path) < MaxDepth /\ child = NoChild
  /\ path' = Append(path, [edge |-> edge, values |-> values])
  /\ defaults' = overlay(IF edge = "Reset" THEN Library ELSE defaults, values)
  /\ UNCHANGED child

Declare(kind, mode, options, metadata) ==
  /\ path # <<>> /\ child = NoChild /\ Settable(kind, options)
  /\ child' = [kind |-> kind, mode |-> mode, options |-> options, metadata |-> metadata,
               policy |-> resolve_defined_policy(kind, mode, options, metadata)]
  /\ UNCHANGED <<path, defaults>>

Next ==
  \/ \E edge \in {"Inherit", "Reset"}, values \in Layers : Descend(edge, values)
  \/ \E kind \in Kinds, mode \in Modes, options \in Options,
        metadata \in {"Immediate", "AfterInit"} : Declare(kind, mode, options, metadata)

Spec == Init /\ [][Next]_vars

-----------------------------------------------------------------------------
(* The rule the docs give, stated without folding: a setting comes from    *)
(* the nearest declaration that states it, looking no further up than the  *)
(* nearest reset edge, and from the library when none does.                *)

Above == LET resets == {i \in DOMAIN path : path[i].edge = "Reset"}
         IN  Max(resets \cup {1})..Len(path)

Nearest(own, At(_), unset, fallback) ==
  LET stating == {i \in Above : At(path[i].values) # unset}
  IN  IF own # unset THEN own
      ELSE IF stating # {} THEN At(path[Max(stating)].values)
      ELSE fallback

\* A child's policy is the nearest declaration's for every setting: a reset
\* edge hides everything above it; a queue's capacity is the nearest one
\* stated, even past a scope whose default is Latest; a one-shot child never
\* restarts and is pruned unless told otherwise; and a scope's readiness is
\* not a setting at all.
NearestWins ==
  child # NoChild =>
    LET o == child.options
        p == child.policy
        kind == Nearest(o.mailbox.kind, LAMBDA v : v.mailbox.kind, Unset, Library.mailbox_kind)
        capacity == Nearest(o.mailbox.capacity, LAMBDA v : v.mailbox.capacity, 0,
                            Library.queue_capacity)
        once == child.mode = "OneShot"
    IN  /\ p.restart = IF once THEN "Never"
                       ELSE Nearest(o.restart, LAMBDA v : v.restart, Unset, Library.restart)
        /\ p.shutdown = Nearest(o.shutdown, LAMBDA v : v.shutdown, Unset, Library.shutdown)
        /\ p.mailbox = [kind |-> kind, capacity |-> IF kind = "Latest" THEN 0 ELSE capacity]
        /\ p.mailbox_shutdown = Nearest(o.mailbox_shutdown, LAMBDA v : v.mailbox_shutdown,
                                        Unset, Library.mailbox_shutdown)
        /\ p.readiness_deadline = Nearest(o.readiness_deadline, LAMBDA v : v.readiness_deadline,
                                          Unset, Library.readiness_deadline)
        /\ p.readiness = IF child.kind = "Scope" THEN "Manual"
                         ELSE IF o.readiness # Unset THEN o.readiness
                         ELSE IF child.kind = "Task" THEN "Immediate" ELSE child.metadata
        /\ p.retention = IF o.retention # Unset THEN o.retention
                         ELSE IF once THEN "Remove" ELSE "Retain"
=============================================================================
