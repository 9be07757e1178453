--------------------------- MODULE MCScopeDriver ---------------------------
EXTENDS ScopeDriver

Child(restart, readiness, shutdown, retention, oneshot) ==
  [restart |-> restart, readiness |-> readiness, deadline |-> TRUE,
   shutdown |-> shutdown, retention |-> retention, oneshot |-> oneshot,
   backoff |-> TRUE]

\* Two ordered children: a gated one that may restart and an
\* immediate one-shot.
OrderedOptions ==
  <<Child("OnFailure", "Gated", "Graceful", "Retain", FALSE),
    Child("Never", "Immediate", "Abort", "Remove", TRUE)>>

\* A child that restarts during startup, before a gated one.
RestartOptions ==
  <<Child("Always", "Immediate", "Abort", "Retain", FALSE),
    Child("Never", "Gated", "Abort", "Retain", FALSE)>>

\* Two declared children of a dynamic scope that callers remove.
RemovalOptions ==
  <<[Child("Never", "Gated", "Abort", "Remove", FALSE) EXCEPT !.deadline = FALSE],
    Child("Never", "Immediate", "Abort", "Retain", TRUE)>>

\* One such child: a caller removes it, or its admission is cancelled.
SoloOptions == <<Child("OnFailure", "Gated", "Graceful", "Remove", FALSE)>>

\* One declared child; the other key is for an admitted one.
AdmissionOptions ==
  <<Child("Never", "Immediate", "Abort", "Retain", TRUE),
    Child("OnFailure", "Immediate", "Abort", "Remove", FALSE)>>

\* What the driver sees of an ended task, a local stop, an admission or a force
\* request it sees at its next collection, so those steps commute with its calls.
Late ==
  (\/ running' \subseteq running /\ running' # running
   \/ \E k \in Keys : child'[k].stop /\ ~child[k].stop
   \/ \E e \in inflight' \ inflight : e.type = "Admission"
   \/ req'.force = "Pending" /\ req.force = "None")
  => todo = <<>>
=============================================================================
