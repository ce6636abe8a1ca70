--------------------------- MODULE DeliveryStates ---------------------------
(***************************************************************************)
(* The durable delivery states of the Bridge and the graph its journal     *)
(* admits (eml_bridge/models.py).  A row of the deliveries table keeps its *)
(* whole history; the state column always equals the last entry, so a row  *)
(* is modelled as that sequence and << >> is "no row".                     *)
(***************************************************************************)
EXTENDS Naturals, Sequences

DeliveryState ==
  { "journaled", "resolving_target", "ready", "prompt_submitted",
    "activity_observed", "runtime_settled", "reply_captured", "acknowledged",
    "target_unavailable", "blocked", "suppressed", "uncertain",
    "capture_failed", "failed", "target_authority_mismatch",
    "exact_native_target_not_bound" }

\* The graph as protocol v0.1 had it, before the v0.1.1 errata.
AllowedTransitionsV01 ==
       {"journaled"} \X {"resolving_target", "target_authority_mismatch",
                         "exact_native_target_not_bound", "failed"}
  \cup {"resolving_target"} \X {"ready", "target_unavailable", "failed"}
  \cup {"ready"} \X {"prompt_submitted", "blocked", "suppressed", "failed"}
  \cup {"prompt_submitted"} \X {"activity_observed", "uncertain", "failed"}
  \cup {"activity_observed"} \X {"runtime_settled", "uncertain", "failed"}
  \cup {"runtime_settled"} \X {"reply_captured", "capture_failed", "failed"}
  \cup {"reply_captured"} \X {"acknowledged", "failed"}

AllowedTransitions ==
       {"journaled"} \X {"resolving_target", "target_authority_mismatch",
                         "exact_native_target_not_bound", "failed"}
  \cup {"resolving_target"} \X {"ready", "target_unavailable", "failed"}
  \cup {"ready"} \X {"prompt_submitted", "blocked", "uncertain",
                     "suppressed", "failed"}
  \cup {"prompt_submitted"} \X {"activity_observed", "blocked",
                                "uncertain", "failed"}
  \cup {"activity_observed"} \X {"runtime_settled", "reply_captured",
                                 "blocked", "uncertain", "failed"}
  \cup {"runtime_settled"} \X {"reply_captured", "blocked",
                               "capture_failed", "uncertain", "failed"}
  \cup {"reply_captured"} \X {"acknowledged", "failed"}
  \cup {"uncertain"} \X {"reply_captured", "failed", "uncertain"}

\* transition_delivery lets a state repeat itself, whatever the graph says.
LegalStep(s, t) == t = s \/ <<s, t>> \in AllowedTransitions

\* The states in which deliver() returns: no further step of its own follows.
Resting ==
  { "acknowledged", "reply_captured", "target_unavailable", "blocked",
    "suppressed", "uncertain", "capture_failed", "failed",
    "target_authority_mismatch", "exact_native_target_not_bound" }

\* A row written only by transition_delivery: a walk of the graph from its root.
LegalHistory(h) ==
  h # << >> => /\ h[1] = "journaled"
               /\ \A i \in 1 .. Len(h) - 1 : LegalStep(h[i], h[i + 1])
=============================================================================
