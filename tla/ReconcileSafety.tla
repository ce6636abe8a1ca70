-------------------------- MODULE ReconcileSafety --------------------------
(***************************************************************************)
(* What FederationReconcile is checked and proved for.                     *)
(***************************************************************************)
EXTENDS FederationReconcile

(* Shape of the state: a process publishes one thing at a time, and events  *)
(* in the log have ids of their own.                                        *)
TypeOK ==
  /\ log \subseteq Events /\ conflicts \subseteq Conflict /\ resolutions \subseteq Resolution
  /\ draft \in [Processes -> Conflict \cup {NoConflict}]
  /\ ruling \in [Processes -> Resolution \cup {NoResolution}]
  /\ \A p \in Processes : draft[p] = NoConflict \/ ruling[p] = NoResolution
  /\ ~SameId(log)

(* VerdictStands: a conflict that was found between two concurrent events   *)
(* on a reading of the log that is stale when it is published is one        *)
(* between concurrent events for good, whatever parents and descendants     *)
(* arrive (reconcile_event, detect_conflict).                               *)
VerdictStands ==
  \A c \in conflicts : c.class # "causal_history_conflict" =>
    \E l, r \in log :
      /\ l # r /\ c.members = {l.id, r.id}
      /\ l.subject = c.subject /\ r.subject = c.subject
      /\ Concurrent(log, l, r)

(* ResolutionBacked: a resolution is of a recorded conflict, selects one of *)
(* its members, and rests on an event in the log that comes right after all *)
(* members, which are there, with verified authority, wherever              *)
(* conflict-resolve crashed ("A resolution is a new event that names every  *)
(* conflict member", Federated Event and Sync Profile v1, 11).              *)
Backed(x) ==
  /\ x.conflict \in conflicts /\ x.selected \in x.conflict.members
  /\ \E r \in log : /\ r.id = x.event /\ r.subject = x.conflict /\ Empowered(r)
                    /\ r.parents = x.conflict.members
  /\ \A i \in x.conflict.members : \E e \in log : e.id = i

ResolutionBacked == \A x \in resolutions : Backed(x)

(* ConflictChoosesNone: an unresolved conflict between two live values of a *)
(* field chooses none of them, as long as no resolution of another conflict *)
(* speaks of the field ("unresolved conflict is visible and does not choose *)
(* a value", tests/test_federation_projection.py).                          *)
ConflictChoosesNone ==
  \A c \in conflicts, l, r \in log :
    (/\ c.class # "causal_history_conflict" /\ c.members = {l.id, r.id} /\ l # r
     /\ l.field = r.field /\ {l, r} \subseteq Live(l.subject, l.field)
     /\ ~Settled(l.subject, l.field)) =>
       Winners(l.subject, l.field) \cap {l, r} = {}

(* FailClosed: the same of conflicts about authority and identity, without *)
(* the condition ("Identity and authority conflicts always fail closed",    *)
(* Federated Event and Sync Profile v1, 12).                                *)
FailClosed ==
  \A c \in conflicts, l, r \in log :
    (/\ c.class \in {"authority_conflict", "identity_reference_conflict"}
     /\ \A x \in resolutions : x.conflict # c
     /\ c.members = {l.id, r.id} /\ l # r /\ l.field = r.field
     /\ {l, r} \subseteq Live(l.subject, l.field)) =>
       Winners(l.subject, l.field) \cap {l, r} = {}
=============================================================================
