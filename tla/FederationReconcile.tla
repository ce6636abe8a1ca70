------------------------ MODULE FederationReconcile ------------------------
(***************************************************************************)
(* Reconciliation of stored events, resolution of conflicts and the        *)
(* projection of a subject's fields (eml_pmw/federation: reconcile.py,     *)
(* authority.py, projector.py).  The store is seen through                 *)
(* FederationContract, which FederationStore implements: an event is in    *)
(* the log or not.  event-reconcile reads the log and then publishes a     *)
(* conflict; conflict-resolve submits an event and then publishes a        *)
(* resolution; others submit and import in between.                        *)
(***************************************************************************)
EXTENDS Naturals, FiniteSets, CausalGraph

CONSTANTS
  Processes,     \* commands at work on the store
  Events,        \* the events there are to submit
  Subjects,      \* what events are about; of a resolution, the conflict
  Guarded,       \* kinds for which the configuration requires authority
  Verified,      \* what the host's verifier may confirm: authority, action, subject
  MaxConflicts,  \* bound on the conflicts that are looked for
  Multiple,      \* the subject of a conflict between events of several
  NoField, NoId, NoConflict, NoResolution

VARIABLES
  log,         \* events the index leads to
  conflicts,   \* conflicts/
  resolutions, \* resolutions/
  draft,       \* the conflict that a process found and has yet to publish
  ruling       \* the resolution that a process has yet to publish

vars == <<log, conflicts, resolutions, draft, ruling>>

\* The classes reconcile_event can find in one store, in order of precedence.
Priority ==
  [causal_history_conflict |-> 1, authority_conflict |-> 2,
   identity_reference_conflict |-> 3, state_transition_conflict |-> 4,
   field_value_conflict |-> 5]
Classes == DOMAIN Priority

Conflict ==
  [class : Classes, subject : Subjects \cup {Multiple}, members : SUBSET {e.id : e \in Events}]
Resolution ==
  [conflict : Conflict, event : {e.id : e \in Events}, selected : {e.id : e \in Events}]

ASSUME ReconcileAssumption ==
  /\ \A e \in Events : e.subject \in Subjects
  /\ NoConflict \notin Conflict /\ NoResolution \notin Resolution
  /\ MaxConflicts \in Nat

Store == INSTANCE FederationContract WITH Observers <- {}, seen <- {}

Init ==
  /\ log = {} /\ conflicts = {} /\ resolutions = {}
  /\ draft = [p \in Processes |-> NoConflict]
  /\ ruling = [p \in Processes |-> NoResolution]

Idle(p) == draft[p] = NoConflict /\ ruling[p] = NoResolution

\* event-create or an import puts an event into the log; resolves nothing.
Arrive(e) == Store!Append(e) /\ UNCHANGED <<conflicts, resolutions, draft, ruling>>

-----------------------------------------------------------------------------
(* event-reconcile.                                                         *)

\* detect_conflict: the class of a pair is the first that applies.
Applies(S, c, l, r) ==
  IF ~Complete(S) THEN c = "causal_history_conflict"
  ELSE /\ Concurrent(S, l, r) /\ l.subject = r.subject
       /\ \/ c = "authority_conflict" /\ l.authority # r.authority
          \/ c = "identity_reference_conflict" /\ "identity" \in {l.kind, r.kind}
          \/ c = "state_transition_conflict" /\ "transition" \in {l.kind, r.kind}
          \/ c = "field_value_conflict" /\ l.field = r.field /\ l.value # r.value

Candidates(S, e) == {x \in Classes \X (S \ {e}) : Applies(S, x[1], x[2], e)}

Record(c, l, r) ==
  [class |-> c, subject |-> IF l.subject = r.subject THEN l.subject ELSE Multiple,
   members |-> {l.id, r.id}]

Adoptable(e) == e.kind \notin Guarded \/ <<e.authority, "adopt_event", e.subject>> \in Verified

\* Of several candidates of the first class the code takes the first in the
\* order of the log, here any.  Other outcomes leave no trace.
Look(p, e) ==
  /\ Idle(p) /\ Cardinality(conflicts) < MaxConflicts
  /\ e \in log /\ Adoptable(e)
  /\ \E x \in Candidates(log, e) :
       /\ \A y \in Candidates(log, e) : Priority[x[1]] <= Priority[y[1]]
       /\ draft' = [draft EXCEPT ![p] = Record(x[1], x[2], e)]
  /\ UNCHANGED <<log, conflicts, resolutions, ruling>>

\* The id of a conflict is a digest of the record: the same again is kept.
RecordConflict(p) ==
  /\ draft[p] # NoConflict
  /\ conflicts' = conflicts \cup {draft[p]}
  /\ draft' = [draft EXCEPT ![p] = NoConflict]
  /\ UNCHANGED <<log, resolutions, ruling>>

-----------------------------------------------------------------------------
(* conflict-resolve.                                                        *)

Empowered(r) == r.kind \in Guarded /\ <<r.authority, "resolve_conflict", r.subject>> \in Verified

Ruling(r) == [conflict |-> r.subject, event |-> r.id, selected |-> r.selects]

\* Mutant of Settle: the event is left to be submitted by someone else.
SettleUnsubmitted(p, r) ==
  /\ Idle(p)
  /\ r.kind = "resolution" /\ r.subject \in conflicts /\ Empowered(r)
  /\ r.selects \in r.subject.members /\ r.parents = r.subject.members
  /\ ruling' = [ruling EXCEPT ![p] = Ruling(r)]
  /\ UNCHANGED <<log, conflicts, resolutions, draft>>

\* The event is submitted, or has been by a process that went no further.
Settle(p, r) ==
  /\ Idle(p)
  /\ r.kind = "resolution" /\ r.subject \in conflicts /\ Empowered(r)
  /\ r.selects \in r.subject.members /\ r.parents = r.subject.members
  /\ \/ r \in log /\ log' = log
     \/ Store!Append(r)
  /\ ruling' = [ruling EXCEPT ![p] = Ruling(r)]
  /\ UNCHANGED <<conflicts, resolutions, draft>>

RecordResolution(p) ==
  /\ ruling[p] # NoResolution
  /\ resolutions' = resolutions \cup {ruling[p]}
  /\ ruling' = [ruling EXCEPT ![p] = NoResolution]
  /\ UNCHANGED <<log, conflicts, draft>>

Crash(p) ==
  /\ ~Idle(p)
  /\ draft' = [draft EXCEPT ![p] = NoConflict]
  /\ ruling' = [ruling EXCEPT ![p] = NoResolution]
  /\ UNCHANGED <<log, conflicts, resolutions>>

Step(p) == RecordConflict(p) \/ RecordResolution(p) \/ Crash(p)

Next ==
  \/ \E e \in Events : Arrive(e) \/ \E p \in Processes : Look(p, e) \/ Settle(p, e)
  \/ \E p \in Processes : Step(p)

Spec == Init /\ [][Next]_vars

-----------------------------------------------------------------------------
(* The projection of a field, as rebuild_json derives it.                   *)

Retracted == {e.withdraws : e \in log} \cup {e.corrects : e \in log}

Live(s, f) ==
  {e \in log : /\ e.kind # "resolution" /\ e.subject = s /\ e.field = f
               /\ e.id \notin Retracted /\ e.withdraws = NoId}

\* Whether a resolution speaks of the field.
Settled(s, f) == \E x \in resolutions : \E e \in Live(s, f) : e.id \in x.conflict.members

Active(s, f) ==
  IF Settled(s, f)
  THEN {e \in Live(s, f) : \E x \in resolutions : x.selected = e.id}
  ELSE Live(s, f)

\* Mutant of Winners: an event that nothing active comes after.
WinnersLatest(s, f) ==
  {e \in Active(s, f) : \A o \in Active(s, f) \ {e} : e.id \notin Ancestors(log, o)}

\* The value of the field is that of an event which all others precede; if
\* there is none, the active events are listed as unresolved.
Winners(s, f) ==
  {e \in Active(s, f) : \A o \in Active(s, f) \ {e} : o.id \in Ancestors(log, e)}
=============================================================================
