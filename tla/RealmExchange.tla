---------------------------- MODULE RealmExchange ----------------------------
(***************************************************************************)
(* Two realms that synchronize: each has a store of its own, on which      *)
(* events are created, reconciled and resolved as in FederationReconcile,  *)
(* and pulls from the other by inventories (eml_pmw/federation:            *)
(* inventory.py, importer.py, and the commands of cli.py).  An operator    *)
(* carries the files: inventories are as old as the day they were taken,   *)
(* events arrive in any order and more than once.  Commands on one store   *)
(* run one after the other here; FederationStore has them race.            *)
(***************************************************************************)
EXTENDS Naturals, FiniteSets, CausalGraph

CONSTANTS
  Events, Home,  \* the events, and the realm in which each is created
  Processes, Subjects, Guarded, Verified, MaxConflicts, \* see FederationReconcile
  MaxCrashes,    \* bound on the deaths of a process
  Multiple, NoField, NoId, NoConflict, NoResolution

VARIABLES
  logA, conflictsA, resolutionsA, draftA, rulingA, \* the store of realm a, its processes
  logB, conflictsB, resolutionsB, draftB, rulingB, \* those of realm b
  inventory,   \* the inventory that was last taken of each realm
  wanted,      \* ids that a realm's operator has yet to fetch: missing_from_local
  advertised,  \* ids that the same comparison showed to be missing
  quarantined, \* quarantine/ of each realm
  crashes

realmA == <<logA, conflictsA, resolutionsA, draftA, rulingA>>
realmB == <<logB, conflictsB, resolutionsB, draftB, rulingB>>
exchange == <<inventory, wanted, advertised, quarantined>>
vars == <<realmA, realmB, exchange, crashes>>

Realms == {"a", "b"}
Other == [r \in Realms |-> IF r = "a" THEN "b" ELSE "a"]

A == INSTANCE FederationReconcile WITH
       log <- logA, conflicts <- conflictsA, resolutions <- resolutionsA,
       draft <- draftA, ruling <- rulingA
B == INSTANCE FederationReconcile WITH
       log <- logB, conflicts <- conflictsB, resolutions <- resolutionsB,
       draft <- draftB, ruling <- rulingB

ASSUME ExchangeAssumption ==
  /\ Home \in [Events -> Realms] /\ MaxCrashes \in Nat /\ MaxConflicts \in Nat
  /\ \A e \in Events : e.subject \in Subjects
  /\ NoConflict \notin A!Conflict /\ NoResolution \notin A!Resolution

Log == [r \in Realms |-> IF r = "a" THEN logA ELSE logB]

Init ==
  /\ A!Init /\ B!Init
  /\ inventory = [r \in Realms |-> {}]
  /\ wanted = [r \in Realms |-> {}] /\ advertised = [r \in Realms |-> {}]
  /\ quarantined = [r \in Realms |-> {}]
  /\ crashes = 0

Ids(S) == {e.id : e \in S}

-----------------------------------------------------------------------------
(* Events enter a store, or are quarantined for their id or number, or as   *)
(* part of a cycle; event-create does not look at parents.                  *)

Enter(r, e) ==
  \/ e \in Log[r] /\ UNCHANGED <<realmA, realmB>>
  \/ e \notin Log[r] /\ r = "a" /\ A!Arrive(e) /\ UNCHANGED realmB
  \/ e \notin Log[r] /\ r = "b" /\ B!Arrive(e) /\ UNCHANGED realmA

Quarantine(r, e) ==
  /\ quarantined' = [quarantined EXCEPT ![r] = @ \cup {e}]
  /\ UNCHANGED <<realmA, realmB>>

Create(r, e) ==
  LET S == Log[r] \cup {e}
  IN /\ Home[e] = r /\ e.kind # "resolution" /\ e \notin Log[r] \cup quarantined[r]
     /\ \/ ~SameId(S) /\ ~SameSlot(S) /\ Enter(r, e) /\ UNCHANGED quarantined
        \/ (SameId(S) \/ SameSlot(S)) /\ Quarantine(r, e)
     /\ UNCHANGED <<inventory, wanted, advertised, crashes>>

-----------------------------------------------------------------------------
(* event-inventory, event-diff, event-import.                               *)

\* An inventory has of each event the id, the parents and the digest, which
\* stands for the event itself.
TakeInventory(r) ==
  /\ inventory[r] # Log[r]
  /\ inventory' = [inventory EXCEPT ![r] = Log[r]]
  /\ UNCHANGED <<realmA, realmB, wanted, advertised, quarantined, crashes>>

MissingFromLocal(local, remote) == Ids(remote) \ Ids(local)

Diff(r) == MissingFromLocal(inventory[r], inventory[Other[r]])

\* The parents that the two inventories name and the local one lacks.
Advertise(r) ==
  UNION {e.parents : e \in inventory["a"] \cup inventory["b"]} \ Ids(inventory[r])

Compare(r) ==
  /\ wanted[r] = {} /\ Diff(r) # {}
  /\ wanted' = [wanted EXCEPT ![r] = Diff(r)]
  /\ advertised' = [advertised EXCEPT ![r] = Advertise(r)]
  /\ UNCHANGED <<realmA, realmB, inventory, quarantined, crashes>>

\* Mutant of Expected: nothing is accepted before its parents.
ExpectedNone(r, S) == Missing(S) = {}

\* Parents that are missing, of any event in the log, must be advertised.
Expected(r, S) == Missing(S) \subseteq advertised[r]

\* A refused event is fetched again after the next comparison.
Import(r, e) ==
  LET S == Log[r] \cup {e}
      broken == SameId(S) \/ SameSlot(S) \/ Cyclic(S)
  IN /\ e.id \in wanted[r] /\ e \in Log[Other[r]]
     /\ wanted' = [wanted EXCEPT ![r] = @ \ {e.id}]
     /\ \/ broken /\ Quarantine(r, e)
        \/ ~broken /\ Expected(r, S) /\ Enter(r, e) /\ UNCHANGED quarantined
        \/ ~broken /\ ~Expected(r, S) /\ UNCHANGED <<realmA, realmB, quarantined>>
     /\ UNCHANGED <<inventory, advertised, crashes>>

-----------------------------------------------------------------------------
(* event-reconcile and conflict-resolve, in either realm.                   *)

\* sync-status says "ready".
Ready(r) == Complete(Log[r])

\* Before that a reconciliation finds a causal_history_conflict, which stays
\* where it is and is read by nothing below: FederationReconcile has it.
Reconcile(r, e) ==
  /\ Ready(r)
  /\ \/ r = "a" /\ (\E p \in Processes : A!Look(p, e)) /\ UNCHANGED realmB
     \/ r = "b" /\ (\E p \in Processes : B!Look(p, e)) /\ UNCHANGED realmA
  /\ UNCHANGED <<exchange, crashes>>

Resolve(r, e) ==
  /\ \/ r = "a" /\ (\E p \in Processes : A!Settle(p, e)) /\ UNCHANGED realmB
     \/ r = "b" /\ (\E p \in Processes : B!Settle(p, e)) /\ UNCHANGED realmA
  /\ UNCHANGED <<exchange, crashes>>

Record(r) ==
  /\ \/ r = "a" /\ (\E p \in Processes : A!RecordConflict(p) \/ A!RecordResolution(p))
        /\ UNCHANGED realmB
     \/ r = "b" /\ (\E p \in Processes : B!RecordConflict(p) \/ B!RecordResolution(p))
        /\ UNCHANGED realmA
  /\ UNCHANGED <<exchange, crashes>>

Crash(r) ==
  /\ crashes < MaxCrashes /\ crashes' = crashes + 1
  /\ \/ r = "a" /\ (\E p \in Processes : A!Crash(p)) /\ UNCHANGED realmB
     \/ r = "b" /\ (\E p \in Processes : B!Crash(p)) /\ UNCHANGED realmA
  /\ UNCHANGED exchange

Next ==
  \E r \in Realms :
    \/ TakeInventory(r) \/ Compare(r) \/ Record(r) \/ Crash(r)
    \/ \E e \in Events : Create(r, e) \/ Import(r, e) \/ Reconcile(r, e) \/ Resolve(r, e)

Spec == Init /\ [][Next]_vars

\* Who follows the profile (Federated Event and Sync Profile v1, 10): in every
\* realm, inventories are taken and compared, what is missing is imported, what
\* is in the log is reconciled, and a resolution that is there is carried out.
FairSpec ==
  /\ Spec
  /\ \A r \in Realms :
       /\ WF_vars(TakeInventory(r)) /\ WF_vars(Compare(r)) /\ WF_vars(Record(r))
       /\ WF_vars(\E e \in Events : Import(r, e))
       /\ SF_vars(\E e \in Events : Reconcile(r, e))
       /\ SF_vars(\E e \in logA \cup logB : Resolve(r, e))
=============================================================================
