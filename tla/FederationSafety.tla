-------------------------- MODULE FederationSafety --------------------------
(***************************************************************************)
(* What FederationStore is checked and proved for.                         *)
(***************************************************************************)
EXTENDS FederationStore

(* Shape of the state: files are where their names say, and what a process  *)
(* holds at each step of its command.                                       *)
DirectoryOK ==
  /\ payload \in [Refs -> Bytes \cup {NoBytes}]
  /\ file \in [Slots \X Ids -> Events \cup {NoEvent}]
  /\ owner \in [Slots -> Events \cup {NoEvent}]
  /\ index \in [Ids -> Events \cup {NoEvent}]
  /\ duplicates \subseteq Ids \X Sources
  /\ quarantine \subseteq
       {"event_content_collision", "replica_sequence_collision", "causal_cycle"} \X Events
  /\ observation \in [Ids \X Observers -> Observation \cup {NoObservation}]
  /\ crashes \in Nat /\ commands \in Nat /\ abandoned \subseteq Events /\ listed \subseteq Ids
  /\ raced \in BOOLEAN

LocalsOK ==
  /\ pc \in [Processes -> Labels]
  /\ event \in [Processes -> Events \cup {NoEvent}]
  /\ source \in [Processes -> Sources \cup {NoSource}]
  /\ missing \in [Processes -> SUBSET Ids]
  /\ created \in [Processes -> BOOLEAN]
  /\ \A p \in Processes :
       /\ event[p] # NoEvent <=> pc[p] # "idle"
       /\ source[p] # NoSource <=> pc[p] # "idle"
       /\ pc[p] \in {"observe", "note"} => source[p] \in Observers
       /\ created[p] => pc[p] \in {"own", "enter", "observe", "note"}

TypeOK == DirectoryOK /\ LocalsOK

-----------------------------------------------------------------------------
(* IndexedIsWhole: an event that is found through the index has its file,   *)
(* its payload and its sequence number, whatever submissions of the same or *)
(* of colliding events raced or died (store.submit, get_event).             *)
IndexedIsWhole ==
  \A i \in Ids :
    LET e == index[i]
    IN e # NoEvent =>
         /\ e.id = i /\ file[Path(e)] = e
         /\ owner[e.slot] = e /\ payload[e.ref] = e.bytes

(* SlotAccounted: a sequence number is not lost: it belongs to an event in  *)
(* the index, or whose submission is at work or died, or whose id another   *)
(* event took meanwhile (store.submit, sequence index before event index).  *)
SlotAccounted ==
  \A s \in Slots :
    LET e == owner[s]
    IN e # NoEvent =>
         \/ index[e.id] # NoEvent
         \/ e \in abandoned
         \/ \E p \in Processes : event[p] = e

(* ObservationsHold: an observation is of the event in the index; one that  *)
(* does not say pending has all parents there; and only one observer says   *)
(* that it imported the event (import_event; "exact duplicate events        *)
(* process once under concurrent arrival").                                 *)
ObservationsHold ==
  \A x \in Ids \X Observers :
    LET n == observation[x]
    IN n # NoObservation =>
         /\ index[x[1]] = n.event
         /\ n.status = "pending_dependencies" \/ \A i \in n.event.parents : index[i] # NoEvent
         /\ n.status = "imported" =>
              \A o \in Observers :
                LET m == observation[<<x[1], o>>]
                IN m # NoObservation /\ m.status = "imported" => o = x[2]

(* ImplementsContract: the directory implements FederationContract.         *)
Contract == INSTANCE FederationContract WITH
              log <- Stored,
              seen <- {x \in Ids \X Observers : observation[x] # NoObservation}
ImplementsContract == Contract!Spec

(* QuarantineIsFinal: an event that was quarantined for its id or sequence  *)
(* number is not in the index, and an event in it is never quarantined so,  *)
(* whichever of the racing checks of submit and import found the collision. *)
QuarantineIsFinal ==
  \A code \in {"event_content_collision", "replica_sequence_collision"}, e \in Stored :
    <<code, e>> \notin quarantine

-----------------------------------------------------------------------------
(* What import's checks establish of events that come one at a time.        *)

(* ImportsInTurn: "Imports reject cycles, missing required parents"         *)
(* (Federated Event and Sync Profile v1, 9): while events are imported one  *)
(* after the other, whatever else is refused and wherever a process dies,   *)
(* none becomes its own ancestor, and a parent is missing only if an        *)
(* accepted import advertised it (importer.py,                              *)
(* missing_parent_not_advertised).                                          *)
ImportsInTurn == ~raced => ~Cyclic(Stored) /\ Missing(Stored) \subseteq listed
=============================================================================
