-------------------------- MODULE FederationProofs --------------------------
(***************************************************************************)
(* Proofs about FederationStore, for any number of processes, events and   *)
(* observers, with and without deaths.                                     *)
(***************************************************************************)
EXTENDS FederationSafety, TLAPS

(* What a process has put down, or found, by each step of submit.           *)
HolderOK(p) ==
  /\ pc[p] \in {"file", "write", "own", "enter"} => payload[event[p].ref] = event[p].bytes
  /\ pc[p] \in {"own", "enter"} => file[Path(event[p])] = event[p]
  /\ pc[p] = "enter" => owner[event[p].slot] = event[p]
  /\ pc[p] \in {"duplicate", "record", "observe", "note"} => index[event[p].id] = event[p]

(* The sequence number comes after the file and the payload.                *)
OwnerIsWhole ==
  \A s \in Slots :
    LET e == owner[s]
    IN e # NoEvent => e.slot = s /\ file[Path(e)] = e /\ payload[e.ref] = e.bytes

(* What keeps a quarantined event out stays.                                *)
QuarantineBlocks ==
  \A e \in Events :
    /\ <<"event_content_collision", e>> \in quarantine =>
         index[e.id] \notin {NoEvent, e} \/ file[Path(e)] \notin {NoEvent, e}
    /\ <<"replica_sequence_collision", e>> \in quarantine =>
         owner[e.slot] \notin {NoEvent, e}

StoreInv ==
  /\ TypeOK /\ IndexedIsWhole /\ OwnerIsWhole /\ QuarantineBlocks
  /\ \A p \in Processes : HolderOK(p)

(* Files stay: no step replaces or removes one.                             *)
FilesKept ==
  /\ \A r \in Refs : payload[r] # NoBytes => payload'[r] = payload[r]
  /\ \A f \in Slots \X Ids : file[f] # NoEvent => file'[f] = file[f]
  /\ \A s \in Slots : owner[s] # NoEvent => owner'[s] = owner[s]
  /\ \A i \in Ids : index[i] # NoEvent => index'[i] = index[i]

(* A process's step leaves the others where they are.                       *)
OthersKept(p) ==
  \A q \in Processes \ {p} :
    /\ pc'[q] = pc[q] /\ event'[q] = event[q] /\ source'[q] = source[q]
    /\ missing'[q] = missing[q] /\ created'[q] = created[q]

-----------------------------------------------------------------------------
LEMMA StoreInit == Init => StoreInv
<1> SUFFICES ASSUME Init PROVE StoreInv  OBVIOUS
<1>1. TypeOK  BY FederationAssumption DEF Init, TypeOK, DirectoryOK, LocalsOK, Labels
<1>2. IndexedIsWhole /\ OwnerIsWhole  BY DEF Init, IndexedIsWhole, OwnerIsWhole
<1>3. QuarantineBlocks  BY DEF Init, QuarantineBlocks
<1>4. \A p \in Processes : HolderOK(p)  BY DEF Init, HolderOK
<1>5. QED  BY <1>1, <1>2, <1>3, <1>4 DEF StoreInv

LEMMA EventFacts ==
  ASSUME NEW e \in Events
  PROVE  /\ e # NoEvent /\ e.id \in Ids /\ e.slot \in Slots /\ e.ref \in Refs
         /\ e.bytes \in Bytes /\ e.bytes # NoBytes /\ e.parents \subseteq Ids
         /\ Path(e) \in Slots \X Ids
  BY FederationAssumption DEF Event, Path

(* What a process at work holds.                                            *)
LEMMA Held ==
  ASSUME TypeOK, NEW p \in Processes, pc[p] # "idle"
  PROVE  event[p] \in Events /\ source[p] \in Sources /\ missing[p] \subseteq Ids
  BY DEF TypeOK, LocalsOK

LEMMA Finishing ==
  ASSUME TypeOK, NEW p \in Processes, Finish(p)
  PROVE  LocalsOK' /\ HolderOK(p)' /\ OthersKept(p) /\ pc'[p] = "idle"
<1> USE DEF TypeOK, LocalsOK
<1>1. /\ pc'[p] = "idle" /\ event'[p] = NoEvent /\ source'[p] = NoSource
      /\ missing'[p] = {} /\ created'[p] = FALSE
  BY DEF Finish
<1>2. /\ pc' \in [Processes -> Labels] /\ event' \in [Processes -> Events \cup {NoEvent}]
      /\ source' \in [Processes -> Sources \cup {NoSource}]
      /\ missing' \in [Processes -> SUBSET Ids] /\ created' \in [Processes -> BOOLEAN]
  BY DEF Finish, Labels
<1>3. OthersKept(p)  BY DEF Finish, OthersKept
<1>4. HolderOK(p)'  BY <1>1 DEF HolderOK
<1>5. QED  BY <1>1, <1>2, <1>3, <1>4 DEF OthersKept

LEMMA GoingOn ==
  ASSUME TypeOK, NEW p \in Processes, NEW l \in Labels \ {"idle"}, pc[p] # "idle", Goto(p, l),
         l \in {"observe", "note"} => source[p] \in Observers,
         created[p] => l \in {"own", "enter", "observe", "note"}
  PROVE  /\ LocalsOK' /\ OthersKept(p) /\ pc'[p] = l
         /\ UNCHANGED <<event, source, missing, created>>
<1> USE DEF TypeOK, LocalsOK
<1>1. pc'[p] = l /\ OthersKept(p) /\ UNCHANGED <<event, source, missing, created>>
  BY DEF Goto, OthersKept
<1>2. pc' \in [Processes -> Labels]  BY DEF Goto
<1>3. QED  BY <1>1, <1>2 DEF OthersKept

LEMMA Beginning ==
  ASSUME TypeOK, NEW p \in Processes, NEW e \in Events, NEW x \in Sources,
         NEW m \in SUBSET Ids, Begin(p, e, x, m)
  PROVE  /\ LocalsOK' /\ HolderOK(p)' /\ OthersKept(p) /\ commands' \in Nat
         /\ pc[p] = "idle" /\ pc'[p] = "index" /\ event'[p] = e
<1> USE DEF TypeOK, LocalsOK, DirectoryOK
<1>1. /\ pc[p] = "idle" /\ pc'[p] = "index" /\ event'[p] = e /\ source'[p] = x
      /\ created' = created /\ commands' \in Nat
  BY DEF Begin, Asked
<1>2. /\ pc' \in [Processes -> Labels] /\ event' \in [Processes -> Events \cup {NoEvent}]
      /\ source' \in [Processes -> Sources \cup {NoSource}]
      /\ missing' \in [Processes -> SUBSET Ids]
  BY DEF Begin, Labels
<1>3. OthersKept(p)  BY DEF Begin, OthersKept
<1>4. HolderOK(p)'  BY <1>1 DEF HolderOK
<1>5. x # NoSource /\ e # NoEvent  BY FederationAssumption
<1>6. QED  BY <1>1, <1>2, <1>3, <1>4, <1>5 DEF OthersKept

(* The other processes keep what they rely on.                              *)
LEMMA OthersHold ==
  ASSUME StoreInv, NEW p \in Processes, OthersKept(p), FilesKept
  PROVE  \A q \in Processes \ {p} : HolderOK(q)'
<1> SUFFICES ASSUME NEW q \in Processes, q # p PROVE HolderOK(q)'  OBVIOUS
<1>1. pc'[q] = pc[q] /\ event'[q] = event[q]  BY DEF OthersKept
<1>2. HolderOK(q) /\ TypeOK  BY DEF StoreInv
<1>3. CASE pc[q] = "idle"  BY <1>1, <1>3 DEF HolderOK
<1>4. CASE pc[q] # "idle"
  <2>1. event[q] \in Events  BY <1>2, <1>4, Held
  <2>2. QED  BY <1>1, <1>2, <2>1, EventFacts DEF HolderOK, FilesKept
<1>5. QED  BY <1>3, <1>4

(* A step that publishes no file.                                           *)
LEMMA Unpublished ==
  ASSUME StoreInv, NEW p \in Processes, UNCHANGED store, DirectoryOK', LocalsOK',
         HolderOK(p)', OthersKept(p),
         quarantine' = quarantine \/ QuarantineBlocks'
  PROVE  StoreInv' /\ FilesKept
<1>1. FilesKept  BY DEF store, FilesKept
<1>2. IndexedIsWhole' /\ OwnerIsWhole' /\ QuarantineBlocks'
  BY DEF StoreInv, IndexedIsWhole, OwnerIsWhole, QuarantineBlocks, store
<1>3. QED  BY <1>1, <1>2, OthersHold DEF StoreInv, TypeOK

(* Quarantine for a collision that will stay.                               *)
LEMMA Quarantining ==
  ASSUME StoreInv, NEW e \in Events, UNCHANGED store,
         NEW code \in {"event_content_collision", "replica_sequence_collision", "causal_cycle"},
         Quarantine(code, e),
         code = "event_content_collision" =>
           index[e.id] \notin {NoEvent, e} \/ file[Path(e)] \notin {NoEvent, e},
         code = "replica_sequence_collision" => owner[e.slot] \notin {NoEvent, e}
  PROVE  /\ QuarantineBlocks' /\ UNCHANGED <<duplicates, observation>>
         /\ quarantine' \subseteq
              {"event_content_collision", "replica_sequence_collision", "causal_cycle"} \X Events
  BY DEF StoreInv, TypeOK, DirectoryOK, QuarantineBlocks, Quarantine, store

-----------------------------------------------------------------------------
(* One lemma for each step of a command.                                    *)

LEMMA CreateStep ==
  ASSUME StoreInv, NEW p \in Processes, NEW e \in Events, NEW y \in Deliveries, Create(p, e, y)
  PROVE  StoreInv' /\ FilesKept
<1>1. y \in Sources /\ {} \in SUBSET Ids  BY DEF Sources
<1>2. /\ LocalsOK' /\ HolderOK(p)' /\ OthersKept(p) /\ commands' \in Nat
  BY <1>1, Beginning DEF Create, StoreInv
<1>3. DirectoryOK'
  BY <1>2 DEF Create, StoreInv, TypeOK, DirectoryOK, store, notes
<1>4. QED  BY <1>2, <1>3, Unpublished DEF Create, notes

LEMMA StoredFacts ==
  ASSUME TypeOK
  PROVE  Stored \subseteq Events /\ \A S \in SUBSET Events : Missing(S) \subseteq Ids
<1>1. Stored \subseteq Events  BY DEF TypeOK, DirectoryOK, Stored
<1>2. \A S \in SUBSET Events : Missing(S) \subseteq Ids  BY EventFacts DEF Missing
<1>3. QED  BY <1>1, <1>2

LEMMA ImportStep ==
  ASSUME StoreInv, NEW p \in Processes, NEW e \in Events, NEW o \in Observers, NEW a \in Lists,
         Import(p, e, o, a)
  PROVE  StoreInv' /\ FilesKept
<1> DEFINE m == Missing(Stored \cup {e})
<1>1. o \in Sources /\ m \in SUBSET Ids /\ a \subseteq Ids
  BY StoredFacts, FederationAssumption DEF Sources, StoreInv
<1>2. Begin(p, e, o, m)  BY DEF Import
<1> HIDE DEF m
<1>3. /\ LocalsOK' /\ HolderOK(p)' /\ OthersKept(p) /\ commands' \in Nat
  BY <1>1, <1>2, Beginning DEF StoreInv
<1>4. UNCHANGED <<store, notes, abandoned, crashes>> /\ listed' = listed \cup a /\ raced' \in BOOLEAN
  <2>1. (\E q \in Processes : pc[q] # "idle") \in BOOLEAN  OBVIOUS
  <2>2. raced \in BOOLEAN  BY DEF StoreInv, TypeOK, DirectoryOK
  <2>3. QED  BY <2>1, <2>2 DEF Import
<1>5. DirectoryOK'
  BY <1>1, <1>3, <1>4 DEF StoreInv, TypeOK, DirectoryOK, store, notes
<1>6. QED  BY <1>3, <1>4, <1>5, Unpublished DEF notes

(* A collision with an event in the store.                                  *)
LEMMA Collisions ==
  ASSUME StoreInv, NEW e \in Events
  PROVE  /\ SameId(Stored \cup {e}) => index[e.id] \notin {NoEvent, e}
         /\ SameSlot(Stored \cup {e}) => owner[e.slot] \notin {NoEvent, e}
<1>1. \A f \in Stored : f \in Events /\ index[f.id] = f /\ owner[f.slot] = f
  BY StoredFacts DEF StoreInv, IndexedIsWhole, Stored
<1>2. ASSUME SameId(Stored \cup {e}) PROVE index[e.id] \notin {NoEvent, e}
  <2>1. PICK f \in Stored : f.id = e.id /\ f # e  BY <1>1, <1>2 DEF SameId
  <2>2. QED  BY <1>1, <2>1, EventFacts
<1>3. ASSUME SameSlot(Stored \cup {e}) PROVE owner[e.slot] \notin {NoEvent, e}
  <2>1. PICK f \in Stored : f.slot = e.slot /\ f.id # e.id  BY <1>1, <1>3 DEF SameSlot
  <2>2. QED  BY <1>1, <2>1, EventFacts
<1>4. QED  BY <1>2, <1>3

LEMMA RefusedStep ==
  ASSUME StoreInv, NEW p \in Processes, NEW e \in Events, ImportRefused(p, e)
  PROVE  StoreInv' /\ FilesKept
<1>1. /\ UNCHANGED <<store, locals, abandoned, listed, raced, crashes>>
      /\ commands' \in Nat /\ pc[p] = "idle"
  BY DEF ImportRefused, Asked, StoreInv, TypeOK, DirectoryOK
<1>2. PICK code \in {"event_content_collision", "replica_sequence_collision", "causal_cycle"} :
        /\ Quarantine(code, e)
        /\ code = "event_content_collision" => SameId(Stored \cup {e})
        /\ code = "replica_sequence_collision" => SameSlot(Stored \cup {e})
  BY DEF ImportRefused
<1>3. /\ QuarantineBlocks' /\ UNCHANGED <<duplicates, observation>>
      /\ quarantine' \subseteq
           {"event_content_collision", "replica_sequence_collision", "causal_cycle"} \X Events
  BY <1>1, <1>2, Collisions, Quarantining
<1>4. DirectoryOK'  BY <1>1, <1>3 DEF StoreInv, TypeOK, DirectoryOK, store
<1>5. LocalsOK' /\ OthersKept(p)  BY <1>1 DEF StoreInv, TypeOK, LocalsOK, locals, OthersKept
<1>6. HolderOK(p)'  BY <1>1 DEF HolderOK, locals
<1>7. QED  BY <1>1, <1>3, <1>4, <1>5, <1>6, Unpublished

(* A step of submit goes on, or ends with a collision in the quarantine.    *)
LEMMA OnlyLocals ==
  ASSUME StoreInv, NEW p \in Processes, UNCHANGED <<store, notes, asked>>,
         LocalsOK', HolderOK(p)', OthersKept(p)
  PROVE  StoreInv' /\ FilesKept
<1>1. DirectoryOK'  BY DEF StoreInv, TypeOK, DirectoryOK, store, notes, asked
<1>2. QED  BY <1>1, Unpublished DEF notes

LEMMA TurnedAway ==
  ASSUME StoreInv, NEW p \in Processes, pc[p] # "idle", UNCHANGED <<store, asked>>, Finish(p),
         NEW code \in {"event_content_collision", "replica_sequence_collision"},
         Quarantine(code, event[p]),
         \/ /\ code = "event_content_collision"
            /\ \/ index[event[p].id] \notin {NoEvent, event[p]}
               \/ file[Path(event[p])] \notin {NoEvent, event[p]}
         \/ /\ code = "replica_sequence_collision"
            /\ owner[event[p].slot] \notin {NoEvent, event[p]}
  PROVE  StoreInv' /\ FilesKept
<1>1. TypeOK /\ event[p] \in Events  BY Held DEF StoreInv
<1>2. LocalsOK' /\ HolderOK(p)' /\ OthersKept(p)  BY <1>1, Finishing
<1>3. /\ QuarantineBlocks' /\ UNCHANGED <<duplicates, observation>>
      /\ quarantine' \subseteq
           {"event_content_collision", "replica_sequence_collision", "causal_cycle"} \X Events
  BY <1>1, Quarantining
<1>4. DirectoryOK'  BY <1>1, <1>3 DEF asked, TypeOK, DirectoryOK, store
<1>5. QED  BY <1>2, <1>3, <1>4, Unpublished

LEMMA LookInIndexStep ==
  ASSUME StoreInv, NEW p \in Processes, LookInIndex(p)
  PROVE  StoreInv' /\ FilesKept
<1> DEFINE e == event[p]
<1>1. pc[p] = "index" /\ UNCHANGED <<store, asked>>  BY DEF LookInIndex
<1>2. e \in Events /\ ~created[p] /\ TypeOK  BY <1>1, Held DEF StoreInv, TypeOK, LocalsOK
<1>3. CASE Goto(p, "slot") /\ UNCHANGED notes
  <2>1. LocalsOK' /\ OthersKept(p) /\ pc'[p] = "slot"
    BY <1>1, <1>2, <1>3, GoingOn DEF Labels
  <2>2. QED  BY <1>1, <1>3, <2>1, OnlyLocals DEF HolderOK
<1>4. CASE index[e.id] = e /\ Goto(p, "duplicate") /\ UNCHANGED notes
  <2>1. LocalsOK' /\ OthersKept(p) /\ pc'[p] = "duplicate" /\ event' = event
    BY <1>1, <1>2, <1>4, GoingOn DEF Labels
  <2>2. HolderOK(p)'  BY <1>1, <1>4, <2>1 DEF HolderOK, store
  <2>3. QED  BY <1>1, <1>4, <2>1, <2>2, OnlyLocals
<1>5. CASE /\ index[e.id] \notin {NoEvent, e}
           /\ Quarantine("event_content_collision", e) /\ Finish(p)
  BY <1>1, <1>5, TurnedAway
<1>6. QED  BY <1>3, <1>4, <1>5 DEF LookInIndex

LEMMA LookAtSlotStep ==
  ASSUME StoreInv, NEW p \in Processes, LookAtSlot(p)
  PROVE  StoreInv' /\ FilesKept
<1> DEFINE e == event[p]
<1>1. pc[p] = "slot" /\ UNCHANGED <<store, asked>>  BY DEF LookAtSlot
<1>2. e \in Events /\ ~created[p] /\ TypeOK  BY <1>1, Held DEF StoreInv, TypeOK, LocalsOK
<1>3. CASE Goto(p, "payload") /\ UNCHANGED notes
  <2>1. LocalsOK' /\ OthersKept(p) /\ pc'[p] = "payload"
    BY <1>1, <1>2, <1>3, GoingOn DEF Labels
  <2>2. QED  BY <1>1, <1>3, <2>1, OnlyLocals DEF HolderOK
<1>4. CASE /\ owner[e.slot] \notin {NoEvent, e}
           /\ Quarantine("replica_sequence_collision", e) /\ Finish(p)
  BY <1>1, <1>4, TurnedAway
<1>5. QED  BY <1>3, <1>4 DEF LookAtSlot

LEMMA LookForFileStep ==
  ASSUME StoreInv, NEW p \in Processes, LookForFile(p)
  PROVE  StoreInv' /\ FilesKept
<1> DEFINE e == event[p]
<1>1. pc[p] = "file" /\ UNCHANGED <<store, asked>>  BY DEF LookForFile
<1>2. e \in Events /\ ~created[p] /\ TypeOK  BY <1>1, Held DEF StoreInv, TypeOK, LocalsOK
<1>3. payload[e.ref] = e.bytes  BY <1>1 DEF StoreInv, HolderOK
<1>4. CASE Goto(p, "write") /\ UNCHANGED notes
  <2>1. LocalsOK' /\ OthersKept(p) /\ pc'[p] = "write" /\ event' = event
    BY <1>1, <1>2, <1>4, GoingOn DEF Labels
  <2>2. HolderOK(p)'  BY <1>1, <1>3, <2>1 DEF HolderOK, store
  <2>3. QED  BY <1>1, <1>4, <2>1, <2>2, OnlyLocals
<1>5. CASE file[Path(e)] = e /\ Goto(p, "own") /\ UNCHANGED notes
  <2>1. LocalsOK' /\ OthersKept(p) /\ pc'[p] = "own" /\ event' = event
    BY <1>1, <1>2, <1>5, GoingOn DEF Labels
  <2>2. HolderOK(p)'  BY <1>1, <1>3, <1>5, <2>1 DEF HolderOK, store, Path
  <2>3. QED  BY <1>1, <1>5, <2>1, <2>2, OnlyLocals
<1>6. CASE /\ file[Path(e)] \notin {NoEvent, e}
           /\ Quarantine("event_content_collision", e) /\ Finish(p)
  BY <1>1, <1>6, TurnedAway
<1>7. QED  BY <1>4, <1>5, <1>6 DEF LookForFile

(* submit's way out, and the steps after it.                                *)
LEMMA SubmittedStep ==
  ASSUME StoreInv, NEW p \in Processes, pc[p] # "idle", Submitted(p), UNCHANGED index,
         index[event[p].id] = event[p]
  PROVE  LocalsOK' /\ HolderOK(p)' /\ OthersKept(p)
<1>1. TypeOK  BY DEF StoreInv
<1>2. CASE source[p] \in Observers
  <2>1. LocalsOK' /\ OthersKept(p) /\ pc'[p] = "observe" /\ event' = event
    BY <1>1, <1>2, GoingOn DEF Labels, Submitted
  <2>2. QED  BY <2>1 DEF HolderOK
<1>3. CASE source[p] \notin Observers
  BY <1>1, <1>3, Finishing DEF Submitted
<1>4. QED  BY <1>2, <1>3

LEMMA LookForDuplicateStep ==
  ASSUME StoreInv, NEW p \in Processes, LookForDuplicate(p)
  PROVE  StoreInv' /\ FilesKept
<1>1. pc[p] = "duplicate" /\ UNCHANGED <<store, notes, asked>>  BY DEF LookForDuplicate
<1>2. ~created[p] /\ TypeOK /\ index[event[p].id] = event[p]
  BY <1>1 DEF StoreInv, TypeOK, LocalsOK, HolderOK
<1>3. CASE Submitted(p)  BY <1>1, <1>2, <1>3, SubmittedStep, OnlyLocals DEF store
<1>4. CASE Goto(p, "record")
  <2>1. LocalsOK' /\ OthersKept(p) /\ pc'[p] = "record" /\ event' = event
    BY <1>1, <1>2, <1>4, GoingOn DEF Labels
  <2>2. QED  BY <1>1, <1>2, <2>1, OnlyLocals DEF HolderOK, store
<1>5. QED  BY <1>3, <1>4 DEF LookForDuplicate

LEMMA RecordDuplicateStep ==
  ASSUME StoreInv, NEW p \in Processes, RecordDuplicate(p)
  PROVE  StoreInv' /\ FilesKept
<1>1. pc[p] = "record" /\ UNCHANGED <<store, quarantine, observation, asked>>
  BY DEF RecordDuplicate
<1>2. /\ TypeOK /\ index[event[p].id] = event[p]
      /\ event[p] \in Events /\ source[p] \in Sources
  BY <1>1, Held DEF StoreInv, HolderOK
<1>3. LocalsOK' /\ HolderOK(p)' /\ OthersKept(p)
  BY <1>1, <1>2, SubmittedStep, Finishing DEF RecordDuplicate, store
<1>4. duplicates' \subseteq Ids \X Sources
  BY <1>2, EventFacts DEF RecordDuplicate, TypeOK, DirectoryOK
<1>5. DirectoryOK'  BY <1>1, <1>2, <1>4 DEF TypeOK, DirectoryOK, store, asked
<1>6. QED  BY <1>1, <1>3, <1>5, Unpublished

LEMMA LookForObservationStep ==
  ASSUME StoreInv, NEW p \in Processes, LookForObservation(p)
  PROVE  StoreInv' /\ FilesKept
<1>1. pc[p] = "observe" /\ UNCHANGED <<store, notes, asked>>  BY DEF LookForObservation
<1>2. source[p] \in Observers /\ TypeOK /\ index[event[p].id] = event[p]
  BY <1>1 DEF StoreInv, TypeOK, LocalsOK, HolderOK
<1>3. CASE Finish(p)  BY <1>1, <1>2, <1>3, Finishing, OnlyLocals
<1>4. CASE Goto(p, "note")
  <2>1. LocalsOK' /\ OthersKept(p) /\ pc'[p] = "note" /\ event' = event
    BY <1>1, <1>2, <1>4, GoingOn DEF Labels
  <2>2. QED  BY <1>1, <1>2, <2>1, OnlyLocals DEF HolderOK, store
<1>5. QED  BY <1>3, <1>4 DEF LookForObservation

LEMMA WriteObservationStep ==
  ASSUME StoreInv, NEW p \in Processes, WriteObservation(p)
  PROVE  StoreInv' /\ FilesKept
<1> DEFINE n == [event |-> event[p], status |-> Status(p), missing |-> missing[p]]
<1>1. /\ pc[p] = "note" /\ Finish(p)
      /\ UNCHANGED <<store, duplicates, quarantine, asked>>
  BY DEF WriteObservation
<1>2. TypeOK /\ event[p] \in Events /\ missing[p] \in SUBSET Ids  BY <1>1, Held DEF StoreInv
<1>3. LocalsOK' /\ HolderOK(p)' /\ OthersKept(p)  BY <1>1, <1>2, Finishing
<1>4. n \in Observation  BY <1>2 DEF Observation, Status, Statuses
<1> HIDE DEF n
<1>5. observation' = observation \/ observation' = [observation EXCEPT ![Noted(p)] = n]
  BY DEF WriteObservation, n
<1>6. DirectoryOK'  BY <1>1, <1>2, <1>4, <1>5 DEF TypeOK, DirectoryOK, store, asked
<1>7. QED  BY <1>1, <1>3, <1>6, Unpublished

-----------------------------------------------------------------------------
(* The four publications.                                                   *)

LEMMA Published ==
  ASSUME StoreInv, NEW p \in Processes, FilesKept, UNCHANGED <<notes, asked>>,
         payload' \in [Refs -> Bytes \cup {NoBytes}],
         file' \in [Slots \X Ids -> Events \cup {NoEvent}],
         owner' \in [Slots -> Events \cup {NoEvent}],
         index' \in [Ids -> Events \cup {NoEvent}],
         LocalsOK', HolderOK(p)', OthersKept(p), IndexedIsWhole', OwnerIsWhole'
  PROVE  StoreInv'
<1>1. DirectoryOK'  BY DEF StoreInv, TypeOK, DirectoryOK, notes, asked
<1>2. QuarantineBlocks'
  BY EventFacts DEF StoreInv, QuarantineBlocks, FilesKept, notes
<1>3. QED  BY <1>1, <1>2, OthersHold DEF StoreInv, TypeOK

(* What is whole stays whole when files stay.                               *)
LEMMA WholeKept ==
  ASSUME StoreInv, FilesKept
  PROVE  /\ UNCHANGED index => IndexedIsWhole'
         /\ UNCHANGED owner => OwnerIsWhole'
<1>1. \A e \in Events : file[Path(e)] = e => file'[Path(e)] = e  BY EventFacts DEF FilesKept
<1>2. \A e \in Events : payload[e.ref] = e.bytes => payload'[e.ref] = e.bytes
  BY EventFacts DEF FilesKept
<1>3. \A e \in Events : owner[e.slot] = e => owner'[e.slot] = e  BY EventFacts DEF FilesKept
<1>4. /\ \A i \in Ids : index[i] \in Events \cup {NoEvent}
      /\ \A s \in Slots : owner[s] \in Events \cup {NoEvent}
  BY DEF StoreInv, TypeOK, DirectoryOK
<1>5. UNCHANGED index => IndexedIsWhole'
  BY <1>1, <1>2, <1>3, <1>4 DEF StoreInv, IndexedIsWhole
<1>6. UNCHANGED owner => OwnerIsWhole'
  BY <1>1, <1>2, <1>4 DEF StoreInv, OwnerIsWhole
<1>7. QED  BY <1>5, <1>6

LEMMA WritePayloadStep ==
  ASSUME StoreInv, NEW p \in Processes, WritePayload(p)
  PROVE  StoreInv' /\ FilesKept
<1> DEFINE e == event[p]
<1>1. pc[p] = "payload" /\ UNCHANGED <<file, owner, index, notes, asked>>  BY DEF WritePayload
<1>2. e \in Events /\ ~created[p] /\ TypeOK  BY <1>1, Held DEF StoreInv, TypeOK, LocalsOK
<1>3. e.ref \in Refs /\ e.bytes \in Bytes /\ e.bytes # NoBytes  BY <1>2, EventFacts
<1>4. CASE /\ payload[e.ref] \notin {NoBytes, e.bytes} /\ payload' = payload /\ Finish(p)
  <2>1. LocalsOK' /\ HolderOK(p)' /\ OthersKept(p)  BY <1>2, <1>4, Finishing
  <2>2. QED  BY <1>1, <1>4, <2>1, OnlyLocals DEF store
<1>5. CASE /\ payload' = payload \/ payload' = [payload EXCEPT ![e.ref] = e.bytes]
           /\ payload[e.ref] \in {NoBytes, e.bytes} /\ payload'[e.ref] = e.bytes
           /\ Goto(p, "file")
  <2>1. LocalsOK' /\ OthersKept(p) /\ pc'[p] = "file" /\ event' = event
    BY <1>1, <1>2, <1>5, GoingOn DEF Labels
  <2>2. HolderOK(p)'  BY <1>5, <2>1 DEF HolderOK
  <2>3. FilesKept  BY <1>1, <1>2, <1>3, <1>5 DEF FilesKept, TypeOK, DirectoryOK
  <2>4. payload' \in [Refs -> Bytes \cup {NoBytes}]
    BY <1>2, <1>3, <1>5 DEF TypeOK, DirectoryOK
  <2>5. QED  BY <1>1, <1>2, <2>1, <2>2, <2>3, <2>4, WholeKept, Published DEF TypeOK, DirectoryOK
<1>6. payload \in [Refs -> Bytes \cup {NoBytes}]  BY <1>2 DEF TypeOK, DirectoryOK
<1>7. QED  BY <1>3, <1>4, <1>5, <1>6 DEF WritePayload

LEMMA WriteFileStep ==
  ASSUME StoreInv, NEW p \in Processes, WriteFile(p)
  PROVE  StoreInv' /\ FilesKept
<1> DEFINE e == event[p]
<1>1. pc[p] = "write" /\ UNCHANGED <<payload, owner, index, notes, asked>>  BY DEF WriteFile
<1>2. e \in Events /\ ~created[p] /\ TypeOK /\ payload[e.ref] = e.bytes
  BY <1>1, Held DEF StoreInv, TypeOK, LocalsOK, HolderOK
<1>3. Path(e) \in Slots \X Ids /\ e # NoEvent  BY <1>2, EventFacts
<1>4. CASE /\ file[Path(e)] = NoEvent
           /\ file' = [file EXCEPT ![Path(e)] = e]
           /\ created' = [created EXCEPT ![p] = TRUE]
           /\ pc' = [pc EXCEPT ![p] = "own"]
           /\ UNCHANGED <<event, source, missing>>
  <2>1. OthersKept(p) /\ pc'[p] = "own"
    BY <1>2, <1>4 DEF OthersKept, TypeOK, LocalsOK
  <2>2. pc' \in [Processes -> Labels] /\ created' \in [Processes -> BOOLEAN]
    BY <1>2, <1>4 DEF TypeOK, LocalsOK, Labels
  <2>3. LocalsOK'  BY <1>1, <1>2, <1>4, <2>1, <2>2 DEF TypeOK, LocalsOK, OthersKept
  <2>4. file'[Path(e)] = e  BY <1>2, <1>3, <1>4 DEF TypeOK, DirectoryOK
  <2>5. HolderOK(p)'  BY <1>1, <1>2, <1>4, <2>1, <2>4 DEF HolderOK, Path
  <2>6. FilesKept  BY <1>1, <1>2, <1>3, <1>4 DEF FilesKept, TypeOK, DirectoryOK
  <2>7. file' \in [Slots \X Ids -> Events \cup {NoEvent}]
    BY <1>2, <1>3, <1>4 DEF TypeOK, DirectoryOK
  <2>8. QED  BY <1>1, <1>2, <2>1, <2>3, <2>5, <2>6, <2>7, WholeKept, Published
             DEF TypeOK, DirectoryOK
<1>5. CASE file[Path(e)] = e /\ file' = file /\ Goto(p, "own")
  <2>1. LocalsOK' /\ OthersKept(p) /\ pc'[p] = "own" /\ event' = event
    BY <1>1, <1>2, <1>5, GoingOn DEF Labels
  <2>2. HolderOK(p)'  BY <1>1, <1>2, <1>5, <2>1 DEF HolderOK, Path
  <2>3. QED  BY <1>1, <1>5, <2>1, <2>2, OnlyLocals DEF store
<1>6. CASE file' = file /\ Finish(p)
  BY <1>1, <1>2, <1>6, Finishing, OnlyLocals DEF store
<1>7. QED  BY <1>4, <1>5, <1>6 DEF WriteFile

LEMMA WriteOwnerStep ==
  ASSUME StoreInv, NEW p \in Processes, WriteOwner(p)
  PROVE  StoreInv' /\ FilesKept
<1> DEFINE e == event[p]
<1>1. pc[p] = "own" /\ UNCHANGED <<payload, file, index, asked>>  BY DEF WriteOwner
<1>2. e \in Events /\ TypeOK /\ payload[e.ref] = e.bytes /\ file[Path(e)] = e
  BY <1>1, Held DEF StoreInv, HolderOK
<1>3. e.slot \in Slots /\ e # NoEvent  BY <1>2, EventFacts
<1>4. CASE /\ owner[e.slot] \in {NoEvent, e} /\ UNCHANGED notes /\ Goto(p, "enter")
           /\ \/ owner' = owner /\ owner[e.slot] = e
              \/ owner' = [owner EXCEPT ![e.slot] = e]
  <2>1. LocalsOK' /\ OthersKept(p) /\ pc'[p] = "enter" /\ event' = event
    BY <1>1, <1>2, <1>4, GoingOn DEF Labels
  <2>2. owner'[e.slot] = e /\ owner' \in [Slots -> Events \cup {NoEvent}]
    BY <1>2, <1>3, <1>4 DEF TypeOK, DirectoryOK
  <2>3. HolderOK(p)'  BY <1>1, <1>2, <2>1, <2>2 DEF HolderOK, Path
  <2>4. FilesKept  BY <1>1, <1>2, <1>3, <1>4 DEF FilesKept, TypeOK, DirectoryOK
  <2>5. OwnerIsWhole'
    BY <1>1, <1>2, <1>3, <1>4 DEF StoreInv, OwnerIsWhole, TypeOK, DirectoryOK
  <2>6. QED  BY <1>1, <1>2, <1>4, <2>1, <2>2, <2>3, <2>4, <2>5, WholeKept, Published
             DEF TypeOK, DirectoryOK
<1>5. CASE /\ owner[e.slot] \notin {NoEvent, e} /\ owner' = owner
           /\ Quarantine("replica_sequence_collision", e) /\ Finish(p)
  BY <1>1, <1>5, TurnedAway DEF store
<1>6. QED  BY <1>4, <1>5 DEF WriteOwner

LEMMA WriteIndexStep ==
  ASSUME StoreInv, NEW p \in Processes, WriteIndex(p)
  PROVE  StoreInv' /\ FilesKept
<1> DEFINE e == event[p]
<1>1. pc[p] = "enter" /\ UNCHANGED <<payload, file, owner, asked>>  BY DEF WriteIndex
<1>2. /\ e \in Events /\ TypeOK
      /\ payload[e.ref] = e.bytes /\ file[Path(e)] = e /\ owner[e.slot] = e
  BY <1>1, Held DEF StoreInv, HolderOK
<1>3. e.id \in Ids /\ e # NoEvent  BY <1>2, EventFacts
<1>4. CASE /\ index[e.id] \in {NoEvent, e} /\ UNCHANGED notes /\ Entered(p)
           /\ \/ index' = index /\ index[e.id] = e
              \/ index' = [index EXCEPT ![e.id] = e]
  <2>1. index'[e.id] = e /\ index' \in [Ids -> Events \cup {NoEvent}]
    BY <1>2, <1>3, <1>4 DEF TypeOK, DirectoryOK
  <2>2. LocalsOK' /\ HolderOK(p)' /\ OthersKept(p)
    <3>1. CASE Goto(p, "observe") /\ source[p] \in Observers
      <4>1. LocalsOK' /\ OthersKept(p) /\ pc'[p] = "observe" /\ event' = event
        BY <1>1, <1>2, <3>1, GoingOn DEF Labels
      <4>2. QED  BY <2>1, <4>1 DEF HolderOK
    <3>2. CASE Finish(p)  BY <1>2, <3>2, Finishing
    <3>3. CASE Goto(p, "duplicate") /\ ~created[p]
      <4>1. LocalsOK' /\ OthersKept(p) /\ pc'[p] = "duplicate" /\ event' = event
        BY <1>1, <1>2, <3>3, GoingOn DEF Labels
      <4>2. QED  BY <2>1, <4>1 DEF HolderOK
    <3>4. QED  BY <1>4, <3>1, <3>2, <3>3 DEF Entered, Submitted
  <2>3. FilesKept  BY <1>1, <1>2, <1>3, <1>4 DEF FilesKept, TypeOK, DirectoryOK
  <2>4. IndexedIsWhole'
    BY <1>1, <1>2, <1>3, <1>4 DEF StoreInv, IndexedIsWhole, TypeOK, DirectoryOK
  <2>5. QED  BY <1>1, <1>2, <1>4, <2>1, <2>2, <2>3, <2>4, WholeKept, Published
             DEF TypeOK, DirectoryOK
<1>5. CASE /\ index[e.id] \notin {NoEvent, e} /\ index' = index
           /\ Quarantine("event_content_collision", e) /\ Finish(p)
  BY <1>1, <1>5, TurnedAway DEF store
<1>6. QED  BY <1>4, <1>5 DEF WriteIndex

LEMMA CrashStep ==
  ASSUME StoreInv, NEW p \in Processes, Crash(p)
  PROVE  StoreInv' /\ FilesKept
<1>1. pc[p] # "idle" /\ Finish(p) /\ UNCHANGED <<store, notes, listed, raced, commands>>
  BY DEF Crash
<1>2. TypeOK /\ event[p] \in Events  BY <1>1, Held DEF StoreInv
<1>3. LocalsOK' /\ HolderOK(p)' /\ OthersKept(p)  BY <1>1, <1>2, Finishing
<1>4. abandoned' \subseteq Events /\ crashes' \in Nat
  BY <1>2 DEF Crash, TypeOK, DirectoryOK
<1>5. DirectoryOK'  BY <1>1, <1>2, <1>4 DEF TypeOK, DirectoryOK, store, notes
<1>6. QED  BY <1>1, <1>3, <1>5, Unpublished DEF notes

LEMMA StepKeeps == StoreInv /\ [Next]_vars => StoreInv' /\ FilesKept
<1> SUFFICES ASSUME StoreInv, [Next]_vars PROVE StoreInv' /\ FilesKept  OBVIOUS
<1>1. ASSUME NEW p \in Processes, Step(p) PROVE StoreInv' /\ FilesKept
  BY <1>1, LookInIndexStep, LookAtSlotStep, WritePayloadStep, LookForFileStep, WriteFileStep,
     WriteOwnerStep, WriteIndexStep, LookForDuplicateStep, RecordDuplicateStep,
     LookForObservationStep, WriteObservationStep
  DEF Step
<1>2. ASSUME NEW p \in Processes, NEW e \in Events, Command(p, e) PROVE StoreInv' /\ FilesKept
  BY <1>2, CreateStep, RefusedStep, ImportStep DEF Command
<1>3. CASE UNCHANGED vars
  <2>1. /\ DirectoryOK' /\ LocalsOK' /\ IndexedIsWhole' /\ OwnerIsWhole' /\ QuarantineBlocks'
        /\ FilesKept
    BY <1>3 DEF vars, store, notes, locals, asked, StoreInv, TypeOK, DirectoryOK, LocalsOK,
       IndexedIsWhole, OwnerIsWhole, QuarantineBlocks, FilesKept
  <2>2. \A p \in Processes : HolderOK(p)'
    BY <1>3 DEF vars, store, locals, StoreInv, HolderOK
  <2>3. QED  BY <2>1, <2>2 DEF StoreInv, TypeOK
<1>4. QED  BY <1>1, <1>2, <1>3, CrashStep DEF Next

LEMMA StoreAlways == Spec => []StoreInv
<1>1. QED  BY StoreInit, StepKeeps, PTL DEF Spec

(* The directory and the processes keep their shape (FederationStore).      *)
THEOREM TypeCorrect == Spec => []TypeOK
<1>1. StoreInv => TypeOK  BY DEF StoreInv
<1>2. QED  BY <1>1, StoreAlways, PTL

(* What is found through the index is whole: file, payload and sequence     *)
(* number are there, for any number of racing and dying submissions.        *)
THEOREM IndexedWhole == Spec => []IndexedIsWhole
<1>1. StoreInv => IndexedIsWhole  BY DEF StoreInv
<1>2. QED  BY <1>1, StoreAlways, PTL

(* A collision is never taken back: a quarantined event stays out of the    *)
(* index and an event in the index out of quarantine.                       *)
THEOREM QuarantineFinal == Spec => []QuarantineIsFinal
<1>1. StoreInv => QuarantineIsFinal
  <2> SUFFICES ASSUME StoreInv, NEW e \in Stored,
                      NEW code \in {"event_content_collision", "replica_sequence_collision"}
               PROVE  <<code, e>> \notin quarantine
    BY DEF QuarantineIsFinal
  <2>1. e \in Events /\ index[e.id] = e /\ file[Path(e)] = e /\ owner[e.slot] = e
    BY StoredFacts DEF StoreInv, IndexedIsWhole, Stored
  <2>2. QED  BY <2>1 DEF StoreInv, QuarantineBlocks
<1>2. QED  BY <1>1, StoreAlways, PTL

-----------------------------------------------------------------------------
(* The log and its observations.                                            *)

LEMMA Entering ==
  ASSUME StoreInv, NEW p \in Processes, WriteIndex(p)
  PROVE  \/ UNCHANGED Stored
         \/ /\ index[event[p].id] = NoEvent /\ owner[event[p].slot] = event[p]
            /\ event[p] \in Events /\ Stored' = Stored \cup {event[p]}
<1>1. pc[p] = "enter"  BY DEF WriteIndex
<1>2. event[p] \in Events /\ owner[event[p].slot] = event[p] /\ event[p].id \in Ids
  BY <1>1, Held, EventFacts DEF StoreInv, HolderOK
<1>3. CASE index' = index  BY <1>3 DEF Stored
<1>4. CASE index[event[p].id] = NoEvent /\ index' = [index EXCEPT ![event[p].id] = event[p]]
  <2>1. index \in [Ids -> Events \cup {NoEvent}] /\ event[p] # NoEvent
    BY <1>2, EventFacts DEF StoreInv, TypeOK, DirectoryOK
  <2>2. Stored' = Stored \cup {event[p]}
    <3>1. \A i \in Ids : index'[i] = IF i = event[p].id THEN event[p] ELSE index[i]
      BY <1>4, <2>1
    <3>2. QED  BY <1>2, <1>4, <2>1, <3>1 DEF Stored
  <2>3. QED  BY <1>2, <1>4, <2>2
<1>5. QED  BY <1>3, <1>4 DEF WriteIndex

Logged == <<Stored, {x \in Ids \X Observers : observation[x] # NoObservation}>>

LEMMA ContractStep ==
  ASSUME StoreInv, [Next]_vars
  PROVE  Contract!Next \/ UNCHANGED Logged
<1>1. ASSUME NEW p \in Processes, WriteIndex(p), ~UNCHANGED Stored
      PROVE  Contract!Next
  <2> DEFINE e == event[p]
  <2>1. /\ index[e.id] = NoEvent /\ owner[e.slot] = e /\ e \in Events
        /\ Stored' = Stored \cup {e}
    BY <1>1, Entering
  <2>2. \A f \in Stored : f.id # e.id /\ f.slot # e.slot
    <3>1. \A f \in Stored : f # NoEvent /\ index[f.id] = f /\ owner[f.slot] = f
      BY DEF StoreInv, IndexedIsWhole, Stored
    <3>2. QED  BY <2>1, <3>1, EventFacts
  <2>3. UNCHANGED observation
    BY <1>1 DEF WriteIndex, Quarantine, notes
  <2> HIDE DEF e
  <2>4. QED  BY <2>1, <2>2, <2>3 DEF Contract!Next, Contract!Append
<1>2. ASSUME NEW p \in Processes, WriteObservation(p), ~UNCHANGED observation
      PROVE  Contract!Next
  <2> DEFINE e == event[p]
             n == [event |-> event[p], status |-> Status(p), missing |-> missing[p]]
  <2>1. /\ observation[Noted(p)] = NoObservation /\ pc[p] = "note" /\ UNCHANGED store
        /\ observation' = [observation EXCEPT ![Noted(p)] = n]
    BY <1>2 DEF WriteObservation
  <2>2. /\ e \in Events /\ index[e.id] = e /\ source[p] \in Observers
        /\ missing[p] \subseteq Ids
    BY <2>1, Held DEF StoreInv, TypeOK, LocalsOK, HolderOK
  <2>3. n # NoObservation
    BY <2>2, FederationAssumption DEF Observation, Status, Statuses
  <2>4. Noted(p) = <<e.id, source[p]>> /\ e.id \in Ids /\ e \in Stored
    BY <2>2, EventFacts DEF Noted, Stored
  <2> HIDE DEF n
  <2>5. {x \in Ids \X Observers : observation'[x] # NoObservation} =
          {x \in Ids \X Observers : observation[x] # NoObservation} \cup {<<e.id, source[p]>>}
    BY <2>1, <2>2, <2>3, <2>4 DEF StoreInv, TypeOK, DirectoryOK
  <2>6. Stored' = Stored  BY <2>1 DEF store, Stored
  <2>7. <<e.id, source[p]>> \notin {x \in Ids \X Observers : observation[x] # NoObservation}
    BY <2>1, <2>4
  <2> HIDE DEF e
  <2>8. QED  BY <2>2, <2>4, <2>5, <2>6, <2>7 DEF Contract!Next, Contract!Observe
<1>3. UNCHANGED <<index, observation>> => UNCHANGED Logged  BY DEF Logged, Stored
<1>4. UNCHANGED observation /\ UNCHANGED Stored => UNCHANGED Logged  BY DEF Logged
<1>5. ASSUME NEW p \in Processes, Step(p) PROVE Contract!Next \/ UNCHANGED Logged
  <2>1. CASE WriteIndex(p)
    BY <1>1, <1>4, <2>1 DEF WriteIndex, Quarantine, notes
  <2>2. CASE WriteObservation(p)
    BY <1>2, <1>3, <2>2 DEF WriteObservation, store
  <2>3. CASE \/ LookInIndex(p) \/ LookAtSlot(p) \/ WritePayload(p) \/ LookForFile(p)
             \/ WriteFile(p) \/ WriteOwner(p) \/ LookForDuplicate(p) \/ RecordDuplicate(p)
             \/ LookForObservation(p)
    BY <1>3, <2>3
    DEF LookInIndex, LookAtSlot, WritePayload, LookForFile, WriteFile, WriteOwner,
        LookForDuplicate, RecordDuplicate, LookForObservation, Quarantine, store, notes
  <2>4. QED  BY <1>5, <2>1, <2>2, <2>3 DEF Step
<1>6. ASSUME NEW p \in Processes, NEW e \in Events, Command(p, e) PROVE UNCHANGED Logged
  BY <1>3, <1>6 DEF Command, Create, Import, ImportRefused, Quarantine, store, notes
<1>7. ASSUME NEW p \in Processes, Crash(p) PROVE UNCHANGED Logged
  BY <1>3, <1>7 DEF Crash, store, notes
<1>8. CASE UNCHANGED vars  BY <1>3, <1>8 DEF vars, store, notes
<1>9. QED  BY <1>5, <1>6, <1>7, <1>8 DEF Next

(* The directory keeps FederationContract: a log that only grows, one event *)
(* per id and per sequence number, one observation per event and observer.  *)
THEOREM Implements == Spec => ImplementsContract
<1>1. Init => Contract!Init
  BY DEF Init, Contract!Init, Stored
<1>2. StoreInv /\ [Next]_vars
        => [Contract!Next]_<<Stored, {x \in Ids \X Observers : observation[x] # NoObservation}>>
  BY ContractStep DEF Logged
<1>3. QED
  BY <1>1, <1>2, StoreAlways, PTL DEF Spec, ImplementsContract, Contract!Spec

-----------------------------------------------------------------------------
(* What a process does to its own and to the others' state.                 *)

LEMMA Moves ==
  ASSUME TypeOK, NEW p \in Processes
  PROVE  /\ \A l \in Labels : Goto(p, l) => OthersKept(p) /\ event' = event
         /\ Finish(p) => OthersKept(p) /\ event'[p] = NoEvent /\ pc'[p] = "idle"
         /\ UNCHANGED locals => OthersKept(p)
  BY DEF TypeOK, LocalsOK, Goto, Finish, OthersKept, locals

LEMMA Steps ==
  ASSUME StoreInv, NEW p \in Processes, Step(p)
  PROVE  /\ pc[p] # "idle" /\ OthersKept(p)
         /\ event' = event \/ (event'[p] = NoEvent /\ pc'[p] = "idle")
         /\ UNCHANGED asked
<1> USE Moves DEF Labels
<1>1. TypeOK  BY DEF StoreInv
<1>2. CASE LookInIndex(p) \/ LookAtSlot(p) \/ LookForFile(p)
  BY <1>1, <1>2 DEF LookInIndex, LookAtSlot, LookForFile
<1>3. CASE WritePayload(p) \/ WriteOwner(p)
  BY <1>1, <1>3 DEF WritePayload, WriteOwner
<1>4. CASE WriteFile(p)
  BY <1>1, <1>4 DEF WriteFile, OthersKept, TypeOK, LocalsOK
<1>5. CASE WriteIndex(p)
  BY <1>1, <1>5 DEF WriteIndex, Entered, Submitted
<1>6. CASE LookForDuplicate(p) \/ RecordDuplicate(p)
  BY <1>1, <1>6 DEF LookForDuplicate, RecordDuplicate, Submitted
<1>7. CASE LookForObservation(p) \/ WriteObservation(p)
  BY <1>1, <1>7 DEF LookForObservation, WriteObservation
<1>8. QED  BY <1>2, <1>3, <1>4, <1>5, <1>6, <1>7 DEF Step

(* A submission that ends has its event in the index, or finds its id taken,*)
(* or never had the sequence number.                                        *)
LEMMA Leaving ==
  ASSUME StoreInv, NEW p \in Processes, Step(p), event' # event
  PROVE  index'[event[p].id] # NoEvent \/ owner[event[p].slot] # event[p]
<1> DEFINE e == event[p]
<1>1. pc[p] # "idle" /\ TypeOK  BY Steps DEF StoreInv
<1>2. e \in Events /\ e.slot \in Slots /\ e.id \in Ids /\ e # NoEvent
  BY <1>1, Held, EventFacts
<1>3. owner[e.slot] = e => file[Path(e)] = e /\ payload[e.ref] = e.bytes
  BY <1>2 DEF StoreInv, OwnerIsWhole
<1>4. CASE pc[p] \in {"duplicate", "record", "observe", "note"}
  <2>1. index[e.id] = e  BY <1>4 DEF StoreInv, HolderOK
  <2>2. UNCHANGED index
    BY <1>4 DEF Step, LookInIndex, LookAtSlot, WritePayload, LookForFile, WriteFile, WriteOwner,
       WriteIndex, LookForDuplicate, RecordDuplicate, LookForObservation, WriteObservation, store
  <2>3. QED  BY <1>2, <2>1, <2>2
<1>5. CASE LookInIndex(p) \/ LookAtSlot(p) \/ LookForFile(p)
  BY <1>2, <1>3, <1>5 DEF LookInIndex, LookAtSlot, LookForFile, Goto, store
<1>6. CASE WritePayload(p) \/ WriteFile(p) \/ WriteOwner(p)
  BY <1>2, <1>3, <1>6 DEF WritePayload, WriteFile, WriteOwner, Goto
<1>7. CASE WriteIndex(p)
  BY <1>1, <1>2, <1>7 DEF WriteIndex, TypeOK, DirectoryOK
<1>8. QED
  BY <1>4, <1>5, <1>6, <1>7
  DEF Step, LookForDuplicate, RecordDuplicate, LookForObservation, WriteObservation

LEMMA Owners ==
  ASSUME StoreInv, NEW p \in Processes, Step(p), NEW s \in Slots, owner'[s] # owner[s]
  PROVE  event[p] = owner'[s] /\ event' = event
<1>1. WriteOwner(p)
  BY DEF Step, LookInIndex, LookAtSlot, WritePayload, LookForFile, WriteFile, WriteIndex,
     LookForDuplicate, RecordDuplicate, LookForObservation, WriteObservation, store
<1>2. owner \in [Slots -> Events \cup {NoEvent}]  BY DEF StoreInv, TypeOK, DirectoryOK
<1>3. QED  BY <1>1, <1>2 DEF WriteOwner, Goto

LEMMA AccountedStep ==
  ASSUME StoreInv, SlotAccounted, [Next]_vars
  PROVE  SlotAccounted'
<1>1. FilesKept  BY StepKeeps
<1>2. StoreInv'  BY StepKeeps
<1> SUFFICES ASSUME NEW s \in Slots, owner'[s] # NoEvent
             PROVE  \/ index'[owner'[s].id] # NoEvent
                    \/ owner'[s] \in abandoned'
                    \/ \E q \in Processes : event'[q] = owner'[s]
  BY DEF SlotAccounted
<1> DEFINE e == owner'[s]
<1>3. e \in Events /\ e.id \in Ids /\ e.slot = s
  <2>1. e \in Events /\ e.slot = s
    BY <1>2 DEF StoreInv, TypeOK, DirectoryOK, OwnerIsWhole
  <2>2. QED  BY <2>1, EventFacts
<1>4. ASSUME NEW p \in Processes, Step(p), owner[s] = e
      PROVE  index'[e.id] # NoEvent \/ e \in abandoned' \/ \E q \in Processes : event'[q] = e
  <2>1. index[e.id] # NoEvent \/ e \in abandoned \/ \E q \in Processes : event[q] = e
    BY <1>3, <1>4, EventFacts DEF SlotAccounted
  <2>2. CASE index[e.id] # NoEvent  BY <1>1, <1>3, <2>2 DEF FilesKept
  <2>3. CASE e \in abandoned  BY <1>4, <2>3, Steps DEF asked
  <2>4. ASSUME NEW q \in Processes, event[q] = e
        PROVE  index'[e.id] # NoEvent \/ e \in abandoned' \/ \E r \in Processes : event'[r] = e
    <3>1. CASE event'[q] = e  BY <3>1
    <3>2. CASE event'[q] # e
      <4>1. q = p  BY <1>4, <2>4, <3>2, Steps DEF OthersKept
      <4>2. QED  BY <1>3, <1>4, <2>4, <3>2, <4>1, Leaving
    <3>3. QED  BY <3>1, <3>2
  <2>5. QED  BY <2>1, <2>2, <2>3, <2>4
<1>5. ASSUME NEW p \in Processes, Step(p), owner[s] # e
      PROVE  \E q \in Processes : event'[q] = e
  BY <1>5, Owners
<1>6. ASSUME UNCHANGED store, abandoned \subseteq abandoned',
             NEW p \in Processes, OthersKept(p), event[p] = NoEvent \/ event[p] \in abandoned'
      PROVE  index'[e.id] # NoEvent \/ e \in abandoned' \/ \E q \in Processes : event'[q] = e
  <2>1. owner[s] = e /\ index' = index /\ e # NoEvent  BY <1>3, <1>6, EventFacts DEF store
  <2>2. index[e.id] # NoEvent \/ e \in abandoned \/ \E q \in Processes : event[q] = e
    BY <2>1 DEF SlotAccounted
  <2>3. QED  BY <1>6, <2>1, <2>2 DEF OthersKept
<1>7. ASSUME NEW p \in Processes, NEW f \in Events, Command(p, f)
      PROVE  index'[e.id] # NoEvent \/ e \in abandoned' \/ \E q \in Processes : event'[q] = e
  <2>1. /\ UNCHANGED <<store, abandoned>> /\ pc[p] = "idle" /\ OthersKept(p)
    BY <1>7 DEF Command, Create, Import, ImportRefused, Begin, Asked, OthersKept, locals,
       StoreInv, TypeOK, LocalsOK
  <2>2. event[p] = NoEvent  BY <2>1 DEF StoreInv, TypeOK, LocalsOK
  <2>3. QED  BY <1>6, <2>1, <2>2
<1>8. ASSUME NEW p \in Processes, Crash(p)
      PROVE  index'[e.id] # NoEvent \/ e \in abandoned' \/ \E q \in Processes : event'[q] = e
  <2>1. /\ UNCHANGED store /\ abandoned' = abandoned \cup {event[p]} /\ OthersKept(p)
    BY <1>8, Moves DEF Crash, StoreInv
  <2>2. QED  BY <1>6, <2>1
<1>9. CASE UNCHANGED vars
  BY <1>3, <1>9, EventFacts DEF vars, store, locals, asked, SlotAccounted
<1>10. QED  BY <1>4, <1>5, <1>7, <1>8, <1>9 DEF Next

(* A sequence number is lost only to a death, or to an id taken meanwhile.  *)
THEOREM SlotsAccounted == Spec => []SlotAccounted
<1>1. Init => SlotAccounted  BY DEF Init, SlotAccounted
<1>2. StoreInv /\ SlotAccounted /\ [Next]_vars => SlotAccounted'  BY AccountedStep
<1>3. QED  BY <1>1, <1>2, StoreAlways, PTL DEF Spec

-----------------------------------------------------------------------------
(* Imports one at a time: the event at work was checked against the store   *)
(* it will enter.                                                           *)

Checked(S) == ~Cyclic(S) /\ Missing(S) \subseteq listed

Alone ==
  ~raced =>
    /\ \A p, q \in Processes : pc[p] # "idle" /\ pc[q] # "idle" => p = q
    /\ \A p \in Processes : pc[p] # "idle" => Checked(Stored \cup {event[p]})
    /\ Checked(Stored)

LEMMA AloneInit == Init => Alone
<1> SUFFICES ASSUME Init PROVE Alone  OBVIOUS
<1>1. Stored = {}  BY DEF Init, Stored
<1>2. Checked({})  BY DEF Checked, Cyclic, Missing
<1>3. QED  BY <1>1, <1>2 DEF Init, Alone

LEMMA StoredStep ==
  ASSUME StoreInv, NEW p \in Processes, Step(p)
  PROVE  UNCHANGED Stored \/ Stored' = Stored \cup {event[p]}
<1>1. CASE WriteIndex(p)  BY <1>1, Entering
<1>2. CASE ~WriteIndex(p)
  <2>1. UNCHANGED index
    BY <1>2 DEF Step, LookInIndex, LookAtSlot, WritePayload, LookForFile, WriteFile, WriteOwner,
       LookForDuplicate, RecordDuplicate, LookForObservation, WriteObservation, store
  <2>2. QED  BY <2>1 DEF Stored
<1>3. QED  BY <1>1, <1>2

LEMMA AloneStep ==
  ASSUME StoreInv, Alone, [Next]_vars
  PROVE  Alone'
<1> SUFFICES ASSUME ~raced'
             PROVE  /\ \A p, q \in Processes : pc'[p] # "idle" /\ pc'[q] # "idle" => p = q
                    /\ \A p \in Processes : pc'[p] # "idle" => Checked(Stored \cup {event[p]})'
                    /\ Checked(Stored)'
  BY DEF Alone
<1> DEFINE Goal ==
             /\ \A p, q \in Processes : pc'[p] # "idle" /\ pc'[q] # "idle" => p = q
             /\ \A p \in Processes : pc'[p] # "idle" => Checked(Stored \cup {event[p]})'
             /\ Checked(Stored)'
<1>1. ASSUME NEW p \in Processes, Step(p) PROVE Goal
  <2>1. /\ pc[p] # "idle" /\ OthersKept(p) /\ UNCHANGED <<raced, listed>>
        /\ pc'[p] # "idle" => event' = event
    <3>1. event[p] # NoEvent  BY <1>1, Steps DEF StoreInv, TypeOK, LocalsOK
    <3>2. QED  BY <1>1, <3>1, Steps DEF asked
  <2>2. \A q \in Processes : pc'[q] # "idle" => q = p
    BY <2>1 DEF Alone, OthersKept
  <2>3. Checked(Stored) /\ Checked(Stored \cup {event[p]})
    BY <2>1 DEF Alone
  <2>4. Stored' = Stored \/ Stored' = Stored \cup {event[p]}  BY <1>1, StoredStep
  <2>5. Checked(Stored)'  BY <2>1, <2>3, <2>4 DEF Checked
  <2>6. ASSUME pc'[p] # "idle" PROVE Checked(Stored \cup {event[p]})'
    <3>1. Stored' \cup {event'[p]} = Stored \cup {event[p]}  BY <2>1, <2>4, <2>6
    <3>2. QED  BY <2>1, <2>3, <3>1 DEF Checked
  <2>7. QED  BY <2>2, <2>5, <2>6
<1>2. ASSUME NEW p \in Processes, Crash(p) PROVE Goal
  <2>1. /\ UNCHANGED <<raced, listed>> /\ Stored' = Stored /\ OthersKept(p) /\ pc'[p] = "idle"
    BY <1>2, Moves DEF Crash, Stored, store, StoreInv
  <2>2. QED  BY <2>1 DEF Alone, OthersKept, Checked
<1>3. ASSUME NEW p \in Processes, NEW e \in Events, ImportRefused(p, e) PROVE Goal
  BY <1>3 DEF ImportRefused, locals, store, Stored, Alone, Checked
<1>4. ASSUME NEW p \in Processes, NEW e \in Events, NEW o \in Observers, NEW a \in Lists,
             Import(p, e, o, a)
      PROVE  Goal
  <2>1. /\ ~raced /\ \A q \in Processes : pc[q] = "idle"
        /\ ~Cyclic(Stored \cup {e}) /\ Missing(Stored \cup {e}) \subseteq a
        /\ listed' = listed \cup a /\ Stored' = Stored
    BY <1>4 DEF Import, store, Stored
  <2>2. OthersKept(p) /\ event'[p] = e
    BY <1>4 DEF Import, Begin, OthersKept, StoreInv, TypeOK, LocalsOK
  <2>3. Checked(Stored)'  BY <2>1 DEF Alone, Checked
  <2>4. Checked(Stored \cup {event[p]})'  BY <2>1, <2>2 DEF Checked
  <2>5. QED  BY <2>1, <2>2, <2>3, <2>4 DEF OthersKept
<1>5. ASSUME NEW p \in Processes, NEW e \in Events, NEW y \in Deliveries, Create(p, e, y)
      PROVE  Goal
  BY <1>5 DEF Create
<1>6. CASE UNCHANGED vars
  BY <1>6 DEF vars, store, locals, asked, Stored, Alone, Checked
<1>7. QED  BY <1>1, <1>2, <1>3, <1>4, <1>5, <1>6 DEF Next, Command

(* Events imported one after the other never close a cycle of parents, nor  *)
(* leave one missing that nobody advertised, however often imports are      *)
(* refused or die.                                                          *)
THEOREM GraphByImport == Spec => []ImportsInTurn
<1>1. Alone => ImportsInTurn  BY DEF Alone, Checked, ImportsInTurn
<1>2. StoreInv /\ Alone /\ [Next]_vars => Alone'  BY AloneStep
<1>3. QED  BY <1>1, <1>2, AloneInit, StoreAlways, PTL DEF Spec

-----------------------------------------------------------------------------
(* Observations.                                                            *)

ParentsKnown(p) ==
  \A i \in event[p].parents : i \in missing[p] \/ index[i] # NoEvent

(* One process at most created an event, and then nobody has said so yet.   *)
OneCreator ==
  /\ \A p \in Processes : created[p] => file[Path(event[p])] = event[p]
  /\ \A p, q \in Processes : created[p] /\ created[q] /\ event[p] = event[q] => p = q
  /\ \A p \in Processes, x \in Ids \X Observers :
       created[p] /\ observation[x] # NoObservation /\ observation[x].status = "imported"
         => observation[x].event # event[p]

ObserversInv ==
  /\ ObservationsHold /\ OneCreator
  /\ \A p \in Processes : pc[p] # "idle" /\ source[p] \in Observers => ParentsKnown(p)

LEMMA Noticed ==
  ASSUME StoreInv, NEW x \in Ids \X Observers, observation[x] # NoObservation
  PROVE  /\ observation[x].event \in Events /\ x[1] \in Ids /\ x[2] \in Observers
         /\ x = <<x[1], x[2]>>
  BY DEF StoreInv, TypeOK, DirectoryOK, Observation

LEMMA ObservationsKept ==
  ASSUME StoreInv, ObservationsHold, FilesKept, UNCHANGED observation
  PROVE  ObservationsHold'
<1> SUFFICES ASSUME NEW x \in Ids \X Observers, observation[x] # NoObservation
             PROVE  /\ index'[x[1]] = observation[x].event
                    /\ \/ observation[x].status = "pending_dependencies"
                       \/ \A i \in observation[x].event.parents : index'[i] # NoEvent
                    /\ observation[x].status = "imported" =>
                         \A o \in Observers :
                           LET m == observation[<<x[1], o>>]
                           IN m # NoObservation /\ m.status = "imported" => o = x[2]
  BY DEF ObservationsHold
<1>1. observation[x].event \in Events /\ x[1] \in Ids  BY Noticed
<1>2. observation[x].event # NoEvent /\ observation[x].event.parents \subseteq Ids
  BY <1>1, EventFacts
<1>3. \A i \in Ids : index[i] # NoEvent => index'[i] = index[i]  BY DEF FilesKept
<1>4. index[x[1]] = observation[x].event  BY DEF ObservationsHold
<1>5. /\ \/ observation[x].status = "pending_dependencies"
         \/ \A i \in observation[x].event.parents : index[i] # NoEvent
      /\ observation[x].status = "imported" =>
           \A o \in Observers :
             LET m == observation[<<x[1], o>>]
             IN m # NoObservation /\ m.status = "imported" => o = x[2]
  BY DEF ObservationsHold
<1>6. QED  BY <1>1, <1>2, <1>3, <1>4, <1>5

(* Steps that neither create nor observe.                                   *)
LEMMA ObserversKept ==
  ASSUME StoreInv, ObserversInv, FilesKept, UNCHANGED observation,
         \A q \in Processes : created'[q] => created[q] /\ event'[q] = event[q],
         \A q \in Processes : pc'[q] # "idle" /\ source'[q] \in Observers =>
           \/ /\ pc[q] # "idle"
              /\ event'[q] = event[q] /\ source'[q] = source[q] /\ missing'[q] = missing[q]
           \/ ParentsKnown(q)'
  PROVE  ObserversInv'
<1>1. ObservationsHold'  BY ObservationsKept DEF ObserversInv
<1>2. \A q \in Processes : created[q] => event[q] \in Events
  BY Held DEF StoreInv, TypeOK, LocalsOK
<1>3. OneCreator'
  <2>1. \A q \in Processes : created'[q] => file'[Path(event[q])] = event[q]
    BY <1>2, EventFacts DEF ObserversInv, OneCreator, FilesKept
  <2>2. QED  BY <2>1 DEF ObserversInv, OneCreator, Path
<1>4. ASSUME NEW q \in Processes, pc'[q] # "idle", source'[q] \in Observers
      PROVE  ParentsKnown(q)'
  <2>1. CASE ParentsKnown(q)'  BY <2>1
  <2>2. CASE /\ pc[q] # "idle"
             /\ event'[q] = event[q] /\ source'[q] = source[q] /\ missing'[q] = missing[q]
    <3>1. ParentsKnown(q)  BY <1>4, <2>2 DEF ObserversInv
    <3>2. event[q] \in Events  BY <2>2, Held DEF StoreInv
    <3>3. event[q].parents \subseteq Ids  BY <3>2, EventFacts
    <3>4. QED  BY <2>2, <3>1, <3>3 DEF ParentsKnown, FilesKept
  <2>3. QED  BY <1>4, <2>1, <2>2
<1>5. QED  BY <1>1, <1>3, <1>4 DEF ObserversInv

LEMMA ObserversWriteFile ==
  ASSUME StoreInv, ObserversInv, FilesKept, NEW p \in Processes, WriteFile(p),
         file[Path(event[p])] = NoEvent
  PROVE  ObserversInv'
<1> DEFINE e == event[p]
<1>1. /\ pc[p] = "write" /\ file' = [file EXCEPT ![Path(e)] = e]
      /\ created' = [created EXCEPT ![p] = TRUE] /\ pc' = [pc EXCEPT ![p] = "own"]
      /\ UNCHANGED <<event, source, missing, observation, index>>
  <2>1. pc[p] = "write"  BY DEF WriteFile
  <2>2. e \in Events  BY <2>1, Held DEF StoreInv
  <2>3. e # NoEvent  BY <2>2, EventFacts
  <2>4. QED  BY <2>3 DEF WriteFile, notes
<1>2. TypeOK /\ e \in Events  BY <1>1, Held DEF StoreInv
<1>3. Path(e) \in Slots \X Ids /\ e # NoEvent  BY <1>2, EventFacts
<1>4. ObservationsHold'  BY ObservationsKept, <1>1 DEF ObserversInv
<1>5. \A q \in Processes : created'[q] <=> created[q] \/ q = p
  BY <1>1, <1>2 DEF TypeOK, LocalsOK
<1>6. \A q \in Processes : created[q] => event[q] # e
  BY <1>3 DEF ObserversInv, OneCreator
<1>7. \A x \in Ids \X Observers :
        observation[x] # NoObservation => observation[x].event # e
  <2> SUFFICES ASSUME NEW x \in Ids \X Observers, observation[x] # NoObservation,
                      observation[x].event = e
               PROVE  FALSE
    OBVIOUS
  <2>1. x[1] \in Ids /\ index[x[1]] = e  BY DEF ObserversInv, ObservationsHold
  <2>2. file[Path(e)] = e  BY <1>3, <2>1 DEF StoreInv, IndexedIsWhole
  <2>3. QED  BY <1>3, <2>2
<1>8. OneCreator'
  <2>1. file'[Path(e)] = e  BY <1>1, <1>2, <1>3 DEF TypeOK, DirectoryOK
  <2>2. \A q \in Processes : created[q] => event[q] \in Events
    BY Held, <1>2 DEF TypeOK, LocalsOK
  <2>3. \A q \in Processes : created[q] => file'[Path(event[q])] = event[q]
    BY <2>2, EventFacts DEF ObserversInv, OneCreator, FilesKept
  <2>4. \A q \in Processes : created'[q] => file'[Path(event[q])] = event[q]
    BY <1>5, <2>1, <2>3
  <2>5. \A q, r \in Processes : created'[q] /\ created'[r] /\ event[q] = event[r] => q = r
    BY <1>5, <1>6 DEF ObserversInv, OneCreator
  <2>6. \A q \in Processes, x \in Ids \X Observers :
          created'[q] /\ observation[x] # NoObservation /\ observation[x].status = "imported"
            => observation[x].event # event[q]
    BY <1>5, <1>7 DEF ObserversInv, OneCreator
  <2>7. QED  BY <1>1, <2>4, <2>5, <2>6 DEF OneCreator, Path
<1>9. \A q \in Processes : pc'[q] # "idle" /\ source'[q] \in Observers => ParentsKnown(q)'
  BY <1>1, <1>2 DEF ObserversInv, ParentsKnown, TypeOK, LocalsOK
<1>10. QED  BY <1>4, <1>8, <1>9 DEF ObserversInv

LEMMA ObserversWriteObservation ==
  ASSUME StoreInv, ObserversInv, NEW p \in Processes, WriteObservation(p),
         observation[Noted(p)] = NoObservation
  PROVE  ObserversInv'
<1> DEFINE e == event[p]
           n == [event |-> e, status |-> Status(p), missing |-> missing[p]]
<1>1. /\ pc[p] = "note" /\ Finish(p) /\ UNCHANGED store
      /\ observation' = [observation EXCEPT ![Noted(p)] = n]
  BY DEF WriteObservation
<1>2. /\ TypeOK /\ e \in Events /\ source[p] \in Observers /\ index[e.id] = e
      /\ missing[p] \subseteq Ids
  BY <1>1, Held DEF StoreInv, TypeOK, LocalsOK, HolderOK
<1>3. e.id \in Ids /\ Noted(p) = <<e.id, source[p]>> /\ e # NoEvent
  BY <1>2, EventFacts DEF Noted
<1>4. /\ n.status = "pending_dependencies" \/ \A i \in e.parents : index[i] # NoEvent
      /\ n.status = "imported" => created[p]
  <2>1. ParentsKnown(p)  BY <1>1, <1>2 DEF ObserversInv
  <2>2. QED  BY <2>1 DEF Status, ParentsKnown
<1>5. n.event = e  OBVIOUS
<1> HIDE DEF n
<1>6. \A x \in Ids \X Observers : observation'[x] = IF x = <<e.id, source[p]>> THEN n ELSE observation[x]
  BY <1>1, <1>2, <1>3 DEF TypeOK, DirectoryOK
<1>7. UNCHANGED <<index, file>>  BY <1>1 DEF store
<1>8. ASSUME n.status = "imported", NEW x \in Ids \X Observers, observation[x] # NoObservation,
             observation[x].status = "imported"
      PROVE  observation[x].event # e /\ x[1] # e.id
  <2>1. observation[x].event # e  BY <1>4, <1>8 DEF ObserversInv, OneCreator
  <2>2. index[x[1]] = observation[x].event  BY <1>8 DEF ObserversInv, ObservationsHold
  <2>3. QED  BY <1>2, <2>1, <2>2
<1>9. ObservationsHold'
  <2> SUFFICES ASSUME NEW x \in Ids \X Observers, observation'[x] # NoObservation
               PROVE  /\ index[x[1]] = observation'[x].event
                      /\ \/ observation'[x].status = "pending_dependencies"
                         \/ \A i \in observation'[x].event.parents : index[i] # NoEvent
                      /\ observation'[x].status = "imported" =>
                           \A o \in Observers :
                             observation'[<<x[1], o>>] # NoObservation
                             /\ observation'[<<x[1], o>>].status = "imported" => o = x[2]
    BY <1>7 DEF ObservationsHold
  <2>1. x[1] \in Ids /\ x[2] \in Observers /\ x = <<x[1], x[2]>>  OBVIOUS
  <2>2. CASE x = <<e.id, source[p]>>
    <3>1. observation'[x] = n /\ x[1] = e.id /\ x[2] = source[p]  BY <1>6, <2>2
    <3>2. ASSUME n.status = "imported", NEW o \in Observers,
                 observation'[<<e.id, o>>] # NoObservation,
                 observation'[<<e.id, o>>].status = "imported"
          PROVE  o = source[p]
      <4>1. <<e.id, o>> \in Ids \X Observers  BY <1>3
      <4>2. QED  BY <1>6, <1>8, <3>2, <4>1
    <3>3. QED  BY <1>2, <1>4, <1>5, <3>1, <3>2
  <2>3. CASE x # <<e.id, source[p]>>
    <3>1. observation'[x] = observation[x]  BY <1>6, <2>3
    <3>2. /\ index[x[1]] = observation[x].event
          /\ \/ observation[x].status = "pending_dependencies"
             \/ \A i \in observation[x].event.parents : index[i] # NoEvent
          /\ observation[x].status = "imported" =>
               \A o \in Observers :
                 observation[<<x[1], o>>] # NoObservation
                 /\ observation[<<x[1], o>>].status = "imported" => o = x[2]
      BY <3>1 DEF ObserversInv, ObservationsHold
    <3>3. ASSUME observation[x].status = "imported", NEW o \in Observers,
                 observation'[<<x[1], o>>] # NoObservation,
                 observation'[<<x[1], o>>].status = "imported"
          PROVE  o = x[2]
      <4>1. CASE <<x[1], o>> = <<e.id, source[p]>>
        <5>1. n.status = "imported" /\ x[1] = e.id  BY <1>6, <2>1, <3>3, <4>1
        <5>2. QED  BY <1>8, <3>1, <3>3, <5>1
      <4>2. CASE <<x[1], o>> # <<e.id, source[p]>>
        BY <1>6, <2>1, <3>2, <3>3, <4>2
      <4>3. QED  BY <4>1, <4>2
    <3>4. QED  BY <3>1, <3>2, <3>3
  <2>4. QED  BY <2>2, <2>3
<1>10. OneCreator'
  <2>1. \A q \in Processes : created'[q] => created[q] /\ q # p /\ event'[q] = event[q]
    BY <1>1, <1>2 DEF Finish, TypeOK, LocalsOK
  <2>2. \A q \in Processes : created'[q] /\ n.status = "imported" => event[q] # e
    BY <1>4, <2>1 DEF ObserversInv, OneCreator
  <2>3. \A q \in Processes, x \in Ids \X Observers :
          created'[q] /\ observation'[x] # NoObservation /\ observation'[x].status = "imported"
            => observation'[x].event # event[q]
    BY <1>5, <1>6, <2>1, <2>2 DEF ObserversInv, OneCreator
  <2>4. QED  BY <1>7, <2>1, <2>3 DEF ObserversInv, OneCreator, Path
<1>11. \A q \in Processes : pc'[q] # "idle" /\ source'[q] \in Observers => ParentsKnown(q)'
  BY <1>1, <1>2, <1>7 DEF ObserversInv, ParentsKnown, Finish, TypeOK, LocalsOK
<1>12. QED  BY <1>9, <1>10, <1>11 DEF ObserversInv

(* A parent that is not missing is an event of the graph.                   *)
LEMMA ParentThere ==
  ASSUME NEW S, NEW e \in S, NEW i \in e.parents, i \notin Missing(S)
  PROVE  \E f \in S : f.id = i
<1> SUFFICES ASSUME \A f \in S : f.id # i PROVE i \in Missing(S)  OBVIOUS
<1>1. i \in UNION {f.parents : f \in S}
  <2>1. e.parents \in {f.parents : f \in S}  OBVIOUS
  <2>2. QED  BY <2>1
<1>2. i \notin {f.id : f \in S}  OBVIOUS
<1>3. QED  BY <1>1, <1>2 DEF Missing

LEMMA ObserversStep ==
  ASSUME StoreInv, ObserversInv, [Next]_vars
  PROVE  ObserversInv'
<1>1. FilesKept /\ TypeOK  BY StepKeeps DEF StoreInv
<1> DEFINE Quiet ==
             /\ UNCHANGED observation
             /\ \A q \in Processes : created'[q] => created[q] /\ event'[q] = event[q]
             /\ \A q \in Processes : pc'[q] # "idle" /\ source'[q] \in Observers =>
                  \/ /\ pc[q] # "idle" /\ event'[q] = event[q]
                     /\ source'[q] = source[q] /\ missing'[q] = missing[q]
                  \/ ParentsKnown(q)'
<1>2. Quiet => ObserversInv'  BY <1>1, ObserversKept
<1>3. ASSUME NEW p \in Processes, pc[p] # "idle" PROVE Finish(p) /\ UNCHANGED observation => Quiet
  BY <1>1 DEF Finish, TypeOK, LocalsOK
<1>4. ASSUME NEW p \in Processes, NEW l \in Labels, pc[p] # "idle"
      PROVE  Goto(p, l) /\ UNCHANGED observation => Quiet
  BY <1>1, <1>4 DEF Goto, TypeOK, LocalsOK
<1>5. ASSUME NEW p \in Processes, Step(p) PROVE ObserversInv'
  <2>1. pc[p] # "idle"  BY <1>5, Steps
  <2>2. CASE LookInIndex(p) \/ LookAtSlot(p) \/ LookForFile(p)
    <3>1. UNCHANGED observation /\ (Finish(p) \/ \E l \in Labels : Goto(p, l))
      BY <2>2 DEF LookInIndex, LookAtSlot, LookForFile, Quarantine, notes, Labels
    <3>2. QED  BY <1>2, <1>3, <1>4, <2>1, <3>1
  <2>3. CASE WritePayload(p) \/ WriteOwner(p) \/ WriteIndex(p)
    <3>1. UNCHANGED observation /\ (Finish(p) \/ \E l \in Labels : Goto(p, l))
      BY <2>3 DEF WritePayload, WriteOwner, WriteIndex, Entered, Submitted, Quarantine, notes, Labels
    <3>2. QED  BY <1>2, <1>3, <1>4, <2>1, <3>1
  <2>4. CASE LookForDuplicate(p) \/ RecordDuplicate(p) \/ LookForObservation(p)
    <3>1. UNCHANGED observation /\ (Finish(p) \/ \E l \in Labels : Goto(p, l))
      BY <2>4 DEF LookForDuplicate, RecordDuplicate, LookForObservation, Submitted, notes, Labels
    <3>2. QED  BY <1>2, <1>3, <1>4, <2>1, <3>1
  <2>5. CASE WriteFile(p)
    <3>1. CASE file[Path(event[p])] = NoEvent  BY <1>1, <2>5, <3>1, ObserversWriteFile
    <3>2. CASE file[Path(event[p])] # NoEvent
      <4>1. UNCHANGED observation /\ (Finish(p) \/ \E l \in Labels : Goto(p, l))
        BY <2>5, <3>2 DEF WriteFile, notes, Labels
      <4>2. QED  BY <1>2, <1>3, <1>4, <2>1, <4>1
    <3>3. QED  BY <3>1, <3>2
  <2>6. CASE WriteObservation(p)
    <3>1. CASE observation[Noted(p)] = NoObservation
      BY <2>6, <3>1, ObserversWriteObservation
    <3>2. CASE observation[Noted(p)] # NoObservation
      BY <1>2, <1>3, <2>1, <2>6, <3>2 DEF WriteObservation
    <3>3. QED  BY <3>1, <3>2
  <2>7. QED  BY <1>5, <2>2, <2>3, <2>4, <2>5, <2>6 DEF Step
<1>6. ASSUME NEW p \in Processes, Crash(p) PROVE ObserversInv'
  BY <1>2, <1>3, <1>6 DEF Crash, notes
<1>7. ASSUME NEW p \in Processes, NEW e \in Events, NEW y \in Deliveries, Create(p, e, y)
      PROVE  ObserversInv'
  <2>1. y \notin Observers  BY FederationAssumption
  <2>2. Quiet
    BY <1>1, <1>7, <2>1 DEF Create, Begin, Asked, notes, TypeOK, LocalsOK
  <2>3. QED  BY <1>2, <2>2
<1>8. ASSUME NEW p \in Processes, NEW e \in Events, ImportRefused(p, e) PROVE ObserversInv'
  <2>1. Quiet  BY <1>8 DEF ImportRefused, Asked, Quarantine, locals
  <2>2. QED  BY <1>2, <2>1
<1>9. ASSUME NEW p \in Processes, NEW e \in Events, NEW o \in Observers, NEW a \in Lists,
             Import(p, e, o, a)
      PROVE  ObserversInv'
  <2> DEFINE m == Missing(Stored \cup {e})
  <2>1. /\ Begin(p, e, o, m) /\ UNCHANGED <<observation, index>>
    BY <1>9 DEF Import, notes, store
  <2>2. \A i \in e.parents : i \in m \/ index[i] # NoEvent
    <3> SUFFICES ASSUME NEW i \in e.parents, i \notin m PROVE index[i] # NoEvent
      OBVIOUS
    <3>1. PICK f \in Stored \cup {e} : f.id = i  BY ParentThere
    <3>2. f # e  BY <3>1, FederationAssumption
    <3>3. f \in Stored /\ index[f.id] = f  BY <3>1, <3>2 DEF Stored, StoreInv, IndexedIsWhole
    <3>4. QED  BY <3>1, <3>3 DEF Stored
  <2> HIDE DEF m
  <2>3. pc[p] = "idle" /\ event'[p] = e /\ missing'[p] = m
    BY <1>1, <2>1 DEF Begin, Asked, TypeOK, LocalsOK
  <2>4. ParentsKnown(p)'  BY <2>1, <2>2, <2>3 DEF ParentsKnown
  <2>5. Quiet  BY <1>1, <2>1, <2>3, <2>4 DEF Begin, TypeOK, LocalsOK
  <2>6. QED  BY <1>2, <2>5
<1>10. CASE UNCHANGED vars
  <2>1. Quiet  BY <1>10 DEF vars, locals, notes
  <2>2. QED  BY <1>2, <2>1
<1>11. QED  BY <1>5, <1>6, <1>7, <1>8, <1>9, <1>10 DEF Next, Command

(* An observation speaks of the event in the index, claims no parent that   *)
(* is not there, and one observer at most says it imported the event.       *)
THEOREM ObservationsCorrect == Spec => []ObservationsHold
<1>1. Init => ObserversInv
  BY DEF Init, ObserversInv, ObservationsHold, OneCreator
<1>2. StoreInv /\ ObserversInv /\ [Next]_vars => ObserversInv'  BY ObserversStep
<1>3. ObserversInv => ObservationsHold  BY DEF ObserversInv
<1>4. QED  BY <1>1, <1>2, <1>3, StoreAlways, PTL DEF Spec
=============================================================================
