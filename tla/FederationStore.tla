-------------------------- MODULE FederationStore --------------------------
(***************************************************************************)
(* The federation's event store (eml_pmw/federation/store.py) and the      *)
(* import of foreign events into it (importer.py, causal.py).  Processes   *)
(* share one directory; the lock of submit is one of a process and keeps   *)
(* none of them out.  An event is four files, each published whole by      *)
(* link(2) and never replaced: payload, event, the index of its sequence   *)
(* number, and the index of its id, through which it is found.  A check    *)
(* and the publication after it are one step where losing the race in      *)
(* between ends the same way as finding the file, else two.                *)
(***************************************************************************)
EXTENDS Naturals, CausalGraph

CONSTANTS
  Processes,   \* stores open on the directory
  Ids,         \* event ids
  Slots,       \* replica, store generation and sequence number
  Refs, Bytes, \* payload files and their contents
  Events,      \* the events there are to submit
  Deliveries,  \* delivery ids of events created here
  Observers,   \* who imports
  Lists,       \* sets of missing parents an observer may advertise
  MaxCommands, MaxCrashes, \* bounds on what the processes are asked and on deaths
  NoEvent, NoBytes, NoSource, NoObservation

Event == [id : Ids, slot : Slots, ref : Refs, bytes : Bytes, parents : SUBSET Ids]
Sources == Deliveries \cup Observers
Statuses == {"imported", "duplicate", "pending_dependencies"}
Observation == [event : Events, status : Statuses, missing : SUBSET Ids]

ASSUME FederationAssumption ==
  /\ Events \subseteq Event /\ \A e \in Events : e.id \notin e.parents
  /\ Deliveries \cap Observers = {} /\ Lists \subseteq SUBSET Ids
  /\ NoEvent \notin Events /\ NoBytes \notin Bytes /\ NoSource \notin Sources
  /\ NoObservation \notin Observation
  /\ MaxCommands \in Nat /\ MaxCrashes \in Nat

VARIABLES
  \* the directory
  payload,     \* payloads/
  file,        \* events/, by sequence slot and id
  owner,       \* indexes/sequences/
  index,       \* indexes/events/
  duplicates,  \* duplicates/
  quarantine,  \* quarantine/: code and event
  observation, \* observations/, by id and observer
  \* the processes
  pc, event, source, missing, created,
  \* bookkeeping of the model
  abandoned,   \* events whose submission a process died in
  listed,      \* missing parents that accepted imports advertised
  raced,       \* whether a submission began while another was at work, or unimported
  commands, crashes  \* how many so far

store  == <<payload, file, owner, index>>
notes  == <<duplicates, quarantine, observation>>
locals == <<pc, event, source, missing, created>>
asked  == <<abandoned, listed, raced, commands, crashes>>
vars   == <<store, notes, locals, asked>>

Labels == {"idle", "index", "slot", "payload", "file", "write", "own", "enter",
           "duplicate", "record", "observe", "note"}

Init ==
  /\ payload = [r \in Refs |-> NoBytes]
  /\ file = [f \in Slots \X Ids |-> NoEvent]
  /\ owner = [s \in Slots |-> NoEvent]
  /\ index = [i \in Ids |-> NoEvent]
  /\ duplicates = {} /\ quarantine = {}
  /\ observation = [x \in Ids \X Observers |-> NoObservation]
  /\ pc = [p \in Processes |-> "idle"]
  /\ event = [p \in Processes |-> NoEvent]
  /\ source = [p \in Processes |-> NoSource]
  /\ missing = [p \in Processes |-> {}]
  /\ created = [p \in Processes |-> FALSE]
  /\ abandoned = {} /\ listed = {} /\ raced = FALSE /\ commands = 0 /\ crashes = 0

Stored == {index[i] : i \in Ids} \ {NoEvent}
Path(e) == <<e.slot, e.id>>

Goto(p, l) == pc' = [pc EXCEPT ![p] = l] /\ UNCHANGED <<event, source, missing, created>>

\* A command ends, with its result or with an error.
Finish(p) ==
  /\ pc' = [pc EXCEPT ![p] = "idle"]
  /\ event' = [event EXCEPT ![p] = NoEvent]
  /\ source' = [source EXCEPT ![p] = NoSource]
  /\ missing' = [missing EXCEPT ![p] = {}]
  /\ created' = [created EXCEPT ![p] = FALSE]

Asked(p) ==
  pc[p] = "idle" /\ commands < MaxCommands /\ commands' = commands + 1

Begin(p, e, x, m) ==
  /\ Asked(p)
  /\ pc' = [pc EXCEPT ![p] = "index"]
  /\ event' = [event EXCEPT ![p] = e]
  /\ source' = [source EXCEPT ![p] = x]
  /\ missing' = [missing EXCEPT ![p] = m]
  /\ UNCHANGED created

Quarantine(code, e) ==
  quarantine' = quarantine \cup {<<code, e>>} /\ UNCHANGED <<duplicates, observation>>

-----------------------------------------------------------------------------
(* event-create, and import up to its submission.                           *)

Create(p, e, y) ==
  /\ Begin(p, e, y, {})
  /\ raced' = TRUE
  /\ UNCHANGED <<store, notes, abandoned, listed, crashes>>

(* The graph is that of the stored events and the one to be imported.       *)
ImportRefused(p, e) ==
  /\ Asked(p)
  /\ LET S == Stored \cup {e}
     IN \/ SameId(S) /\ Quarantine("event_content_collision", e)
        \/ ~SameId(S) /\ SameSlot(S) /\ Quarantine("replica_sequence_collision", e)
        \/ ~SameId(S) /\ ~SameSlot(S) /\ Cyclic(S) /\ Quarantine("causal_cycle", e)
  /\ UNCHANGED <<store, locals, abandoned, listed, raced, crashes>>

\* Mutants of Import: no look for cycles; any missing parent may stay so.
ImportUnordered(p, e, o, a) ==
  LET S == Stored \cup {e}
  IN /\ ~SameId(S) /\ ~SameSlot(S) /\ Missing(S) \subseteq a
     /\ Begin(p, e, o, Missing(S))
     /\ listed' = listed \cup a
     /\ raced' = (raced \/ \E q \in Processes : pc[q] # "idle")
     /\ UNCHANGED <<store, notes, abandoned, crashes>>

ImportUnlisted(p, e, o, a) ==
  LET S == Stored \cup {e}
  IN /\ ~SameId(S) /\ ~SameSlot(S) /\ ~Cyclic(S)
     /\ Begin(p, e, o, Missing(S))
     /\ listed' = listed \cup a
     /\ raced' = (raced \/ \E q \in Processes : pc[q] # "idle")
     /\ UNCHANGED <<store, notes, abandoned, crashes>>

\* An import with missing parents that are not advertised leaves no trace.
Import(p, e, o, a) ==
  LET S == Stored \cup {e}
  IN /\ ~SameId(S) /\ ~SameSlot(S) /\ ~Cyclic(S)
     /\ Missing(S) \subseteq a
     /\ Begin(p, e, o, Missing(S))
     /\ listed' = listed \cup a
     /\ raced' = (raced \/ \E q \in Processes : pc[q] # "idle")
     /\ UNCHANGED <<store, notes, abandoned, crashes>>

-----------------------------------------------------------------------------
(* submit.                                                                  *)

LookInIndex(p) ==
  /\ pc[p] = "index"
  /\ LET e == event[p]
     IN \/ index[e.id] = NoEvent /\ Goto(p, "slot") /\ UNCHANGED notes
        \/ index[e.id] = e /\ Goto(p, "duplicate") /\ UNCHANGED notes
        \/ /\ index[e.id] \notin {NoEvent, e}
           /\ Quarantine("event_content_collision", e) /\ Finish(p)
  /\ UNCHANGED <<store, asked>>

\* Mutant of LookAtSlot: the sequence number is taken before the payload.
LookAtSlotTaking(p) ==
  /\ pc[p] = "slot"
  /\ LET e == event[p]
     IN \/ /\ owner[e.slot] \in {NoEvent, e}
           /\ owner' = [owner EXCEPT ![e.slot] = e]
           /\ Goto(p, "payload") /\ UNCHANGED notes
        \/ /\ owner[e.slot] \notin {NoEvent, e} /\ owner' = owner
           /\ Quarantine("replica_sequence_collision", e) /\ Finish(p)
  /\ UNCHANGED <<payload, file, index, asked>>

LookAtSlot(p) ==
  /\ pc[p] = "slot"
  /\ LET e == event[p]
     IN \/ owner[e.slot] \in {NoEvent, e} /\ Goto(p, "payload") /\ UNCHANGED notes
        \/ /\ owner[e.slot] \notin {NoEvent, e}
           /\ Quarantine("replica_sequence_collision", e) /\ Finish(p)
  /\ UNCHANGED <<store, asked>>

WritePayload(p) ==
  /\ pc[p] = "payload"
  /\ LET e == event[p]
     IN \/ /\ payload[e.ref] = NoBytes
           /\ payload' = [payload EXCEPT ![e.ref] = e.bytes]
           /\ Goto(p, "file")
        \/ payload[e.ref] = e.bytes /\ payload' = payload /\ Goto(p, "file")
        \/ payload[e.ref] \notin {NoBytes, e.bytes} /\ payload' = payload /\ Finish(p)
  /\ UNCHANGED <<file, owner, index, notes, asked>>

\* Mutant of LookForFile: any file there is a collision.
LookForFileUnread(p) ==
  /\ pc[p] = "file"
  /\ LET e == event[p]
     IN \/ file[Path(e)] = NoEvent /\ Goto(p, "write") /\ UNCHANGED notes
        \/ /\ file[Path(e)] # NoEvent
           /\ Quarantine("event_content_collision", e) /\ Finish(p)
  /\ UNCHANGED <<store, asked>>

LookForFile(p) ==
  /\ pc[p] = "file"
  /\ LET e == event[p]
     IN \/ file[Path(e)] = NoEvent /\ Goto(p, "write") /\ UNCHANGED notes
        \/ file[Path(e)] = e /\ Goto(p, "own") /\ UNCHANGED notes
        \/ /\ file[Path(e)] \notin {NoEvent, e}
           /\ Quarantine("event_content_collision", e) /\ Finish(p)
  /\ UNCHANGED <<store, asked>>

\* Mutant of WriteFile: who loses the race believes to have created the event.
WriteFileTwice(p) ==
  /\ pc[p] = "write"
  /\ LET e == event[p]
     IN \/ /\ file[Path(e)] \in {NoEvent, e}
           /\ file' = [file EXCEPT ![Path(e)] = e]
           /\ created' = [created EXCEPT ![p] = TRUE]
           /\ pc' = [pc EXCEPT ![p] = "own"]
           /\ UNCHANGED <<event, source, missing>>
        \/ file[Path(e)] \notin {NoEvent, e} /\ file' = file /\ Finish(p)
  /\ UNCHANGED <<payload, owner, index, notes, asked>>

\* A file that appeared since is one's own event, or ends submit unquarantined.
WriteFile(p) ==
  /\ pc[p] = "write"
  /\ LET e == event[p]
     IN \/ /\ file[Path(e)] = NoEvent
           /\ file' = [file EXCEPT ![Path(e)] = e]
           /\ created' = [created EXCEPT ![p] = TRUE]
           /\ pc' = [pc EXCEPT ![p] = "own"]
           /\ UNCHANGED <<event, source, missing>>
        \/ file[Path(e)] = e /\ file' = file /\ Goto(p, "own")
        \/ file[Path(e)] \notin {NoEvent, e} /\ file' = file /\ Finish(p)
  /\ UNCHANGED <<payload, owner, index, notes, asked>>

\* Mutant of WriteOwner: the record is replaced.
WriteOwnerReplacing(p) ==
  /\ pc[p] = "own"
  /\ owner' = [owner EXCEPT ![event[p].slot] = event[p]]
  /\ Goto(p, "enter")
  /\ UNCHANGED <<payload, file, index, notes, asked>>

WriteOwner(p) ==
  /\ pc[p] = "own"
  /\ LET e == event[p]
     IN \/ /\ owner[e.slot] = NoEvent
           /\ owner' = [owner EXCEPT ![e.slot] = e]
           /\ Goto(p, "enter") /\ UNCHANGED notes
        \/ owner[e.slot] = e /\ owner' = owner /\ Goto(p, "enter") /\ UNCHANGED notes
        \/ /\ owner[e.slot] \notin {NoEvent, e}
           /\ owner' = owner
           /\ Quarantine("replica_sequence_collision", e) /\ Finish(p)
  /\ UNCHANGED <<payload, file, index, asked>>

\* submit returns; import goes on to the observation.
Submitted(p) ==
  IF source[p] \in Observers THEN Goto(p, "observe") ELSE Finish(p)

Entered(p) == IF created[p] THEN Submitted(p) ELSE Goto(p, "duplicate")

\* Mutant of WriteIndex: the record is replaced.
WriteIndexReplacing(p) ==
  /\ pc[p] = "enter"
  /\ index' = [index EXCEPT ![event[p].id] = event[p]]
  /\ Entered(p)
  /\ UNCHANGED <<payload, file, owner, notes, asked>>

WriteIndex(p) ==
  /\ pc[p] = "enter"
  /\ LET e == event[p]
     IN \/ /\ index[e.id] = NoEvent
           /\ index' = [index EXCEPT ![e.id] = e]
           /\ Entered(p) /\ UNCHANGED notes
        \/ index[e.id] = e /\ index' = index /\ Entered(p) /\ UNCHANGED notes
        \/ /\ index[e.id] \notin {NoEvent, e}
           /\ index' = index
           /\ Quarantine("event_content_collision", e) /\ Finish(p)
  /\ UNCHANGED <<payload, file, owner, asked>>

LookForDuplicate(p) ==
  /\ pc[p] = "duplicate"
  /\ IF <<event[p].id, source[p]>> \in duplicates THEN Submitted(p) ELSE Goto(p, "record")
  /\ UNCHANGED <<store, notes, asked>>

\* A record that appeared since is an error.
RecordDuplicate(p) ==
  /\ pc[p] = "record"
  /\ LET d == <<event[p].id, source[p]>>
     IN /\ duplicates' = duplicates \cup {d}
        /\ IF d \in duplicates THEN Finish(p) ELSE Submitted(p)
  /\ UNCHANGED <<store, quarantine, observation, asked>>

-----------------------------------------------------------------------------
(* record_observation.  An observation there is kept, whether it says the   *)
(* same (the result) or something else (an error).                          *)

Status(p) ==
  IF missing[p] # {} THEN "pending_dependencies"
  ELSE IF created[p] THEN "imported" ELSE "duplicate"

Noted(p) == <<event[p].id, source[p]>>

LookForObservation(p) ==
  /\ pc[p] = "observe"
  /\ IF observation[Noted(p)] = NoObservation THEN Goto(p, "note") ELSE Finish(p)
  /\ UNCHANGED <<store, notes, asked>>

WriteObservation(p) ==
  /\ pc[p] = "note"
  /\ observation' =
       IF observation[Noted(p)] = NoObservation
       THEN [observation EXCEPT ![Noted(p)] =
               [event |-> event[p], status |-> Status(p), missing |-> missing[p]]]
       ELSE observation
  /\ Finish(p)
  /\ UNCHANGED <<store, duplicates, quarantine, asked>>

-----------------------------------------------------------------------------
Crash(p) ==
  /\ pc[p] # "idle"
  /\ crashes < MaxCrashes /\ crashes' = crashes + 1
  /\ abandoned' = abandoned \cup {event[p]}
  /\ Finish(p)
  /\ UNCHANGED <<store, notes, listed, raced, commands>>

Step(p) ==
  \/ LookInIndex(p) \/ LookAtSlot(p) \/ WritePayload(p) \/ LookForFile(p)
  \/ WriteFile(p) \/ WriteOwner(p) \/ WriteIndex(p) \/ LookForDuplicate(p)
  \/ RecordDuplicate(p) \/ LookForObservation(p) \/ WriteObservation(p)

Command(p, e) ==
  \/ \E y \in Deliveries : Create(p, e, y)
  \/ ImportRefused(p, e)
  \/ \E o \in Observers, a \in Lists : Import(p, e, o, a)

Next == \E p \in Processes : Step(p) \/ Crash(p) \/ \E e \in Events : Command(p, e)

Spec == Init /\ [][Next]_vars
=============================================================================
