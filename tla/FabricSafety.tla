---------------------------- MODULE FabricSafety ----------------------------
(***************************************************************************)
(* What PMWFabric is checked and proved for.                               *)
(***************************************************************************)
EXTENDS PMWFabric

\* What the contract knows of a row that was placed.
ASSUME PlaceAssumption == NoRow \notin [owner : Agents \cup {NoAgent}, task : Tasks \cup {NoTask}]

(* Shape of the journal, the canvas and the processes.                      *)
JournalOK ==
  /\ kind \in [Agents -> Kinds \cup {NoKind}]
  /\ binding \in [Sessions -> Binding \cup {NoBinding}]
  /\ creator \in [Workspaces -> Agents \cup {NoAgent}]
  /\ home \in [Tasks -> Workspaces \cup {NoWorkspace}]
  /\ row \in [Rows -> Row \cup {NoRow}]
  /\ decisions \subseteq
       [agent : Agents, workspace : Workspaces, task : Tasks \cup {NoTask}]
  /\ provenance \subseteq [id : Nat, row : Rows, object : Nat]

ElsewhereOK ==
  /\ target \in [Agents -> Sessions \cup {NoSession}]
  /\ canvas \in [revision : Nat, portals : SUBSET Portal] /\ minted \in Nat

LocalsOK ==
  /\ pc \in [Processes -> Labels]
  /\ call \in [Processes -> Calls \cup {NoCall}]
  /\ session \in [Processes -> Sessions \cup {NoSession}]
  /\ found \in [Processes -> Binding \cup {NoBinding}]
  /\ post \in [Processes -> Post \cup {NoPost}]
  /\ \A p \in Processes :
       /\ call[p] = NoCall <=> pc[p] = "idle"
       /\ post[p] = NoPost <=> pc[p] \notin {"post", "merge", "update", "reread", "note"}

TypeOK == JournalOK /\ ElsewhereOK /\ LocalsOK

-----------------------------------------------------------------------------
(* ImplementsContract: "A provider binding is immutable across semantic     *)
(* identities" (SECURITY_BOUNDARIES.md, 2), an agent's kind is immutable, a *)
(* workspace, a task and a placed resource stay what they were made, and a  *)
(* resource's task is of its workspace, whatever the commands that raced to *)
(* write the same row had read (journal.py, its checks and its unique       *)
(* indexes).                                                                *)
Contract == INSTANCE FabricContract WITH
              owner <- [s \in Sessions |->
                         IF binding[s] = NoBinding THEN NoAgent ELSE binding[s].owner],
              place <- [r \in Rows |->
                         IF row[r] = NoRow THEN NoRow
                         ELSE [owner |-> row[r].owner, task |-> row[r].task]],
              shown <- {<<o.row, o.mode>> : o \in canvas.portals},
              NoPlace <- NoRow
ImplementsContract == Contract!Spec

(* OnePortal: however often a projection is repeated, after answers that    *)
(* were lost too, and whoever else writes to the canvas, a resource has one *)
(* portal per mode there, and its id is no other's (adapters/mrmic.py and   *)
(* mrmic_phase13.py: revision precondition and idempotency key).            *)
OnePortal ==
  \A o1, o2 \in canvas.portals :
    o1.id = o2.id \/ (o1.row = o2.row /\ o1.mode = o2.mode) => o1 = o2

(* ProjectionHappened: a row that says it is projected holds the server's   *)
(* answer about a portal on the canvas of this very resource in this mode;  *)
(* and if the object it names is on the canvas, it is that portal, although *)
(* projections of one row overlap and either may write last                 *)
(* (core.project_resource, update_resource_projection).                     *)
ProjectionHappened ==
  \A r \in Rows :
    row[r] # NoRow /\ row[r].revision > 0 =>
      \E o \in canvas.portals :
        /\ o.id = row[r].result /\ o.row = r /\ o.mode = row[r].mode
        /\ \A other \in canvas.portals : other.id = row[r].object => other = o

(* RevisionCounts: no projection that the provenance speaks of is missing   *)
(* in its row's revision, although several read the row before any wrote it *)
(* (update_resource_projection, record_provenance).                         *)
RevisionCounts ==
  \A r \in Rows :
    LET noted == {v \in provenance : v.row = r}
    IN noted # {} => row[r] # NoRow /\ Cardinality(noted) <= row[r].revision
=============================================================================
