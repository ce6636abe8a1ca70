---------------------------- MODULE FabricProofs ----------------------------
(***************************************************************************)
(* Proofs about PMWFabric, for every number of processes, agents and       *)
(* resources, whatever the commands and wherever processes die.            *)
(***************************************************************************)
EXTENDS FabricSafety, FiniteSetTheorems, TLAPS

Projecting == {"post", "merge", "update", "reread", "note"}

(* At each step of a command its arguments are there.                       *)
Doing(p) ==
  /\ pc[p] = "bridge" => call[p].op = "import-herdr"
  /\ pc[p] \in {"agent", "upsert"} =>
       \/ call[p].op = "agent-add"
       \/ call[p].op = "import-herdr" /\ session[p] # NoSession
  /\ pc[p] \in {"binding", "bind"} =>
       call[p].op \in {"bind", "import-herdr"} /\ session[p] # NoSession
  /\ pc[p] = "workspace" => call[p].op = "workspace-create"
  /\ pc[p] = "task" => call[p].op = "task-create"
  /\ pc[p] \in {"resource", "insert"} => call[p].op = "resource-bind"
  /\ pc[p] \in Projecting \cup {"project", "state"} => call[p].op = "project"
  /\ pc[p] = "decide" => call[p].op = "decide"
  /\ pc[p] \in Projecting \cup {"state"} => row[call[p].row] # NoRow

Shape == TypeOK /\ \A p \in Processes : Doing(p)

LEMMA Arguments ==
  ASSUME NEW c \in Calls
  PROVE  /\ c # NoCall
         /\ c.op \in DOMAIN First
         /\ c.op \in {"agent-add", "import-herdr"} => c.agent \in Agents /\ c.kind \in Kinds
         /\ c.op = "bind" =>
              c.agent \in Agents /\ c.session \in Sessions /\ c.verified \in BOOLEAN
         /\ c.op = "workspace-create" => c.workspace \in Workspaces /\ c.agent \in Agents
         /\ c.op = "task-create" =>
              c.task \in Tasks /\ c.workspace \in Workspaces /\ c.agents \in SUBSET Agents
         /\ c.op = "resource-bind" =>
              /\ c.row \in Rows /\ c.owner \in Agents \cup {NoAgent}
              /\ c.task \in Tasks \cup {NoTask}
         /\ c.op = "project" => c.row \in Rows /\ c.mode \in Modes
         /\ c.op = "decide" =>
              /\ c.agent \in Agents /\ c.workspace \in Workspaces
              /\ c.task \in Tasks \cup {NoTask}
<1>1. c \in Call /\ NoCall \notin Call  BY FabricAssumption
<1>2. QED  BY <1>1 DEF Call, First

(* A step of p leaves the others where they are.                            *)
OthersKept(p) ==
  \A q \in Processes \ {p} :
    /\ pc'[q] = pc[q] /\ call'[q] = call[q] /\ session'[q] = session[q]
    /\ found'[q] = found[q] /\ post'[q] = post[q]

LEMMA Finishing ==
  ASSUME Shape, NEW p \in Processes, Finish(p)
  PROVE  LocalsOK' /\ Doing(p)' /\ OthersKept(p) /\ pc'[p] = "idle"
<1> USE DEF Shape, TypeOK, LocalsOK
<1>1. pc'[p] = "idle" /\ call'[p] = NoCall /\ post'[p] = NoPost
  BY DEF Finish
<1>2. /\ pc' \in [Processes -> Labels] /\ call' \in [Processes -> Calls \cup {NoCall}]
      /\ session' \in [Processes -> Sessions \cup {NoSession}]
      /\ found' \in [Processes -> Binding \cup {NoBinding}]
      /\ post' \in [Processes -> Post \cup {NoPost}]
  BY DEF Finish, Labels
<1>3. OthersKept(p)  BY DEF Finish, OthersKept
<1>4. Doing(p)'  BY <1>1 DEF Doing, Projecting
<1>5. QED  BY <1>1, <1>2, <1>3, <1>4 DEF OthersKept

LEMMA Going ==
  ASSUME Shape, NEW p \in Processes, NEW l \in Labels, Goto(p, l), l # "idle", pc[p] # "idle",
         session' \in [Processes -> Sessions \cup {NoSession}],
         found' \in [Processes -> Binding \cup {NoBinding}],
         post' \in [Processes -> Post \cup {NoPost}],
         \A q \in Processes \ {p} :
           session'[q] = session[q] /\ found'[q] = found[q] /\ post'[q] = post[q],
         post'[p] = NoPost <=> l \notin Projecting
  PROVE  LocalsOK' /\ OthersKept(p) /\ pc'[p] = l /\ call' = call
<1> USE DEF Shape, TypeOK, LocalsOK
<1>1. pc'[p] = l /\ call' = call /\ pc' \in [Processes -> Labels] /\ OthersKept(p)
  BY DEF Goto, OthersKept
<1>2. QED  BY <1>1 DEF OthersKept, Projecting

\* No row is removed.
RowsStay == \A r \in Rows : row[r] # NoRow => row'[r] # NoRow

LEMMA OthersDo ==
  ASSUME Shape, NEW p \in Processes, OthersKept(p), RowsStay, Doing(p)'
  PROVE  \A q \in Processes : Doing(q)'
<1> SUFFICES ASSUME NEW q \in Processes, q # p PROVE Doing(q)'  OBVIOUS
<1>1. Doing(q) /\ pc'[q] = pc[q] /\ call'[q] = call[q] /\ session'[q] = session[q]
  BY DEF OthersKept, Shape
<1>2. ASSUME pc[q] \in Projecting \cup {"state"} PROVE row'[call[q].row] # NoRow
  <2>1. call[q] \in Calls  BY <1>2 DEF Projecting, Shape, TypeOK, LocalsOK
  <2>2. call[q].row \in Rows  BY <1>1, <1>2, <2>1, Arguments DEF Doing
  <2>3. QED  BY <1>1, <1>2, <2>2 DEF RowsStay, Doing
<1>3. QED  BY <1>1, <1>2 DEF Doing

LEMMA ShapeInit == Init => Shape
  BY FabricAssumption
  DEF Init, Shape, TypeOK, JournalOK, ElsewhereOK, LocalsOK, Doing, Labels, Projecting

LEMMA Beginning ==
  ASSUME Shape, NEW p \in Processes, NEW c \in Calls, Begin(p, c)
  PROVE  Shape' /\ OthersKept(p) /\ pc'[p] = First[c.op] /\ call'[p] = c
<1> USE DEF Shape, TypeOK, LocalsOK
<1>1. c \in Calls /\ c # NoCall /\ c.op \in DOMAIN First
      /\ (c.op = "bind" => c.session \in Sessions)
  BY Arguments
<1>2. First[c.op] \in Labels \ (Projecting \cup {"idle"})
  BY <1>1 DEF First, Labels, Projecting
<1>3. /\ pc' = [pc EXCEPT ![p] = First[c.op]] /\ call' = [call EXCEPT ![p] = c]
      /\ session' = [session EXCEPT ![p] = IF c.op = "bind" THEN c.session ELSE NoSession]
      /\ UNCHANGED <<found, post>> /\ pc[p] = "idle"
  BY DEF Begin
<1>4. OthersKept(p)  BY <1>3 DEF OthersKept
<1>5. pc'[p] = First[c.op] /\ call'[p] = c
      /\ session'[p] = (IF c.op = "bind" THEN c.session ELSE NoSession)
  BY <1>3
<1>6. LocalsOK'
  <2>1. /\ pc' \in [Processes -> Labels] /\ call' \in [Processes -> Calls \cup {NoCall}]
        /\ session' \in [Processes -> Sessions \cup {NoSession}]
    BY <1>1, <1>2, <1>3
  <2>2. \A q \in Processes : call'[q] = NoCall <=> pc'[q] = "idle"
    BY <1>1, <1>2, <1>4, <1>5 DEF OthersKept
  <2>3. \A q \in Processes : post'[q] = NoPost <=> pc'[q] \notin Projecting
    BY <1>2, <1>3, <1>4, <1>5 DEF OthersKept, Projecting
  <2>4. QED  BY <1>3, <2>1, <2>2, <2>3 DEF Projecting
<1>7. Doing(p)'
  <2>1. pc'[p] \notin Projecting \cup {"state"}  BY <1>1, <1>5 DEF First, Projecting
  <2>2. QED  BY <1>1, <1>5, <2>1, FabricAssumption DEF Doing, First, Projecting
<1>8. JournalOK' /\ ElsewhereOK' /\ RowsStay
  BY DEF RowsStay, Begin, journal, elsewhere, JournalOK, ElsewhereOK
<1>9. QED  BY <1>4, <1>5, <1>6, <1>7, <1>8, OthersDo

LEMMA AgentShape ==
  ASSUME Shape, NEW p \in Processes,
         \/ ReadBridge(p) \/ LookForAgent(p) \/ Upsert(p) \/ LookForBinding(p)
         \/ WriteBinding(p)
  PROVE  Shape' /\ OthersKept(p)
<1> USE DEF Shape, TypeOK, LocalsOK
<1>0. pc[p] # "idle" => call[p] \in Calls  OBVIOUS
<1>1. CASE ReadBridge(p)
  <2>1. JournalOK' /\ ElsewhereOK' /\ RowsStay
    BY <1>1 DEF RowsStay, ReadBridge, journal, elsewhere, JournalOK, ElsewhereOK
  <2>2. CASE Finish(p)  BY <2>1, <2>2, Finishing, OthersDo
  <2>3. CASE ~Finish(p)
    <3>1. /\ pc[p] = "bridge" /\ call[p].op = "import-herdr" /\ call[p].agent \in Agents
          /\ target[call[p].agent] # NoSession
          /\ session' = [session EXCEPT ![p] = target[call[p].agent]]
          /\ Goto(p, "agent") /\ UNCHANGED <<found, post>>
      BY <1>0, <1>1, <2>3, Arguments DEF ReadBridge, Doing
    <3>2. target[call[p].agent] \in Sessions  BY <3>1 DEF ElsewhereOK
    <3>3. LocalsOK' /\ OthersKept(p) /\ pc'[p] = "agent" /\ call' = call
      BY <3>1, <3>2, Going DEF Labels, Projecting
    <3>4. Doing(p)'
      BY <3>1, <3>2, <3>3, FabricAssumption DEF Doing, Projecting
    <3>5. QED  BY <2>1, <3>3, <3>4, OthersDo
  <2>4. QED  BY <2>2, <2>3
<1>2. CASE LookForAgent(p)
  <2>1. JournalOK' /\ ElsewhereOK' /\ RowsStay
    BY <1>2 DEF RowsStay, LookForAgent, journal, elsewhere, JournalOK, ElsewhereOK
  <2>2. CASE Finish(p)  BY <2>1, <2>2, Finishing, OthersDo
  <2>3. CASE ~Finish(p)
    <3>1. pc[p] = "agent" /\ Goto(p, "upsert") /\ UNCHANGED <<session, found, post>>
      BY <1>2, <2>3 DEF LookForAgent
    <3>2. LocalsOK' /\ OthersKept(p) /\ pc'[p] = "upsert" /\ call' = call
      BY <3>1, Going DEF Labels, Projecting
    <3>3. Doing(p)'  BY <3>1, <3>2 DEF Doing, Projecting
    <3>4. QED  BY <2>1, <3>2, <3>3, OthersDo
  <2>4. QED  BY <2>2, <2>3
<1>3. CASE Upsert(p)
  <2>1. pc[p] = "upsert" /\ call[p].agent \in Agents /\ call[p].kind \in Kinds
    BY <1>0, <1>3, Arguments DEF Upsert, Doing
  <2>2. JournalOK' /\ ElsewhereOK' /\ RowsStay
    BY <1>3, <2>1 DEF RowsStay, Upsert, elsewhere, JournalOK, ElsewhereOK
  <2>3. CASE Finish(p)  BY <2>2, <2>3, Finishing, OthersDo
  <2>4. CASE ~Finish(p)
    <3>1. call[p].op = "import-herdr" /\ Goto(p, "binding") /\ UNCHANGED <<session, found, post>>
      BY <1>3, <2>4 DEF Upsert
    <3>2. LocalsOK' /\ OthersKept(p) /\ pc'[p] = "binding" /\ call' = call
      BY <2>1, <3>1, Going DEF Labels, Projecting
    <3>3. Doing(p)'  BY <2>1, <3>1, <3>2 DEF Doing, Projecting
    <3>4. QED  BY <2>2, <3>2, <3>3, OthersDo
  <2>5. QED  BY <2>3, <2>4
<1>4. CASE LookForBinding(p)
  <2>1. JournalOK' /\ ElsewhereOK' /\ RowsStay
    BY <1>4 DEF RowsStay, LookForBinding, journal, elsewhere, JournalOK, ElsewhereOK
  <2>2. CASE Finish(p)  BY <2>1, <2>2, Finishing, OthersDo
  <2>3. CASE ~Finish(p)
    <3>1. /\ pc[p] = "binding" /\ Goto(p, "bind") /\ UNCHANGED <<session, post>>
          /\ found' = [found EXCEPT ![p] = binding[session[p]]]
      BY <1>4, <2>3 DEF LookForBinding
    <3>2. binding[session[p]] \in Binding \cup {NoBinding}
      BY <3>1 DEF Doing, JournalOK
    <3>3. LocalsOK' /\ OthersKept(p) /\ pc'[p] = "bind" /\ call' = call
      BY <3>1, <3>2, Going DEF Labels, Projecting
    <3>4. Doing(p)'  BY <3>1, <3>3 DEF Doing, Projecting
    <3>5. QED  BY <2>1, <3>3, <3>4, OthersDo
  <2>4. QED  BY <2>2, <2>3
<1>5. CASE WriteBinding(p)
  <2>1. pc[p] = "bind" /\ session[p] \in Sessions /\ Bound(p) \in Binding
    BY <1>0, <1>5, Arguments DEF WriteBinding, Doing, Bound, Binding
  <2>2. JournalOK' /\ ElsewhereOK' /\ RowsStay
    BY <1>5, <2>1 DEF RowsStay, WriteBinding, elsewhere, JournalOK, ElsewhereOK
  <2>3. QED  BY <1>5, <2>2, Finishing, OthersDo DEF WriteBinding
<1>6. QED  BY <1>1, <1>2, <1>3, <1>4, <1>5

LEMMA PlaceShape ==
  ASSUME Shape, NEW p \in Processes,
         \/ CreateWorkspace(p) \/ CreateTask(p) \/ LookForRow(p) \/ InsertRow(p)
         \/ Decide(p)
  PROVE  Shape' /\ OthersKept(p)
<1> USE DEF Shape, TypeOK, LocalsOK
<1>0. pc[p] # "idle" => call[p] \in Calls  OBVIOUS
<1>1. CASE CreateWorkspace(p)
  <2>1. call[p].workspace \in Workspaces /\ call[p].agent \in Agents
    BY <1>0, <1>1, Arguments DEF CreateWorkspace, Doing
  <2>2. JournalOK' /\ ElsewhereOK' /\ RowsStay
    BY <1>1, <2>1 DEF RowsStay, CreateWorkspace, elsewhere, JournalOK, ElsewhereOK
  <2>3. QED  BY <1>1, <2>2, Finishing, OthersDo DEF CreateWorkspace
<1>2. CASE CreateTask(p)
  <2>1. call[p].task \in Tasks /\ call[p].workspace \in Workspaces
    BY <1>0, <1>2, Arguments DEF CreateTask, Doing
  <2>2. JournalOK' /\ ElsewhereOK' /\ RowsStay
    BY <1>2, <2>1 DEF RowsStay, CreateTask, elsewhere, JournalOK, ElsewhereOK
  <2>3. QED  BY <1>2, <2>2, Finishing, OthersDo DEF CreateTask
<1>3. CASE LookForRow(p)
  <2>1. JournalOK' /\ ElsewhereOK' /\ RowsStay
    BY <1>3 DEF RowsStay, LookForRow, journal, elsewhere, JournalOK, ElsewhereOK
  <2>2. CASE Finish(p)  BY <2>1, <2>2, Finishing, OthersDo
  <2>3. CASE ~Finish(p)
    <3>1. pc[p] = "resource" /\ Goto(p, "insert") /\ UNCHANGED <<session, found, post>>
      BY <1>3, <2>3 DEF LookForRow
    <3>2. LocalsOK' /\ OthersKept(p) /\ pc'[p] = "insert" /\ call' = call
      BY <3>1, Going DEF Labels, Projecting
    <3>3. Doing(p)'  BY <3>1, <3>2 DEF Doing, Projecting
    <3>4. QED  BY <2>1, <3>2, <3>3, OthersDo
  <2>4. QED  BY <2>2, <2>3
<1>4. CASE InsertRow(p)
  <2>1. call[p].row \in Rows /\ Unprojected(p) \in Row
    BY <1>0, <1>4, Arguments DEF InsertRow, Doing, Unprojected, Row, NoObject
  <2>2. JournalOK' /\ ElsewhereOK' /\ RowsStay
    BY <1>4, <2>1 DEF RowsStay, InsertRow, elsewhere, JournalOK, ElsewhereOK
  <2>3. QED  BY <1>4, <2>2, Finishing, OthersDo DEF InsertRow
<1>5. CASE Decide(p)
  <2>1. /\ call[p].agent \in Agents /\ call[p].workspace \in Workspaces
        /\ call[p].task \in Tasks \cup {NoTask}
    BY <1>0, <1>5, Arguments DEF Decide, Doing
  <2>2. JournalOK' /\ ElsewhereOK' /\ RowsStay
    BY <1>5, <2>1 DEF RowsStay, Decide, elsewhere, JournalOK, ElsewhereOK
  <2>3. QED  BY <1>5, <2>2, Finishing, OthersDo DEF Decide
<1>6. QED  BY <1>1, <1>2, <1>3, <1>4, <1>5

LEMMA ProjectShape ==
  ASSUME Shape, NEW p \in Processes,
         \/ ReadRow(p) \/ ReadState(p) \/ Send(p) \/ ReadMetadata(p) \/ UpdateRow(p)
         \/ Reread(p) \/ Note(p) \/ Die(p)
  PROVE  Shape' /\ OthersKept(p)
<1> USE DEF Shape, TypeOK, LocalsOK
<1>0. pc[p] # "idle" => call[p] \in Calls  OBVIOUS
<1>1. CASE ReadRow(p)
  <2>1. JournalOK' /\ ElsewhereOK' /\ RowsStay /\ row' = row
    BY <1>1 DEF RowsStay, ReadRow, journal, elsewhere, JournalOK, ElsewhereOK
  <2>2. CASE Finish(p)  BY <2>1, <2>2, Finishing, OthersDo
  <2>3. CASE ~Finish(p)
    <3>1. /\ pc[p] = "project" /\ row[call[p].row] # NoRow
          /\ Goto(p, "state") /\ UNCHANGED <<session, found, post>>
      BY <1>1, <2>3 DEF ReadRow
    <3>2. LocalsOK' /\ OthersKept(p) /\ pc'[p] = "state" /\ call' = call
      BY <3>1, Going DEF Labels, Projecting
    <3>3. Doing(p)'  BY <2>1, <3>1, <3>2 DEF Doing, Projecting
    <3>4. QED  BY <2>1, <3>2, <3>3, OthersDo
  <2>4. QED  BY <2>2, <2>3
<1>2. CASE ReadState(p)
  <2>1. JournalOK' /\ ElsewhereOK' /\ RowsStay /\ row' = row
    BY <1>2 DEF RowsStay, ReadState, journal, JournalOK, ElsewhereOK
  <2>2. CASE Finish(p)  BY <2>1, <2>2, Finishing, OthersDo
  <2>3. CASE ~Finish(p)
    <3>1. /\ pc[p] = "state" /\ Goto(p, "post") /\ UNCHANGED <<session, found>>
          /\ post' = [post EXCEPT ![p] =
               [revision |-> canvas.revision, object |-> minted + 1,
                result |-> NoObject, base |-> 0, seen |-> NoObject]]
      BY <1>2, <2>3 DEF ReadState
    <3>2. [revision |-> canvas.revision, object |-> minted + 1,
           result |-> NoObject, base |-> 0, seen |-> NoObject] \in Post
      BY DEF ElsewhereOK, Post, NoObject
    <3>3. LocalsOK' /\ OthersKept(p) /\ pc'[p] = "post" /\ call' = call
      BY <3>1, <3>2, FabricAssumption, Going DEF Labels, Projecting
    <3>4. Doing(p)'  BY <2>1, <3>1, <3>3 DEF Doing, Projecting
    <3>5. QED  BY <2>1, <3>3, <3>4, OthersDo
  <2>4. QED  BY <2>2, <2>3
<1>3. CASE Send(p)
  <2>1. /\ pc[p] = "post" /\ call[p].row \in Rows /\ call[p].mode \in Modes
        /\ post[p] \in Post
    BY <1>0, <1>3, Arguments DEF Send, Doing, Projecting
  <2>2. Transaction(p) \in Portal
    <3>1. post[p].object \in Nat  BY <2>1 DEF Post
    <3>2. <<"pmw-portal", call[p].row>> \in {"pmw-portal", "pmw-native-portal"} \X Rows
          /\ <<"pmw-native-portal", call[p].row>> \in {"pmw-portal", "pmw-native-portal"} \X Rows
      BY <2>1
    <3>3. Frame(call[p].row, post[p].object) \in Portal
      BY <2>1, <3>1, <3>2 DEF Frame, Portal, Modes
    <3>4. NativePortal(call[p].row, post[p].object) \in Portal
      BY <2>1, <3>1, <3>2 DEF NativePortal, Portal, Modes
    <3>5. QED  BY <3>3, <3>4 DEF Transaction
  <2>3. JournalOK' /\ ElsewhereOK' /\ RowsStay /\ row' = row
    BY <1>3, <2>2 DEF RowsStay, Send, journal, JournalOK, ElsewhereOK
  <2>4. CASE Finish(p)  BY <2>3, <2>4, Finishing, OthersDo
  <2>5. CASE ~Finish(p)
    <3>1. PICK o \in Portal :
            /\ post' = [post EXCEPT ![p].result = o.id]
            /\ Goto(p, "merge") /\ UNCHANGED <<session, found>>
      BY <1>3, <2>2, <2>5 DEF Send, Earlier, ElsewhereOK
    <3>2. [post[p] EXCEPT !.result = o.id] \in Post  BY <2>1 DEF Post, Portal
    <3>3. LocalsOK' /\ OthersKept(p) /\ pc'[p] = "merge" /\ call' = call
      BY <2>1, <3>1, <3>2, FabricAssumption, Going DEF Labels, Projecting
    <3>4. Doing(p)'  BY <2>1, <2>3, <3>3 DEF Doing, Projecting
    <3>5. QED  BY <2>3, <3>3, <3>4, OthersDo
  <2>6. QED  BY <2>4, <2>5
<1>4. CASE ReadMetadata(p)
  <2>1. pc[p] = "merge" /\ call[p].row \in Rows /\ post[p] \in Post
    BY <1>0, <1>4, Arguments DEF ReadMetadata, Doing, Projecting
  <2>2. JournalOK' /\ ElsewhereOK' /\ RowsStay
    BY <1>4 DEF RowsStay, ReadMetadata, journal, elsewhere, JournalOK, ElsewhereOK
  <2>3. /\ Goto(p, "update") /\ UNCHANGED <<session, found>>
        /\ post' = [post EXCEPT ![p].base = row[call[p].row].revision]
    BY <1>4 DEF ReadMetadata
  <2>4. row[call[p].row].revision \in Nat  BY <2>1 DEF Doing, Projecting, JournalOK, Row
  <2>5. [post[p] EXCEPT !.base = row[call[p].row].revision] \in Post
    BY <2>1, <2>4 DEF Post
  <2>6. LocalsOK' /\ OthersKept(p) /\ pc'[p] = "update" /\ call' = call
    BY <2>1, <2>3, <2>5, FabricAssumption, Going DEF Labels, Projecting
  <2>7. Doing(p)'  BY <2>1, <2>2, <2>6 DEF Doing, Projecting, RowsStay
  <2>8. QED  BY <2>2, <2>6, <2>7, OthersDo
<1>5. CASE UpdateRow(p)
  <2>1. pc[p] = "update" /\ call[p].row \in Rows /\ call[p].mode \in Modes /\ post[p] \in Post
    BY <1>0, <1>5, Arguments DEF UpdateRow, Doing, Projecting
  <2>2. row[call[p].row] \in Row  BY <2>1 DEF Doing, Projecting, JournalOK
  <2>3. Projected(p, row[call[p].row]) \in Row
    BY <2>1, <2>2 DEF Row, Post, Projected
  <2>4. JournalOK' /\ ElsewhereOK' /\ RowsStay
    BY <1>5, <2>1, <2>3, FabricAssumption
    DEF RowsStay, UpdateRow, elsewhere, JournalOK, ElsewhereOK
  <2>5. Goto(p, "reread") /\ UNCHANGED <<session, found, post>>  BY <1>5 DEF UpdateRow
  <2>6. LocalsOK' /\ OthersKept(p) /\ pc'[p] = "reread" /\ call' = call
    BY <2>1, <2>5, Going DEF Labels, Projecting
  <2>7. Doing(p)'  BY <2>1, <2>4, <2>6 DEF Doing, Projecting, RowsStay
  <2>8. QED  BY <2>4, <2>6, <2>7, OthersDo
<1>6. CASE Reread(p)
  <2>1. pc[p] = "reread" /\ call[p].row \in Rows /\ post[p] \in Post
    BY <1>0, <1>6, Arguments DEF Reread, Doing, Projecting
  <2>2. JournalOK' /\ ElsewhereOK' /\ RowsStay
    BY <1>6 DEF RowsStay, Reread, journal, elsewhere, JournalOK, ElsewhereOK
  <2>3. /\ Goto(p, "note") /\ UNCHANGED <<session, found>>
        /\ post' = [post EXCEPT ![p].seen = row[call[p].row].object]
    BY <1>6 DEF Reread
  <2>4. row[call[p].row].object \in Nat  BY <2>1 DEF Doing, Projecting, JournalOK, Row
  <2>5. [post[p] EXCEPT !.seen = row[call[p].row].object] \in Post
    BY <2>1, <2>4 DEF Post
  <2>6. LocalsOK' /\ OthersKept(p) /\ pc'[p] = "note" /\ call' = call
    BY <2>1, <2>3, <2>5, FabricAssumption, Going DEF Labels, Projecting
  <2>7. Doing(p)'  BY <2>1, <2>2, <2>6 DEF Doing, Projecting, RowsStay
  <2>8. QED  BY <2>2, <2>6, <2>7, OthersDo
<1>7. CASE Note(p)
  <2>1. pc[p] = "note" /\ call[p].row \in Rows /\ post[p] \in Post
    BY <1>0, <1>7, Arguments DEF Note, Doing, Projecting
  <2>2. JournalOK' /\ ElsewhereOK' /\ RowsStay
    BY <1>7, <2>1 DEF RowsStay, Note, elsewhere, JournalOK, ElsewhereOK, Post
  <2>3. QED  BY <1>7, <2>2, Finishing, OthersDo DEF Note
<1>8. CASE Die(p)
  <2>1. JournalOK' /\ ElsewhereOK' /\ RowsStay
    BY <1>8 DEF RowsStay, Die, journal, elsewhere, JournalOK, ElsewhereOK
  <2>2. QED  BY <1>8, <2>1, Finishing, OthersDo DEF Die
<1>9. QED  BY <1>1, <1>2, <1>3, <1>4, <1>5, <1>6, <1>7, <1>8

\* What happens elsewhere leaves the processes and the journal alone.
LEMMA OutsideShape ==
  ASSUME Shape, CanvasEdit \/ \E a \in Agents, s \in Sessions : BridgeBind(a, s)
  PROVE  Shape' /\ UNCHANGED <<journal, locals, minted>>
<1>1. UNCHANGED <<journal, locals, minted>>  BY DEF CanvasEdit, BridgeBind
<1>2. ElsewhereOK'
  BY DEF CanvasEdit, BridgeBind, ElsewhereOK, Shape, TypeOK
<1>3. JournalOK' /\ LocalsOK' /\ \A p \in Processes : Doing(p)'
  BY <1>1 DEF Shape, TypeOK, JournalOK, LocalsOK, Doing, journal, locals
<1>4. QED  BY <1>1, <1>2, <1>3 DEF Shape, TypeOK

LEMMA StepShape ==
  ASSUME Shape, NEW p \in Processes, Step(p)
  PROVE  Shape' /\ OthersKept(p)
  BY AgentShape, PlaceShape, ProjectShape DEF Step

LEMMA ShapeNext == Shape /\ [Next]_vars => Shape'
<1> SUFFICES ASSUME Shape, [Next]_vars PROVE Shape'  OBVIOUS
<1>1. CASE UNCHANGED vars
  BY <1>1 DEF vars, journal, elsewhere, locals, Shape, TypeOK, JournalOK, ElsewhereOK,
              LocalsOK, Doing
<1>2. CASE \E p \in Processes : Step(p)  BY <1>2, StepShape
<1>3. CASE \E p \in Processes, c \in Calls : Begin(p, c)  BY <1>3, Beginning
<1>4. CASE CanvasEdit \/ \E a \in Agents, s \in Sessions : BridgeBind(a, s)
  BY <1>4, OutsideShape
<1>5. QED  BY <1>1, <1>2, <1>3, <1>4 DEF Next

(* TypeCorrect: the tables, the canvas and the processes keep their shape.  *)
THEOREM TypeCorrect == Spec => []TypeOK
<1>1. Shape => TypeOK  BY DEF Shape
<1>2. QED  BY <1>1, ShapeInit, ShapeNext, PTL DEF Spec

-----------------------------------------------------------------------------
(* Identities and places: what a command has checked still holds when it    *)
(* writes, because nothing that was written is changed.                     *)

Kept ==
  /\ \A a \in Agents : kind[a] # NoKind => kind'[a] = kind[a]
  /\ \A s \in Sessions :
       binding[s] # NoBinding => binding'[s] # NoBinding /\ binding'[s].owner = binding[s].owner
  /\ \A w \in Workspaces : creator[w] # NoAgent => creator'[w] = creator[w]
  /\ \A t \in Tasks : home[t] # NoWorkspace => home'[t] = home[t]
  /\ \A r \in Rows :
       row[r] # NoRow =>
         row'[r] # NoRow /\ row'[r].owner = row[r].owner /\ row'[r].task = row[r].task

Holder(p) ==
  /\ pc[p] = "bind" =>
       /\ kind[call[p].agent] # NoKind
       /\ found[p] # NoBinding =>
            binding[session[p]] # NoBinding /\ binding[session[p]].owner = call[p].agent
  /\ pc[p] = "insert" =>
       /\ creator[call[p].row[1]] # NoAgent
       /\ call[p].owner # NoAgent => kind[call[p].owner] # NoKind
       /\ call[p].task # NoTask => home[call[p].task] = call[p].row[1]

IdentityInv == Shape /\ \A p \in Processes : Holder(p)

(* The arguments of a process at work.                                      *)
LEMMA Given ==
  ASSUME Shape, NEW p \in Processes
  PROVE  /\ pc[p] \in {"agent", "upsert", "binding", "bind"} => call[p].agent \in Agents
         /\ pc[p] \in {"agent", "upsert"} => call[p].kind \in Kinds
         /\ pc[p] \in {"binding", "bind"} => session[p] \in Sessions
         /\ pc[p] = "workspace" => call[p].workspace \in Workspaces /\ call[p].agent \in Agents
         /\ pc[p] = "task" => call[p].task \in Tasks /\ call[p].workspace \in Workspaces
         /\ pc[p] \in {"resource", "insert"} =>
              /\ call[p].row \in Rows /\ call[p].row[1] \in Workspaces
              /\ call[p].owner \in Agents \cup {NoAgent} /\ call[p].task \in Tasks \cup {NoTask}
         /\ pc[p] \in Projecting \cup {"project", "state"} =>
              call[p].row \in Rows /\ call[p].mode \in Modes
         /\ pc[p] \in Projecting \cup {"state"} => row[call[p].row] \in Row
         /\ pc[p] \in Projecting => post[p] \in Post
<1>1. Doing(p) /\ LocalsOK /\ JournalOK  BY DEF Shape, TypeOK
<1>2. pc[p] # "idle" => call[p] \in Calls  BY <1>1 DEF LocalsOK
<1>3. pc[p] \in {"binding", "bind"} => session[p] \in Sessions  BY <1>1 DEF Doing, LocalsOK
<1>4. pc[p] \in Projecting => post[p] \in Post  BY <1>1 DEF LocalsOK, Projecting
<1>5. pc[p] \in Projecting \cup {"project", "state"} =>
        call[p].row \in Rows /\ call[p].mode \in Modes
  BY <1>1, <1>2, Arguments DEF Doing, Projecting
<1>6. pc[p] \in Projecting \cup {"state"} => row[call[p].row] \in Row
  BY <1>1, <1>5 DEF Doing, Projecting, JournalOK
<1>7. pc[p] \in {"resource", "insert"} =>
        /\ call[p].row \in Rows /\ call[p].row[1] \in Workspaces
        /\ call[p].owner \in Agents \cup {NoAgent} /\ call[p].task \in Tasks \cup {NoTask}
  BY <1>1, <1>2, Arguments DEF Doing, Rows
<1>8. QED  BY <1>1, <1>2, <1>3, <1>4, <1>5, <1>6, <1>7, Arguments DEF Doing

LEMMA StepKept ==
  ASSUME IdentityInv, NEW p \in Processes, Step(p)
  PROVE  Kept
<1> USE DEF Kept
<1>1. CASE UNCHANGED <<kind, binding, creator, home, row>>  BY <1>1
<1>2. CASE Upsert(p)
  BY <1>2, Given DEF IdentityInv, Upsert, Shape, TypeOK, JournalOK
<1>3. CASE WriteBinding(p)
  <2>1. pc[p] = "bind" /\ session[p] \in Sessions /\ Holder(p) /\ Bound(p).owner = call[p].agent
        /\ Bound(p) \in Binding
    BY <1>3, Arguments
    DEF IdentityInv, WriteBinding, Bound, Binding, Shape, TypeOK, LocalsOK, Doing
  <2>2. QED
    BY <1>3, <2>1, FabricAssumption
    DEF IdentityInv, WriteBinding, Holder, Shape, TypeOK, JournalOK
<1>4. CASE CreateWorkspace(p)
  BY <1>4, Given DEF IdentityInv, CreateWorkspace, Shape, TypeOK, JournalOK
<1>5. CASE CreateTask(p)
  BY <1>5, Given DEF IdentityInv, CreateTask, Shape, TypeOK, JournalOK
<1>6. CASE InsertRow(p)
  BY <1>6, Given DEF IdentityInv, InsertRow, Shape, TypeOK, JournalOK
<1>7. CASE UpdateRow(p)
  <2>1. pc[p] = "update" /\ call[p].row \in Rows /\ row[call[p].row] \in Row
        /\ Projected(p, row[call[p].row]) \in Row
    BY <1>7, Given DEF IdentityInv, UpdateRow, Projecting, Row, Projected, Post
  <2>2. QED
    BY <1>7, <2>1, FabricAssumption
    DEF IdentityInv, UpdateRow, Projected, Shape, TypeOK, JournalOK
<1>8. QED
  BY <1>1, <1>2, <1>3, <1>4, <1>5, <1>6, <1>7
  DEF Step, ReadBridge, LookForAgent, LookForBinding, LookForRow, Decide, ReadRow, ReadState,
      Send, ReadMetadata, Reread, Note, Die, journal

LEMMA OthersHold ==
  ASSUME IdentityInv, Kept, NEW q \in Processes,
         pc'[q] = pc[q], call'[q] = call[q], session'[q] = session[q], found'[q] = found[q]
  PROVE  Holder(q)'
<1>1. Holder(q) /\ Shape  BY DEF IdentityInv
<1>2. pc[q] = "bind" => call[q].agent \in Agents /\ session[q] \in Sessions
  BY <1>1, Given
<1>3. pc[q] = "insert" =>
        /\ call[q].row[1] \in Workspaces
        /\ call[q].owner \in Agents \cup {NoAgent} /\ call[q].task \in Tasks \cup {NoTask}
  BY <1>1, Given
<1>4. pc[q] = "insert" => call[q].row[1] # NoWorkspace  BY <1>3, FabricAssumption
<1>5. QED  BY <1>1, <1>2, <1>3, <1>4 DEF Holder, Kept

LEMMA IdentityStep ==
  ASSUME IdentityInv, NEW p \in Processes, Step(p)
  PROVE  IdentityInv'
<1>1. Shape' /\ OthersKept(p) /\ Kept  BY StepShape, StepKept DEF IdentityInv
<1>2. \A q \in Processes \ {p} : Holder(q)'  BY <1>1, OthersHold DEF OthersKept
<1>3. Holder(p)'
  <2>1. CASE pc'[p] \notin {"bind", "insert"}  BY <2>1 DEF Holder
  <2>2. CASE LookForBinding(p) /\ pc'[p] = "bind"
    <3>1. /\ pc[p] = "binding" /\ kind[call[p].agent] # NoKind
          /\ binding[session[p]] # NoBinding => binding[session[p]].owner = call[p].agent
          /\ found' = [found EXCEPT ![p] = binding[session[p]]]
          /\ UNCHANGED <<kind, binding, call, session>>
      BY <2>2, <1>1
      DEF LookForBinding, Finish, Goto, journal, IdentityInv, Shape, TypeOK, LocalsOK
    <3>2. found'[p] = binding[session[p]]
      BY <3>1 DEF IdentityInv, Shape, TypeOK, LocalsOK
    <3>3. QED  BY <2>2, <3>1, <3>2 DEF Holder
  <2>3. CASE LookForRow(p) /\ pc'[p] = "insert"
    <3>1. /\ creator[call[p].row[1]] # NoAgent
          /\ call[p].owner # NoAgent => kind[call[p].owner] # NoKind
          /\ call[p].task # NoTask => home[call[p].task] = call[p].row[1]
          /\ UNCHANGED <<kind, creator, home, call>>
      BY <2>3 DEF LookForRow, Finish, Goto, journal, IdentityInv, Shape, TypeOK, LocalsOK
    <3>2. QED  BY <2>3, <3>1 DEF Holder
  <2>4. QED
    BY <2>1, <2>2, <2>3
    DEF Step, ReadBridge, LookForAgent, Upsert, LookForBinding, WriteBinding, CreateWorkspace,
        CreateTask, LookForRow, InsertRow, Decide, ReadRow, ReadState, Send, ReadMetadata,
        UpdateRow, Reread, Note, Die, Finish, Goto, IdentityInv, Shape, TypeOK, LocalsOK
<1>4. QED  BY <1>1, <1>2, <1>3 DEF IdentityInv

LEMMA IdentityNext == IdentityInv /\ [Next]_vars => IdentityInv'
<1> SUFFICES ASSUME IdentityInv, [Next]_vars PROVE IdentityInv'  OBVIOUS
<1>0. Shape'  BY ShapeNext DEF IdentityInv
<1>1. CASE UNCHANGED vars
  BY <1>0, <1>1 DEF vars, journal, locals, IdentityInv, Holder
<1>2. CASE \E p \in Processes : Step(p)  BY <1>2, IdentityStep
<1>3. CASE \E p \in Processes, c \in Calls : Begin(p, c)
  <2>1. PICK p \in Processes, c \in Calls : Begin(p, c)  BY <1>3
  <2>2. OthersKept(p) /\ pc'[p] = First[c.op] /\ c.op \in DOMAIN First
    BY <2>1, Beginning, Arguments DEF IdentityInv
  <2>3. pc'[p] \notin {"bind", "insert"}  BY <2>2 DEF First
  <2>4. Kept  BY <2>1 DEF Begin, journal, Kept
  <2>5. \A q \in Processes \ {p} : Holder(q)'  BY <2>2, <2>4, OthersHold DEF OthersKept
  <2>6. Holder(p)'  BY <2>3 DEF Holder
  <2>7. QED  BY <1>0, <2>5, <2>6 DEF IdentityInv
<1>4. CASE CanvasEdit \/ \E a \in Agents, s \in Sessions : BridgeBind(a, s)
  <2>1. UNCHANGED <<journal, locals>>  BY <1>4, OutsideShape DEF IdentityInv
  <2>2. QED  BY <1>0, <2>1 DEF journal, locals, IdentityInv, Holder
<1>5. QED  BY <1>1, <1>2, <1>3, <1>4 DEF Next

LEMMA IdentityInit == Init => IdentityInv
<1> SUFFICES ASSUME Init PROVE IdentityInv  OBVIOUS
<1>1. Shape  BY ShapeInit
<1>2. \A p \in Processes : Holder(p)  BY DEF Init, Holder
<1>3. QED  BY <1>1, <1>2 DEF IdentityInv

-----------------------------------------------------------------------------
(* Refinement.                                                              *)

OwnerMap == [s \in Sessions |-> IF binding[s] = NoBinding THEN NoAgent ELSE binding[s].owner]
PlaceMap ==
  [r \in Rows |-> IF row[r] = NoRow THEN NoRow ELSE [owner |-> row[r].owner, task |-> row[r].task]]
ShownMap == {<<o.row, o.mode>> : o \in canvas.portals}

LEMMA ContractInit == Init => Contract!Init
<1> SUFFICES ASSUME Init PROVE Contract!Init  OBVIOUS
<1>1. /\ OwnerMap = [s \in Sessions |-> NoAgent] /\ PlaceMap = [r \in Rows |-> NoRow]
      /\ ShownMap = {}
  BY DEF Init, OwnerMap, PlaceMap, ShownMap
<1>2. QED
  BY <1>1, FabricAssumption DEF Init, Contract!Init, OwnerMap, PlaceMap, ShownMap

LEMMA RegisterStep ==
  ASSUME IdentityInv, NEW p \in Processes, Upsert(p)
  PROVE  [Contract!Next]_Contract!vars
<1>1. /\ call[p].agent \in Agents /\ call[p].kind \in Kinds
      /\ kind \in [Agents -> Kinds \cup {NoKind}]
      /\ kind' = [kind EXCEPT ![call[p].agent] = IF @ = NoKind THEN call[p].kind ELSE @]
      /\ UNCHANGED <<binding, creator, home, row, canvas>>
  BY Given DEF Upsert, elsewhere, IdentityInv, Shape, TypeOK, JournalOK
<1>2. CASE kind[call[p].agent] = NoKind
  <2>1. Contract!Register(call[p].agent, call[p].kind)
    BY <1>1, <1>2 DEF Contract!Register, Contract!Known
  <2>2. QED  BY <1>1, <2>1 DEF Contract!Next
<1>3. CASE kind[call[p].agent] # NoKind
  <2>1. kind' = kind  BY <1>1, <1>3
  <2>2. QED  BY <1>1, <2>1 DEF Contract!vars
<1>4. QED  BY <1>2, <1>3

LEMMA ClaimStep ==
  ASSUME IdentityInv, NEW p \in Processes, WriteBinding(p),
         NEW s, s = session[p], NEW a, a = call[p].agent
  PROVE  [Contract!Next]_Contract!vars
<1>1. /\ s \in Sessions /\ a \in Agents /\ Bound(p).owner = a /\ Bound(p) # NoBinding
      /\ kind[a] # NoKind /\ Holder(p) /\ pc[p] = "bind"
      /\ binding \in [Sessions -> Binding \cup {NoBinding}]
  <2>1. pc[p] = "bind" /\ Holder(p) /\ Doing(p) /\ pc[p] # "idle"
    BY DEF WriteBinding, IdentityInv, Shape
  <2>2. call[p] \in Calls  BY <2>1 DEF IdentityInv, Shape, TypeOK, LocalsOK
  <2>3. Bound(p).owner = a /\ Bound(p) \in Binding
    BY <2>1, <2>2, Arguments DEF Bound, Binding, Doing
  <2>4. QED
    BY <2>1, <2>3, Given, FabricAssumption DEF IdentityInv, Shape, TypeOK, JournalOK, Holder
<1>2. UNCHANGED <<kind, creator, home, row, canvas>>  BY DEF WriteBinding, elsewhere
<1>3. CASE binding[s] = NoBinding
  <2>1. binding' = [binding EXCEPT ![s] = Bound(p)]
    BY <1>1, <1>3 DEF WriteBinding, Holder
  <2>2. OwnerMap' = [OwnerMap EXCEPT ![s] = a] /\ OwnerMap[s] = NoAgent
    BY <1>1, <1>3, <2>1 DEF OwnerMap
  <2>3. Contract!Claim(s, a)
    BY <1>1, <1>2, <2>2 DEF Contract!Claim, Contract!Known, OwnerMap
  <2>4. QED  BY <1>1, <2>3 DEF Contract!Next
<1>4. CASE binding[s] # NoBinding
  <2>1. \A z \in Sessions : (binding'[z] = NoBinding <=> binding[z] = NoBinding)
          /\ (binding[z] # NoBinding => binding'[z].owner = binding[z].owner)
    BY <1>1, <1>4 DEF WriteBinding, Holder
  <2>2. OwnerMap' = OwnerMap  BY <2>1 DEF OwnerMap
  <2>3. QED  BY <1>2, <2>2 DEF Contract!vars, OwnerMap
<1>5. QED  BY <1>3, <1>4

LEMMA PlanStep ==
  ASSUME IdentityInv, NEW p \in Processes, CreateWorkspace(p) \/ CreateTask(p)
  PROVE  [Contract!Next]_Contract!vars
<1>1. CASE CreateWorkspace(p)
  <2> DEFINE w == call[p].workspace  a == call[p].agent
  <2>1. w \in Workspaces /\ a \in Agents /\ creator \in [Workspaces -> Agents \cup {NoAgent}]
    BY <1>1, Given DEF CreateWorkspace, IdentityInv, Shape, TypeOK, JournalOK
  <2>2. UNCHANGED <<kind, binding, home, row, canvas>>  BY <1>1 DEF CreateWorkspace, elsewhere
  <2>3. CASE kind[a] # NoKind /\ creator[w] = NoAgent
    <3>1. Contract!Open(w, a)
      BY <1>1, <2>2, <2>3 DEF CreateWorkspace, Contract!Open, Contract!Known
    <3>2. QED  BY <2>1, <3>1 DEF Contract!Next
  <2>4. CASE ~(kind[a] # NoKind /\ creator[w] = NoAgent)
    <3>1. creator' = creator  BY <1>1, <2>4 DEF CreateWorkspace
    <3>2. QED  BY <2>2, <3>1 DEF Contract!vars
  <2>5. QED  BY <2>3, <2>4
<1>2. CASE CreateTask(p)
  <2> DEFINE t == call[p].task  w == call[p].workspace
  <2>1. w \in Workspaces /\ t \in Tasks
    BY <1>2, Given DEF CreateTask, IdentityInv
  <2>2. UNCHANGED <<kind, binding, creator, row, canvas>>  BY <1>2 DEF CreateTask, elsewhere
  <2>3. CASE home' = home  BY <2>2, <2>3 DEF Contract!vars
  <2>4. CASE home' # home
    <3>1. Contract!Plan(t, w)
      BY <1>2, <2>2, <2>4 DEF CreateTask, Contract!Plan
    <3>2. QED  BY <2>1, <3>1 DEF Contract!Next
  <2>5. QED  BY <2>3, <2>4
<1>3. QED  BY <1>1, <1>2

LEMMA PlaceStep ==
  ASSUME IdentityInv, NEW p \in Processes, InsertRow(p),
         NEW r, r = call[p].row, NEW a, a = call[p].owner, NEW t, t = call[p].task
  PROVE  [Contract!Next]_Contract!vars
<1>1. /\ r \in Rows /\ a \in Agents \cup {NoAgent} /\ t \in Tasks \cup {NoTask}
      /\ Holder(p) /\ pc[p] = "insert" /\ row \in [Rows -> Row \cup {NoRow}]
      /\ Unprojected(p) \in Row
  BY Given
  DEF InsertRow, IdentityInv, Shape, TypeOK, JournalOK, Unprojected, Row, NoObject
<1>2. UNCHANGED <<kind, binding, creator, home, canvas>>  BY DEF InsertRow, elsewhere
<1>3. CASE row[r] = NoRow
  <2>1. row' = [row EXCEPT ![r] = Unprojected(p)]  BY <1>3 DEF InsertRow
  <2>2. PlaceMap' = [PlaceMap EXCEPT ![r] = [owner |-> a, task |-> t]] /\ PlaceMap[r] = NoRow
    BY <1>1, <1>3, <2>1, FabricAssumption DEF PlaceMap, Unprojected
  <2>3. Contract!Place(r, a, t)
    BY <1>1, <1>2, <2>2 DEF Contract!Place, Contract!Known, PlaceMap, Holder
  <2>4. QED  BY <1>1, <2>3 DEF Contract!Next
<1>4. CASE row[r] # NoRow
  <2>1. row' = row  BY <1>1, <1>4 DEF InsertRow
  <2>2. QED  BY <1>2, <2>1 DEF Contract!vars
<1>5. QED  BY <1>3, <1>4

LEMMA ShowStep ==
  ASSUME IdentityInv, NEW p \in Processes, Send(p),
         NEW r, r = call[p].row, NEW m, m = call[p].mode
  PROVE  [Contract!Next]_Contract!vars
<1>1. pc[p] = "post" /\ r \in Rows /\ m \in Modes /\ row[r] \in Row
  BY Given DEF Send, IdentityInv, Projecting
<1>2. UNCHANGED <<kind, binding, creator, home, row>>  BY DEF Send, journal
<1>3. Transaction(p).row = r /\ Transaction(p).mode = m
  BY <1>1 DEF Transaction, Frame, NativePortal, Modes
<1>4. CASE canvas' = canvas  BY <1>2, <1>4 DEF Contract!vars
<1>5. CASE canvas' # canvas
  <2>1. canvas'.portals = canvas.portals \cup {Transaction(p)}  BY <1>5 DEF Send
  <2>2. ShownMap' = ShownMap \cup {<<r, m>>}  BY <1>3, <2>1 DEF ShownMap
  <2>3. CASE <<r, m>> \in ShownMap
    <3>1. ShownMap' = ShownMap  BY <2>2, <2>3
    <3>2. QED  BY <1>2, <3>1 DEF Contract!vars, ShownMap
  <2>4. CASE <<r, m>> \notin ShownMap
    <3>1. PlaceMap[r] # NoRow  BY <1>1, FabricAssumption, PlaceAssumption DEF PlaceMap, Row
    <3>2. Contract!Show(r, m)
      BY <1>2, <2>2, <2>4, <3>1 DEF Contract!Show, PlaceMap, ShownMap
    <3>3. QED  BY <1>1, <3>2 DEF Contract!Next
  <2>5. QED  BY <2>3, <2>4
<1>6. QED  BY <1>4, <1>5

LEMMA RefreshStep ==
  ASSUME IdentityInv, NEW p \in Processes, UpdateRow(p)
  PROVE  [Contract!Next]_Contract!vars
<1>1. /\ call[p].row \in Rows /\ row[call[p].row] \in Row
      /\ Projected(p, row[call[p].row]) \in Row
      /\ row \in [Rows -> Row \cup {NoRow}]
  BY Given
  DEF UpdateRow, IdentityInv, Projecting, Row, Projected, Post, Shape, TypeOK, JournalOK
<1>2. UNCHANGED <<kind, binding, creator, home, canvas>>  BY DEF UpdateRow, elsewhere
<1>3. \A r \in Rows : (row'[r] = NoRow <=> row[r] = NoRow)
        /\ (row[r] # NoRow => row'[r].owner = row[r].owner /\ row'[r].task = row[r].task)
  BY <1>1, FabricAssumption DEF UpdateRow, Projected
<1>4. PlaceMap' = PlaceMap  BY <1>3 DEF PlaceMap
<1>5. QED  BY <1>2, <1>4 DEF Contract!vars, PlaceMap

LEMMA ContractNext == IdentityInv /\ [Next]_vars => [Contract!Next]_Contract!vars
<1> SUFFICES ASSUME IdentityInv, [Next]_vars PROVE [Contract!Next]_Contract!vars  OBVIOUS
<1>1. CASE UNCHANGED vars  BY <1>1 DEF vars, journal, elsewhere, Contract!vars
<1>2. ASSUME NEW p \in Processes, Step(p) PROVE [Contract!Next]_Contract!vars
  <2>1. CASE UNCHANGED <<kind, binding, creator, home, row, canvas>>
    BY <2>1 DEF Contract!vars
  <2>2. CASE WriteBinding(p)  BY <2>2, ClaimStep
  <2>3. CASE InsertRow(p)  BY <2>3, PlaceStep
  <2>4. CASE Send(p)  BY <2>4, ShowStep
  <2>5. QED
    BY <1>2, <2>1, <2>2, <2>3, <2>4, RegisterStep, PlanStep, RefreshStep
    DEF Step, ReadBridge, LookForAgent, LookForBinding, LookForRow, Decide, ReadRow, ReadState,
        ReadMetadata, Reread, Note, Die, journal, elsewhere
<1>3. CASE \E p \in Processes, c \in Calls : Begin(p, c)
  BY <1>3 DEF Begin, journal, elsewhere, Contract!vars
<1>4. CASE CanvasEdit
  <2>1. canvas'.portals = canvas.portals /\ UNCHANGED <<kind, binding, creator, home, row>>
    BY <1>4 DEF CanvasEdit, journal, IdentityInv, Shape, TypeOK, ElsewhereOK
  <2>2. QED  BY <2>1 DEF Contract!vars
<1>5. CASE \E a \in Agents, s \in Sessions : BridgeBind(a, s)
  BY <1>5 DEF BridgeBind, journal, Contract!vars
<1>6. QED  BY <1>1, <1>2, <1>3, <1>4, <1>5 DEF Next

(* Implements: journal and canvas implement FabricContract, whatever the    *)
(* commands had read when they wrote.                                       *)
THEOREM Implements == Spec => ImplementsContract
<1>1. Init => Contract!Init /\ IdentityInv  BY ContractInit, IdentityInit
<1>2. QED
  BY <1>1, IdentityNext, ContractNext, PTL DEF Spec, ImplementsContract, Contract!Spec

-----------------------------------------------------------------------------
(* The canvas: an object's id is one process's until the server has it, and *)
(* an answer is about a portal that stays.                                  *)

Numbered(o) ==
  /\ o.id \in 1..minted
  /\ o = IF o.mode = "compat_frame_v0" THEN Frame(o.row, o.id) ELSE NativePortal(o.row, o.id)

\* o is what the server answered to the projection of r that named object.
Answer(o, object, result, r, m) ==
  /\ o.id = result /\ o.row = r /\ o.mode = m
  /\ \A other \in canvas.portals : other.id = object => other = o

Own(p) ==
  /\ pc[p] \in Projecting =>
       /\ post[p].object \in 1..minted
       /\ \A q \in Processes \ {p} :
            pc[q] \in Projecting => post[q].object # post[p].object
  /\ pc[p] = "post" =>
       /\ \A o \in canvas.portals : o.id # post[p].object
       /\ \A r \in Rows : row[r] # NoRow => row[r].object # post[p].object
  /\ pc[p] \in {"merge", "update"} =>
       \E o \in canvas.portals :
         Answer(o, post[p].object, post[p].result, call[p].row, call[p].mode)

Minted == \A r \in Rows : row[r] # NoRow => row[r].object \in 0..minted

CanvasInv ==
  /\ Shape /\ Minted /\ OnePortal /\ ProjectionHappened
  /\ \A o \in canvas.portals : Numbered(o)
  /\ \A p \in Processes : Own(p)

LEMMA CanvasInit == Init => CanvasInv
<1> SUFFICES ASSUME Init PROVE CanvasInv  OBVIOUS
<1>1. Shape  BY ShapeInit
<1>2. canvas.portals = {} /\ \A r \in Rows : row[r] = NoRow  BY DEF Init
<1>3. \A p \in Processes : pc[p] = "idle"  BY DEF Init
<1>4. QED
  BY <1>1, <1>2, <1>3 DEF CanvasInv, Minted, OnePortal, ProjectionHappened, Own, Projecting

(* Steps that leave the canvas alone, and change of the rows at most that   *)
(* one is placed.                                                           *)
LEMMA QuietStep ==
  ASSUME CanvasInv, Shape', NEW p \in Processes, OthersKept(p),
         canvas'.portals = canvas.portals, minted' = minted,
         \A r \in Rows :
           \/ row'[r] = row[r]
           \/ row'[r].object = 0 /\ row'[r].revision = 0,
         \/ pc'[p] \notin Projecting
         \/ /\ pc[p] \in Projecting /\ pc'[p] # "post"
            /\ post'[p].object = post[p].object
            /\ pc'[p] \in {"merge", "update"} =>
                 /\ pc[p] \in {"merge", "update"}
                 /\ post'[p].result = post[p].result /\ call'[p] = call[p]
  PROVE  CanvasInv'
<1>1. minted \in Nat  BY DEF CanvasInv, Shape, TypeOK, ElsewhereOK
<1>2. Minted'  BY <1>1 DEF CanvasInv, Minted
<1>3. OnePortal'  BY DEF CanvasInv, OnePortal
<1>4. ProjectionHappened'
  <2> SUFFICES ASSUME NEW r \in Rows, row'[r] # NoRow, row'[r].revision > 0
               PROVE \E o \in canvas.portals :
                       /\ o.id = row'[r].result /\ o.row = r /\ o.mode = row'[r].mode
                       /\ \A other \in canvas.portals : other.id = row'[r].object => other = o
    BY DEF ProjectionHappened
  <2>1. row'[r] = row[r]  OBVIOUS
  <2>2. QED  BY <2>1 DEF CanvasInv, ProjectionHappened
<1>5. \A o \in canvas'.portals : Numbered(o)'  BY DEF CanvasInv, Numbered
<1>6. \A q \in Processes : Own(q)'
  <2> SUFFICES ASSUME NEW q \in Processes PROVE Own(q)'  OBVIOUS
  <2>1. Own(q)  BY DEF CanvasInv
  <2>2. \A z \in Processes : pc'[z] \in Projecting =>
          pc[z] \in Projecting /\ post'[z].object = post[z].object
    BY DEF OthersKept
  <2>3. pc'[q] = "post" => pc[q] = "post" /\ q # p  BY DEF OthersKept, Projecting
  <2>4. pc'[q] \in {"merge", "update"} =>
          /\ pc[q] \in {"merge", "update"} /\ post'[q].object = post[q].object
          /\ post'[q].result = post[q].result /\ call'[q] = call[q]
    BY DEF OthersKept, Projecting
  <2>5. pc'[q] \in Projecting =>
          /\ post'[q].object \in 1..minted'
          /\ \A z \in Processes \ {q} :
               pc'[z] \in Projecting => post'[z].object # post'[q].object
    BY <2>1, <2>2 DEF Own
  <2>6. pc'[q] = "post" =>
          /\ \A o \in canvas'.portals : o.id # post'[q].object
          /\ \A r \in Rows : row'[r] # NoRow => row'[r].object # post'[q].object
    BY <1>1, <2>1, <2>3, <2>5 DEF Own, Projecting, OthersKept
  <2>7. pc'[q] \in {"merge", "update"} =>
          \E o \in canvas'.portals :
            Answer(o, post[q].object, post[q].result, call[q].row, call[q].mode)'
    BY <2>1, <2>4 DEF Own, Answer
  <2>8. QED  BY <2>4, <2>5, <2>6, <2>7 DEF Own, Answer
<1>7. QED  BY <1>2, <1>3, <1>4, <1>5, <1>6 DEF CanvasInv

(* A projection names an object that nobody has named.                      *)
LEMMA NamingStep ==
  ASSUME CanvasInv, Shape', NEW p \in Processes, OthersKept(p), ReadState(p),
         pc'[p] \in Projecting
  PROVE  CanvasInv'
<1> USE DEF CanvasInv
<1>1. /\ minted \in Nat /\ UNCHANGED <<canvas, row>> /\ minted' = minted + 1
      /\ pc'[p] = "post" /\ post'[p].object = minted + 1
  <2>1. /\ minted \in Nat /\ post \in [Processes -> Post \cup {NoPost}]
        /\ pc \in [Processes -> Labels]
    BY DEF Shape, TypeOK, ElsewhereOK, LocalsOK
  <2>2. pc'[p] # "idle"  BY DEF Projecting
  <2>3. QED  BY <2>1, <2>2 DEF ReadState, Goto, Finish, journal
<1>2. Minted'  BY <1>1 DEF Minted
<1>3. OnePortal' /\ ProjectionHappened'  BY <1>1 DEF OnePortal, ProjectionHappened
<1>4. \A o \in canvas'.portals : Numbered(o)'  BY <1>1 DEF Numbered
<1>5. Own(p)'
  <2>1. \A o \in canvas'.portals : o.id # post'[p].object  BY <1>1 DEF Numbered
  <2>2. \A r \in Rows : row'[r] # NoRow => row'[r].object # post'[p].object
    BY <1>1 DEF Minted
  <2>3. \A q \in Processes \ {p} : pc'[q] \in Projecting => post'[q].object # post'[p].object
    BY <1>1 DEF Own, OthersKept
  <2>4. QED  BY <1>1, <2>1, <2>2, <2>3 DEF Own
<1>6. \A q \in Processes \ {p} : Own(q)'
  <2> SUFFICES ASSUME NEW q \in Processes \ {p} PROVE Own(q)'  OBVIOUS
  <2>1. Own(q) /\ pc'[q] = pc[q] /\ post'[q] = post[q] /\ call'[q] = call[q]
    BY DEF OthersKept
  <2>2. \A z \in Processes \ {q} :
          pc'[z] \in Projecting /\ pc[q] \in Projecting => post'[z].object # post[q].object
    BY <1>1, <2>1 DEF Own, OthersKept
  <2>3. QED  BY <1>1, <2>1, <2>2 DEF Own, Answer
<1>7. QED  BY <1>2, <1>3, <1>4, <1>5, <1>6

(* The request: whatever was known of the canvas stays, and the answer is   *)
(* about the portal that is now there under the key.                        *)
LEMMA SendStep ==
  ASSUME CanvasInv, Shape', NEW p \in Processes, OthersKept(p), Send(p),
         NEW t, t = Transaction(p)
  PROVE  CanvasInv'
<1> USE DEF CanvasInv
<1>1. /\ pc[p] = "post" /\ post[p] \in Post /\ call[p].row \in Rows /\ call[p].mode \in Modes
      /\ Own(p) /\ minted \in Nat
  BY Given DEF Send, Projecting, Shape, TypeOK, ElsewhereOK
<1>2. UNCHANGED <<row, minted>>  BY DEF Send, journal
<1>3. /\ t.row = call[p].row /\ t.mode = call[p].mode /\ t.id = post[p].object
      /\ t = IF t.mode = "compat_frame_v0" THEN Frame(t.row, t.id) ELSE NativePortal(t.row, t.id)
  BY <1>1 DEF Transaction, Frame, NativePortal, Modes
<1>4. \A o \in canvas.portals :
        /\ Numbered(o) /\ o.id # t.id
        /\ o.key = t.key <=> o.row = t.row /\ o.mode = t.mode
  <2> SUFFICES ASSUME NEW o \in canvas.portals
               PROVE  /\ Numbered(o) /\ o.id # t.id
                      /\ o.key = t.key <=> o.row = t.row /\ o.mode = t.mode
    OBVIOUS
  <2>1. Numbered(o) /\ o.id # t.id  BY <1>1, <1>3 DEF Own
  <2>2. o.mode \in Modes  BY DEF Shape, TypeOK, ElsewhereOK, Portal
  <2>3. /\ o.mode = "compat_frame_v0" => o.key = <<"pmw-portal", o.row>>
        /\ o.mode # "compat_frame_v0" => o.key = <<"pmw-native-portal", o.row>>
    BY <2>1 DEF Numbered, Frame, NativePortal
  <2>4. /\ t.mode = "compat_frame_v0" => t.key = <<"pmw-portal", t.row>>
        /\ t.mode # "compat_frame_v0" => t.key = <<"pmw-native-portal", t.row>>
    BY <1>3 DEF Frame, NativePortal
  <2>5. "pmw-portal" # "pmw-native-portal"  OBVIOUS
  <2>6. t.mode \in Modes  BY <1>1, <1>3
  <2>7. QED  BY <2>1, <2>2, <2>3, <2>4, <2>5, <2>6 DEF Modes
<1> DEFINE create == Earlier(t) = {} /\ post[p].revision = canvas.revision
           answered == IF create THEN {t} ELSE Earlier(t)
<1>5. canvas'.portals = IF create THEN canvas.portals \cup {t} ELSE canvas.portals
  BY DEF Send
<1>6. pc'[p] \in Projecting =>
        /\ pc'[p] = "merge" /\ post'[p].object = post[p].object /\ call'[p] = call[p]
        /\ \E o \in answered : post'[p].result = o.id
  <2>1. /\ post \in [Processes -> Post \cup {NoPost}] /\ pc \in [Processes -> Labels]
    BY DEF Shape, TypeOK, LocalsOK
  <2>2. ASSUME pc'[p] \in Projecting
        PROVE  \E o \in answered :
                 post' = [post EXCEPT ![p].result = o.id] /\ Goto(p, "merge")
    BY <2>1, <2>2 DEF Send, Finish, Projecting
  <2>3. ASSUME pc'[p] \in Projecting, NEW o \in answered,
               post' = [post EXCEPT ![p].result = o.id]
        PROVE  post'[p].object = post[p].object /\ post'[p].result = o.id
    BY <1>1, <2>1, <2>3 DEF Post
  <2>4. pc'[p] \in Projecting => pc'[p] = "merge" /\ call'[p] = call[p]
    BY <2>1, <2>2 DEF Goto
  <2>5. QED  BY <2>2, <2>3, <2>4
<1>7. canvas.portals \subseteq canvas'.portals
      /\ \A o \in canvas'.portals : o \in canvas.portals \/ (o = t /\ create)
  BY <1>5
<1>8. OnePortal'
  <2>1. create => \A o \in canvas.portals : ~(o.row = t.row /\ o.mode = t.mode)
    BY <1>4 DEF Earlier
  <2>2. QED  BY <1>4, <1>7, <2>1 DEF OnePortal
<1>9. ProjectionHappened'
  <2>1. \A r \in Rows : row[r] # NoRow => row[r].object # t.id  BY <1>1, <1>3 DEF Own
  <2>2. QED  BY <1>2, <1>7, <2>1 DEF ProjectionHappened
<1>10. \A o \in canvas'.portals : Numbered(o)'
  BY <1>1, <1>2, <1>3, <1>4, <1>7 DEF Numbered, Own, Projecting
<1>11. \A q \in Processes \ {p} : Own(q)'
  <2> SUFFICES ASSUME NEW q \in Processes \ {p} PROVE Own(q)'  OBVIOUS
  <2>1. Own(q) /\ pc'[q] = pc[q] /\ post'[q] = post[q] /\ call'[q] = call[q]
    BY DEF OthersKept
  <2>2. pc[q] \in Projecting => post[q].object # t.id
    BY <1>1, <1>3 DEF Own, Projecting
  <2>3. pc[q] \in Projecting =>
          /\ post[q].object \in 1..minted
          /\ \A z \in Processes \ {q} :
               pc'[z] \in Projecting => post'[z].object # post[q].object
    BY <1>1, <1>6, <2>1 DEF Own, OthersKept, Projecting
  <2>4. pc[q] = "post" =>
          /\ \A o \in canvas'.portals : o.id # post[q].object
          /\ \A r \in Rows : row'[r] # NoRow => row'[r].object # post[q].object
    BY <1>2, <1>7, <2>1, <2>2 DEF Own, Projecting
  <2>5. pc[q] \in {"merge", "update"} =>
          \E o \in canvas'.portals :
            /\ o.id = post[q].result /\ o.row = call[q].row /\ o.mode = call[q].mode
            /\ \A other \in canvas'.portals : other.id = post[q].object => other = o
    BY <1>7, <2>1, <2>2 DEF Own, Answer, Projecting
  <2>6. QED  BY <1>2, <2>1, <2>3, <2>4, <2>5 DEF Own, Answer
<1>12. Own(p)'
  <2>1. CASE pc'[p] \notin Projecting  BY <2>1 DEF Own, Projecting
  <2>2. CASE pc'[p] \in Projecting
    <3>1. PICK o \in answered : post'[p].result = o.id  BY <1>6, <2>2
    <3>2. o \in canvas'.portals /\ o.row = call[p].row /\ o.mode = call[p].mode
      BY <1>3, <1>4, <1>5 DEF Earlier
    <3>3. \A other \in canvas'.portals : other.id = post[p].object => other = o
      BY <1>3, <1>4, <1>5, <1>7 DEF Earlier
    <3>4. \A q \in Processes \ {p} :
            pc'[q] \in Projecting => post'[q].object # post'[p].object
      BY <1>1, <1>6, <2>2 DEF Own, OthersKept, Projecting
    <3>5. post'[p].object \in 1..minted'  BY <1>1, <1>2, <1>6, <2>2 DEF Own, Projecting
    <3>6. QED  BY <1>6, <2>2, <3>1, <3>2, <3>3, <3>4, <3>5 DEF Own, Answer
  <2>3. QED  BY <2>1, <2>2
<1>13. Minted'  BY <1>2 DEF Minted
<1>14. QED  BY <1>8, <1>9, <1>10, <1>11, <1>12, <1>13

(* The row takes the object and the answer of the projection that writes.   *)
LEMMA ProjectedStep ==
  ASSUME CanvasInv, Shape', NEW p \in Processes, OthersKept(p), UpdateRow(p)
  PROVE  CanvasInv'
<1> USE DEF CanvasInv
<1>1. /\ pc[p] = "update" /\ pc'[p] = "reread" /\ post'[p] = post[p] /\ post[p] \in Post
      /\ call[p].row \in Rows /\ row[call[p].row] \in Row /\ Own(p)
      /\ UNCHANGED <<canvas, minted>>
      /\ row' = [row EXCEPT ![call[p].row] = Projected(p, @)]
      /\ row \in [Rows -> Row \cup {NoRow}]
  BY Given
  DEF UpdateRow, Goto, Projecting, elsewhere, Shape, TypeOK, JournalOK, LocalsOK
<1>2. \A r \in Rows :
        \/ row'[r] = row[r]
        \/ /\ r = call[p].row /\ row'[r].object = post[p].object
           /\ row'[r].result = post[p].result /\ row'[r].mode = call[p].mode
  BY <1>1 DEF Projected
<1>3. post[p].object \in 1..minted /\ minted \in Nat
  BY <1>1 DEF Own, Projecting, Shape, TypeOK, ElsewhereOK
<1>4. Minted'  BY <1>1, <1>2, <1>3 DEF Minted
<1>5. OnePortal' /\ \A o \in canvas'.portals : Numbered(o)'  BY <1>1 DEF OnePortal, Numbered
<1>6. ProjectionHappened'
  <2>1. PICK o \in canvas.portals :
          Answer(o, post[p].object, post[p].result, call[p].row, call[p].mode)
    BY <1>1 DEF Own
  <2>2. QED  BY <1>1, <1>2, <2>1 DEF ProjectionHappened, Answer
<1>7. \A q \in Processes : Own(q)'
  <2> SUFFICES ASSUME NEW q \in Processes PROVE Own(q)'  OBVIOUS
  <2>1. Own(q) /\ call'[q] = call[q] /\ post'[q] = post[q]
    BY <1>1 DEF OthersKept, UpdateRow, Goto
  <2>2. \A z \in Processes : pc'[z] \in Projecting <=> pc[z] \in Projecting
    BY <1>1 DEF OthersKept, Projecting
  <2>3. \A z \in Processes : post'[z] = post[z]  BY <1>1 DEF OthersKept
  <2>4. pc'[q] = "post" =>
          \A r \in Rows : row'[r] # NoRow => row'[r].object # post'[q].object
    <3>1. SUFFICES ASSUME pc'[q] = "post", NEW r \in Rows, row'[r] # NoRow
                   PROVE row'[r].object # post[q].object
      BY <2>1
    <3>2. q # p /\ pc[q] = "post"  BY <1>1, <3>1 DEF OthersKept
    <3>3. post[p].object # post[q].object  BY <1>1, <2>1, <3>2 DEF Own, Projecting
    <3>4. QED  BY <1>2, <2>1, <3>1, <3>2, <3>3 DEF Own
  <2>5. (pc'[q] = "post" => pc[q] = "post")
        /\ (pc'[q] \in {"merge", "update"} => pc[q] \in {"merge", "update"})
    BY <1>1 DEF OthersKept
  <2>6. QED  BY <1>1, <2>1, <2>2, <2>3, <2>4, <2>5 DEF Own, Answer
<1>8. QED  BY <1>4, <1>5, <1>6, <1>7

LEMMA CanvasNext == CanvasInv /\ [Next]_vars => CanvasInv'
<1> SUFFICES ASSUME CanvasInv, [Next]_vars PROVE CanvasInv'  OBVIOUS
<1>0. Shape /\ Shape'  BY ShapeNext DEF CanvasInv
<1>1. CASE UNCHANGED vars
  BY <1>0, <1>1
  DEF vars, journal, elsewhere, locals, CanvasInv, Minted, OnePortal, ProjectionHappened,
      Numbered, Own, Answer
<1>2. ASSUME NEW p \in Processes, Step(p) PROVE CanvasInv'
  <2>1. OthersKept(p)  BY <1>0, <1>2, StepShape
  <2>2. CASE ReadState(p) /\ pc'[p] \in Projecting  BY <1>0, <2>1, <2>2, NamingStep
  <2>3. CASE Send(p)  BY <1>0, <2>1, <2>3, SendStep
  <2>4. CASE UpdateRow(p)  BY <1>0, <2>1, <2>4, ProjectedStep
  <2>5. CASE ReadMetadata(p) \/ Reread(p)
    <3>1. /\ pc[p] \in Projecting /\ post[p] \in Post /\ UNCHANGED <<journal, elsewhere, call>>
          /\ pc'[p] \in {"update", "note"} /\ (pc'[p] = "update" => pc[p] = "merge")
      BY <1>0, <2>5
      DEF ReadMetadata, Reread, Goto, Projecting, Shape, TypeOK, LocalsOK
    <3>2. post'[p].object = post[p].object /\ post'[p].result = post[p].result
      BY <1>0, <2>5, <3>1 DEF ReadMetadata, Reread, Post, Shape, TypeOK, LocalsOK
    <3>3. canvas'.portals = canvas.portals /\ minted' = minted /\ row' = row
      BY <3>1 DEF journal, elsewhere
    <3>4. QED  BY <1>0, <2>1, <3>1, <3>2, <3>3, QuietStep
  <2>6. CASE InsertRow(p)
    <3>1. /\ pc'[p] = "idle" /\ UNCHANGED elsewhere
          /\ \A r \in Rows :
               row'[r] = row[r] \/ (row'[r].object = 0 /\ row'[r].revision = 0)
      BY <1>0, <2>6
      DEF InsertRow, Finish, Unprojected, NoObject, Shape, TypeOK, JournalOK, LocalsOK
    <3>2. canvas'.portals = canvas.portals /\ minted' = minted  BY <3>1 DEF elsewhere
    <3>3. QED  BY <1>0, <2>1, <3>1, <3>2, QuietStep DEF Projecting
  <2>7. CASE UNCHANGED <<row, canvas, minted>> /\ pc'[p] \notin Projecting
    <3>1. canvas'.portals = canvas.portals /\ \A r \in Rows : row'[r] = row[r]  BY <2>7
    <3>2. QED  BY <1>0, <2>1, <2>7, <3>1, QuietStep
  <2>8. CASE \/ ReadBridge(p) \/ LookForAgent(p) \/ Upsert(p) \/ LookForBinding(p)
             \/ WriteBinding(p) \/ CreateWorkspace(p) \/ CreateTask(p) \/ LookForRow(p)
             \/ Decide(p) \/ ReadRow(p) \/ Note(p) \/ Die(p)
             \/ ReadState(p) /\ pc'[p] \notin Projecting
    <3>1. pc \in [Processes -> Labels]  BY <1>0 DEF Shape, TypeOK, LocalsOK
    <3>2. pc'[p] \notin Projecting
      BY <2>8, <3>1
      DEF ReadBridge, LookForAgent, Upsert, LookForBinding, WriteBinding, CreateWorkspace,
          CreateTask, LookForRow, Decide, ReadRow, Note, Die, Finish, Goto, Projecting
    <3>3. CASE ReadState(p)
      <4>1. UNCHANGED <<row, canvas, minted>>
        BY <3>1, <3>2, <3>3 DEF ReadState, Goto, journal, Projecting
      <4>2. QED  BY <2>7, <3>2, <4>1
    <3>4. CASE ~ReadState(p)
      <4>1. UNCHANGED <<row, canvas, minted>>
        BY <2>8, <3>4
        DEF ReadBridge, LookForAgent, Upsert, LookForBinding, WriteBinding, CreateWorkspace,
            CreateTask, LookForRow, Decide, ReadRow, Note, Die, journal, elsewhere
      <4>2. QED  BY <2>7, <3>2, <4>1
    <3>5. QED  BY <3>3, <3>4
  <2>9. QED  BY <1>2, <2>2, <2>3, <2>4, <2>5, <2>6, <2>8 DEF Step
<1>3. ASSUME NEW p \in Processes, NEW c \in Calls, Begin(p, c) PROVE CanvasInv'
  <2>1. OthersKept(p) /\ pc'[p] = First[c.op] /\ c.op \in DOMAIN First
    BY <1>0, <1>3, Beginning, Arguments
  <2>2. pc'[p] \notin Projecting  BY <2>1 DEF First, Projecting
  <2>3. canvas'.portals = canvas.portals /\ minted' = minted /\ \A r \in Rows : row'[r] = row[r]
    BY <1>3 DEF Begin, journal, elsewhere
  <2>4. QED  BY <1>0, <2>1, <2>2, <2>3, QuietStep
<1>4. CASE CanvasEdit \/ \E a \in Agents, s \in Sessions : BridgeBind(a, s)
  <2>1. UNCHANGED <<row, pc, call, post, minted>> /\ canvas'.portals = canvas.portals
    BY <1>0, <1>4
    DEF CanvasEdit, BridgeBind, journal, locals, Shape, TypeOK, ElsewhereOK
  <2>2. QED
    BY <1>0, <2>1
    DEF CanvasInv, Minted, OnePortal, ProjectionHappened, Numbered, Own, Answer
<1>5. QED  BY <1>1, <1>2, <1>3, <1>4 DEF Next

(* PortalsApart: a canvas shows a resource once in a mode, under one id.    *)
THEOREM PortalsApart == Spec => []OnePortal
<1>1. CanvasInv => OnePortal  BY DEF CanvasInv
<1>2. QED  BY <1>1, CanvasInit, CanvasNext, PTL DEF Spec

(* RowsTellOfPortals: what a projected row holds is on the canvas.          *)
THEOREM RowsTellOfPortals == Spec => []ProjectionHappened
<1>1. CanvasInv => ProjectionHappened  BY DEF CanvasInv
<1>2. QED  BY <1>1, CanvasInit, CanvasNext, PTL DEF Spec

-----------------------------------------------------------------------------
(* Revisions: each projection in the provenance, and each that is about to  *)
(* be, has added one to its row's.                                          *)

Noted(r) == {v \in provenance : v.row = r}
Noting(r) == {p \in Processes : pc[p] \in {"reread", "note"} /\ call[p].row = r}

Counted(r) ==
  /\ IsFiniteSet(Noted(r)) /\ IsFiniteSet(Noting(r))
  /\ Noted(r) \cup Noting(r) # {} => row[r] # NoRow
  /\ row[r] # NoRow => Cardinality(Noted(r)) + Cardinality(Noting(r)) <= row[r].revision

CountInv == Shape /\ \A r \in Rows : Counted(r)

LEMMA CountInit == Init => CountInv
<1> SUFFICES ASSUME Init PROVE CountInv  OBVIOUS
<1>1. Shape  BY ShapeInit
<1>2. ASSUME NEW r \in Rows PROVE Counted(r)
  <2>1. Noted(r) = {} /\ Noting(r) = {} /\ row[r] = NoRow  BY DEF Init, Noted, Noting
  <2>2. QED  BY <2>1, FS_EmptySet DEF Counted
<1>3. QED  BY <1>1, <1>2 DEF CountInv

(* Steps that add no provenance, and no process that is about to.           *)
LEMMA UncountedStep ==
  ASSUME CountInv, NEW r \in Rows, provenance' = provenance,
         Noting(r)' \in SUBSET Noting(r),
         row'[r] = row[r] \/ (row[r] = NoRow /\ row'[r] \in Row)
  PROVE  Counted(r)'
<1>1. Counted(r) /\ Noted(r)' = Noted(r)  BY DEF CountInv, Noted
<1>2. /\ IsFiniteSet(Noting(r)') /\ Cardinality(Noting(r)') <= Cardinality(Noting(r))
      /\ Cardinality(Noting(r)') \in Nat /\ Cardinality(Noting(r)) \in Nat
      /\ Cardinality(Noted(r)) \in Nat
  BY <1>1, FS_Subset, FS_CardinalityType DEF Counted
<1>3. CASE row'[r] = row[r]
  <2>1. row[r] # NoRow => row[r].revision \in Nat
    BY DEF CountInv, Shape, TypeOK, JournalOK, Row
  <2>2. QED  BY <1>1, <1>2, <1>3, <2>1 DEF Counted
<1>4. CASE row[r] = NoRow /\ row'[r] \in Row
  <2>1. Noted(r) = {} /\ Noting(r)' = {}  BY <1>1, <1>4 DEF Counted
  <2>2. row'[r].revision \in Nat  BY <1>4 DEF Row
  <2>3. QED  BY <1>1, <1>2, <1>4, <2>1, <2>2, FS_EmptySet, FabricAssumption DEF Counted
<1>5. QED  BY <1>3, <1>4

(* The update counts the projection, which is then about to be noted.       *)
LEMMA CountingStep ==
  ASSUME CountInv, NEW p \in Processes, OthersKept(p), UpdateRow(p), NEW r \in Rows
  PROVE  Counted(r)'
<1>1. /\ Counted(r) /\ row \in [Rows -> Row \cup {NoRow}] /\ UNCHANGED <<provenance, call>>
      /\ pc[p] = "update" /\ pc'[p] = "reread" /\ row[call[p].row] \in Row
      /\ row' = [row EXCEPT ![call[p].row] = Projected(p, @)]
  BY Given
  DEF CountInv, UpdateRow, Goto, Projecting, Shape, TypeOK, JournalOK, LocalsOK
<1>2. CASE call[p].row # r
  <2>1. Noting(r)' = Noting(r)  BY <1>1, <1>2 DEF Noting, OthersKept
  <2>2. row'[r] = row[r]  BY <1>1, <1>2
  <2>3. QED  BY <1>1, <2>1, <2>2, UncountedStep
<1>3. CASE call[p].row = r
  <2>1. Noting(r)' = Noting(r) \cup {p} /\ p \notin Noting(r)
    BY <1>1, <1>3 DEF Noting, OthersKept
  <2>2. IsFiniteSet(Noting(r)') /\ Cardinality(Noting(r)') = Cardinality(Noting(r)) + 1
        /\ Cardinality(Noting(r)) \in Nat /\ Cardinality(Noted(r)) \in Nat
    BY <1>1, <2>1, FS_AddElement, FS_CardinalityType DEF Counted
  <2>3. /\ row'[r] = Projected(p, row[r]) /\ row[r].revision \in Nat /\ row[r] # NoRow
        /\ row'[r].revision = row[r].revision + 1
    BY <1>1, <1>3, FabricAssumption DEF Projected, Row
  <2>4. row'[r] # NoRow
    <3>1. Shape' /\ pc'[p] \in Projecting /\ call'[p].row = r
      BY <1>1, <1>3, StepShape DEF CountInv, Projecting, Step
    <3>2. QED  BY <3>1 DEF Shape, Doing
  <2>5. Noted(r)' = Noted(r)  BY <1>1 DEF Noted
  <2>6. QED  BY <1>1, <2>2, <2>3, <2>4, <2>5 DEF Counted
<1>4. QED  BY <1>2, <1>3

(* The note moves it from the one count to the other.                       *)
LEMMA NotingStep ==
  ASSUME CountInv, NEW p \in Processes, OthersKept(p), Note(p), NEW r \in Rows
  PROVE  Counted(r)'
<1>1. /\ Counted(r) /\ row \in [Rows -> Row \cup {NoRow}] /\ row' = row
      /\ pc[p] = "note" /\ pc'[p] = "idle"
  BY DEF CountInv, Note, Finish, Shape, TypeOK, JournalOK, LocalsOK
<1>2. PICK v \in {[id |-> post[p].object, row |-> call[p].row, object |-> post[p].seen]} :
        provenance' = provenance \cup {v}
  BY DEF Note
<1>3. CASE call[p].row # r
  <2>1. Noting(r)' = Noting(r)  BY <1>1, <1>3 DEF Noting, OthersKept
  <2>2. Noted(r)' = Noted(r)  BY <1>2, <1>3 DEF Noted
  <2>3. QED  BY <1>1, <2>1, <2>2 DEF Counted
<1>4. CASE call[p].row = r
  <2>1. Noting(r)' = Noting(r) \ {p} /\ p \in Noting(r)
    BY <1>1, <1>4 DEF Noting, OthersKept
  <2>2. Noted(r)' = Noted(r) \cup {v}  BY <1>2, <1>4 DEF Noted
  <2>3. /\ IsFiniteSet(Noting(r)') /\ Cardinality(Noting(r)') = Cardinality(Noting(r)) - 1
        /\ Cardinality(Noting(r)) \in Nat /\ Cardinality(Noted(r)) \in Nat
    BY <1>1, <2>1, FS_RemoveElement, FS_CardinalityType DEF Counted
  <2>4. /\ IsFiniteSet(Noted(r)') /\ Cardinality(Noted(r)') \in Nat
        /\ Cardinality(Noted(r)') <= Cardinality(Noted(r)) + 1
    <3>1. IsFiniteSet(Noted(r))  BY <1>1 DEF Counted
    <3>2. /\ IsFiniteSet(Noted(r) \cup {v})
          /\ Cardinality(Noted(r) \cup {v}) =
               IF v \in Noted(r) THEN Cardinality(Noted(r)) ELSE Cardinality(Noted(r)) + 1
      BY <3>1, FS_AddElement
    <3>3. QED  BY <2>2, <2>3, <3>2
  <2>5. row[r] # NoRow /\ row[r].revision \in Nat
    BY <1>1, <2>1 DEF Counted, Row
  <2>6. QED  BY <1>1, <2>3, <2>4, <2>5 DEF Counted
<1>5. QED  BY <1>3, <1>4

LEMMA CountNext == CountInv /\ [Next]_vars => CountInv'
<1> SUFFICES ASSUME CountInv, [Next]_vars, NEW r \in Rows PROVE Counted(r)'
  BY ShapeNext DEF CountInv
<1>0. Shape  BY DEF CountInv
<1>1. CASE UNCHANGED vars
  BY <1>1 DEF vars, journal, locals, CountInv, Counted, Noted, Noting
<1>2. ASSUME NEW p \in Processes, Step(p) PROVE Counted(r)'
  <2>1. OthersKept(p) /\ pc \in [Processes -> Labels]
    BY <1>0, <1>2, StepShape DEF Shape, TypeOK, LocalsOK
  <2>2. CASE UpdateRow(p)  BY <2>1, <2>2, CountingStep
  <2>3. CASE Note(p)  BY <2>1, <2>3, NotingStep
  <2>4. CASE ~UpdateRow(p) /\ ~Note(p)
    <3>1. pc'[p] \in {"reread", "note"} => pc[p] = "reread" /\ call'[p] = call[p]
      BY <1>2, <2>1, <2>4
      DEF Step, ReadBridge, LookForAgent, Upsert, LookForBinding, WriteBinding,
          CreateWorkspace, CreateTask, LookForRow, InsertRow, Decide, ReadRow, ReadState,
          Send, ReadMetadata, Reread, Die, Finish, Goto
    <3>2. Noting(r)' \in SUBSET Noting(r)  BY <2>1, <3>1 DEF Noting, OthersKept
    <3>3. provenance' = provenance
      BY <1>2, <2>4
      DEF Step, ReadBridge, LookForAgent, Upsert, LookForBinding, WriteBinding,
          CreateWorkspace, CreateTask, LookForRow, InsertRow, Decide, ReadRow, ReadState,
          Send, ReadMetadata, Reread, Die, journal
    <3>4. row'[r] = row[r] \/ (row[r] = NoRow /\ row'[r] \in Row)
      <4>1. CASE InsertRow(p)
        <5>1. row \in [Rows -> Row \cup {NoRow}] /\ Shape'
          BY <1>0, <1>2, StepShape DEF Shape, TypeOK, JournalOK
        <5>2. row' = [row EXCEPT ![call[p].row] = IF @ = NoRow THEN Unprojected(p) ELSE @]
          BY <4>1 DEF InsertRow
        <5>3. row'[r] \in Row \cup {NoRow}  BY <5>1 DEF Shape, TypeOK, JournalOK
        <5>4. QED  BY <5>1, <5>2, <5>3
      <4>2. CASE ~InsertRow(p)
        BY <1>2, <2>4, <4>2
        DEF Step, ReadBridge, LookForAgent, Upsert, LookForBinding, WriteBinding,
            CreateWorkspace, CreateTask, LookForRow, Decide, ReadRow, ReadState,
            Send, ReadMetadata, Reread, Die, journal
      <4>3. QED  BY <4>1, <4>2
    <3>5. QED  BY <3>2, <3>3, <3>4, UncountedStep
  <2>5. QED  BY <2>2, <2>3, <2>4
<1>3. ASSUME NEW p \in Processes, NEW c \in Calls, Begin(p, c) PROVE Counted(r)'
  <2>1. OthersKept(p) /\ pc'[p] = First[c.op] /\ c.op \in DOMAIN First
    BY <1>0, <1>3, Beginning, Arguments
  <2>2. pc'[p] \notin {"reread", "note"}  BY <2>1 DEF First
  <2>3. Noting(r)' \in SUBSET Noting(r)  BY <2>1, <2>2 DEF Noting, OthersKept
  <2>4. UNCHANGED <<provenance, row>>  BY <1>3 DEF Begin, journal
  <2>5. QED  BY <2>3, <2>4, UncountedStep
<1>4. CASE CanvasEdit \/ \E a \in Agents, s \in Sessions : BridgeBind(a, s)
  BY <1>4 DEF CanvasEdit, BridgeBind, journal, locals, CountInv, Counted, Noted, Noting
<1>5. QED  BY <1>1, <1>2, <1>3, <1>4 DEF Next

(* NoProjectionUncounted: a row's revision is at least the number of its    *)
(* projections in the provenance.                                           *)
THEOREM NoProjectionUncounted == Spec => []RevisionCounts
<1>1. CountInv => RevisionCounts
  <2> SUFFICES ASSUME CountInv, NEW r \in Rows, Noted(r) # {}
               PROVE  row[r] # NoRow /\ Cardinality(Noted(r)) <= row[r].revision
    BY DEF RevisionCounts, Noted
  <2>1. Counted(r) /\ row[r] # NoRow /\ row[r].revision \in Nat
    BY DEF CountInv, Counted, Shape, TypeOK, JournalOK, Row
  <2>2. Cardinality(Noted(r)) \in Nat /\ Cardinality(Noting(r)) \in Nat
    BY <2>1, FS_CardinalityType DEF Counted
  <2>3. QED  BY <2>1, <2>2 DEF Counted
<1>2. QED  BY <1>1, CountInit, CountNext, PTL DEF Spec
=============================================================================
