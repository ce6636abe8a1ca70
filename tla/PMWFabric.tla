----------------------------- MODULE PMWFabric -----------------------------
(***************************************************************************)
(* The PMW fabric: the journal of agents, provider bindings, workspaces,   *)
(* tasks and resources (eml_pmw/journal.py), the import of agents from the *)
(* Bridge and the projection of resources onto an MRMIC canvas (core.py,   *)
(* adapters/, integration/).  Every command is a process of its own on one *)
(* SQLite file; each statement commits alone, so commands interleave       *)
(* between their statements and a death leaves what was written so far.    *)
(* A check of something that is never taken back (that a row exists) is    *)
(* one step with the statement after it.                                   *)
(***************************************************************************)
EXTENDS Naturals, FiniteSets

CONSTANTS
  Agents, Kinds,    \* semantic agent ids and kinds
  Sessions,         \* provider sessions: provider, binding type, provider resource
  Workspaces, Tasks,
  Resources,        \* what is placed in a workspace: provider, kind, provider resource
  Processes,
  Calls,            \* the commands there are to run
  Documents,        \* capability documents an MRMIC server may offer
  Locked, Shipped,  \* digests of the upstream contracts: in lock.json, of the files
  Registered, Opened, \* agents and workspaces that an earlier session left
  MaxCalls, MaxEdits, MaxBinds, \* bounds on commands, canvas edits and Bridge bindings
  NoKind, NoAgent, NoSession, NoWorkspace, NoTask, NoRow, NoBinding, NoCall, NoPost

Rows == Workspaces \X Resources
Modes == {"compat_frame_v0", "native_resource_portal_v1"}
NoObject == 0                 \* ids of canvas objects are numbered as they are made

Call ==
       [op : {"agent-add", "import-herdr"}, agent : Agents, kind : Kinds]
  \cup [op : {"bind"}, agent : Agents, session : Sessions, verified : BOOLEAN]
  \cup [op : {"workspace-create"}, workspace : Workspaces, agent : Agents]
  \cup [op : {"task-create"}, task : Tasks, workspace : Workspaces, agents : SUBSET Agents]
  \cup [op : {"resource-bind"}, row : Rows, owner : Agents \cup {NoAgent},
        task : Tasks \cup {NoTask}]
  \cup [op : {"project"}, row : Rows, mode : Modes]
  \cup [op : {"decide"}, agent : Agents, workspace : Workspaces, task : Tasks \cup {NoTask}]

Binding == [owner : Agents, verified : BOOLEAN]
Row == [owner : Agents \cup {NoAgent}, task : Tasks \cup {NoTask}, object : Nat,
        mode : Modes \cup {"unprojected"}, result : Nat, revision : Nat]
Portal == [id : Nat, row : Rows, mode : Modes,
           key : {"pmw-portal", "pmw-native-portal"} \X Rows]
Post == [revision : Nat, object : Nat, result : Nat, base : Nat, seen : Nat]
Document == [credential : BOOLEAN, schema : BOOLEAN, failed : SUBSET STRING]

ASSUME FabricAssumption ==
  /\ Calls \subseteq Call /\ Documents \subseteq Document
  /\ NoKind \notin Kinds /\ NoAgent \notin Agents /\ NoSession \notin Sessions
  /\ NoWorkspace \notin Workspaces /\ NoTask \notin Tasks /\ NoRow \notin Row
  /\ NoBinding \notin Binding /\ NoCall \notin Call /\ NoPost \notin Post
  /\ Registered \in [Agents -> Kinds \cup {NoKind}]
  /\ Opened \in [Workspaces -> Agents \cup {NoAgent}]
  /\ \A w \in Workspaces : Opened[w] # NoAgent => Registered[Opened[w]] # NoKind
  /\ MaxCalls \in Nat /\ MaxEdits \in Nat /\ MaxBinds \in Nat

VARIABLES
  \* the journal
  kind,       \* pmw_semantic_agents
  binding,    \* pmw_agent_bindings, by its UNIQUE triple
  creator,    \* pmw_workspaces
  home,       \* pmw_tasks: the workspace of each
  row,        \* pmw_resource_bindings, by its UNIQUE triple
  decisions,  \* pmw_decision_receipts
  provenance, \* pmw_provenance_refs of "resource.projected"
  \* elsewhere
  target,     \* the session each agent is bound to in the Bridge's journal
  canvas,     \* the MRMIC server: its revision and the portals created there
  minted,     \* object ids made so far
  \* the processes
  pc, call, session, found, post,
  calls, edits, binds \* how many so far

journal   == <<kind, binding, creator, home, row, decisions, provenance>>
elsewhere == <<target, canvas, minted>>
locals    == <<pc, call, session, found, post>>
counts    == <<calls, edits, binds>>
vars      == <<journal, elsewhere, locals, counts>>

Labels == {"idle", "bridge", "agent", "upsert", "binding", "bind", "workspace", "task",
           "resource", "insert", "project", "state", "post", "merge", "update", "reread",
           "note", "decide"}

Init ==
  /\ kind = Registered /\ creator = Opened
  /\ binding = [s \in Sessions |-> NoBinding]
  /\ home = [t \in Tasks |-> NoWorkspace]
  /\ row = [r \in Rows |-> NoRow]
  /\ decisions = {} /\ provenance = {}
  /\ target = [a \in Agents |-> NoSession]
  /\ canvas = [revision |-> 0, portals |-> {}] /\ minted = 0
  /\ pc = [p \in Processes |-> "idle"]
  /\ call = [p \in Processes |-> NoCall]
  /\ session = [p \in Processes |-> NoSession]
  /\ found = [p \in Processes |-> NoBinding]
  /\ post = [p \in Processes |-> NoPost]
  /\ calls = 0 /\ edits = 0 /\ binds = 0

First == [op \in {"agent-add", "import-herdr", "bind", "workspace-create", "task-create",
                  "resource-bind", "project", "decide"} |->
  CASE op = "agent-add" -> "agent"
    [] op = "import-herdr" -> "bridge"
    [] op = "bind" -> "binding"
    [] op = "workspace-create" -> "workspace"
    [] op = "task-create" -> "task"
    [] op = "resource-bind" -> "resource"
    [] OTHER -> op]

\* A command is run.
Begin(p, c) ==
  /\ pc[p] = "idle" /\ calls < MaxCalls
  /\ calls' = calls + 1
  /\ pc' = [pc EXCEPT ![p] = First[c.op]]
  /\ call' = [call EXCEPT ![p] = c]
  /\ session' = [session EXCEPT ![p] = IF c.op = "bind" THEN c.session ELSE NoSession]
  /\ UNCHANGED <<found, post, journal, elsewhere, edits, binds>>

Goto(p, l) == pc' = [pc EXCEPT ![p] = l] /\ UNCHANGED call

\* The command ends, with its result or with an error.
Finish(p) ==
  /\ pc' = [pc EXCEPT ![p] = "idle"]
  /\ call' = [call EXCEPT ![p] = NoCall]
  /\ session' = [session EXCEPT ![p] = NoSession]
  /\ found' = [found EXCEPT ![p] = NoBinding]
  /\ post' = [post EXCEPT ![p] = NoPost]

\* The process dies, or a request of it gets no answer before it is sent.
Die(p) ==
  /\ pc[p] # "idle"
  /\ Finish(p)
  /\ UNCHANGED <<journal, elsewhere, counts>>

-----------------------------------------------------------------------------
(* Agents: upsert_agent, bind_agent, and import_herdr_agent, which runs     *)
(* both on what it read in the Bridge's journal.                            *)

ReadBridge(p) ==
  /\ pc[p] = "bridge"
  /\ \/ /\ target[call[p].agent] # NoSession
        /\ session' = [session EXCEPT ![p] = target[call[p].agent]]
        /\ Goto(p, "agent")
        /\ UNCHANGED <<found, post>>
     \/ target[call[p].agent] = NoSession /\ Finish(p)
  /\ UNCHANGED <<journal, elsewhere, counts>>

\* upsert_agent refuses another kind than that of the row it reads.
LookForAgent(p) ==
  /\ pc[p] = "agent"
  /\ \/ /\ kind[call[p].agent] \in {NoKind, call[p].kind}
        /\ Goto(p, "upsert")
        /\ UNCHANGED <<session, found, post>>
     \/ kind[call[p].agent] \notin {NoKind, call[p].kind} /\ Finish(p)
  /\ UNCHANGED <<journal, elsewhere, counts>>

\* Mutant of Upsert: the kind is among the columns that are updated.
UpsertKind(p) ==
  /\ pc[p] = "upsert"
  /\ kind' = [kind EXCEPT ![call[p].agent] = call[p].kind]
  /\ IF call[p].op = "import-herdr"
     THEN Goto(p, "binding") /\ UNCHANGED <<session, found, post>>
     ELSE Finish(p)
  /\ UNCHANGED <<binding, creator, home, row, decisions, provenance, elsewhere, counts>>

\* An agent that was registered since keeps its kind: names alone are updated.
Upsert(p) ==
  /\ pc[p] = "upsert"
  /\ kind' = [kind EXCEPT ![call[p].agent] = IF @ = NoKind THEN call[p].kind ELSE @]
  /\ IF call[p].op = "import-herdr"
     THEN Goto(p, "binding") /\ UNCHANGED <<session, found, post>>
     ELSE Finish(p)
  /\ UNCHANGED <<binding, creator, home, row, decisions, provenance, elsewhere, counts>>

LookForBinding(p) ==
  LET a == call[p].agent  b == binding[session[p]]
      mayBind == kind[a] # NoKind /\ (b # NoBinding => b.owner = a)
  IN /\ pc[p] = "binding"
     /\ \/ /\ mayBind
           /\ found' = [found EXCEPT ![p] = b]
           /\ Goto(p, "bind")
           /\ UNCHANGED <<session, post>>
        \/ ~mayBind /\ Finish(p)
     /\ UNCHANGED <<journal, elsewhere, counts>>

Bound(p) ==
  [owner |-> call[p].agent,
   verified |-> call[p].op = "import-herdr" \/ call[p].verified]

\* Mutant of WriteBinding: the upsert is on the triple, not on the binding's id.
WriteBindingOver(p) ==
  /\ pc[p] = "bind"
  /\ binding' = [binding EXCEPT ![session[p]] = Bound(p)]
  /\ Finish(p)
  /\ UNCHANGED <<kind, creator, home, row, decisions, provenance, elsewhere, counts>>

\* A new binding has a new id: where the triple was bound since, the unique
\* index refuses it.
WriteBinding(p) ==
  /\ pc[p] = "bind"
  /\ binding' = IF found[p] = NoBinding /\ binding[session[p]] # NoBinding THEN binding
                ELSE [binding EXCEPT ![session[p]] = Bound(p)]
  /\ Finish(p)
  /\ UNCHANGED <<kind, creator, home, row, decisions, provenance, elsewhere, counts>>

-----------------------------------------------------------------------------
(* Workspaces, tasks, resources and decisions.                              *)

CreateWorkspace(p) ==
  LET w == call[p].workspace  a == call[p].agent
  IN /\ pc[p] = "workspace"
     /\ creator' = IF kind[a] # NoKind /\ creator[w] = NoAgent
                   THEN [creator EXCEPT ![w] = a] ELSE creator
     /\ Finish(p)
     /\ UNCHANGED <<kind, binding, home, row, decisions, provenance, elsewhere, counts>>

\* call.agents: the creator and the assignees, who must all be registered.
CreateTask(p) ==
  LET t == call[p].task  w == call[p].workspace
      refused == \/ creator[w] = NoAgent \/ home[t] # NoWorkspace
                 \/ \E a \in call[p].agents : kind[a] = NoKind
  IN /\ pc[p] = "task"
     /\ home' = IF refused THEN home ELSE [home EXCEPT ![t] = w]
     /\ Finish(p)
     /\ UNCHANGED <<kind, binding, creator, row, decisions, provenance, elsewhere, counts>>

\* bind_resource returns the row that is there, whatever the arguments.
LookForRow(p) ==
  LET c == call[p]
      mayPlace ==
        /\ creator[c.row[1]] # NoAgent
        /\ c.owner # NoAgent => kind[c.owner] # NoKind
        /\ c.task # NoTask => home[c.task] = c.row[1]
        /\ row[c.row] = NoRow
  IN /\ pc[p] = "resource"
     /\ \/ mayPlace /\ Goto(p, "insert") /\ UNCHANGED <<session, found, post>>
        \/ ~mayPlace /\ Finish(p)
     /\ UNCHANGED <<journal, elsewhere, counts>>

Unprojected(p) ==
  [owner |-> call[p].owner, task |-> call[p].task, object |-> NoObject,
   mode |-> "unprojected", result |-> NoObject, revision |-> 0]

InsertRow(p) ==
  /\ pc[p] = "insert"
  /\ row' = [row EXCEPT ![call[p].row] = IF @ = NoRow THEN Unprojected(p) ELSE @]
  /\ Finish(p)
  /\ UNCHANGED <<kind, binding, creator, home, decisions, provenance, elsewhere, counts>>

\* record_decision does not ask whose the task is; the schema asks that it exists.
Decide(p) ==
  LET c == call[p]
      refused == \/ kind[c.agent] = NoKind \/ creator[c.workspace] = NoAgent
                 \/ c.task # NoTask /\ home[c.task] = NoWorkspace
  IN /\ pc[p] = "decide"
     /\ decisions' = IF refused THEN decisions
                     ELSE decisions \cup {[agent |-> c.agent, workspace |-> c.workspace,
                                           task |-> c.task]}
     /\ Finish(p)
     /\ UNCHANGED <<kind, binding, creator, home, row, provenance, elsewhere, counts>>

-----------------------------------------------------------------------------
(* project_resource.                                                        *)

ReadRow(p) ==
  /\ pc[p] = "project"
  /\ \/ row[call[p].row] # NoRow /\ Goto(p, "state") /\ UNCHANGED <<session, found, post>>
     \/ row[call[p].row] = NoRow /\ Finish(p)
  /\ UNCHANGED <<journal, elsewhere, counts>>

LockVerified == \A n \in DOMAIN Locked : n \in DOMAIN Shipped /\ Shipped[n] = Locked[n]

\* d.failed: the codes of the required versions, modes and sources that d lacks.
Negotiate(d) ==
  IF ~d.credential /\ LockVerified /\ d.schema /\ d.failed = {}
  THEN "compatible" ELSE "incompatible"

\* The canvas is read, by the Phase 13 adapter after its capabilities, and
\* the object is named.
ReadState(p) ==
  /\ pc[p] = "state"
  /\ \/ /\ call[p].mode = "native_resource_portal_v1" =>
             \E d \in Documents : Negotiate(d) = "compatible"
        /\ minted' = minted + 1
        /\ post' = [post EXCEPT ![p] =
             [revision |-> canvas.revision, object |-> minted + 1,
              result |-> NoObject, base |-> 0, seen |-> NoObject]]
        /\ Goto(p, "post")
        /\ UNCHANGED <<session, found>>
     \/ /\ call[p].mode = "native_resource_portal_v1"
        /\ \E d \in Documents : Negotiate(d) # "compatible"
        /\ Finish(p)
        /\ UNCHANGED minted
  /\ UNCHANGED <<journal, target, canvas, counts>>

\* Mutant of Frame: the key is one of the attempt.
FrameAnew(r, o) ==
  [id |-> o, row |-> r, mode |-> "compat_frame_v0", key |-> <<"pmw-tx", o>>]

Frame(r, o) ==
  [id |-> o, row |-> r, mode |-> "compat_frame_v0", key |-> <<"pmw-portal", r>>]

NativePortal(r, o) ==
  [id |-> o, row |-> r, mode |-> "native_resource_portal_v1",
   key |-> <<"pmw-native-portal", r>>]

Transaction(p) ==
  IF call[p].mode = "compat_frame_v0"
  THEN Frame(call[p].row, post[p].object) ELSE NativePortal(call[p].row, post[p].object)

Earlier(t) == {o \in canvas.portals : o.key = t.key}

\* The server creates the portal on the revision that was read; a key it knows
\* it answers as it did before, or refuses.  The answer, about the portal of
\* that key, may be lost.
Send(p) ==
  LET t == Transaction(p)
      create == Earlier(t) = {} /\ post[p].revision = canvas.revision
      answered == IF create THEN {t} ELSE Earlier(t)
  IN /\ pc[p] = "post"
     /\ canvas' = IF ~create THEN canvas
                  ELSE [revision |-> canvas.revision + 1,
                        portals |-> canvas.portals \cup {t}]
     /\ \/ /\ \E o \in answered : post' = [post EXCEPT ![p].result = o.id]
           /\ Goto(p, "merge")
           /\ UNCHANGED <<session, found>>
        \/ Finish(p)
     /\ UNCHANGED <<journal, target, minted, counts>>

\* update_resource_projection reads the row, for the metadata that it patches.
ReadMetadata(p) ==
  /\ pc[p] = "merge"
  /\ post' = [post EXCEPT ![p].base = row[call[p].row].revision]
  /\ Goto(p, "update")
  /\ UNCHANGED <<journal, elsewhere, session, found, counts>>

\* Mutant of Projected: an answer that is in the metadata already is kept.
ProjectedKeeping(p, old) ==
  [owner |-> old.owner, task |-> old.task, object |-> post[p].object, mode |-> call[p].mode,
   result |-> IF old.result = NoObject THEN post[p].result ELSE old.result,
   revision |-> old.revision + 1]

\* Mutant of Projected: the revision is that of the row that was read, plus one.
ProjectedCounted(p, old) ==
  [owner |-> old.owner, task |-> old.task, object |-> post[p].object, mode |-> call[p].mode,
   result |-> post[p].result, revision |-> post[p].base + 1]

\* What one statement makes of the row that is there: the object's id, the mode
\* and the metadata, in which the canvas and the server's answer replace those
\* of the row that was read, and one more revision.
Projected(p, old) ==
  [owner |-> old.owner, task |-> old.task, object |-> post[p].object, mode |-> call[p].mode,
   result |-> post[p].result, revision |-> old.revision + 1]

UpdateRow(p) ==
  /\ pc[p] = "update"
  /\ row' = [row EXCEPT ![call[p].row] = Projected(p, @)]
  /\ Goto(p, "reread")
  /\ UNCHANGED <<kind, binding, creator, home, decisions, provenance, elsewhere,
                 session, found, post, counts>>

Reread(p) ==
  /\ pc[p] = "reread"
  /\ post' = [post EXCEPT ![p].seen = row[call[p].row].object]
  /\ Goto(p, "note")
  /\ UNCHANGED <<journal, elsewhere, session, found, counts>>

\* The provenance row, under an id of its own (that of the attempt, here).
Note(p) ==
  /\ pc[p] = "note"
  /\ provenance' = provenance \cup {[id |-> post[p].object, row |-> call[p].row,
                                     object |-> post[p].seen]}
  /\ Finish(p)
  /\ UNCHANGED <<kind, binding, creator, home, row, decisions, elsewhere, counts>>

-----------------------------------------------------------------------------
\* The Bridge binds an agent to a session, or to another one.
BridgeBind(a, s) ==
  /\ binds < MaxBinds /\ binds' = binds + 1
  /\ target' = [target EXCEPT ![a] = s]
  /\ UNCHANGED <<journal, canvas, minted, locals, calls, edits>>

\* Somebody else's transaction on the canvas.
CanvasEdit ==
  /\ edits < MaxEdits /\ edits' = edits + 1
  /\ canvas' = [canvas EXCEPT !.revision = @ + 1]
  /\ UNCHANGED <<journal, target, minted, locals, calls, binds>>

Step(p) ==
  \/ ReadBridge(p) \/ LookForAgent(p) \/ Upsert(p) \/ LookForBinding(p) \/ WriteBinding(p)
  \/ CreateWorkspace(p) \/ CreateTask(p) \/ LookForRow(p) \/ InsertRow(p) \/ Decide(p)
  \/ ReadRow(p) \/ ReadState(p) \/ Send(p) \/ ReadMetadata(p) \/ UpdateRow(p)
  \/ Reread(p) \/ Note(p) \/ Die(p)

Next ==
  \/ \E p \in Processes : Step(p) \/ \E c \in Calls : Begin(p, c)
  \/ \E a \in Agents, s \in Sessions : BridgeBind(a, s)
  \/ CanvasEdit

Spec == Init /\ [][Next]_vars
=============================================================================
