--------------------------- MODULE FabricContract ---------------------------
(***************************************************************************)
(* What the PMW journal promises of identities and places: an agent keeps  *)
(* the kind it was registered with, a provider session belongs for good to *)
(* the agent that was first bound to it, a workspace keeps its creator, a  *)
(* task its workspace, a resource its owner and task, and a canvas shows a *)
(* resource once in a mode.  Processes, statements and requests are gone.  *)
(***************************************************************************)

CONSTANTS Agents, Kinds, Sessions, Workspaces, Tasks, Rows, Modes,
          NoKind, NoAgent, NoWorkspace, NoTask, NoPlace

VARIABLES kind, owner, creator, home, place, shown

vars == <<kind, owner, creator, home, place, shown>>

Init ==
  /\ kind \in [Agents -> Kinds \cup {NoKind}]
  /\ owner = [s \in Sessions |-> NoAgent]
  /\ creator \in [Workspaces -> Agents \cup {NoAgent}]
  /\ home = [t \in Tasks |-> NoWorkspace]
  /\ place = [r \in Rows |-> NoPlace]
  /\ shown = {}

Known(a) == kind[a] # NoKind

Register(a, k) ==
  /\ ~Known(a)
  /\ kind' = [kind EXCEPT ![a] = k]
  /\ UNCHANGED <<owner, creator, home, place, shown>>

Claim(s, a) ==
  /\ owner[s] = NoAgent /\ Known(a)
  /\ owner' = [owner EXCEPT ![s] = a]
  /\ UNCHANGED <<kind, creator, home, place, shown>>

Open(w, a) ==
  /\ creator[w] = NoAgent /\ Known(a)
  /\ creator' = [creator EXCEPT ![w] = a]
  /\ UNCHANGED <<kind, owner, home, place, shown>>

Plan(t, w) ==
  /\ home[t] = NoWorkspace /\ creator[w] # NoAgent
  /\ home' = [home EXCEPT ![t] = w]
  /\ UNCHANGED <<kind, owner, creator, place, shown>>

\* A resource is placed in an open workspace, for a task of that workspace.
Place(r, a, t) ==
  /\ place[r] = NoPlace /\ creator[r[1]] # NoAgent
  /\ a # NoAgent => Known(a)
  /\ t # NoTask => home[t] = r[1]
  /\ place' = [place EXCEPT ![r] = [owner |-> a, task |-> t]]
  /\ UNCHANGED <<kind, owner, creator, home, shown>>

Show(r, m) ==
  /\ place[r] # NoPlace /\ <<r, m>> \notin shown
  /\ shown' = shown \cup {<<r, m>>}
  /\ UNCHANGED <<kind, owner, creator, home, place>>

Next ==
  \/ \E a \in Agents, k \in Kinds : Register(a, k)
  \/ \E s \in Sessions, a \in Agents : Claim(s, a)
  \/ \E w \in Workspaces, a \in Agents : Open(w, a)
  \/ \E t \in Tasks, w \in Workspaces : Plan(t, w)
  \/ \E r \in Rows, a \in Agents \cup {NoAgent}, t \in Tasks \cup {NoTask} : Place(r, a, t)
  \/ \E r \in Rows, m \in Modes : Show(r, m)

Spec == Init /\ [][Next]_vars
=============================================================================
