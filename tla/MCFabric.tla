------------------------------ MODULE MCFabric ------------------------------
(* Small instances of PMWFabric. *)
EXTENDS FabricSafety, TLC

CONSTANTS a1, a2, s1, w1, w2, t1, x1, p1, p2

\* The owner of w1 is registered, nobody else.
Owner == [a \in Agents |-> IF a = a1 THEN "human" ELSE NoKind]
OwnersSpace == [w \in Workspaces |-> IF w = w1 THEN a1 ELSE NoAgent]

Frames(r) == [op |-> "project", row |-> r, mode |-> "compat_frame_v0"]
Natives(r) == [op |-> "project", row |-> r, mode |-> "native_resource_portal_v1"]
Placed(r, a, t) == [op |-> "resource-bind", row |-> r, owner |-> a, task |-> t]

Commands ==
  { [op |-> "agent-add", agent |-> a2, kind |-> "ai"],
    [op |-> "agent-add", agent |-> a2, kind |-> "human"],
    [op |-> "import-herdr", agent |-> a2, kind |-> "ai"],
    [op |-> "bind", agent |-> a1, session |-> s1, verified |-> FALSE],
    [op |-> "workspace-create", workspace |-> w2, agent |-> a2],
    [op |-> "task-create", task |-> t1, workspace |-> w2, agents |-> {a1}],
    Placed(<<w1, x1>>, a1, NoTask), Placed(<<w1, x1>>, NoAgent, t1),
    Placed(<<w2, x1>>, NoAgent, t1),
    Frames(<<w1, x1>>), Natives(<<w1, x1>>),
    [op |-> "decide", agent |-> a1, workspace |-> w1, task |-> t1] }

Offers ==
  { [credential |-> FALSE, schema |-> TRUE, failed |-> {}],
    [credential |-> FALSE, schema |-> TRUE, failed |-> {"portal_schema_mismatch"}] }

Digests == [n \in {"mrmic-capabilities-v1.schema.json"} |-> "sha256"]
=============================================================================
