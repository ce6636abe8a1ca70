--------------------------- MODULE BridgeDelivery ---------------------------
(***************************************************************************)
(* BridgeEngine.deliver (eml_bridge/core.py) over the SQLite journal       *)
(* (eml_bridge/journal.py).  Engines are separate processes on one journal *)
(* file: every SQL statement and every Herdr call is a step of its own,    *)
(* and a transition is two of them, the SELECT that checks the graph and   *)
(* the UPDATE that overwrites the row.  A process may crash at any step.   *)
(* The agents' runtimes (Herdr), the operators who bind agents and issue   *)
(* or revoke locks, and the agents who answer are the environment.         *)
(***************************************************************************)
EXTENDS DeliveryStates, FiniteSets

CONSTANTS
  Engines,           \* processes that call deliver()
  Messages,          \* message ids
  Callers,           \* which engine is ever asked to deliver which message
  Agents,            \* semantic agent ids
  Targets,           \* Herdr agent targets
  Terminals,         \* terminal ids a target can occupy
  Natives,           \* native session ids a target can run
  Payloads,          \* thread id and payload hash, together
  Locks,             \* target lock ids
  LockInfo,          \* what each lock was issued for
  Envelopes,         \* the messages the senders compose
  RequireTargetLock, AllowHeuristic,       \* BridgeEngine's settings
  CutEcho,           \* whether a terminal may echo a frame without its last lines
  MaxHops, MaxDepth, \* routing bounds carried by every message
  MaxSeq,            \* bound: status changes of a target
  MaxCalls,          \* bound: calls of deliver()
  MayCrash,          \* whether engine processes crash
  NoMessage, NoLock, NoNative, NoState, NoTarget

Status == {"idle", "working", "blocked", "unknown"}  \* idle is idle or done
Confidence == {"structured", "turn_fenced", "heuristic", "none"}

Envelope ==
  [sender : Agents, recipient : Agents, payload : Payloads,
   lock : Locks \cup {NoLock}, parent : Messages \cup {NoMessage},
   hop : Nat, depth : Nat, ack : BOOLEAN, strict : BOOLEAN,
   projection : {"herdr_prompt", "board_and_prompt", "board_only"}]

Lock == [agent : Agents, native : Natives \cup {NoNative}, proxy : BOOLEAN]

ASSUME ConstantsAssumption ==
  /\ Callers \subseteq Engines \X Messages
  /\ LockInfo \in [Locks -> Lock]
  /\ Envelopes \subseteq Envelope
  /\ \A v \in Envelopes : v.parent = NoMessage
  /\ NoMessage \notin Messages \cup Envelope /\ NoLock \notin Locks
  /\ NoNative \notin Natives /\ NoTarget \notin Targets
  /\ NoState \notin DeliveryState \cup Confidence
  /\ RequireTargetLock \in BOOLEAN /\ AllowHeuristic \in BOOLEAN
  /\ CutEcho \in BOOLEAN
  /\ MaxHops \in Nat /\ MaxDepth \in Nat
  /\ MaxSeq \in Nat /\ MaxCalls \in Nat /\ MayCrash \in BOOLEAN

VARIABLES
  \* the journal
  msg,        \* messages table: the envelope of each journaled message
  delivery,   \* deliveries table: the history of each message's row
  conf,       \* deliveries.capture_confidence
  routes,     \* route_fingerprints
  replies,    \* structured_replies, by parent message
  lockState,  \* target_locks
  binding,    \* agents table
  board,      \* posts to the board sink
  \* Herdr and the agents behind it
  runtime,    \* what get_agent returns for each target
  prompts,    \* how often each message entered a terminal
  answered,   \* messages whose reply marker an agent wrote after the frame
  \* each engine process
  pc, cur,    \* where it is in deliver(), and for which message
  to, seen,   \* a transition under way: its target, and the row it read
  live, cap,  \* its AgentInfo snapshot, and the confidence to be written
  \* bookkeeping of the model
  calls,      \* calls of deliver() so far
  raised      \* messages for which transition_delivery raised ValueError

tables == <<msg, routes, replies, lockState, binding, board>>
rows   == <<delivery, conf>>
world  == <<runtime, prompts, answered>>
engine == <<pc, cur, to, seen, live, cap>>
model  == <<calls, raised>>
vars   == <<tables, rows, world, engine, model>>

Unbound == [target |-> NoTarget, terminal |-> NoTarget, native |-> NoNative]
NoLive  == [target |-> NoTarget, terminal |-> NoTarget, native |-> NoNative,
            status |-> "unknown", seq |-> 0]

Labels == {"idle", "ensure", "preflight", "board", "lookup", "refresh",
           "strict", "gate", "prompt", "route", "observe", "active", "wait",
           "capture", "ack", "publish"}

State(m) == IF delivery[m] = << >> THEN NoState ELSE delivery[m][Len(delivery[m])]

Route(m) == <<msg[m].sender, msg[m].recipient, msg[m].payload>>

Init ==
  /\ msg = [m \in Messages |-> NoMessage]
  /\ delivery = [m \in Messages |-> << >>]
  /\ conf = [m \in Messages |-> NoState]
  /\ routes = {} /\ replies = {} /\ board = {}
  /\ lockState = [l \in Locks |-> "absent"]
  /\ binding = [a \in Agents |-> Unbound]
  /\ runtime \in [Targets -> [status : {"idle"}, seq : {0},
                              terminal : Terminals, native : Natives \cup {NoNative}]]
  /\ prompts = [m \in Messages |-> 0]
  /\ answered = {}
  /\ pc = [e \in Engines |-> "idle"]
  /\ cur = [e \in Engines |-> NoMessage]
  /\ to = [e \in Engines |-> NoState]
  /\ seen = [e \in Engines |-> << >>]
  /\ live = [e \in Engines |-> NoLive]
  /\ cap = [e \in Engines |-> NoState]
  /\ calls = 0 /\ raised = {}

-----------------------------------------------------------------------------
(* Control of one engine.  At(e, l): e has no transition under way and is   *)
(* about to execute label l.  Goto moves on, Persist asks for a transition  *)
(* and continues at l once it is written; deliver() returns by going to     *)
(* "idle" and forgetting its locals.                                        *)

At(e, l) == pc[e] = l /\ to[e] = NoState

Goto(e, l) == pc' = [pc EXCEPT ![e] = l] /\ to' = to

Persist(e, s, l) == pc' = [pc EXCEPT ![e] = l] /\ to' = [to EXCEPT ![e] = s]

Forget(e) ==
  /\ pc' = [pc EXCEPT ![e] = "idle"]
  /\ cur' = [cur EXCEPT ![e] = NoMessage]
  /\ to' = [to EXCEPT ![e] = NoState]
  /\ seen' = [seen EXCEPT ![e] = << >>]
  /\ live' = [live EXCEPT ![e] = NoLive]
  /\ cap' = [cap EXCEPT ![e] = NoState]

\* Mutant: transition_delivery does not consult the graph.
TransitionReadUnchecked(e) ==
  /\ to[e] # NoState /\ seen[e] = << >>
  /\ seen' = [seen EXCEPT ![e] = delivery[cur[e]]]
  /\ UNCHANGED <<tables, rows, world, model, pc, cur, to, live, cap>>

\* transition_delivery, first half: SELECT the row and check the graph.
TransitionRead(e) ==
  /\ to[e] # NoState /\ seen[e] = << >>
  /\ UNCHANGED <<tables, rows, world, calls>>
  /\ \/ /\ LegalStep(State(cur[e]), to[e])
        /\ seen' = [seen EXCEPT ![e] = delivery[cur[e]]]
        /\ UNCHANGED <<pc, cur, to, live, cap, raised>>
     \/ /\ ~LegalStep(State(cur[e]), to[e])
        /\ raised' = raised \cup {cur[e]}
        /\ Forget(e)

\* Mutant: the history is rebuilt instead of extended.
TransitionWriteAfresh(e) ==
  /\ to[e] # NoState /\ seen[e] # << >>
  /\ delivery' = [delivery EXCEPT ![cur[e]] = <<to[e]>>]
  /\ conf' = conf
  /\ IF pc[e] = "idle" THEN Forget(e)
     ELSE /\ to' = [to EXCEPT ![e] = NoState]
          /\ seen' = [seen EXCEPT ![e] = << >>]
          /\ UNCHANGED <<pc, cur, live, cap>>
  /\ UNCHANGED <<tables, world, model>>

\* Second half: UPDATE the row from the copy that was read.  capture_confidence
\* is COALESCEd with the column as it is now, not with the copy.
TransitionWrite(e) ==
  /\ to[e] # NoState /\ seen[e] # << >>
  /\ delivery' = [delivery EXCEPT ![cur[e]] = Append(seen[e], to[e])]
  /\ conf' = [conf EXCEPT ![cur[e]] = IF cap[e] = NoState THEN @ ELSE cap[e]]
  /\ \/ /\ pc[e] = "idle"
        /\ Forget(e)
     \/ /\ pc[e] # "idle"
        /\ to' = [to EXCEPT ![e] = NoState]
        /\ seen' = [seen EXCEPT ![e] = << >>]
        /\ cap' = [cap EXCEPT ![e] = NoState]
        /\ UNCHANGED <<pc, cur, live>>
  /\ UNCHANGED <<tables, world, model>>
-----------------------------------------------------------------------------
(* deliver(), up to the prompt.                                             *)

Call(e, m) ==
  /\ At(e, "idle") /\ <<e, m>> \in Callers
  /\ calls < MaxCalls
  /\ calls' = calls + 1
  /\ cur' = [cur EXCEPT ![e] = m]
  /\ Goto(e, "ensure")

\* journal_message: the INSERT of a new message ...
Send(e, m, v) ==
  /\ Call(e, m)
  /\ msg[m] = NoMessage
  /\ msg' = [msg EXCEPT ![m] = v]
  /\ UNCHANGED <<routes, replies, lockState, binding, board, rows, world,
                 seen, live, cap, raised>>

\* ... or, for one already journaled, the same id again.  (Another document
\* under the same idempotency key raises before anything is written.)
Redeliver(e, m) ==
  /\ Call(e, m)
  /\ msg[m] # NoMessage
  /\ UNCHANGED <<tables, rows, world, seen, live, cap, raised>>

\* ensure_delivery is INSERT OR IGNORE; the row is then read, and a state that
\* is not journaled is returned as it stands.
EnsureDelivery(e) ==
  /\ At(e, "ensure")
  /\ \/ /\ delivery[cur[e]] = << >>
        /\ delivery' = [delivery EXCEPT ![cur[e]] = <<"journaled">>]
        /\ Goto(e, "preflight")
        /\ UNCHANGED <<cur, seen, live, cap>>
     \/ /\ State(cur[e]) = "journaled"
        /\ Goto(e, "preflight")
        /\ UNCHANGED <<delivery, cur, seen, live, cap>>
     \/ /\ State(cur[e]) \notin {"journaled", NoState}
        /\ Forget(e)
        /\ UNCHANGED delivery
  /\ UNCHANGED <<tables, conf, world, model>>

NativeBound(l, b) ==
  \/ LockInfo[l].native = NoNative
  \/ b.native = LockInfo[l].native
  \/ LockInfo[l].proxy

\* Mutant: any standing lock will do, whoever it was issued for.
VerdictForAnyLock(m) ==
  LET l == msg[m].lock
  IN IF msg[m].parent # NoMessage \/ (l = NoLock /\ ~RequireTargetLock)
     THEN NoState
     ELSE IF l = NoLock \/ lockState[l] # "issued" THEN "target_authority_mismatch"
     ELSE IF binding[msg[m].recipient] = Unbound THEN "exact_native_target_not_bound"
     ELSE NoState

\* What _preflight_target_authority answers: NoState to proceed, or the state
\* in which the send is refused.
Verdict(m) ==
  LET v == msg[m]
      l == v.lock
  IN IF v.parent # NoMessage \/ (l = NoLock /\ ~RequireTargetLock)
     THEN NoState
     ELSE IF l = NoLock \/ lockState[l] # "issued" \/ v.recipient # LockInfo[l].agent
     THEN "target_authority_mismatch"
     ELSE IF binding[v.recipient] = Unbound \/ ~NativeBound(l, binding[v.recipient])
     THEN "exact_native_target_not_bound"
     ELSE NoState

\* The verdict is journaled either way: a pass repeats "journaled".
Preflight(e) ==
  /\ At(e, "preflight")
  /\ \/ /\ Verdict(cur[e]) = NoState
        /\ Persist(e, "journaled", "board")
     \/ /\ Verdict(cur[e]) # NoState
        /\ Persist(e, Verdict(cur[e]), "idle")
  /\ UNCHANGED <<tables, rows, world, cur, seen, live, cap, model>>

\* Board post for a board projection, then the first transition.
Project(e) ==
  /\ At(e, "board")
  /\ board' = IF msg[cur[e]].projection = "herdr_prompt" THEN board
              ELSE board \cup {<<cur[e], "journaled">>}
  /\ Persist(e, "resolving_target", "lookup")
  /\ UNCHANGED <<msg, routes, replies, lockState, binding, rows, world,
                 cur, seen, live, cap, model>>

\* get_agent of the journal; a board_only message needs no target at all.
Lookup(e) ==
  /\ At(e, "lookup")
  /\ LET b == binding[msg[cur[e]].recipient]
     IN \/ /\ msg[cur[e]].projection = "board_only"
           /\ Persist(e, "ready", "gate")
           /\ live' = live
        \/ /\ msg[cur[e]].projection # "board_only" /\ b = Unbound
           /\ Persist(e, "target_unavailable", "idle")
           /\ live' = live
        \/ /\ msg[cur[e]].projection # "board_only" /\ b # Unbound
           /\ live' = [live EXCEPT ![e] =
                         [target |-> b.target, terminal |-> b.terminal,
                          native |-> b.native, status |-> "unknown", seq |-> 0]]
           /\ Goto(e, "refresh")
  /\ UNCHANGED <<tables, rows, world, cur, seen, cap, model>>

\* The binding row and the AgentInfo of what target t is now.
Occupant(t) ==
  [target |-> t, terminal |-> runtime[t].terminal, native |-> runtime[t].native]

Snapshot(t) ==
  [target |-> t, terminal |-> runtime[t].terminal, native |-> runtime[t].native,
   status |-> runtime[t].status, seq |-> runtime[t].seq]

\* A new terminal needs the same native session to vouch for it.
Continues(b, t) ==
  \/ runtime[t].terminal = b.terminal
  \/ runtime[t].native # NoNative /\ runtime[t].native = b.native

\* herdr.get_agent and _refresh_binding, which overwrites the agents row with
\* the target that was read and the terminal and session seen now; a transport
\* error or a stale binding ends the delivery.
RefreshBinding(e) ==
  /\ At(e, "refresh")
  /\ LET t == live[e].target
         a == msg[cur[e]].recipient
     IN \/ /\ Continues(live[e], t)
           /\ binding' = [binding EXCEPT ![a] = Occupant(t)]
           /\ live' = [live EXCEPT ![e] = Snapshot(t)]
           /\ Goto(e, "strict")
        \/ /\ Persist(e, "target_unavailable", "idle")
           /\ UNCHANGED <<binding, live>>
  /\ UNCHANGED <<msg, routes, replies, lockState, board, rows, world,
                 cur, seen, cap, model>>

\* The strict-turn gate: wait for earlier work, or give up when it does not
\* settle; a target whose status is unknown is not prompted.
StrictTurn(e) ==
  /\ At(e, "strict")
  /\ LET strict == msg[cur[e]].strict
         t == live[e].target
     IN \/ /\ ~strict \/ live[e].status \in {"idle", "blocked"}
           /\ Persist(e, "ready", "gate")
           /\ live' = live
        \/ /\ strict /\ live[e].status = "working"
           /\ runtime[t].status \in {"idle", "blocked"}
           /\ live' = [live EXCEPT ![e] = Snapshot(t)]
           /\ Goto(e, "strict")
        \/ /\ strict /\ live[e].status \in {"working", "unknown"}
           /\ Persist(e, "target_unavailable", "idle")
           /\ live' = live
  /\ UNCHANGED <<tables, rows, world, cur, seen, cap, model>>

LoopSuspected(m) ==
  \/ msg[m].hop >= MaxHops
  \/ msg[m].depth >= MaxDepth
  \/ Route(m) \in routes

\* Mutant: PROMPT_SUBMITTED is persisted before the prompt is submitted.
GatePersistsFirst(e) ==
  /\ At(e, "gate")
  /\ IF msg[cur[e]].projection = "board_only" \/ LoopSuspected(cur[e])
     THEN Persist(e, "suppressed", "idle")
     ELSE Persist(e, "prompt_submitted", "prompt")
  /\ UNCHANGED <<tables, rows, world, cur, seen, live, cap, model>>

\* READY is durable: stop at the board, at a blocked target or at a routing
\* loop, else go on to prompt.  (read_agent's baseline is read here.)
Gate(e) ==
  /\ At(e, "gate")
  /\ LET v == msg[cur[e]]
         blocked == v.strict /\ live[e].status = "blocked"
     IN \/ /\ v.projection # "board_only" /\ blocked
           /\ Persist(e, "blocked", "idle")
        \/ /\ v.projection = "board_only" \/ (~blocked /\ LoopSuspected(cur[e]))
           /\ Persist(e, "suppressed", "idle")
        \/ /\ v.projection # "board_only" /\ ~blocked /\ ~LoopSuspected(cur[e])
           /\ Goto(e, "prompt")
  /\ UNCHANGED <<tables, rows, world, cur, seen, live, cap, model>>
-----------------------------------------------------------------------------
(* The prompt and what follows it.  herdr.prompt_agent delivers or not, and *)
(* independently the engine hears of it or not.                             *)

Enters(e) == prompts' = [prompts EXCEPT ![cur[e]] = @ + 1]

\* Mutant: a prompt whose answer timed out is submitted again.
PromptWithRetry(e) ==
  /\ At(e, "prompt")
  /\ Enters(e)
  /\ \/ prompts[cur[e]] < 2 /\ Goto(e, "prompt")
     \/ Persist(e, "prompt_submitted", "route")
  /\ UNCHANGED <<tables, rows, runtime, answered, cur, seen, live, cap, model>>

Prompt(e) ==
  /\ At(e, "prompt")
  /\ \/ Enters(e) /\ Persist(e, "prompt_submitted", "route")
     \/ Enters(e) /\ Persist(e, "uncertain", "idle")        \* answer timed out
     \/ Enters(e) /\ Persist(e, "failed", "idle")           \* answer unreadable
     \/ prompts' = prompts /\ Persist(e, "uncertain", "idle")
     \/ prompts' = prompts /\ Persist(e, "failed", "idle")
     \/ /\ runtime[live[e].target].status = "blocked"       \* agent_blocked
        /\ prompts' = prompts /\ Persist(e, "blocked", "idle")
  /\ UNCHANGED <<tables, rows, runtime, answered, cur, seen, live, cap, model>>

\* Mutant: the route is not recorded.
RecordNoRoute(e) ==
  /\ At(e, "route")
  /\ Goto(e, "observe")
  /\ UNCHANGED <<tables, rows, world, cur, seen, live, cap, model>>

RecordRoute(e) ==
  /\ At(e, "route")
  /\ routes' = routes \cup {Route(cur[e])}
  /\ Goto(e, "observe")
  /\ UNCHANGED <<msg, replies, lockState, binding, board, rows, world,
                 cur, seen, live, cap, model>>

\* Mutant: polling for the effect has no deadline.
ObserveForever(e) ==
  /\ At(e, "observe")
  /\ runtime[live[e].target].seq > live[e].seq
  /\ live' = [live EXCEPT ![e] = Snapshot(live[e].target)]
  /\ Persist(e, "activity_observed", "active")
  /\ UNCHANGED <<tables, rows, world, cur, seen, cap, model>>

\* _observe_prompt_effect: any status change since the snapshot counts, whoever
\* caused it; none before the deadline, or a transport error, is uncertain.
ObserveEffect(e) ==
  /\ At(e, "observe")
  /\ LET t == live[e].target
     IN \/ /\ runtime[t].seq > live[e].seq
           /\ live' = [live EXCEPT ![e] = Snapshot(t)]
           /\ Persist(e, "activity_observed", "active")
        \/ /\ Persist(e, "uncertain", "idle")
           /\ live' = live
  /\ UNCHANGED <<tables, rows, world, cur, seen, cap, model>>

\* _complete_structured_reply: REPLY_CAPTURED with structured confidence.
CaptureStructured(e) ==
  /\ cap' = [cap EXCEPT ![e] = "structured"]
  /\ Persist(e, "reply_captured", "ack")

AfterActivity(e) ==
  /\ At(e, "active")
  /\ LET structured == cur[e] \in replies
         status == live[e].status
     IN \/ status = "blocked" /\ Persist(e, "blocked", "idle") /\ cap' = cap
        \/ status # "blocked" /\ structured /\ CaptureStructured(e)
        \/ /\ status = "idle" /\ ~structured
           /\ Persist(e, "runtime_settled", "capture") /\ cap' = cap
        \/ /\ status \in {"working", "unknown"} /\ ~structured
           /\ Goto(e, "wait") /\ cap' = cap
  /\ UNCHANGED <<tables, rows, world, cur, seen, live, model>>

\* wait_agent returns a settled status or fails; a failure is first answered
\* with the structured reply, then with the kind of the error.
WaitSettled(e) ==
  /\ At(e, "wait")
  /\ LET structured == cur[e] \in replies
         status == runtime[live[e].target].status
     IN \/ status = "idle" /\ Persist(e, "runtime_settled", "capture") /\ cap' = cap
        \/ status = "blocked" /\ Persist(e, "blocked", "idle") /\ cap' = cap
        \/ structured /\ CaptureStructured(e)
        \/ ~structured /\ cap' = cap /\ \E s \in {"uncertain", "failed"} :
                                          Persist(e, s, "idle")
  /\ UNCHANGED <<tables, rows, world, cur, seen, live, model>>

\* Mutant: any text on the screen acknowledges.
AcceptableText(c) == c # "none"

Acceptable(c) ==
  c \in {"structured", "turn_fenced"} \/ (AllowHeuristic /\ c = "heuristic")

\* What capture_reply may find: the structured reply if there is one, else what
\* the terminal shows.  A marker below the echoed frame is the agent's; in an echo
\* cut above its closing tag capture_reply takes the frame's own marker for one.
Found(m) ==
  IF m \in replies THEN {"structured"}
  ELSE {"heuristic", "none"}
         \cup (IF m \in answered \/ CutEcho THEN {"turn_fenced"} ELSE {})

CaptureReply(e) ==
  /\ At(e, "capture")
  /\ \/ \E c \in Found(cur[e]) :
          /\ cap' = [cap EXCEPT ![e] = c]
          /\ IF c = "none" \/ (msg[cur[e]].ack /\ ~Acceptable(c))
             THEN Persist(e, "capture_failed", "idle")
             ELSE Persist(e, "reply_captured", "ack")
     \/ /\ cur[e] \notin replies                            \* read_agent failed
        /\ cap' = cap
        /\ Persist(e, "capture_failed", "idle")
  /\ UNCHANGED <<tables, rows, world, cur, seen, live, model>>

\* Mutant: the acknowledgement is published but never journaled.
AcknowledgeNothing(e) ==
  /\ At(e, "ack")
  /\ Goto(e, "publish")
  /\ UNCHANGED <<tables, rows, world, cur, seen, live, cap, model>>

Acknowledge(e) ==
  /\ At(e, "ack")
  /\ IF msg[cur[e]].ack THEN Persist(e, "acknowledged", "publish")
                        ELSE Goto(e, "publish")
  /\ UNCHANGED <<tables, rows, world, cur, seen, live, cap, model>>

Publish(e) ==
  /\ At(e, "publish")
  /\ board' = board \cup {<<cur[e], IF msg[cur[e]].ack THEN "acknowledged"
                                                      ELSE "reply_captured">>}
  /\ Forget(e)
  /\ UNCHANGED <<msg, routes, replies, lockState, binding, rows, world, model>>

Crash(e) ==
  /\ pc[e] # "idle" \/ to[e] # NoState
  /\ MayCrash
  /\ Forget(e)
  /\ UNCHANGED <<tables, rows, world, model>>
-----------------------------------------------------------------------------
(* The other commands, and the environment.                                 *)

ReplyTo(m, p, hop, depth) ==
  [sender |-> msg[m].recipient, recipient |-> msg[m].sender, payload |-> p,
   lock |-> NoLock, parent |-> m, ack |-> FALSE, strict |-> TRUE,
   hop |-> hop, depth |-> depth, projection |-> "herdr_prompt"]

\* Mutant: a reply inherits its parent's counters as they are.
UncountedReply(m, p) == ReplyTo(m, p, msg[m].hop, msg[m].depth)

\* reply_message: recipient, thread and loop counters come from the parent.
ReplyMessage(m, p) == ReplyTo(m, p, msg[m].hop + 1, msg[m].depth + 1)

\* cmd_reply: journal the reply to a journaled message ...
JournalReply(m, r, p) ==
  /\ msg[m] # NoMessage /\ msg[r] = NoMessage
  /\ msg' = [msg EXCEPT ![r] = ReplyMessage(m, p)]
  /\ UNCHANGED <<routes, replies, lockState, binding, board, rows, world,
                 engine, model>>

\* ... then record it as the structured reply to the parent.
RecordReply(r) ==
  /\ msg[r] # NoMessage /\ msg[r].parent # NoMessage
  /\ replies' = replies \cup {msg[r].parent}
  /\ UNCHANGED <<msg, routes, lockState, binding, board, rows, world,
                 engine, model>>

IssueLock(l) ==
  /\ lockState[l] = "absent"
  /\ lockState' = [lockState EXCEPT ![l] = "issued"]
  /\ UNCHANGED <<msg, routes, replies, binding, board, rows, world, engine, model>>

RevokeLock(l) ==
  /\ lockState[l] = "issued"
  /\ lockState' = [lockState EXCEPT ![l] = "revoked"]
  /\ UNCHANGED <<msg, routes, replies, binding, board, rows, world, engine, model>>

BindAgent(a, t) ==
  /\ binding' = [binding EXCEPT ![a] = Occupant(t)]
  /\ UNCHANGED <<msg, routes, replies, lockState, board, rows, world, engine, model>>

\* reconcile_agent refreshes a binding unless it is stale.
Reconcile(a) ==
  /\ binding[a] # Unbound /\ Continues(binding[a], binding[a].target)
  /\ binding' = [binding EXCEPT ![a] = Occupant(binding[a].target)]
  /\ UNCHANGED <<msg, routes, replies, lockState, board, rows, world, engine, model>>

\* Herdr: a target changes status, because of a prompt or of anything else.
RuntimeMoves(t, s) ==
  /\ runtime[t].seq < MaxSeq /\ s # runtime[t].status
  /\ runtime' = [runtime EXCEPT ![t] =
       [status |-> s, seq |-> @.seq + 1, terminal |-> @.terminal, native |-> @.native]]
  /\ UNCHANGED <<tables, rows, prompts, answered, engine, model>>

\* Herdr: another terminal or another native session behind the same target.
RuntimeReplaced(t, x, n) ==
  /\ runtime[t].seq < MaxSeq
  /\ <<x, n>> # <<runtime[t].terminal, runtime[t].native>>
  /\ runtime' = [runtime EXCEPT ![t] =
       [status |-> @.status, seq |-> @.seq + 1, terminal |-> x, native |-> n]]
  /\ UNCHANGED <<tables, rows, prompts, answered, engine, model>>

\* An agent answers a prompt in its terminal, with the message's own marker.
AgentAnswers(m) ==
  /\ prompts[m] > 0
  /\ answered' = answered \cup {m}
  /\ UNCHANGED <<tables, rows, runtime, prompts, engine, model>>
-----------------------------------------------------------------------------
Step(e) ==
  \/ TransitionRead(e) \/ TransitionWrite(e)
  \/ EnsureDelivery(e) \/ Preflight(e) \/ Project(e) \/ Lookup(e)
  \/ RefreshBinding(e) \/ StrictTurn(e) \/ Gate(e) \/ Prompt(e)
  \/ RecordRoute(e) \/ ObserveEffect(e) \/ AfterActivity(e) \/ WaitSettled(e)
  \/ CaptureReply(e) \/ Acknowledge(e) \/ Publish(e)

Commands ==
  \/ \E e \in Engines, m \in Messages : Redeliver(e, m) \/ \E v \in Envelopes : Send(e, m, v)
  \/ \E m, r \in Messages, p \in Payloads : JournalReply(m, r, p)
  \/ \E r \in Messages : RecordReply(r)
  \/ \E l \in Locks : IssueLock(l) \/ RevokeLock(l)
  \/ \E a \in Agents : Reconcile(a) \/ \E t \in Targets : BindAgent(a, t)

Environment ==
  \/ \E t \in Targets, s \in Status : RuntimeMoves(t, s)
  \/ \E t \in Targets, x \in Terminals, n \in Natives \cup {NoNative} :
       RuntimeReplaced(t, x, n)
  \/ \E m \in Messages : AgentAnswers(m)
  \/ \E e \in Engines : Crash(e)

Next == Commands \/ Environment \/ \E e \in Engines : Step(e)

Spec == Init /\ [][Next]_vars

\* An engine process that runs keeps running: its Herdr calls have timeouts.
FairSpec == Spec /\ \A e \in Engines : WF_vars(Step(e))
=============================================================================
