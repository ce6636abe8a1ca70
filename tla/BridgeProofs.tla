---------------------------- MODULE BridgeProofs ----------------------------
(***************************************************************************)
(* Proofs about BridgeDelivery, for every number of engines, messages,     *)
(* locks and calls, with and without crashes.                              *)
(***************************************************************************)
EXTENDS BridgeSafety, FiniteSetTheorems, TLAPS

-----------------------------------------------------------------------------
(* Frames.  Almost every invariant speaks of one engine and one message; an *)
(* action of one engine leaves the locals of the others alone, and no       *)
(* action changes a journaled message.                                      *)

SameLocals(f) ==
  /\ pc'[f] = pc[f] /\ cur'[f] = cur[f] /\ to'[f] = to[f]
  /\ seen'[f] = seen[f] /\ live'[f] = live[f] /\ cap'[f] = cap[f]

OthersKept(e) == \A f \in Engines \ {e} : SameLocals(f)

MsgKept == \A m \in Messages : msg[m] # NoMessage => msg'[m] = msg[m]

Command(e) == \E m \in Messages : Redeliver(e, m) \/ \E v \in Envelopes : Send(e, m, v)

(* An engine's own steps: everything it does from a call to its return, and *)
(* its crash.                                                               *)
Own(e) == Step(e) \/ Command(e) \/ Crash(e)

(* What is left of Next: the other commands and the environment.            *)
Outside ==
  \/ \E m, r \in Messages, p \in Payloads : JournalReply(m, r, p)
  \/ \E r \in Messages : RecordReply(r)
  \/ \E l \in Locks : IssueLock(l) \/ RevokeLock(l)
  \/ \E a \in Agents : Reconcile(a) \/ \E t \in Targets : BindAgent(a, t)
  \/ \E t \in Targets, s \in Status : RuntimeMoves(t, s)
  \/ \E t \in Targets, x \in Terminals, n \in Natives \cup {NoNative} :
       RuntimeReplaced(t, x, n)
  \/ \E m \in Messages : AgentAnswers(m)

LEMMA StepsOf == Next <=> Outside \/ \E e \in Engines : Own(e)
  BY DEF Next, Commands, Environment, Outside, Own, Command

LEMMA OwnKeepsOthers ==
  ASSUME EnginesOK, NEW e \in Engines, Own(e)
  PROVE  OthersKept(e)
<1>1. ASSUME Step(e) PROVE OthersKept(e)
  BY <1>1 DEF Step, OthersKept, SameLocals, EnginesOK, Forget, Persist, Goto,
     TransitionRead, TransitionWrite, EnsureDelivery, Preflight, Project, Lookup,
     RefreshBinding, StrictTurn, Gate, Prompt, RecordRoute, ObserveEffect,
     AfterActivity, WaitSettled, CaptureReply, CaptureStructured, Acknowledge, Publish, engine
<1>2. ASSUME Command(e) PROVE OthersKept(e)
  BY <1>2 DEF Command, Send, Redeliver, Call, Goto, OthersKept, SameLocals, EnginesOK
<1>3. ASSUME Crash(e) PROVE OthersKept(e)
  BY <1>3 DEF Crash, Forget, OthersKept, SameLocals, EnginesOK
<1>4. QED  BY <1>1, <1>2, <1>3 DEF Own

LEMMA OutsideKeepsEngines ==
  ASSUME Outside PROVE UNCHANGED <<engine, rows, calls, raised, board, routes>>
  BY DEF Outside, JournalReply, RecordReply, IssueLock, RevokeLock, Reconcile,
     BindAgent, RuntimeMoves, RuntimeReplaced, AgentAnswers, engine, rows, model, tables

LEMMA MessagesKept ==
  ASSUME TypeOK, Next PROVE MsgKept
<1>1. ASSUME NEW e \in Engines, Step(e) PROVE msg' = msg
  BY <1>1 DEF Step, tables, TransitionRead, TransitionWrite, EnsureDelivery, Preflight,
     Project, Lookup, RefreshBinding, StrictTurn, Gate, Prompt, RecordRoute,
     ObserveEffect, AfterActivity, WaitSettled, CaptureReply, Acknowledge, Publish
<1>2. ASSUME NEW e \in Engines, Command(e) PROVE MsgKept
  BY <1>2 DEF Command, Send, Redeliver, MsgKept, tables, TypeOK, TablesOK
<1>3. ASSUME NEW e \in Engines, Crash(e) PROVE msg' = msg
  BY <1>3 DEF Crash, tables
<1>4. ASSUME Outside PROVE MsgKept
  BY <1>4 DEF Outside, JournalReply, RecordReply, IssueLock, RevokeLock, Reconcile,
     BindAgent, RuntimeMoves, RuntimeReplaced, AgentAnswers, tables, MsgKept, TypeOK, TablesOK
<1>5. QED  BY <1>1, <1>2, <1>3, <1>4, StepsOf DEF Own, MsgKept

LEMMA LocalsKept ==
  ASSUME NEW f \in Engines, LocalsOK(f), SameLocals(f), MsgKept
  PROVE  LocalsOK(f)'
  BY DEF LocalsOK, SameLocals, MsgKept, Busy, NeedsTarget

-----------------------------------------------------------------------------
(* Type correctness.                                                        *)

LEMMA StateType ==
  ASSUME TablesOK, NEW m \in Messages
  PROVE  /\ State(m) \in DeliveryState \cup {NoState}
         /\ delivery[m] # << >> => State(m) \in DeliveryState
         /\ NoState \notin DeliveryState
<1>1. delivery[m] \in Seq(DeliveryState)  BY DEF TablesOK
<1>2. NoState \notin DeliveryState  BY ConstantsAssumption
<1>3. CASE delivery[m] = << >>
  BY <1>2, <1>3 DEF State
<1>4. CASE delivery[m] # << >>
  <2>1. Len(delivery[m]) \in 1 .. Len(delivery[m])  BY <1>1, <1>4
  <2>2. QED  BY <1>1, <1>2, <1>4, <2>1 DEF State
<1>5. QED  BY <1>3, <1>4

LEMMA NoRowNoStep ==
  ASSUME NEW t \in DeliveryState PROVE ~LegalStep(NoState, t)
  BY ConstantsAssumption DEF LegalStep, AllowedTransitions, DeliveryState

LEMMA EnvelopeTypes ==
  /\ Envelopes \subseteq Envelope /\ NoMessage \notin Envelope
  /\ \A m, p : m \in Messages /\ msg \in [Messages -> Envelope \cup {NoMessage}]
       /\ msg[m] # NoMessage /\ p \in Payloads => ReplyMessage(m, p) \in Envelope
  BY ConstantsAssumption DEF ReplyMessage, ReplyTo, Envelope

LEMMA SnapshotType ==
  ASSUME TablesOK, NEW t \in Targets PROVE Snapshot(t) \in LiveInfo /\ Snapshot(t).target = t
  BY DEF TablesOK, Snapshot, LiveInfo, RuntimeInfo

LEMMA TypeInit == Init => TypeOK
  BY ConstantsAssumption DEF Init, TypeOK, TablesOK, EnginesOK, LocalsOK, Busy, NeedsTarget, Unbound,
     NoLive, RuntimeInfo, BindingRow, LiveInfo, Labels, Status, DeliveryState

(* The three ways a statement of deliver() ends: ask for a transition, go   *)
(* on, or return.                                                           *)
LEMMA PersistType ==
  ASSUME TypeOK, NEW e \in Engines, NEW s \in DeliveryState, NEW l \in Labels,
         Busy(e), Persist(e, s, l), UNCHANGED <<msg, cur>>,
         seen[e] = << >>, seen' = seen,
         live' \in [Engines -> LiveInfo], cap' \in [Engines -> Confidence \cup {NoState}],
         NeedsTarget(e)' => live'[e].target \in Targets
  PROVE  EnginesOK' /\ LocalsOK(e)'
<1>1. NoState \notin DeliveryState  BY ConstantsAssumption
<1>2. pc' \in [Engines -> Labels] /\ to' \in [Engines -> DeliveryState \cup {NoState}]
  BY DEF TypeOK, EnginesOK, Persist
<1>3. EnginesOK'  BY <1>2 DEF TypeOK, EnginesOK
<1>4. Busy(e)'  BY <1>1 DEF Busy, Persist, TypeOK, EnginesOK
<1>5. QED  BY <1>3, <1>4 DEF TypeOK, LocalsOK

LEMMA GotoType ==
  ASSUME TypeOK, NEW e \in Engines, NEW l \in Labels \ {"idle"},
         Busy(e), Goto(e, l), UNCHANGED <<msg, cur>>,
         seen[e] = << >>, seen' = seen,
         live' \in [Engines -> LiveInfo], cap' \in [Engines -> Confidence \cup {NoState}],
         NeedsTarget(e)' => live'[e].target \in Targets
  PROVE  EnginesOK' /\ LocalsOK(e)'
<1>2. pc' \in [Engines -> Labels] /\ to' \in [Engines -> DeliveryState \cup {NoState}]
  BY DEF TypeOK, EnginesOK, Goto
<1>3. EnginesOK'  BY <1>2 DEF TypeOK, EnginesOK
<1>4. Busy(e)'  BY DEF Busy, Goto, TypeOK, EnginesOK
<1>5. QED  BY <1>3, <1>4 DEF TypeOK, LocalsOK

(* The same when the snapshot of the target stays as it is.                 *)
NoTargetNeeded == {"idle", "preflight", "board", "lookup", "ack", "publish"}

LEMMA PersistStill ==
  ASSUME TypeOK, NEW e \in Engines, NEW s \in DeliveryState, NEW l \in Labels,
         Busy(e), Persist(e, s, l), UNCHANGED <<msg, cur, seen, live>>,
         seen[e] = << >>, cap' \in [Engines -> Confidence \cup {NoState}],
         NeedsTarget(e) \/ l \in NoTargetNeeded
  PROVE  EnginesOK' /\ LocalsOK(e)'
<1>1. live' \in [Engines -> LiveInfo] /\ (NeedsTarget(e) => live'[e].target \in Targets)
  BY DEF TypeOK, EnginesOK, LocalsOK
<1>2. pc'[e] = l  BY DEF Persist, TypeOK, EnginesOK
<1>3. NeedsTarget(e)' => live'[e].target \in Targets
  BY <1>1, <1>2 DEF NeedsTarget, NoTargetNeeded
<1>4. QED  BY <1>1, <1>3, PersistType

LEMMA GotoStill ==
  ASSUME TypeOK, NEW e \in Engines, NEW l \in Labels \ {"idle"},
         Busy(e), Goto(e, l), UNCHANGED <<msg, cur, seen, live>>,
         seen[e] = << >>, cap' \in [Engines -> Confidence \cup {NoState}],
         NeedsTarget(e) \/ l \in NoTargetNeeded
  PROVE  EnginesOK' /\ LocalsOK(e)'
<1>1. live' \in [Engines -> LiveInfo] /\ (NeedsTarget(e) => live'[e].target \in Targets)
  BY DEF TypeOK, EnginesOK, LocalsOK
<1>2. pc'[e] = l  BY DEF Goto, TypeOK, EnginesOK
<1>3. NeedsTarget(e)' => live'[e].target \in Targets
  BY <1>1, <1>2 DEF NeedsTarget, NoTargetNeeded
<1>4. QED  BY <1>1, <1>3, GotoType

LEMMA ForgetType ==
  ASSUME TypeOK, NEW e \in Engines, Forget(e)
  PROVE  EnginesOK' /\ LocalsOK(e)'
<1>1. NoLive \in LiveInfo /\ "idle" \in Labels
  BY DEF NoLive, LiveInfo, Status, Labels
<1>2. EnginesOK'  BY <1>1 DEF TypeOK, EnginesOK, Forget
<1>3. /\ pc'[e] = "idle" /\ to'[e] = NoState /\ cur'[e] = NoMessage
      /\ seen'[e] = << >> /\ cap'[e] = NoState
  BY DEF TypeOK, EnginesOK, Forget
<1>4. QED  BY <1>2, <1>3 DEF LocalsOK, Busy, NeedsTarget

LEMMA ReadyType ==
  ASSUME TypeOK, NEW e \in Engines, NEW l \in Labels \ {"idle"}, At(e, l)
  PROVE  /\ Busy(e) /\ cur[e] \in Messages /\ msg[cur[e]] \in Envelope
         /\ seen[e] = << >> /\ pc[e] = l /\ to[e] = NoState
  BY ConstantsAssumption DEF TypeOK, TablesOK, EnginesOK, LocalsOK, Busy, At

LEMMA VerdictType == \A m : Verdict(m) \in DeliveryState \cup {NoState}
  BY DEF Verdict, DeliveryState

LEMMA StepType ==
  ASSUME TypeOK, NEW e \in Engines, Step(e)
  PROVE  TablesOK' /\ EnginesOK' /\ LocalsOK(e)'
<1> DEFINE Good == TablesOK' /\ EnginesOK' /\ LocalsOK(e)'
           Ready(l) == /\ cur[e] \in Messages /\ msg[cur[e]] \in Envelope
                       /\ seen[e] = << >> /\ Busy(e) /\ pc[e] = l
<1>0. NoState \notin DeliveryState  BY ConstantsAssumption
<1>1. ASSUME TransitionRead(e) PROVE Good
  <2>0. raised' \subseteq Messages
    BY <1>1 DEF TransitionRead, TypeOK, TablesOK, LocalsOK, Busy
  <2>1. TablesOK'
    BY <1>1, <2>0 DEF TransitionRead, TypeOK, TablesOK, tables, rows, world
  <2>2. CASE Forget(e)
    BY <2>1, <2>2, ForgetType
  <2>3. CASE LegalStep(State(cur[e]), to[e]) /\ ~Forget(e)
    <3>1. /\ UNCHANGED <<msg, pc, cur, to, live, cap>>
          /\ seen' = [seen EXCEPT ![e] = delivery[cur[e]]]
          /\ to[e] # NoState /\ cur[e] \in Messages
      BY <1>1, <2>3 DEF TransitionRead, TypeOK, LocalsOK, Busy, tables
    <3>2. EnginesOK'  BY <3>1 DEF TypeOK, TablesOK, EnginesOK
    <3>3. seen'[e] # << >> => LegalStep(seen'[e][Len(seen'[e])], to'[e])
      BY <2>3, <3>1 DEF State, TypeOK, EnginesOK
    <3>4. QED  BY <2>1, <3>1, <3>2, <3>3 DEF TypeOK, LocalsOK, Busy, NeedsTarget
  <2>4. QED  BY <1>1, <2>2, <2>3 DEF TransitionRead
<1>2. ASSUME TransitionWrite(e) PROVE Good
  <2>1. cur[e] \in Messages /\ to[e] \in DeliveryState /\ msg' = msg
    BY <1>2 DEF TransitionWrite, TypeOK, EnginesOK, LocalsOK, Busy, tables
  <2>2. Append(seen[e], to[e]) \in Seq(DeliveryState)
    BY <2>1 DEF TypeOK, EnginesOK
  <2>3. delivery' \in [Messages -> Seq(DeliveryState)]
    BY <1>2, <2>1, <2>2 DEF TransitionWrite, TypeOK, TablesOK
  <2>4. conf' \in [Messages -> Confidence \cup {NoState}]
    BY <1>2, <2>1 DEF TransitionWrite, TypeOK, TablesOK, EnginesOK
  <2>5. TablesOK'
    BY <1>2, <2>3, <2>4 DEF TransitionWrite, TypeOK, TablesOK, tables, world, model
  <2>6. CASE Forget(e)  BY <2>5, <2>6, ForgetType
  <2>7. CASE pc[e] # "idle" /\ ~Forget(e)
    <3>1. /\ UNCHANGED <<pc, cur, live>> /\ to' = [to EXCEPT ![e] = NoState]
          /\ seen' = [seen EXCEPT ![e] = << >>] /\ cap' = [cap EXCEPT ![e] = NoState]
      BY <1>2, <2>7 DEF TransitionWrite
    <3>2. EnginesOK'  BY <3>1 DEF TypeOK, EnginesOK
    <3>3. seen'[e] = << >> /\ Busy(e)' /\ Busy(e)
      BY <2>7, <3>1 DEF TypeOK, EnginesOK, Busy
    <3>4. QED  BY <2>1, <2>5, <3>1, <3>2, <3>3 DEF TypeOK, LocalsOK, NeedsTarget
  <2>8. QED  BY <1>2, <2>6, <2>7 DEF TransitionWrite
<1>3. ASSUME EnsureDelivery(e) PROVE Good
  <2>1. cur[e] \in Messages /\ seen[e] = << >> /\ Busy(e) /\ pc[e] = "ensure"
    BY <1>3, ReadyType DEF EnsureDelivery, Labels
  <2>0. delivery' \in [Messages -> Seq(DeliveryState)]
    <3>1. <<"journaled">> \in Seq(DeliveryState)  BY DEF DeliveryState
    <3>2. QED  BY <1>3, <2>1, <3>1 DEF EnsureDelivery, TypeOK, TablesOK
  <2>2. TablesOK'
    BY <1>3, <2>0 DEF EnsureDelivery, TypeOK, TablesOK, tables, world, model
  <2>3. CASE Forget(e)  BY <2>2, <2>3, ForgetType
  <2>4. CASE Goto(e, "preflight") /\ UNCHANGED <<cur, seen, live, cap>>
    BY <1>3, <2>1, <2>2, <2>4, GotoType
       DEF EnsureDelivery, TypeOK, EnginesOK, NeedsTarget, Goto, Labels, tables
  <2>5. QED  BY <1>3, <2>3, <2>4 DEF EnsureDelivery
<1>4. ASSUME Preflight(e) PROVE Good
  <2>1. Ready("preflight")
    BY <1>4, ReadyType DEF Preflight, Labels
  <2>2. TablesOK' /\ UNCHANGED <<msg, cur, seen>>
    BY <1>4 DEF Preflight, TypeOK, TablesOK, tables, rows, world, model
  <2>3. PICK s \in DeliveryState, l \in {"board", "idle"} : Persist(e, s, l)
    BY <1>4, VerdictType DEF Preflight, DeliveryState
  <2>4. live' = live /\ cap' = cap  BY <1>4 DEF Preflight
  <2>5. QED  BY <2>1, <2>2, <2>3, <2>4, PersistStill
             DEF TypeOK, EnginesOK, Labels, NoTargetNeeded
<1>5. ASSUME Project(e) PROVE Good
  <2>1. Ready("board")
    BY <1>5, ReadyType DEF Project, Labels
  <2>0. board' \subseteq Messages \X DeliveryState
    BY <1>5, <2>1 DEF Project, TypeOK, TablesOK, DeliveryState
  <2>2. TablesOK' /\ UNCHANGED <<msg, cur, seen>>
    BY <1>5, <2>0 DEF Project, TypeOK, TablesOK, rows, world, model
  <2>3. Persist(e, "resolving_target", "lookup") /\ live' = live /\ cap' = cap
    BY <1>5 DEF Project
  <2>4. QED  BY <2>1, <2>2, <2>3, PersistStill
             DEF TypeOK, EnginesOK, Labels, NoTargetNeeded, DeliveryState
<1>6. ASSUME Lookup(e) PROVE Good
  <2>1. Ready("lookup")
    BY <1>6, ReadyType DEF Lookup, Labels
  <2>2. TablesOK' /\ UNCHANGED <<msg, cur, seen>>
    BY <1>6 DEF Lookup, TypeOK, TablesOK, tables, rows, world, model
  <2>3. cap' \in [Engines -> Confidence \cup {NoState}]
    BY <1>6 DEF Lookup, TypeOK, EnginesOK
  <2>4. CASE msg[cur[e]].projection = "board_only"
    <3>1. Persist(e, "ready", "gate") /\ live' = live
      BY <1>6, <2>4 DEF Lookup
    <3>2. ~NeedsTarget(e)'
      BY <2>1, <2>2, <2>4, <3>1 DEF NeedsTarget, Persist, TypeOK, EnginesOK
    <3>3. QED  BY <2>1, <2>2, <2>3, <3>1, <3>2, PersistType
               DEF TypeOK, EnginesOK, Labels, DeliveryState
  <2>5. CASE Persist(e, "target_unavailable", "idle") /\ live' = live
    BY <2>1, <2>2, <2>3, <2>5, PersistStill
       DEF TypeOK, EnginesOK, Labels, NoTargetNeeded, DeliveryState
  <2> DEFINE b == binding[msg[cur[e]].recipient]
             fresh == [target |-> b.target, terminal |-> b.terminal,
                       native |-> b.native, status |-> "unknown", seq |-> 0]
  <2>6. CASE b # Unbound /\ Goto(e, "refresh") /\ live' = [live EXCEPT ![e] = fresh]
    <3>1. b \in BindingRow /\ b.target \in Targets
      BY <2>1, <2>6 DEF TypeOK, TablesOK, Envelope
    <3>2. live' \in [Engines -> LiveInfo] /\ live'[e].target \in Targets
      BY <2>6, <3>1 DEF TypeOK, EnginesOK, LiveInfo, BindingRow, Status
    <3>3. QED  BY <2>1, <2>2, <2>3, <2>6, <3>2, GotoType DEF Labels
  <2>7. QED  BY <1>6, <2>4, <2>5, <2>6 DEF Lookup
<1>7. ASSUME RefreshBinding(e) PROVE Good
  <2>1. Ready("refresh")
    BY <1>7, ReadyType DEF RefreshBinding, Labels
  <2>2. live[e].target \in Targets /\ NeedsTarget(e)
    BY <2>1 DEF TypeOK, LocalsOK, NeedsTarget
  <2>3. Occupant(live[e].target) \in BindingRow /\ Occupant(live[e].target).target \in Targets
    BY <2>2 DEF Occupant, TypeOK, TablesOK, BindingRow, RuntimeInfo
  <2>4. /\ binding' \in [Agents -> BindingRow]
        /\ \A a \in Agents : binding'[a] = Unbound \/ binding'[a].target \in Targets
    BY <1>7, <2>3 DEF RefreshBinding, TypeOK, TablesOK
  <2>5. TablesOK' /\ UNCHANGED <<msg, cur, seen>> /\ cap' \in [Engines -> Confidence \cup {NoState}]
    BY <1>7, <2>4 DEF RefreshBinding, TypeOK, TablesOK, EnginesOK, rows, world, model
  <2>6. CASE Goto(e, "strict") /\ live' = [live EXCEPT ![e] = Snapshot(live[e].target)]
    <3>1. live' \in [Engines -> LiveInfo] /\ live'[e].target \in Targets
      BY <2>2, <2>6, SnapshotType DEF TypeOK, EnginesOK
    <3>2. QED  BY <2>1, <2>5, <2>6, <3>1, GotoType DEF Labels
  <2>7. CASE Persist(e, "target_unavailable", "idle") /\ live' = live
    BY <2>1, <2>5, <2>7, PersistStill DEF Labels, NoTargetNeeded, DeliveryState
  <2>8. QED  BY <1>7, <2>6, <2>7 DEF RefreshBinding
<1>8. ASSUME StrictTurn(e) PROVE Good
  <2>1. Ready("strict")
    BY <1>8, ReadyType DEF StrictTurn, Labels
  <2>2. TablesOK' /\ UNCHANGED <<msg, cur, seen>>
    BY <1>8 DEF StrictTurn, TypeOK, TablesOK, tables, rows, world, model
  <2>3. live[e].target \in Targets /\ NeedsTarget(e)
    BY <2>1 DEF TypeOK, LocalsOK, NeedsTarget
  <2>4. cap' \in [Engines -> Confidence \cup {NoState}]
    BY <1>8 DEF StrictTurn, TypeOK, EnginesOK
  <2>5. CASE live' = live
    <3>1. ASSUME Goto(e, "strict") PROVE EnginesOK' /\ LocalsOK(e)'
      BY <2>1, <2>2, <2>3, <2>4, <2>5, <3>1, GotoStill DEF Labels
    <3>2. ASSUME NEW s \in {"ready", "target_unavailable"}, NEW l \in {"gate", "idle"},
                 Persist(e, s, l)
          PROVE  EnginesOK' /\ LocalsOK(e)'
      BY <2>1, <2>2, <2>3, <2>4, <2>5, <3>2, PersistStill DEF Labels, DeliveryState
    <3>3. QED  BY <1>8, <2>2, <3>1, <3>2 DEF StrictTurn
  <2>6. CASE Goto(e, "strict") /\ live' = [live EXCEPT ![e] = Snapshot(live[e].target)]
    <3>1. live' \in [Engines -> LiveInfo] /\ live'[e].target \in Targets
      BY <2>3, <2>6, SnapshotType DEF TypeOK, EnginesOK
    <3>2. QED  BY <2>1, <2>2, <2>4, <2>6, <3>1, GotoType DEF Labels
  <2>7. QED  BY <1>8, <2>5, <2>6 DEF StrictTurn
<1>9. ASSUME Gate(e) PROVE Good
  <2>1. Ready("gate")
    BY <1>9, ReadyType DEF Gate, Labels
  <2>2. TablesOK' /\ UNCHANGED <<msg, cur, seen>>
    BY <1>9 DEF Gate, TypeOK, TablesOK, tables, rows, world, model
  <2>3. live' = live /\ cap' \in [Engines -> Confidence \cup {NoState}]
    BY <1>9 DEF Gate, TypeOK, EnginesOK
  <2>4. ASSUME NEW s \in {"blocked", "suppressed"}, Persist(e, s, "idle")
        PROVE  EnginesOK' /\ LocalsOK(e)'
    BY <2>1, <2>2, <2>3, <2>4, PersistStill DEF Labels, DeliveryState, NoTargetNeeded
  <2>5. ASSUME Goto(e, "prompt"), msg[cur[e]].projection # "board_only"
        PROVE  EnginesOK' /\ LocalsOK(e)'
    BY <2>1, <2>2, <2>3, <2>5, GotoStill DEF Labels, NeedsTarget
  <2>6. QED  BY <1>9, <2>2, <2>4, <2>5 DEF Gate
<1>10. ASSUME Prompt(e) PROVE Good
  <2>1. Ready("prompt")
    BY <1>10, ReadyType DEF Prompt, Labels
  <2>0. prompts' \in [Messages -> Nat]
    <3>1. prompts' = prompts \/ prompts' = [prompts EXCEPT ![cur[e]] = @ + 1]
      BY <1>10 DEF Prompt, Enters
    <3>2. prompts \in [Messages -> Nat] /\ prompts[cur[e]] + 1 \in Nat
      BY <2>1 DEF TypeOK, TablesOK
    <3>3. QED  BY <3>1, <3>2
  <2>2. TablesOK' /\ UNCHANGED <<msg, cur, seen, live>> /\ NeedsTarget(e)
    BY <1>10, <2>0, <2>1 DEF Prompt, TypeOK, TablesOK, tables, rows, model, NeedsTarget
  <2>3. PICK s \in DeliveryState, l \in {"route", "idle"} : Persist(e, s, l)
    BY <1>10 DEF Prompt, DeliveryState
  <2>4. cap' = cap  BY <1>10 DEF Prompt
  <2>5. QED  BY <2>1, <2>2, <2>3, <2>4, PersistStill DEF Labels, TypeOK, EnginesOK
<1>11. ASSUME RecordRoute(e) PROVE Good
  <2>1. Ready("route")
    BY <1>11, ReadyType DEF RecordRoute, Labels
  <2>2. TablesOK' /\ UNCHANGED <<msg, cur, seen, live, cap>> /\ NeedsTarget(e) /\ Goto(e, "observe")
    BY <1>11, <2>1 DEF RecordRoute, TypeOK, TablesOK, rows, world, model, NeedsTarget
  <2>3. QED  BY <2>1, <2>2, GotoStill DEF Labels, TypeOK, EnginesOK
<1>12. ASSUME ObserveEffect(e) PROVE Good
  <2>1. Ready("observe")
    BY <1>12, ReadyType DEF ObserveEffect, Labels
  <2>2. TablesOK' /\ UNCHANGED <<msg, cur, seen>>
    BY <1>12 DEF ObserveEffect, TypeOK, TablesOK, tables, rows, world, model
  <2>3. live[e].target \in Targets /\ NeedsTarget(e)
    BY <2>1 DEF TypeOK, LocalsOK, NeedsTarget
  <2>4. live' \in [Engines -> LiveInfo] /\ live'[e].target \in Targets
    BY <1>12, <2>3, SnapshotType DEF ObserveEffect, TypeOK, EnginesOK
  <2>5. PICK s \in DeliveryState, l \in {"active", "idle"} : Persist(e, s, l)
    BY <1>12 DEF ObserveEffect, DeliveryState
  <2>6. cap' = cap  BY <1>12 DEF ObserveEffect
  <2>7. QED  BY <2>1, <2>2, <2>4, <2>5, <2>6, PersistType DEF Labels, TypeOK, EnginesOK
<1>13. ASSUME AfterActivity(e) PROVE Good
  <2>1. Ready("active")
    BY <1>13, ReadyType DEF AfterActivity, Labels
  <2>2. TablesOK' /\ UNCHANGED <<msg, cur, seen>>
    BY <1>13 DEF AfterActivity, TypeOK, TablesOK, tables, rows, world, model
  <2>3. live' = live /\ NeedsTarget(e)
    BY <1>13, <2>1 DEF AfterActivity, NeedsTarget
  <2>4. cap' \in [Engines -> Confidence \cup {NoState}]
    BY <1>13 DEF AfterActivity, CaptureStructured, Confidence, TypeOK, EnginesOK
  <2>5. ASSUME Goto(e, "wait") PROVE EnginesOK' /\ LocalsOK(e)'
    BY <2>1, <2>2, <2>3, <2>4, <2>5, GotoStill DEF Labels
  <2>6. ASSUME NEW s \in DeliveryState, NEW l \in {"idle", "ack", "capture"}, Persist(e, s, l)
        PROVE  EnginesOK' /\ LocalsOK(e)'
    BY <2>1, <2>2, <2>3, <2>4, <2>6, PersistStill DEF Labels
  <2>7. QED  BY <1>13, <2>2, <2>5, <2>6 DEF AfterActivity, CaptureStructured, DeliveryState
<1>14. ASSUME WaitSettled(e) PROVE Good
  <2>1. Ready("wait")
    BY <1>14, ReadyType DEF WaitSettled, Labels
  <2>2. TablesOK' /\ UNCHANGED <<msg, cur, seen>>
    BY <1>14 DEF WaitSettled, TypeOK, TablesOK, tables, rows, world, model
  <2>3. live' = live /\ NeedsTarget(e)
    BY <1>14, <2>1 DEF WaitSettled, NeedsTarget
  <2>4. cap' \in [Engines -> Confidence \cup {NoState}]
    BY <1>14 DEF WaitSettled, CaptureStructured, Confidence, TypeOK, EnginesOK
  <2>5. PICK s \in DeliveryState, l \in {"idle", "ack", "capture"} : Persist(e, s, l)
    BY <1>14 DEF WaitSettled, CaptureStructured, DeliveryState
  <2>6. QED  BY <2>1, <2>2, <2>3, <2>4, <2>5, PersistStill DEF Labels
<1>15. ASSUME CaptureReply(e) PROVE Good
  <2>1. Ready("capture")
    BY <1>15, ReadyType DEF CaptureReply, Labels
  <2>2. TablesOK' /\ UNCHANGED <<msg, cur, seen>>
    BY <1>15 DEF CaptureReply, TypeOK, TablesOK, tables, rows, world, model
  <2>3. live' = live /\ NeedsTarget(e)
    BY <1>15, <2>1 DEF CaptureReply, NeedsTarget
  <2>4. cap' \in [Engines -> Confidence \cup {NoState}]
    BY <1>15 DEF CaptureReply, Found, Confidence, TypeOK, EnginesOK
  <2>5. PICK s \in DeliveryState, l \in {"idle", "ack", "capture"} : Persist(e, s, l)
    BY <1>15 DEF CaptureReply, DeliveryState
  <2>6. QED  BY <2>1, <2>2, <2>3, <2>4, <2>5, PersistStill DEF Labels
<1>16. ASSUME Acknowledge(e) PROVE Good
  <2>1. Ready("ack")
    BY <1>16, ReadyType DEF Acknowledge, Labels
  <2>2. TablesOK' /\ UNCHANGED <<msg, cur, seen>>
    BY <1>16 DEF Acknowledge, TypeOK, TablesOK, tables, rows, world, model
  <2>3. live' = live /\ cap' \in [Engines -> Confidence \cup {NoState}]
    BY <1>16 DEF Acknowledge, TypeOK, EnginesOK
  <2>4. ASSUME Goto(e, "publish") PROVE EnginesOK' /\ LocalsOK(e)'
    BY <2>1, <2>2, <2>3, <2>4, GotoStill DEF Labels, NoTargetNeeded
  <2>5. ASSUME Persist(e, "acknowledged", "publish") PROVE EnginesOK' /\ LocalsOK(e)'
    BY <2>1, <2>2, <2>3, <2>5, PersistStill DEF Labels, NoTargetNeeded, DeliveryState
  <2>6. QED  BY <1>16, <2>2, <2>4, <2>5 DEF Acknowledge
<1>17. ASSUME Publish(e) PROVE Good
  <2>1. Ready("publish")
    BY <1>17, ReadyType DEF Publish, Labels
  <2>2. board' \subseteq Messages \X DeliveryState
    BY <1>17, <2>1 DEF Publish, TypeOK, TablesOK, DeliveryState
  <2>3. TablesOK'  BY <1>17, <2>2 DEF Publish, TypeOK, TablesOK, rows, world, model
  <2>4. QED  BY <1>17, <2>3, ForgetType DEF Publish
<1>18. QED
  BY <1>1, <1>2, <1>3, <1>4, <1>5, <1>6, <1>7, <1>8, <1>9, <1>10, <1>11, <1>12,
     <1>13, <1>14, <1>15, <1>16, <1>17 DEF Step

LEMMA CommandType ==
  ASSUME TypeOK, NEW e \in Engines, Command(e)
  PROVE  TablesOK' /\ EnginesOK' /\ LocalsOK(e)'
<1>1. PICK m \in Messages :
        /\ Call(e, m) /\ UNCHANGED <<seen, live, cap>>
        /\ \/ msg' = msg /\ msg[m] # NoMessage
           \/ \E v \in Envelopes : msg' = [msg EXCEPT ![m] = v]
        /\ UNCHANGED <<routes, replies, lockState, binding, board, rows, world, raised>>
  BY DEF Command, Send, Redeliver, tables
<1>2. msg' \in [Messages -> Envelope \cup {NoMessage}] /\ msg'[m] # NoMessage
  BY <1>1, EnvelopeTypes DEF TypeOK, TablesOK
<1>3. TablesOK'
  BY <1>1, <1>2 DEF TypeOK, TablesOK, rows, world, Call
<1>4. /\ pc' = [pc EXCEPT ![e] = "ensure"] /\ cur' = [cur EXCEPT ![e] = m]
      /\ to' = to /\ to[e] = NoState
  BY <1>1 DEF Call, Goto, At
<1>5. EnginesOK'
  BY <1>1, <1>4 DEF TypeOK, EnginesOK, Labels
<1>6. seen[e] = << >>
  BY <1>4 DEF TypeOK, LocalsOK
<1>7. QED
  BY <1>1, <1>2, <1>3, <1>4, <1>5, <1>6 DEF LocalsOK, NeedsTarget, Busy, TypeOK, EnginesOK

LEMMA OutsideType ==
  ASSUME TypeOK, Outside PROVE TablesOK'
<1>1. UNCHANGED <<delivery, conf, board, calls, raised>>
  BY OutsideKeepsEngines DEF rows
<1> USE DEF TypeOK, TablesOK
<1>2. ASSUME NEW m \in Messages, NEW r \in Messages, NEW p \in Payloads, JournalReply(m, r, p)
      PROVE  TablesOK'
  <2>1. msg' \in [Messages -> Envelope \cup {NoMessage}]
    BY <1>2, EnvelopeTypes DEF JournalReply
  <2>2. QED  BY <1>1, <1>2, <2>1 DEF JournalReply, world
<1>3. ASSUME NEW r \in Messages, RecordReply(r) PROVE TablesOK'
  <2>1. replies' \subseteq Messages
    BY <1>3, ConstantsAssumption DEF RecordReply, Envelope
  <2>2. QED  BY <1>1, <1>3, <2>1 DEF RecordReply, world
<1>4. ASSUME NEW l \in Locks, IssueLock(l) \/ RevokeLock(l) PROVE TablesOK'
  <2>1. lockState' \in [Locks -> {"absent", "issued", "revoked"}]
    BY <1>4 DEF IssueLock, RevokeLock
  <2>2. QED  BY <1>1, <1>4, <2>1 DEF IssueLock, RevokeLock, world
<1>5. ASSUME NEW a \in Agents, Reconcile(a) \/ \E t \in Targets : BindAgent(a, t)
      PROVE  TablesOK'
  <2>1. PICK t \in Targets : binding' = [binding EXCEPT ![a] = Occupant(t)]
    BY <1>5 DEF Reconcile, BindAgent
  <2>2. Occupant(t) \in BindingRow /\ Occupant(t).target \in Targets
    BY DEF Occupant, BindingRow, RuntimeInfo
  <2>3. /\ binding' \in [Agents -> BindingRow]
        /\ \A c \in Agents : binding'[c] = Unbound \/ binding'[c].target \in Targets
    BY <2>1, <2>2
  <2>4. QED  BY <1>1, <1>5, <2>3 DEF Reconcile, BindAgent, world
<1>6. ASSUME NEW t \in Targets, NEW s \in Status, RuntimeMoves(t, s) PROVE TablesOK'
  <2>1. runtime' \in [Targets -> RuntimeInfo]
    BY <1>6 DEF RuntimeMoves, RuntimeInfo
  <2>2. QED  BY <1>1, <1>6, <2>1 DEF RuntimeMoves, tables
<1>7. ASSUME NEW t \in Targets, NEW x \in Terminals, NEW n \in Natives \cup {NoNative},
             RuntimeReplaced(t, x, n)
      PROVE  TablesOK'
  <2>1. runtime' \in [Targets -> RuntimeInfo]
    BY <1>7 DEF RuntimeReplaced, RuntimeInfo
  <2>2. QED  BY <1>1, <1>7, <2>1 DEF RuntimeReplaced, tables
<1>8. ASSUME NEW m \in Messages, AgentAnswers(m) PROVE TablesOK'
  BY <1>1, <1>8 DEF AgentAnswers, tables
<1>9. QED  BY <1>2, <1>3, <1>4, <1>5, <1>6, <1>7, <1>8 DEF Outside

LEMMA TypeStep == TypeOK /\ [Next]_vars => TypeOK'
<1> SUFFICES ASSUME TypeOK, [Next]_vars PROVE TypeOK'
  OBVIOUS
<1>1. CASE UNCHANGED vars
  BY <1>1 DEF vars, tables, rows, world, engine, model, TypeOK, TablesOK, EnginesOK,
     LocalsOK, Busy, NeedsTarget
<1>2. ASSUME NEW e \in Engines, Own(e), Next PROVE TypeOK'
  <2>1. TablesOK' /\ EnginesOK' /\ LocalsOK(e)'
    <3>1. ASSUME Crash(e) PROVE TablesOK' /\ EnginesOK' /\ LocalsOK(e)'
      BY <3>1, ForgetType DEF Crash, TypeOK, TablesOK, tables, rows, world, model
    <3>2. QED  BY <1>2, <3>1, StepType, CommandType DEF Own
  <2>2. \A f \in Engines \ {e} : LocalsOK(f)'
    BY <1>2, OwnKeepsOthers, MessagesKept, LocalsKept DEF OthersKept, TypeOK
  <2>3. QED  BY <2>1, <2>2 DEF TypeOK
<1>3. ASSUME Outside, Next PROVE TypeOK'
  <2>1. EnginesOK' /\ \A f \in Engines : SameLocals(f)
    BY <1>3, OutsideKeepsEngines DEF engine, TypeOK, EnginesOK, SameLocals
  <2>2. \A f \in Engines : LocalsOK(f)'
    BY <1>3, <2>1, MessagesKept, LocalsKept DEF TypeOK
  <2>3. QED  BY <1>3, <2>1, <2>2, OutsideType DEF TypeOK
<1>4. QED  BY <1>1, <1>2, <1>3, StepsOf

(* TypeCorrect: every reachable state is well formed: an engine that holds  *)
(* a message holds a journaled one, a target is looked up before it is used,*)
(* and no illegal transition is ever about to be written.                   *)
THEOREM TypeCorrect == Spec => []TypeOK
  BY TypeInit, TypeStep, PTL DEF Spec

-----------------------------------------------------------------------------
(* Rows.  A row changes by being opened or by the write of a transition, and*)
(* what is written is the row that was read with one state appended.        *)

Opened(m) == delivery[m] = << >> /\ delivery'[m] = <<"journaled">>

WrittenBy(e, m) ==
  /\ cur[e] = m /\ to[e] # NoState /\ seen[e] # << >>
  /\ delivery'[m] = Append(seen[e], to[e])

LEMMA RowWrites ==
  ASSUME TypeOK, [Next]_vars, NEW m \in Messages
  PROVE  delivery'[m] = delivery[m] \/ Opened(m) \/ \E e \in Engines : WrittenBy(e, m)
<1>1. ASSUME NEW e \in Engines, Step(e)
      PROVE  \/ delivery' = delivery
             \/ delivery[cur[e]] = << >> /\ delivery' = [delivery EXCEPT ![cur[e]] = <<"journaled">>]
             \/ /\ to[e] # NoState /\ seen[e] # << >>
                /\ delivery' = [delivery EXCEPT ![cur[e]] = Append(seen[e], to[e])]
  BY <1>1 DEF Step, rows, TransitionRead, TransitionWrite, EnsureDelivery, Preflight,
     Project, Lookup, RefreshBinding, StrictTurn, Gate, Prompt, RecordRoute,
     ObserveEffect, AfterActivity, WaitSettled, CaptureReply, Acknowledge, Publish
<1>2. ASSUME NEW e \in Engines, Step(e)
      PROVE  delivery'[m] = delivery[m] \/ Opened(m) \/ WrittenBy(e, m)
  BY <1>1, <1>2 DEF TypeOK, TablesOK, Opened, WrittenBy
<1>3. ASSUME NEW e \in Engines, Command(e) \/ Crash(e) PROVE delivery' = delivery
  BY <1>3 DEF Command, Send, Redeliver, Crash, rows
<1>4. CASE Outside \/ UNCHANGED vars
  BY <1>4, OutsideKeepsEngines DEF rows, vars
<1>5. QED  BY <1>2, <1>3, <1>4, StepsOf DEF Own

LEMMA CopiesRead ==
  ASSUME TypeOK, [Next]_vars, NEW e \in Engines
  PROVE  \/ seen'[e] = seen[e] \/ seen'[e] = << >>
         \/ cur[e] \in Messages /\ seen'[e] = delivery[cur[e]]
<1>1. ASSUME Step(e)
      PROVE  \/ seen' = seen \/ seen' = [seen EXCEPT ![e] = << >>]
             \/ to[e] # NoState /\ seen' = [seen EXCEPT ![e] = delivery[cur[e]]]
  BY <1>1 DEF Step, Forget, TransitionRead, TransitionWrite, EnsureDelivery, Preflight,
     Project, Lookup, RefreshBinding, StrictTurn, Gate, Prompt, RecordRoute,
     ObserveEffect, AfterActivity, WaitSettled, CaptureReply, Acknowledge, Publish
<1>2. CASE Step(e)
  BY <1>1, <1>2 DEF TypeOK, EnginesOK, LocalsOK, Busy
<1>3. CASE Command(e) \/ Crash(e)
  BY <1>3 DEF Command, Send, Redeliver, Crash, Forget, TypeOK, EnginesOK
<1>4. CASE Outside \/ UNCHANGED vars
  BY <1>4, OutsideKeepsEngines DEF engine, vars
<1>5. ASSUME NEW f \in Engines \ {e}, Own(f) PROVE seen'[e] = seen[e]
  BY <1>5, OwnKeepsOthers DEF OthersKept, SameLocals, TypeOK
<1>6. QED  BY <1>2, <1>3, <1>4, <1>5, StepsOf DEF Own

LEMMA LegalAppend ==
  ASSUME NEW h \in Seq(DeliveryState), h # << >>, LegalHistory(h),
         NEW s \in DeliveryState, LegalStep(h[Len(h)], s)
  PROVE  LegalHistory(Append(h, s))
<1> DEFINE g == Append(h, s)
<1>1. Len(h) \in Nat /\ Len(h) > 0  OBVIOUS
<1>2. Len(g) = Len(h) + 1 /\ g[1] = "journaled"
  BY <1>1 DEF LegalHistory
<1>3. ASSUME NEW i \in 1 .. Len(g) - 1 PROVE LegalStep(g[i], g[i + 1])
  <2>1. CASE i = Len(h)
    BY <1>1, <2>1
  <2>2. CASE i \in 1 .. Len(h) - 1
    <3>1. g[i] = h[i] /\ g[i + 1] = h[i + 1]  BY <1>1, <2>2
    <3>2. QED  BY <2>2, <3>1 DEF LegalHistory
  <2>3. QED  BY <1>1, <1>2, <2>1, <2>2
<1>4. QED  BY <1>2, <1>3 DEF LegalHistory

(* The copy a transition holds is itself a legal history, so appending a    *)
(* step that is legal from its end gives one, whatever the row has become.  *)
HistoryInv == TypeOK /\ HistoryLegal /\ \A e \in Engines : LegalHistory(seen[e])

(* RowsAreWalks: HistoryLegal for every number of engines and any overlap.  *)
THEOREM RowsAreWalks == Spec => []HistoryLegal
<1>1. Init => HistoryInv
  BY TypeInit DEF Init, HistoryInv, HistoryLegal, LegalHistory
<1>2. HistoryInv /\ [Next]_vars => HistoryInv'
  <2> SUFFICES ASSUME HistoryInv, [Next]_vars PROVE HistoryInv'
    OBVIOUS
  <2> USE DEF HistoryInv
  <2>1. TypeOK'  BY TypeStep
  <2>2. ASSUME NEW m \in Messages PROVE LegalHistory(delivery'[m])
    <3>1. CASE delivery'[m] = delivery[m]
      BY <3>1 DEF HistoryLegal
    <3>2. CASE Opened(m)
      BY <3>2 DEF Opened, LegalHistory
    <3>3. ASSUME NEW e \in Engines, WrittenBy(e, m) PROVE LegalHistory(delivery'[m])
      <4>1. /\ seen[e] \in Seq(DeliveryState) /\ seen[e] # << >>
            /\ to[e] \in DeliveryState /\ LegalStep(seen[e][Len(seen[e])], to[e])
        BY <3>3 DEF WrittenBy, TypeOK, EnginesOK, LocalsOK
      <4>2. QED  BY <3>3, <4>1, LegalAppend DEF WrittenBy
    <3>4. QED  BY <3>1, <3>2, <3>3, RowWrites
  <2>3. ASSUME NEW e \in Engines PROVE LegalHistory(seen'[e])
    BY CopiesRead DEF HistoryLegal, LegalHistory
  <2>4. QED  BY <2>1, <2>2, <2>3 DEF HistoryLegal
<1>3. HistoryInv => HistoryLegal  BY DEF HistoryInv
<1>4. QED  BY <1>1, <1>2, <1>3, PTL DEF Spec

-----------------------------------------------------------------------------
(* Authority.                                                               *)

PastPreflight(e) == pc[e] \notin {"idle", "ensure", "preflight"}

LEMMA LocksStay ==
  ASSUME TypeOK, [Next]_vars, NEW l \in Locks, lockState[l] # "absent"
  PROVE  lockState'[l] # "absent"
<1>1. ASSUME NEW e \in Engines, Own(e) PROVE lockState' = lockState
  BY <1>1 DEF Own, Command, Send, Redeliver, Crash, Step, tables, TransitionRead,
     TransitionWrite, EnsureDelivery, Preflight, Project, Lookup, RefreshBinding,
     StrictTurn, Gate, Prompt, RecordRoute, ObserveEffect, AfterActivity,
     WaitSettled, CaptureReply, Acknowledge, Publish
<1>2. CASE Outside
  BY <1>2 DEF Outside, JournalReply, RecordReply, IssueLock, RevokeLock, Reconcile,
     BindAgent, RuntimeMoves, RuntimeReplaced, AgentAnswers, tables, TypeOK, TablesOK
<1>3. CASE UNCHANGED vars  BY <1>3 DEF vars, tables
<1>4. QED  BY <1>1, <1>2, <1>3, StepsOf

LEMMA AuthorityStays ==
  ASSUME TypeOK, [Next]_vars, NEW m \in Messages, msg[m] # NoMessage, Authorized(m)
  PROVE  Authorized(m)' /\ msg'[m] # NoMessage
<1>1. msg'[m] = msg[m]
  BY MessagesKept DEF MsgKept, vars, tables
<1>2. QED  BY <1>1, LocksStay DEF Authorized

LEMMA PromptsCount ==
  ASSUME TypeOK, [Next]_vars, NEW m \in Messages
  PROVE  \/ prompts'[m] = prompts[m]
         \/ \E e \in Engines : /\ Prompt(e) /\ cur[e] = m
                              /\ prompts'[m] = prompts[m] + 1
<1>1. ASSUME NEW e \in Engines, Step(e)
      PROVE  prompts' = prompts \/ Prompt(e)
  BY <1>1 DEF Step, world, TransitionRead, TransitionWrite, EnsureDelivery, Preflight,
     Project, Lookup, RefreshBinding, StrictTurn, Gate, RecordRoute, ObserveEffect,
     AfterActivity, WaitSettled, CaptureReply, Acknowledge, Publish
<1>2. ASSUME NEW e \in Engines, Prompt(e)
      PROVE  prompts' = prompts \/ prompts' = [prompts EXCEPT ![cur[e]] = @ + 1]
  BY <1>2 DEF Prompt, Enters
<1>3. ASSUME NEW e \in Engines, Command(e) \/ Crash(e) PROVE prompts' = prompts
  BY <1>3 DEF Command, Send, Redeliver, Crash, world
<1>4. CASE Outside \/ UNCHANGED vars
  BY <1>4 DEF Outside, JournalReply, RecordReply, IssueLock, RevokeLock, Reconcile,
     BindAgent, RuntimeMoves, RuntimeReplaced, AgentAnswers, world, vars
<1>5. QED  BY <1>1, <1>2, <1>3, <1>4, StepsOf DEF Own, TypeOK, TablesOK

LEMMA VerdictGrants ==
  ASSUME TypeOK, NEW m \in Messages, msg[m] # NoMessage, Verdict(m) = NoState
  PROVE  Authorized(m)
<1>1. NoState \notin {"target_authority_mismatch", "exact_native_target_not_bound"}
  BY ConstantsAssumption DEF DeliveryState
<1>2. msg[m].lock \in Locks \cup {NoLock}
  BY DEF TypeOK, TablesOK, Envelope
<1>3. QED  BY <1>1, <1>2 DEF Verdict, Authorized

(* deliver() gets past the preflight only by passing it.                    *)
LEMMA OnlyThroughPreflight ==
  ASSUME TypeOK, [Next]_vars, NEW e \in Engines, PastPreflight(e)'
  PROVE  /\ cur'[e] = cur[e] /\ cur[e] \in Messages /\ msg[cur[e]] # NoMessage
         /\ PastPreflight(e) \/ Verdict(cur[e]) = NoState
<1>1. CASE Step(e)
  <2>1. CASE Preflight(e)
    BY <2>1 DEF Preflight, At, Persist, PastPreflight, TypeOK, EnginesOK, LocalsOK, Busy
  <2>2. CASE EnsureDelivery(e)
    BY <2>2 DEF EnsureDelivery, Goto, Forget, PastPreflight, TypeOK, EnginesOK
  <2>3. CASE TransitionRead(e) \/ TransitionWrite(e)
    BY <2>3 DEF TransitionRead, TransitionWrite, Forget, PastPreflight, TypeOK, EnginesOK, LocalsOK, Busy
  <2>4. CASE Publish(e)
    BY <2>4 DEF Publish, Forget, PastPreflight, TypeOK, EnginesOK
  <2>5. CASE ~(Preflight(e) \/ EnsureDelivery(e) \/ TransitionRead(e) \/ TransitionWrite(e) \/ Publish(e))
    <3>1. cur' = cur /\ PastPreflight(e)
      BY <1>1, <2>5 DEF Step, PastPreflight, At, Project, Lookup, RefreshBinding, StrictTurn,
         Gate, Prompt, RecordRoute, ObserveEffect, AfterActivity, WaitSettled,
         CaptureReply, Acknowledge
    <3>2. QED  BY <3>1 DEF PastPreflight, TypeOK, LocalsOK, Busy
  <2>6. QED  BY <2>1, <2>2, <2>3, <2>4, <2>5
<1>2. CASE Command(e) \/ Crash(e)
  BY <1>2 DEF Command, Send, Redeliver, Call, Goto, Crash, Forget, PastPreflight, TypeOK, EnginesOK
<1>3. CASE Outside \/ UNCHANGED vars
  BY <1>3, OutsideKeepsEngines DEF engine, vars, PastPreflight, TypeOK, LocalsOK, Busy
<1>4. ASSUME NEW f \in Engines \ {e}, Own(f) PROVE SameLocals(e)
  BY <1>4, OwnKeepsOthers DEF OthersKept, TypeOK
<1>5. ASSUME SameLocals(e) PROVE cur'[e] = cur[e] /\ PastPreflight(e)
  BY <1>5 DEF SameLocals, PastPreflight
<1>6. QED  BY <1>1, <1>2, <1>3, <1>4, <1>5, StepsOf DEF Own, PastPreflight, TypeOK, LocalsOK, Busy

(* The authority of a message outlives the preflight: an engine past it     *)
(* holds an authorized message, since envelopes are immutable and a lock    *)
(* never returns to being absent.                                           *)
AuthorityInv ==
  /\ TypeOK
  /\ \A m \in Messages : prompts[m] > 0 => msg[m] # NoMessage /\ Authorized(m)
  /\ \A e \in Engines : PastPreflight(e) => Authorized(cur[e])

(* AuthorityFirst: AuthorityBeforePrompt for any number of engines, locks   *)
(* and calls, issued and revoked at any time.                               *)
THEOREM AuthorityFirst == Spec => []AuthorityBeforePrompt
<1>1. Init => AuthorityInv
  BY TypeInit DEF Init, AuthorityInv, PastPreflight
<1>2. AuthorityInv /\ [Next]_vars => AuthorityInv'
  <2> SUFFICES ASSUME AuthorityInv, [Next]_vars PROVE AuthorityInv'
    OBVIOUS
  <2> USE DEF AuthorityInv
  <2>1. TypeOK'  BY TypeStep
  <2>2. ASSUME NEW m \in Messages, prompts'[m] > 0
        PROVE  msg'[m] # NoMessage /\ Authorized(m)'
    <3>1. CASE prompts'[m] = prompts[m]
      BY <2>2, <3>1, AuthorityStays
    <3>2. ASSUME NEW e \in Engines, Prompt(e), cur[e] = m
          PROVE  msg'[m] # NoMessage /\ Authorized(m)'
      <4>1. PastPreflight(e) /\ msg[m] # NoMessage
        BY <3>2 DEF Prompt, At, PastPreflight, TypeOK, LocalsOK, Busy
      <4>2. QED  BY <3>2, <4>1, AuthorityStays
    <3>3. QED  BY <3>1, <3>2, PromptsCount
  <2>3. ASSUME NEW e \in Engines, PastPreflight(e)' PROVE Authorized(cur[e])'
    <3>1. cur'[e] = cur[e] /\ cur[e] \in Messages /\ msg[cur[e]] # NoMessage
      BY <2>3, OnlyThroughPreflight
    <3>2. Authorized(cur[e])
      BY <2>3, <3>1, OnlyThroughPreflight, VerdictGrants
    <3>3. QED  BY <3>1, <3>2, AuthorityStays DEF Authorized
  <2>4. QED  BY <2>1, <2>2, <2>3
<1>3. AuthorityInv => AuthorityBeforePrompt
  BY DEF AuthorityInv, AuthorityBeforePrompt
<1>4. QED  BY <1>1, <1>2, <1>3, PTL DEF Spec

-----------------------------------------------------------------------------
(* One confirmed prompt per route.                                          *)

OneEngine == \A e, f \in Engines : e = f

(* Where the engine is about to prompt or to record the route of a prompt,  *)
(* that route is not in the table yet; what it writes extends what the row  *)
(* is now, for there is no other engine.                                    *)
RouteLocals(e) ==
  /\ seen[e] # << >> => seen[e] = delivery[cur[e]]
  /\ to[e] = "prompt_submitted" => pc[e] = "route"
  /\ pc[e] = "route" => to[e] \in {NoState, "prompt_submitted"}
  /\ pc[e] \in {"prompt", "route"} => Route(cur[e]) \notin routes

(* A confirmed prompt has its route in the table, or is the one whose route *)
(* the engine records next.                                                 *)
RouteInv ==
  /\ TypeOK /\ OneConfirmedPromptPerRoute
  /\ \A m \in Messages : Confirmed(m) =>
       /\ msg[m] # NoMessage
       /\ Route(m) \in routes \/ \E e \in Engines : At(e, "route") /\ cur[e] = m
  /\ \A e \in Engines : RouteLocals(e)

LEMMA ConfirmedWrites ==
  ASSUME RouteInv, [Next]_vars, NEW m \in Messages, Confirmed(m)'
  PROVE  Confirmed(m) \/ \E e \in Engines : WrittenBy(e, m) /\ to[e] = "prompt_submitted"
<1> USE DEF RouteInv
<1>1. PICK i \in 1 .. Len(delivery'[m]) : delivery'[m][i] = "prompt_submitted"
  BY DEF Confirmed
<1>2. CASE delivery'[m] = delivery[m]
  BY <1>1, <1>2 DEF Confirmed
<1>3. CASE Opened(m)
  BY <1>1, <1>3 DEF Opened
<1>4. ASSUME NEW e \in Engines, WrittenBy(e, m)
      PROVE  Confirmed(m) \/ to[e] = "prompt_submitted"
  <2>1. /\ seen[e] = delivery[m] /\ seen[e] \in Seq(DeliveryState)
        /\ to[e] \in DeliveryState
        /\ delivery'[m] = Append(delivery[m], to[e])
    BY <1>4 DEF WrittenBy, RouteLocals, TypeOK, EnginesOK
  <2>2. CASE i = Len(delivery[m]) + 1
    BY <1>1, <2>1, <2>2
  <2>3. CASE i # Len(delivery[m]) + 1
    <3>1. i \in 1 .. Len(delivery[m]) /\ delivery'[m][i] = delivery[m][i]
      BY <2>1, <2>3
    <3>2. QED  BY <1>1, <3>1 DEF Confirmed
  <2>4. QED  BY <2>2, <2>3
<1>5. QED  BY <1>2, <1>3, <1>4, RowWrites

LEMMA RoutesRecorded ==
  ASSUME TypeOK, [Next]_vars
  PROVE  \/ routes' = routes
         \/ \E e \in Engines : RecordRoute(e)
<1>1. ASSUME NEW e \in Engines, Step(e) PROVE routes' = routes \/ RecordRoute(e)
  BY <1>1 DEF Step, tables, TransitionRead, TransitionWrite, EnsureDelivery, Preflight,
     Project, Lookup, RefreshBinding, StrictTurn, Gate, Prompt, ObserveEffect,
     AfterActivity, WaitSettled, CaptureReply, Acknowledge, Publish
<1>2. ASSUME NEW e \in Engines, Command(e) \/ Crash(e) PROVE routes' = routes
  BY <1>2 DEF Command, Send, Redeliver, Crash, tables
<1>3. CASE Outside \/ UNCHANGED vars
  BY <1>3, OutsideKeepsEngines DEF vars, tables
<1>4. QED  BY <1>1, <1>2, <1>3, StepsOf DEF Own

LEMMA RouteStepLocals ==
  ASSUME RouteInv, NEW e \in Engines, Step(e) \/ Command(e) \/ Crash(e)
  PROVE  RouteLocals(e)'
<1> USE DEF RouteInv
<1>1. RouteLocals(e) /\ NoState # "prompt_submitted"
  BY ConstantsAssumption DEF DeliveryState
<1>2. ASSUME Forget(e) PROVE RouteLocals(e)'
  BY <1>1, <1>2 DEF Forget, RouteLocals, TypeOK, EnginesOK
<1>3. CASE TransitionRead(e)
  <2>1. CASE Forget(e)  BY <1>2, <2>1
  <2>2. CASE /\ seen' = [seen EXCEPT ![e] = delivery[cur[e]]]
             /\ UNCHANGED <<pc, cur, to, msg, delivery, routes>>
    BY <1>1, <2>2 DEF RouteLocals, Route, TypeOK, EnginesOK
  <2>3. QED  BY <1>3, <2>1, <2>2 DEF TransitionRead, tables, rows
<1>4. CASE TransitionWrite(e)
  <2>1. CASE Forget(e)  BY <1>2, <2>1
  <2>2. CASE /\ seen' = [seen EXCEPT ![e] = << >>] /\ to' = [to EXCEPT ![e] = NoState]
             /\ UNCHANGED <<pc, cur, msg, routes>>
    BY <1>1, <2>2 DEF RouteLocals, Route, TypeOK, EnginesOK
  <2>3. QED  BY <1>4, <2>1, <2>2 DEF TransitionWrite, tables
<1>5. ASSUME NEW l \in Labels, At(e, l) PROVE seen[e] = << >> /\ to[e] = NoState /\ pc[e] = l
  BY <1>5 DEF At, TypeOK, LocalsOK
<1>6. ASSUME NEW l \in Labels \ {"prompt", "route"}, NEW s \in DeliveryState \ {"prompt_submitted"},
             Persist(e, s, l), seen[e] = << >>, seen' = seen
      PROVE  RouteLocals(e)'
  BY <1>6 DEF Persist, RouteLocals, TypeOK, EnginesOK
<1>7. ASSUME NEW l \in Labels \ {"prompt", "route"}, to[e] = NoState,
             Goto(e, l), seen[e] = << >>, seen' = seen
      PROVE  RouteLocals(e)'
  BY <1>1, <1>7 DEF Goto, RouteLocals, TypeOK, EnginesOK
<1>8. CASE Gate(e)
  <2>1. At(e, "gate") /\ seen[e] = << >> /\ seen' = seen /\ to[e] = NoState
        /\ UNCHANGED <<msg, routes, cur>>
    BY <1>5, <1>8 DEF Gate, Labels, tables
  <2>2. CASE Persist(e, "blocked", "idle") \/ Persist(e, "suppressed", "idle")
    BY <1>6, <2>1, <2>2 DEF Labels, DeliveryState
  <2>3. CASE Goto(e, "prompt") /\ ~LoopSuspected(cur[e])
    BY <1>1, <2>1, <2>3 DEF Goto, LoopSuspected, RouteLocals, Route, TypeOK, EnginesOK
  <2>4. QED  BY <1>8, <2>2, <2>3 DEF Gate
<1>9. CASE Prompt(e)
  <2>1. At(e, "prompt") /\ pc[e] = "prompt" /\ seen[e] = << >> /\ seen' = seen
        /\ UNCHANGED <<msg, routes, cur>>
    BY <1>5, <1>9 DEF Prompt, Labels, tables
  <2>2. CASE Persist(e, "prompt_submitted", "route")
    BY <1>1, <2>1, <2>2 DEF Persist, RouteLocals, Route, TypeOK, EnginesOK
  <2>3. CASE \E s \in {"uncertain", "failed", "blocked"} : Persist(e, s, "idle")
    BY <1>6, <2>1, <2>3 DEF Labels, DeliveryState
  <2>4. QED  BY <1>9, <2>2, <2>3 DEF Prompt
<1>10. CASE RecordRoute(e)
  BY <1>5, <1>7, <1>10 DEF RecordRoute, Labels
<1>11. CASE EnsureDelivery(e)
  BY <1>2, <1>5, <1>7, <1>11 DEF EnsureDelivery, Labels
<1>12. CASE Publish(e) \/ Crash(e)
  BY <1>2, <1>12 DEF Publish, Crash
<1>13. CASE Command(e)
  BY <1>5, <1>7, <1>13 DEF Command, Send, Redeliver, Call, Labels
<1>14. CASE Preflight(e)
  <2>1. Verdict(cur[e]) # NoState =>
          Verdict(cur[e]) \in {"target_authority_mismatch", "exact_native_target_not_bound"}
    BY DEF Verdict
  <2>2. QED
    BY <1>5, <1>6, <1>14, <2>1 DEF Preflight, Labels, DeliveryState
<1>15. CASE Project(e) \/ Lookup(e)
  BY <1>5, <1>6, <1>7, <1>15 DEF Project, Lookup, Labels, DeliveryState
<1>16. CASE RefreshBinding(e) \/ StrictTurn(e)
  BY <1>5, <1>6, <1>7, <1>16 DEF RefreshBinding, StrictTurn, Labels, DeliveryState
<1>17. CASE ObserveEffect(e) \/ AfterActivity(e)
  BY <1>5, <1>6, <1>7, <1>17
  DEF ObserveEffect, AfterActivity, CaptureStructured, Labels, DeliveryState
<1>18. CASE WaitSettled(e) \/ CaptureReply(e)
  BY <1>5, <1>6, <1>7, <1>18
  DEF WaitSettled, CaptureReply, CaptureStructured, Labels, DeliveryState
<1>19. CASE Acknowledge(e)
  BY <1>5, <1>6, <1>7, <1>19 DEF Acknowledge, Labels, DeliveryState
<1>20. QED
  BY <1>3, <1>4, <1>8, <1>9, <1>10, <1>11, <1>12, <1>13, <1>14, <1>15, <1>16, <1>17, <1>18,
     <1>19
  DEF Step

(* At the route, nothing comes before the record of it but a crash.         *)
LEMMA RouteNext ==
  ASSUME TypeOK, NEW e \in Engines, At(e, "route"), Own(e), ~MayCrash
  PROVE  RecordRoute(e)
  BY DEF Own, Step, Command, Crash, At, Send, Redeliver, Call, TransitionRead, TransitionWrite,
     EnsureDelivery, Preflight, Project, Lookup, RefreshBinding, StrictTurn, Gate, Prompt,
     ObserveEffect, AfterActivity, WaitSettled, CaptureReply, Acknowledge, Publish

LEMMA RouteProgress ==
  ASSUME RouteInv, [Next]_vars, OneEngine, ~MayCrash
  PROVE  RouteInv'
<1> USE DEF RouteInv
<1>1. TypeOK' /\ MsgKept
  BY TypeStep, MessagesKept DEF MsgKept, vars, tables
<1>2. ASSUME NEW e \in Engines PROVE RouteLocals(e)'
  <2>1. CASE Own(e)  BY <2>1, RouteStepLocals DEF Own
  <2>2. CASE Outside \/ UNCHANGED vars
    <3>1. UNCHANGED <<engine, rows, routes>>
      BY <2>2, OutsideKeepsEngines DEF vars, tables
    <3>2. Busy(e) => Route(cur[e])' = Route(cur[e])
      BY <1>1, <3>1 DEF TypeOK, LocalsOK, MsgKept, Route, engine
    <3>3. QED
      BY <3>1, <3>2 DEF RouteLocals, engine, rows, Busy
  <2>3. QED  BY <2>1, <2>2, StepsOf DEF OneEngine
<1>3. ASSUME NEW m \in Messages, Confirmed(m)
      PROVE  /\ msg'[m] # NoMessage /\ Route(m)' = Route(m)
             /\ Route(m)' \in routes' \/ \E e \in Engines : At(e, "route")' /\ cur'[e] = m
  <2>1. msg'[m] # NoMessage /\ Route(m)' = Route(m)
    BY <1>1, <1>3 DEF MsgKept, Route
  <2>2. CASE Route(m) \in routes
    BY <2>1, <2>2, RoutesRecorded DEF RecordRoute
  <2>3. ASSUME NEW e \in Engines, At(e, "route"), cur[e] = m
        PROVE  Route(m)' \in routes' \/ (At(e, "route")' /\ cur'[e] = m)
    <3>1. CASE Own(e)
      BY <2>1, <2>3, <3>1, RouteNext DEF RecordRoute
    <3>2. CASE Outside \/ UNCHANGED vars
      BY <2>3, <3>2, OutsideKeepsEngines DEF vars, engine, At
    <3>3. QED  BY <3>1, <3>2, StepsOf DEF OneEngine
  <2>4. QED  BY <1>3, <2>1, <2>2, <2>3
<1>4. ASSUME NEW m \in Messages, ~Confirmed(m), Confirmed(m)'
      PROVE  /\ msg'[m] # NoMessage /\ Route(m)' = Route(m) /\ Route(m) \notin routes
             /\ \E e \in Engines : At(e, "route")' /\ cur'[e] = m
             /\ \A e \in Engines : ~At(e, "route")
  <2>1. PICK e \in Engines : WrittenBy(e, m) /\ to[e] = "prompt_submitted"
    BY <1>4, ConfirmedWrites
  <2>2. /\ cur[e] = m /\ pc[e] = "route" /\ to[e] # NoState /\ Busy(e) /\ seen[e] # << >>
        /\ delivery'[m] # delivery[m] /\ Route(m) \notin routes
    BY <1>4, <2>1 DEF WrittenBy, RouteLocals, Busy, Confirmed
  <2>3. msg'[m] # NoMessage /\ Route(m)' = Route(m)
    BY <1>1, <2>2 DEF TypeOK, LocalsOK, MsgKept, Route
  <2>4. TransitionWrite(e)
    <3>1. Own(e)
      BY <2>2, StepsOf, OutsideKeepsEngines DEF OneEngine, vars, rows
    <3>2. QED
      BY <2>2, <3>1 DEF Own, Step, Command, Crash, At, Send, Redeliver, Call, TransitionRead, rows,
         EnsureDelivery, Preflight, Project, Lookup, RefreshBinding, StrictTurn, Gate, Prompt,
         RecordRoute, ObserveEffect, AfterActivity, WaitSettled, CaptureReply, Acknowledge, Publish
  <2>5. At(e, "route")' /\ cur'[e] = m
    BY <2>2, <2>4 DEF TransitionWrite, At, TypeOK, EnginesOK
  <2>6. QED  BY <2>2, <2>3, <2>5 DEF At, OneEngine
<1>5. OneConfirmedPromptPerRoute'
  <2> SUFFICES ASSUME NEW m \in Messages, NEW n \in Messages, m # n, Confirmed(m)', Confirmed(n)'
               PROVE  Route(m)' # Route(n)'
    BY DEF OneConfirmedPromptPerRoute
  <2>1. CASE Confirmed(m) /\ Confirmed(n)
    BY <1>3, <2>1 DEF OneConfirmedPromptPerRoute
  <2>2. CASE Confirmed(m) /\ ~Confirmed(n)
    BY <1>3, <1>4, <2>2
  <2>3. CASE ~Confirmed(m) /\ Confirmed(n)
    BY <1>3, <1>4, <2>3
  <2>4. CASE ~Confirmed(m) /\ ~Confirmed(n)
    BY <1>4, <2>4 DEF OneEngine
  <2>5. QED  BY <2>1, <2>2, <2>3, <2>4
<1>6. QED  BY <1>1, <1>2, <1>3, <1>4, <1>5

LEMMA RouteInit == Init => RouteInv
<1> SUFFICES ASSUME Init PROVE RouteInv  OBVIOUS
<1>1. NoState # "prompt_submitted"  BY ConstantsAssumption DEF DeliveryState
<1>2. \A m \in Messages : ~Confirmed(m)  BY DEF Init, Confirmed
<1>3. \A e \in Engines : RouteLocals(e)  BY <1>1 DEF Init, RouteLocals
<1>4. QED  BY <1>2, <1>3, TypeInit DEF RouteInv, OneConfirmedPromptPerRoute

(* OneRoute: OneConfirmedPromptPerRoute for one engine that does not crash, *)
(* for every number of messages, agents, locks and calls.                   *)
THEOREM OneRoute == OneEngine /\ ~MayCrash /\ Spec => []OneConfirmedPromptPerRoute
<1>1. OneEngine /\ ~MayCrash /\ RouteInv /\ [Next]_vars => RouteInv'
  BY RouteProgress
<1>2. RouteInv => OneConfirmedPromptPerRoute  BY DEF RouteInv
<1>3. QED
  <2>1. SUFFICES ASSUME OneEngine, ~MayCrash PROVE Spec => []OneConfirmedPromptPerRoute
    OBVIOUS
  <2>2. RouteInv /\ [Next]_vars => RouteInv'  BY <1>1, <2>1
  <2>3. QED  BY RouteInit, <1>2, <2>2, PTL DEF Spec

-----------------------------------------------------------------------------
(* A reply chain stops.  The invariant compares each journaled message with *)
(* its ancestors: they are journaled too, and at most as many as its        *)
(* counters say.  What entered a terminal, or is about to, was below both   *)
(* bounds at the gate.                                                      *)

Journaled == {m \in Messages : msg[m] # NoMessage}

Counted(m) ==
  /\ IsFiniteSet(Ancestors(m))
  /\ Cardinality(Ancestors(m)) <= msg[m].hop
  /\ Cardinality(Ancestors(m)) <= msg[m].depth

WithinBounds(m) == m \in Journaled /\ msg[m].hop < MaxHops /\ msg[m].depth < MaxDepth

LoopInv ==
  /\ TypeOK /\ Closed(Journaled)
  /\ \A m \in Journaled : Counted(m)
  /\ \A m \in Messages : prompts[m] > 0 => WithinBounds(m)
  /\ \A e \in Engines : pc[e] = "prompt" => WithinBounds(cur[e])

LEMMA AncestorsClosed ==
  ASSUME Closed(Journaled), NEW m \in Journaled
  PROVE  /\ Ancestors(m) \subseteq Journaled /\ Parents(m) \subseteq Ancestors(m)
         /\ Closed(Ancestors(m))
<1>1. Ancestors(m) \subseteq Journaled
  BY DEF Ancestors, Closed, Journaled
<1>2. Parents(m) \subseteq Ancestors(m)
  BY DEF Ancestors, Closed, Journaled
<1>3. ASSUME NEW a \in Ancestors(m), NEW x \in Parents(a) PROVE x \in Ancestors(m)
  <2>1. x \in Messages  BY <1>1, <1>3 DEF Closed, Journaled
  <2>2. ASSUME NEW C \in SUBSET Messages, Closed(C), Parents(m) \subseteq C PROVE x \in C
    BY <1>3, <2>2 DEF Ancestors, Closed
  <2>3. QED  BY <2>1, <2>2 DEF Ancestors
<1>4. QED  BY <1>1, <1>2, <1>3 DEF Closed

(* The least closed set is below every closed set.                          *)
LEMMA AncestorsLeast ==
  ASSUME NEW m, NEW C \in SUBSET Messages, Closed(C), Parents(m) \subseteq C
  PROVE  Ancestors(m) \subseteq C
  BY DEF Ancestors

LEMMA AncestorsLeastNext ==
  ASSUME NEW m, NEW C \in SUBSET Messages, Closed(C)', Parents(m)' \subseteq C
  PROVE  Ancestors(m)' \subseteq C
  BY DEF Ancestors

LEMMA ParentsKept ==
  ASSUME MsgKept, NEW C \in SUBSET Journaled, Closed(C)
  PROVE  Closed(C)' /\ \A m \in C : Parents(m)' = Parents(m)
  BY DEF MsgKept, Closed, Parents, Journaled

(* Envelopes are immutable, so no message gains an ancestor later.          *)
LEMMA AncestorsKept ==
  ASSUME MsgKept, Closed(Journaled), NEW m \in Journaled
  PROVE  Ancestors(m)' \subseteq Ancestors(m) /\ m \in Journaled'
<1>1. PICK A \in SUBSET Messages : A = Ancestors(m)
  BY DEF Ancestors
<1>2. Closed(A) /\ A \subseteq Journaled /\ Parents(m) \subseteq A
  BY <1>1, AncestorsClosed
<1>3. Closed(A)'  BY <1>2, ParentsKept
<1>4. Parents(m)' = Parents(m) /\ m \in Journaled'
  BY DEF MsgKept, Parents, Journaled
<1>5. QED  BY <1>1, <1>2, <1>3, <1>4, AncestorsLeastNext DEF Journaled

(* A reply has its parent's ancestors and its parent.                       *)
LEMMA AncestorsOfReply ==
  ASSUME MsgKept, Closed(Journaled), NEW m \in Journaled, NEW r, Parents(r)' = {m}
  PROVE  Ancestors(r)' \subseteq Ancestors(m) \cup {m}
<1>1. PICK A \in SUBSET Messages : A = Ancestors(m) \cup {m}
  BY DEF Ancestors, Journaled
<1>2. Closed(A) /\ A \subseteq Journaled
  BY <1>1, AncestorsClosed DEF Closed
<1>3. Closed(A)'  BY <1>2, ParentsKept
<1>4. QED  BY <1>1, <1>3, AncestorsLeastNext

LEMMA SmallerCount ==
  ASSUME NEW S, IsFiniteSet(S), NEW T, T \subseteq S, NEW n \in Nat, Cardinality(S) <= n
  PROVE  IsFiniteSet(T) /\ Cardinality(T) <= n
<1>1. IsFiniteSet(T) /\ Cardinality(T) <= Cardinality(S)  BY FS_Subset
<1>2. Cardinality(T) \in Nat /\ Cardinality(S) \in Nat  BY <1>1, FS_CardinalityType
<1>3. QED  BY <1>1, <1>2

(* How the messages table grows.                                            *)
LEMMA NewMessages ==
  ASSUME TypeOK, [Next]_vars, NEW m \in Messages
  PROVE  \/ msg'[m] = msg[m]
         \/ msg[m] = NoMessage /\ msg'[m] \in Envelopes
         \/ \E p \in Journaled, q \in Payloads :
              msg[m] = NoMessage /\ msg'[m] = ReplyMessage(p, q)
<1>1. ASSUME NEW e \in Engines, Step(e) \/ Crash(e) PROVE msg' = msg
  BY <1>1 DEF Step, Crash, tables, TransitionRead, TransitionWrite, EnsureDelivery, Preflight,
     Project, Lookup, RefreshBinding, StrictTurn, Gate, Prompt, RecordRoute,
     ObserveEffect, AfterActivity, WaitSettled, CaptureReply, Acknowledge, Publish
<1>2. ASSUME NEW e \in Engines, Command(e)
      PROVE  msg'[m] = msg[m] \/ (msg[m] = NoMessage /\ msg'[m] \in Envelopes)
  BY <1>2 DEF Command, Send, Redeliver, tables, TypeOK, TablesOK
<1>3. ASSUME NEW p \in Messages, NEW r \in Messages, NEW q \in Payloads, JournalReply(p, r, q)
      PROVE  \/ msg'[m] = msg[m]
             \/ p \in Journaled /\ msg[m] = NoMessage /\ msg'[m] = ReplyMessage(p, q)
  BY <1>3 DEF JournalReply, Journaled, TypeOK, TablesOK
<1>4. CASE Outside
  BY <1>3, <1>4 DEF Outside, RecordReply, IssueLock, RevokeLock, Reconcile,
     BindAgent, RuntimeMoves, RuntimeReplaced, AgentAnswers, tables
<1>5. CASE UNCHANGED vars  BY <1>5 DEF vars, tables
<1>6. QED  BY <1>1, <1>2, <1>4, <1>5, StepsOf DEF Own

LEMMA CountersOf ==
  ASSUME TypeOK, NEW m \in Journaled
  PROVE  msg[m] \in Envelope /\ msg[m].hop \in Nat /\ msg[m].depth \in Nat
  BY DEF TypeOK, TablesOK, Journaled, Envelope

(* Chains and their counters stay in step.                                  *)
LEMMA ChainsCounted ==
  ASSUME TypeOK, Closed(Journaled), \A m \in Journaled : Counted(m), [Next]_vars
  PROVE  Closed(Journaled)' /\ \A m \in Journaled' : Counted(m)'
<1>1. MsgKept /\ TypeOK'
  BY MessagesKept, TypeStep DEF MsgKept, vars, tables
<1>2. ASSUME NEW m \in Journaled
      PROVE  Counted(m)' /\ Parents(m)' \subseteq Journaled'
  <2>1. msg'[m] = msg[m] /\ Parents(m)' = Parents(m)
    BY <1>1 DEF MsgKept, Journaled, Parents
  <2>2. Parents(m)' \subseteq Journaled'
    BY <1>1, <2>1 DEF Closed, MsgKept, Journaled
  <2>3. Ancestors(m)' \subseteq Ancestors(m)  BY <1>1, AncestorsKept
  <2>4. QED  BY <2>1, <2>2, <2>3, SmallerCount, CountersOf DEF Counted
<1>3. ASSUME NEW m \in Messages, msg[m] = NoMessage, msg'[m] \in Envelopes
      PROVE  Counted(m)' /\ Parents(m)' \subseteq Journaled'
  <2>1. Parents(m)' = {}
    BY <1>3, ConstantsAssumption DEF Parents
  <2>2. Ancestors(m)' \subseteq {}
    BY <2>1, AncestorsLeastNext DEF Closed
  <2>3. msg'[m].hop \in Nat /\ msg'[m].depth \in Nat
    BY <1>3, ConstantsAssumption DEF Envelope
  <2>4. QED  BY <2>1, <2>2, <2>3, FS_EmptySet DEF Counted
<1>4. ASSUME NEW m \in Messages, NEW p \in Journaled, NEW q \in Payloads,
             msg[m] = NoMessage, msg'[m] = ReplyMessage(p, q)
      PROVE  Counted(m)' /\ Parents(m)' \subseteq Journaled'
  <2>1. /\ msg'[m] \in Envelope /\ p # NoMessage /\ p \in Journaled'
        /\ msg'[m].parent = p /\ msg'[m].hop = msg[p].hop + 1
        /\ msg'[m].depth = msg[p].depth + 1
    BY <1>1, <1>4, EnvelopeTypes, ConstantsAssumption
    DEF ReplyMessage, ReplyTo, Journaled, MsgKept, TypeOK, TablesOK
  <2>2. Parents(m)' = {p}
    BY <2>1, EnvelopeTypes DEF Parents
  <2>3. Ancestors(m)' \subseteq Ancestors(p) \cup {p}
    BY <1>1, <2>2, AncestorsOfReply
  <2>4. /\ IsFiniteSet(Ancestors(p) \cup {p})
        /\ Cardinality(Ancestors(p) \cup {p}) <= Cardinality(Ancestors(p)) + 1
        /\ Cardinality(Ancestors(p)) \in Nat /\ Cardinality(Ancestors(p) \cup {p}) \in Nat
    <3>1. IsFiniteSet(Ancestors(p))  BY DEF Counted
    <3>2. IsFiniteSet(Ancestors(p) \cup {p})  BY <3>1, FS_AddElement
    <3>3. Cardinality(Ancestors(p)) \in Nat /\ Cardinality(Ancestors(p) \cup {p}) \in Nat
      BY <3>1, <3>2, FS_CardinalityType
    <3>4. Cardinality(Ancestors(p) \cup {p}) \in
            {Cardinality(Ancestors(p)), Cardinality(Ancestors(p)) + 1}
      BY <3>1, FS_AddElement
    <3>5. QED  BY <3>2, <3>3, <3>4
  <2>5. /\ Cardinality(Ancestors(p) \cup {p}) <= msg'[m].hop
        /\ Cardinality(Ancestors(p) \cup {p}) <= msg'[m].depth
    BY <2>1, <2>4, CountersOf DEF Counted
  <2>6. msg'[m].hop \in Nat /\ msg'[m].depth \in Nat
    BY <2>1 DEF Envelope
  <2>7. Counted(m)'
    BY <2>3, <2>4, <2>5, <2>6, SmallerCount DEF Counted
  <2>8. QED  BY <2>1, <2>2, <2>7
<1>5. ASSUME NEW m \in Journaled' PROVE Counted(m)' /\ Parents(m)' \subseteq Journaled'
  <2>1. m \in Messages /\ msg'[m] # NoMessage  BY DEF Journaled
  <2>2. CASE m \in Journaled  BY <1>2, <2>2
  <2>3. CASE m \notin Journaled
    <3>1. msg[m] = NoMessage  BY <2>1, <2>3 DEF Journaled
    <3>2. QED  BY <1>3, <1>4, <2>1, <3>1, NewMessages
  <2>4. QED  BY <2>2, <2>3
<1>6. QED  BY <1>5 DEF Closed

(* deliver() is at the prompt only after the gate has compared the counters.*)
LEMMA OnlyThroughGate ==
  ASSUME TypeOK, [Next]_vars, NEW e \in Engines, pc'[e] = "prompt"
  PROVE  /\ cur'[e] = cur[e] /\ cur[e] \in Journaled
         /\ pc[e] = "prompt" \/ ~LoopSuspected(cur[e])
<1>1. CASE Step(e)
  <2>1. CASE TransitionRead(e) \/ TransitionWrite(e)
    BY <2>1 DEF TransitionRead, TransitionWrite, Forget, TypeOK, EnginesOK, LocalsOK, Busy, Journaled
  <2>2. CASE EnsureDelivery(e) \/ Publish(e)
    BY <2>2 DEF EnsureDelivery, Publish, Goto, Forget, TypeOK, EnginesOK
  <2>3. CASE Gate(e)
    BY <2>3 DEF Gate, At, Goto, Persist, TypeOK, EnginesOK, LocalsOK, Busy, Journaled
  <2>4. CASE ~(TransitionRead(e) \/ TransitionWrite(e) \/ EnsureDelivery(e) \/ Publish(e) \/ Gate(e))
    <3>1. FALSE
      BY <1>1, <2>4 DEF Step, Goto, Persist, Preflight, Project, Lookup, RefreshBinding, StrictTurn,
         Prompt, RecordRoute, ObserveEffect, AfterActivity, WaitSettled, CaptureStructured,
         CaptureReply, Acknowledge, TypeOK, EnginesOK
    <3>2. QED  BY <3>1
  <2>5. QED  BY <2>1, <2>2, <2>3, <2>4
<1>2. CASE Command(e) \/ Crash(e)
  BY <1>2 DEF Command, Send, Redeliver, Call, Goto, Crash, Forget, TypeOK, EnginesOK
<1>3. ASSUME SameLocals(e) PROVE /\ cur'[e] = cur[e] /\ cur[e] \in Journaled /\ pc[e] = "prompt"
  BY <1>3 DEF SameLocals, TypeOK, LocalsOK, Busy, Journaled
<1>4. CASE Outside \/ UNCHANGED vars
  BY <1>3, <1>4, OutsideKeepsEngines DEF engine, vars, SameLocals
<1>5. ASSUME NEW f \in Engines \ {e}, Own(f) PROVE SameLocals(e)
  BY <1>5, OwnKeepsOthers DEF OthersKept, TypeOK
<1>6. QED  BY <1>1, <1>2, <1>3, <1>4, <1>5, StepsOf DEF Own

LEMMA LoopProgress == LoopInv /\ [Next]_vars => LoopInv'
<1> SUFFICES ASSUME LoopInv, [Next]_vars PROVE LoopInv'
  OBVIOUS
<1> USE DEF LoopInv
<1>1. TypeOK' /\ MsgKept
  BY TypeStep, MessagesKept DEF MsgKept, vars, tables
<1>2. ASSUME NEW m \in Messages, WithinBounds(m) PROVE WithinBounds(m)'
  BY <1>1, <1>2 DEF WithinBounds, Journaled, MsgKept
<1>3. ASSUME NEW m \in Messages, prompts'[m] > 0 PROVE WithinBounds(m)'
  <2>1. CASE prompts'[m] = prompts[m]  BY <1>2, <1>3, <2>1
  <2>2. ASSUME NEW e \in Engines, Prompt(e), cur[e] = m PROVE WithinBounds(m)'
    BY <1>2, <2>2 DEF Prompt, At
  <2>3. QED  BY <2>1, <2>2, PromptsCount
<1>4. ASSUME NEW e \in Engines, pc'[e] = "prompt" PROVE WithinBounds(cur[e])'
  <2>1. cur'[e] = cur[e] /\ cur[e] \in Journaled
    BY <1>4, OnlyThroughGate
  <2>2. WithinBounds(cur[e])
    BY <1>4, <2>1, OnlyThroughGate, CountersOf, ConstantsAssumption DEF LoopSuspected, WithinBounds
  <2>3. QED  BY <1>2, <2>1, <2>2 DEF Journaled, WithinBounds
<1>5. QED  BY <1>1, <1>3, <1>4, ChainsCounted

(* LoopsEnd: LoopBound for every number of agents, messages and engines, with *)
(* and without crashes, whatever the bounds.                                *)
THEOREM LoopsEnd == Spec => []LoopBound
<1>1. Init => LoopInv
  BY TypeInit DEF Init, LoopInv, Journaled, Closed
<1>2. LoopInv => LoopBound
  <2> SUFFICES ASSUME LoopInv, NEW m \in Messages, prompts[m] > 0
               PROVE  Cardinality(Ancestors(m)) < MaxHops /\ Cardinality(Ancestors(m)) < MaxDepth
    BY DEF LoopBound
  <2>1. WithinBounds(m) /\ Counted(m) /\ Cardinality(Ancestors(m)) \in Nat
    BY FS_CardinalityType DEF LoopInv, WithinBounds, Counted
  <2>2. QED  BY <2>1, CountersOf, ConstantsAssumption DEF LoopInv, WithinBounds, Counted
<1>3. QED  BY <1>1, <1>2, LoopProgress, PTL DEF Spec

-----------------------------------------------------------------------------
(* The rest is about SoleCaller: no two engines are ever asked to deliver   *)
(* the same message.  Crashes between any two steps, and any number of      *)
(* calls repeated after them, are allowed.                                  *)

(* The control flow of deliver(): from label k it asks for transition s and *)
(* goes to l, or goes to l directly.                                        *)
PersistFlow ==
       {"preflight"} \X {"journaled"} \X {"board"}
  \cup {"preflight"} \X {"target_authority_mismatch", "exact_native_target_not_bound"} \X {"idle"}
  \cup {"board"} \X {"resolving_target"} \X {"lookup"}
  \cup {"lookup", "strict"} \X {"ready"} \X {"gate"}
  \cup {"lookup", "refresh", "strict"} \X {"target_unavailable"} \X {"idle"}
  \cup {"gate"} \X {"blocked", "suppressed"} \X {"idle"}
  \cup {"prompt"} \X {"prompt_submitted"} \X {"route"}
  \cup {"prompt"} \X {"uncertain", "failed", "blocked"} \X {"idle"}
  \cup {"observe"} \X {"activity_observed"} \X {"active"}
  \cup {"observe"} \X {"uncertain"} \X {"idle"}
  \cup {"active", "wait"} \X {"runtime_settled"} \X {"capture"}
  \cup {"active", "wait", "capture"} \X {"reply_captured"} \X {"ack"}
  \cup {"active", "wait"} \X {"blocked"} \X {"idle"}
  \cup {"wait"} \X {"uncertain", "failed"} \X {"idle"}
  \cup {"capture"} \X {"capture_failed"} \X {"idle"}
  \cup {"ack"} \X {"acknowledged"} \X {"publish"}

GotoFlow ==
  { <<"lookup", "refresh">>, <<"refresh", "strict">>, <<"strict", "strict">>,
    <<"gate", "prompt">>, <<"route", "observe">>, <<"active", "wait">>,
    <<"ack", "publish">> }

Persists(e) == \E k, s, l : <<k, s, l>> \in PersistFlow /\ At(e, k) /\ Persist(e, s, l)
Goes(e)     == \E k, l : <<k, l>> \in GotoFlow /\ At(e, k) /\ Goto(e, l)

Moves(e) == (Persists(e) \/ Goes(e)) /\ UNCHANGED <<cur, seen, delivery>>

LEMMA FollowsFlow ==
  ASSUME TypeOK, NEW e \in Engines, Step(e)
  PROVE  \/ Moves(e)
         \/ TransitionRead(e) \/ TransitionWrite(e) \/ EnsureDelivery(e) \/ Publish(e)
<1> USE DEF Moves, Persists, Goes, PersistFlow, GotoFlow, rows
<1>1. ASSUME Preflight(e) PROVE Moves(e)
  BY <1>1 DEF Preflight, Verdict
<1>2. ASSUME Project(e) PROVE Moves(e)
  BY <1>2 DEF Project
<1>3. ASSUME Lookup(e) PROVE Moves(e)
  BY <1>3 DEF Lookup
<1>4. ASSUME RefreshBinding(e) PROVE Moves(e)
  BY <1>4 DEF RefreshBinding
<1>5. ASSUME StrictTurn(e) PROVE Moves(e)
  BY <1>5 DEF StrictTurn
<1>6. ASSUME Gate(e) PROVE Moves(e)
  BY <1>6 DEF Gate
<1>7. ASSUME Prompt(e) PROVE Moves(e)
  BY <1>7 DEF Prompt
<1>8. ASSUME RecordRoute(e) PROVE Moves(e)
  BY <1>8 DEF RecordRoute
<1>9. ASSUME ObserveEffect(e) PROVE Moves(e)
  BY <1>9 DEF ObserveEffect
<1>10. ASSUME AfterActivity(e) PROVE Moves(e)
  BY <1>10 DEF AfterActivity, CaptureStructured
<1>11. ASSUME WaitSettled(e) PROVE Moves(e)
  BY <1>11 DEF WaitSettled, CaptureStructured
<1>12. ASSUME CaptureReply(e) PROVE Moves(e)
  BY <1>12 DEF CaptureReply
<1>13. ASSUME Acknowledge(e) PROVE Moves(e)
  BY <1>13 DEF Acknowledge
<1>14. QED
  BY <1>1, <1>2, <1>3, <1>4, <1>5, <1>6, <1>7, <1>8, <1>9, <1>10, <1>11, <1>12,
     <1>13 DEF Step

(* The row that an engine at label l, with nothing under way, works on.     *)
Agrees(l, s) ==
  /\ l \in {"preflight", "board"} => s = "journaled"
  /\ l \in {"lookup", "refresh", "strict"} => s = "resolving_target"
  /\ l \in {"gate", "prompt"} => s = "ready"
  /\ l \in {"route", "observe"} => s = "prompt_submitted"
  /\ l \in {"active", "wait"} => s = "activity_observed"
  /\ l = "capture" => s = "runtime_settled"
  /\ l = "ack" => s = "reply_captured"
  /\ l = "publish" => s \in {"reply_captured", "acknowledged"}

LEMMA FlowIsLegal ==
  ASSUME NEW k, NEW s, NEW l, <<k, s, l>> \in PersistFlow, NEW r, Agrees(k, r)
  PROVE  /\ LegalStep(r, s) /\ Agrees(l, s)
         /\ s \in DeliveryState /\ k \in Labels \ {"idle"} /\ l \in Labels
  BY DEF PersistFlow, Agrees, LegalStep, AllowedTransitions, DeliveryState, Labels

LEMMA GotoKeepsRow ==
  ASSUME NEW k, NEW l, <<k, l>> \in GotoFlow, NEW r, Agrees(k, r)
  PROVE  Agrees(l, r) /\ k \in Labels \ {"idle"} /\ l \in Labels \ {"idle"}
  BY DEF GotoFlow, Agrees, Labels

-----------------------------------------------------------------------------
(* The invariant.  An engine's copy of a row is the row itself, what it asks*)
(* for is legal from there, and no prompt has been submitted before it gets *)
(* past the prompt.  RowOK is what survives a crash: a row that does not say*)
(* so still tells whether the message may have entered the terminal.        *)

Promptless(e) ==
  /\ pc[e] \in {"gate", "prompt"} => prompts[cur[e]] = 0
  /\ to[e] \in {"suppressed", "target_unavailable"} => prompts[cur[e]] = 0
  /\ to[e] = "prompt_submitted" => prompts[cur[e]] = 1

PositionOK(e) ==
  Busy(e) =>
    /\ <<e, cur[e]>> \in Callers
    /\ to[e] = NoState => Agrees(pc[e], State(cur[e]))
    /\ to[e] # NoState => /\ LegalStep(State(cur[e]), to[e])
                          /\ Agrees(pc[e], to[e])
    /\ seen[e] \in {<< >>, delivery[cur[e]]}
    /\ Promptless(e)

RowOK(m) ==
  /\ prompts[m] <= 1
  /\ prompts[m] > 0 => State(m) \notin {NoState, "journaled", "resolving_target"}

SoleInv ==
  /\ TypeOK /\ raised = {}
  /\ \A e \in Engines : PositionOK(e)
  /\ \A m \in Messages : RowOK(m)

LEMMA SoleInit == Init => SoleInv
  BY TypeInit DEF Init, SoleInv, PositionOK, Busy, RowOK

(* Two busy engines hold different messages.                                *)
LEMMA Apart ==
  ASSUME SoleCaller, TypeOK, NEW e \in Engines, NEW f \in Engines, e # f,
         PositionOK(e), PositionOK(f), Busy(e), Busy(f)
  PROVE  cur[e] # cur[f]
  BY DEF SoleCaller, PositionOK, TypeOK, LocalsOK

(* A step of an engine changes nothing of a message it does not hold.       *)
LEMMA OtherMessages ==
  ASSUME TypeOK, NEW e \in Engines, Own(e), NEW m \in Messages, m # cur[e]
  PROVE  delivery'[m] = delivery[m] /\ prompts'[m] = prompts[m] /\ State(m)' = State(m)
<1>1. ASSUME Step(e)
      PROVE  /\ delivery' = delivery \/ \E h : delivery' = [delivery EXCEPT ![cur[e]] = h]
             /\ prompts' = prompts \/ \E n : prompts' = [prompts EXCEPT ![cur[e]] = n]
  <2>1. CASE Prompt(e)
    BY <2>1 DEF Prompt, Enters, rows
  <2>2. CASE ~Prompt(e)
    BY <1>1, <2>2 DEF Step, rows, world, TransitionRead, TransitionWrite, EnsureDelivery,
       Preflight, Project, Lookup, RefreshBinding, StrictTurn, Gate, RecordRoute,
       ObserveEffect, AfterActivity, WaitSettled, CaptureReply, Acknowledge, Publish
  <2>3. QED  BY <2>1, <2>2
<1>2. ASSUME Command(e) \/ Crash(e) PROVE delivery' = delivery /\ prompts' = prompts
  BY <1>2 DEF Command, Send, Redeliver, Crash, rows, world
<1>3. delivery'[m] = delivery[m] /\ prompts'[m] = prompts[m]
  BY <1>1, <1>2 DEF Own, TypeOK, TablesOK
<1>4. QED  BY <1>3 DEF State

LEMMA PositionKept ==
  ASSUME SoleCaller, SoleInv, NEW e \in Engines, Own(e), NEW f \in Engines, f # e
  PROVE  PositionOK(f)'
<1>1. SameLocals(f)
  BY OwnKeepsOthers DEF OthersKept, SoleInv, TypeOK
<1>2. CASE ~Busy(f)
  BY <1>1, <1>2 DEF SameLocals, PositionOK, Busy
<1>3. CASE Busy(f)
  <2>1. cur[f] \in Messages /\ cur[f] # cur[e]
    <3>1. CASE Busy(e)
      BY <1>3, <3>1, Apart DEF SoleInv, TypeOK, LocalsOK
    <3>2. CASE ~Busy(e)
      BY <1>3, <3>2, ConstantsAssumption DEF SoleInv, TypeOK, LocalsOK
    <3>3. QED  BY <3>1, <3>2
  <2>2. /\ delivery'[cur[f]] = delivery[cur[f]] /\ prompts'[cur[f]] = prompts[cur[f]]
        /\ State(cur[f])' = State(cur[f])
    BY <1>1, <2>1, OtherMessages DEF SoleInv, SameLocals, State
  <2>3. PositionOK(f)  BY DEF SoleInv
  <2>4. QED  BY <1>1, <1>3, <2>2, <2>3 DEF SameLocals, PositionOK, Promptless, Busy, Agrees
<1>4. QED  BY <1>2, <1>3

LEMMA HeldMessage ==
  ASSUME TypeOK, NEW e \in Engines, Busy(e)
  PROVE  /\ cur[e] \in Messages /\ delivery[cur[e]] \in Seq(DeliveryState)
         /\ prompts[cur[e]] \in Nat /\ to[e] \in DeliveryState \cup {NoState}
         /\ NoState \notin DeliveryState
         /\ State(cur[e]) \in DeliveryState \cup {NoState}
         /\ to[e] = NoState => seen[e] = << >>
  BY ConstantsAssumption, StateType DEF TypeOK, TablesOK, EnginesOK, LocalsOK

(* What a step does to the prompts of the message its engine holds.         *)
LEMMA OwnPrompts ==
  ASSUME TypeOK, NEW e \in Engines, Step(e)
  PROVE  \/ prompts' = prompts /\ (Persists(e) => to'[e] # "prompt_submitted")
         \/ /\ At(e, "prompt") /\ Persists(e) /\ UNCHANGED cur
            /\ prompts' = [prompts EXCEPT ![cur[e]] = @ + 1]
            /\ to'[e] \in {"prompt_submitted", "uncertain", "failed"}

<1>1. CASE Prompt(e)
  <2>1. to' = [to EXCEPT ![e] = "prompt_submitted"] \/ to' = [to EXCEPT ![e] = "uncertain"]
        \/ to' = [to EXCEPT ![e] = "failed"] \/ to' = [to EXCEPT ![e] = "blocked"]
    BY <1>1 DEF Prompt, Persist
  <2>2. to'[e] \in {"prompt_submitted", "uncertain", "failed", "blocked"}
    BY <2>1 DEF TypeOK, EnginesOK
  <2>3. At(e, "prompt") /\ UNCHANGED cur
    BY <1>1 DEF Prompt
  <2>4. CASE Enters(e) /\ \E s \in {"prompt_submitted", "uncertain", "failed"}, l \in {"route", "idle"} :
               Persist(e, s, l)
    <3>1. to'[e] \in {"prompt_submitted", "uncertain", "failed"}
      BY <2>4 DEF Persist, TypeOK, EnginesOK
    <3>2. Persists(e)
      BY <1>1, <3>1 DEF Prompt, Persists, PersistFlow, Persist, TypeOK, EnginesOK
    <3>3. QED  BY <2>3, <2>4, <3>1, <3>2 DEF Enters
  <2>5. CASE prompts' = prompts /\ \E s \in {"uncertain", "failed", "blocked"} : Persist(e, s, "idle")
    BY <2>5 DEF Persist, TypeOK, EnginesOK
  <2>6. QED  BY <1>1, <2>4, <2>5 DEF Prompt
<1>2. CASE ~Prompt(e)
  <2>1. prompts' = prompts
    BY <1>2 DEF Step, world, TransitionRead, TransitionWrite, EnsureDelivery, Preflight,
       Project, Lookup, RefreshBinding, StrictTurn, Gate, RecordRoute, ObserveEffect,
       AfterActivity, WaitSettled, CaptureReply, Acknowledge, Publish
  <2>2. ASSUME Persists(e), to'[e] = "prompt_submitted" PROVE FALSE
    <3>1. At(e, "prompt")
      BY <2>2 DEF Persists, PersistFlow, Persist, TypeOK, EnginesOK
    <3>2. QED
      BY <1>2, <3>1 DEF Step, At, TransitionRead, TransitionWrite, EnsureDelivery, Preflight,
         Project, Lookup, RefreshBinding, StrictTurn, Gate, RecordRoute, ObserveEffect,
         AfterActivity, WaitSettled, CaptureReply, Acknowledge, Publish
  <2>3. QED  BY <2>1, <2>2
<1>3. QED  BY <1>1, <1>2

LEMMA PositionAfterMove ==
  ASSUME SoleInv, NEW e \in Engines, Step(e), Moves(e)
  PROVE  /\ PositionOK(e)' /\ RowOK(cur[e])' /\ State(cur[e])' = State(cur[e])
<1> DEFINE m == cur[e]
<1>1. PICK k \in Labels \ {"idle"} : At(e, k)
  BY FlowIsLegal, GotoKeepsRow DEF Moves, Persists, Goes, PersistFlow, GotoFlow, Labels
<1>2. /\ Busy(e) /\ pc[e] = k /\ to[e] = NoState /\ seen[e] = << >> /\ m \in Messages
  BY <1>1, ReadyType DEF SoleInv
<1>3. /\ <<e, m>> \in Callers /\ Agrees(k, State(m)) /\ Promptless(e) /\ RowOK(m)
  BY <1>2 DEF SoleInv, PositionOK
<1>4. cur' = cur /\ seen' = seen /\ delivery' = delivery /\ State(m)' = State(m)
  BY DEF Moves, State
<1>5. RowOK(m)'

  <2>1. CASE prompts' = prompts
    BY <1>3, <1>4, <2>1 DEF RowOK
  <2>2. CASE At(e, "prompt") /\ prompts' = [prompts EXCEPT ![m] = @ + 1]
    <3>1. k = "prompt" /\ prompts[m] = 0 /\ State(m) = "ready"
      BY <1>2, <1>3, <2>2 DEF At, Promptless, Agrees
    <3>2. prompts'[m] = 1
      BY <1>2, <2>2, <3>1 DEF SoleInv, TypeOK, TablesOK
    <3>3. NoState # "ready"  BY ConstantsAssumption DEF DeliveryState
    <3>4. QED  BY <1>4, <3>1, <3>2, <3>3 DEF RowOK
  <2>3. QED  BY <2>1, <2>2, OwnPrompts DEF SoleInv
<1>6. ASSUME NEW s, NEW l, <<k, s, l>> \in PersistFlow, Persist(e, s, l)
      PROVE  PositionOK(e)'
  <2>1. /\ LegalStep(State(m), s) /\ Agrees(l, s) /\ s \in DeliveryState
    BY <1>3, <1>6, FlowIsLegal
  <2>2. pc'[e] = l /\ to'[e] = s /\ to'[e] # NoState
    BY <1>6, <2>1, ConstantsAssumption DEF Persist, SoleInv, TypeOK, EnginesOK
  <2>3. Persists(e)  BY <1>1, <1>6 DEF Persists
  <2>4. l \in {"gate", "prompt"} \/ s \in {"suppressed", "target_unavailable"} => prompts'[m] = 0
    <3>1. ASSUME l \in {"gate", "prompt"} \/ s \in {"suppressed", "target_unavailable"}
          PROVE  k \in {"lookup", "strict", "refresh", "gate"}
                 /\ s \notin {"prompt_submitted", "uncertain", "failed"} /\ k # "prompt"
      BY <1>6, <3>1 DEF PersistFlow
    <3>2. ASSUME k \in {"lookup", "strict", "refresh", "gate"} PROVE prompts[m] = 0
      BY <1>2, <1>3, <3>2 DEF Agrees, RowOK, Promptless, SoleInv, TypeOK, TablesOK
    <3>3. k # "prompt" => prompts' = prompts
      BY <1>2, OwnPrompts DEF At, SoleInv
    <3>4. QED  BY <3>1, <3>2, <3>3
  <2>5. s = "prompt_submitted" => prompts'[m] = 1
    <3>1. ASSUME s = "prompt_submitted" PROVE prompts'[m] = 1
      <4>1. At(e, "prompt") /\ prompts' = [prompts EXCEPT ![m] = @ + 1]
        BY <2>2, <2>3, <3>1, OwnPrompts DEF SoleInv
      <4>2. prompts[m] = 0
        BY <1>2, <1>3, <4>1 DEF At, Promptless
      <4>3. QED  BY <1>2, <4>1, <4>2 DEF SoleInv, TypeOK, TablesOK
    <3>2. QED  BY <3>1
  <2>6. QED
    BY <1>2, <1>3, <1>4, <2>1, <2>2, <2>4, <2>5 DEF PositionOK, Promptless
<1>7. ASSUME NEW l, <<k, l>> \in GotoFlow, Goto(e, l)
      PROVE  PositionOK(e)'
  <2>1. Agrees(l, State(m))  BY <1>3, <1>7, GotoKeepsRow
  <2>2. pc'[e] = l /\ to'[e] = NoState
    BY <1>2, <1>7 DEF Goto, SoleInv, TypeOK, EnginesOK
  <2>3. l \in {"gate", "prompt"} => k = "gate"
    BY <1>7 DEF GotoFlow
  <2>4. k = "gate" => prompts[m] = 0 /\ prompts' = prompts
    BY <1>2, <1>3, OwnPrompts DEF At, Promptless, SoleInv
  <2>5. NoState \notin {"suppressed", "target_unavailable", "prompt_submitted"}
    BY ConstantsAssumption DEF DeliveryState
  <2>6. QED
    BY <1>2, <1>3, <1>4, <2>1, <2>2, <2>3, <2>4, <2>5 DEF PositionOK, Promptless
<1>8. PositionOK(e)'
  BY <1>1, <1>6, <1>7 DEF Moves, Persists, Goes, At
<1>9. QED  BY <1>4, <1>5, <1>8

LEMMA PositionAfterRead ==
  ASSUME SoleInv, NEW e \in Engines, TransitionRead(e)
  PROVE  /\ PositionOK(e)' /\ UNCHANGED <<delivery, prompts, raised, cur>>
         /\ \A m \in Messages : State(m)' = State(m)
<1>1. Busy(e)  BY DEF TransitionRead, Busy
<1>2. LegalStep(State(cur[e]), to[e])
  BY <1>1 DEF SoleInv, PositionOK, TransitionRead
<1>3. /\ seen' = [seen EXCEPT ![e] = delivery[cur[e]]]
      /\ UNCHANGED <<pc, cur, to, delivery, prompts, raised>>
  BY <1>2 DEF TransitionRead, rows, world
<1>4. seen'[e] = delivery'[cur'[e]]
  BY <1>3 DEF SoleInv, TypeOK, EnginesOK
<1>5. \A m \in Messages : State(m)' = State(m)  BY <1>3 DEF State
<1>6. PositionOK(e)  BY DEF SoleInv
<1>7. State(cur[e])' = State(cur[e])  BY <1>3 DEF State
<1>8. QED  BY <1>1, <1>3, <1>4, <1>5, <1>6, <1>7 DEF PositionOK, Promptless, Busy

LEMMA PositionAfterWrite ==
  ASSUME SoleInv, NEW e \in Engines, TransitionWrite(e), NEW m \in Messages, m = cur[e]
  PROVE  /\ PositionOK(e)' /\ RowOK(m)' /\ prompts' = prompts
         /\ delivery'[m] = Append(delivery[m], to[e]) /\ State(m)' = to[e]
         /\ LegalStep(State(m), to[e]) /\ Promptless(e)
<1>1. Busy(e) /\ to[e] # NoState /\ seen[e] # << >>
  BY DEF TransitionWrite, Busy
<1>2. /\ to[e] \in DeliveryState /\ delivery[m] \in Seq(DeliveryState)
  BY <1>1, HeldMessage DEF SoleInv
<1>3. /\ <<e, m>> \in Callers /\ LegalStep(State(m), to[e]) /\ Agrees(pc[e], to[e])
      /\ seen[e] = delivery[m] /\ Promptless(e) /\ RowOK(m)
  BY <1>1, <1>2 DEF SoleInv, PositionOK
<1>4. delivery'[m] = Append(delivery[m], to[e]) /\ prompts' = prompts
  BY <1>2, <1>3 DEF TransitionWrite, SoleInv, TypeOK, TablesOK, world
<1>5. delivery'[m] # << >> /\ delivery'[m][Len(delivery'[m])] = to[e]
  BY <1>2, <1>4
<1>6. State(m)' = to[e]
  BY <1>5 DEF State
<1>7. prompts[m] > 0 => to[e] \notin {NoState, "journaled", "resolving_target"}
  BY <1>1, <1>3 DEF RowOK, LegalStep, AllowedTransitions
<1>8. RowOK(m)'
  BY <1>3, <1>4, <1>6, <1>7 DEF RowOK
<1>9. CASE Forget(e)
  <2>1. ~Busy(e)'
    BY <1>9 DEF Forget, Busy, SoleInv, TypeOK, EnginesOK
  <2>2. QED  BY <1>3, <1>4, <1>6, <1>8, <2>1 DEF PositionOK
<1>10. CASE ~Forget(e)
  <2>1. /\ UNCHANGED <<pc, cur>> /\ to'[e] = NoState /\ seen'[e] = << >>
    BY <1>10 DEF TransitionWrite, SoleInv, TypeOK, EnginesOK
  <2>2. pc[e] \in {"gate", "prompt"} => prompts[m] = 0
    BY <1>3 DEF Promptless
  <2>3. NoState \notin {"suppressed", "target_unavailable", "prompt_submitted"}
    BY ConstantsAssumption DEF DeliveryState
  <2>4. QED
    BY <1>3, <1>4, <1>6, <1>8, <2>1, <2>2, <2>3 DEF PositionOK, Promptless
<1>11. QED  BY <1>9, <1>10

LEMMA PositionAfterOpen ==
  ASSUME SoleInv, NEW e \in Engines, EnsureDelivery(e), NEW m \in Messages, m = cur[e]
  PROVE  /\ PositionOK(e)' /\ RowOK(m)' /\ prompts' = prompts
         /\ \/ delivery' = delivery /\ State(m)' = State(m)
            \/ State(m) = NoState /\ State(m)' = "journaled"
<1>1. /\ Busy(e) /\ seen[e] = << >> /\ to[e] = NoState
  BY ReadyType DEF EnsureDelivery, SoleInv, Labels
<1>2. prompts' = prompts  BY DEF EnsureDelivery, world
<1>3. /\ <<e, m>> \in Callers /\ RowOK(m)
  BY <1>1 DEF SoleInv, PositionOK
<1>4. \/ delivery' = delivery /\ State(m)' = State(m)
      \/ State(m) = NoState /\ State(m)' = "journaled"
  <2>1. CASE delivery' = delivery  BY <2>1 DEF State
  <2>2. CASE delivery[m] = << >> /\ delivery' = [delivery EXCEPT ![m] = <<"journaled">>]
    BY <2>2 DEF State, SoleInv, TypeOK, TablesOK
  <2>3. QED  BY <2>1, <2>2 DEF EnsureDelivery
<1>5. RowOK(m)'
  <2>1. State(m) = NoState => prompts[m] = 0
    BY <1>3 DEF RowOK, SoleInv, TypeOK, TablesOK
  <2>2. QED  BY <1>2, <1>3, <1>4, <2>1 DEF RowOK
<1>6. PositionOK(e)'
  <2>1. CASE Forget(e)
    BY <2>1 DEF Forget, Busy, PositionOK, SoleInv, TypeOK, EnginesOK
  <2>2. CASE Goto(e, "preflight") /\ UNCHANGED <<cur, seen>> /\ ~Forget(e)
    <3>1. State(m)' = "journaled"
      <4>1. CASE delivery[m] = << >> /\ delivery' = [delivery EXCEPT ![m] = <<"journaled">>]
        BY <4>1 DEF State, SoleInv, TypeOK, TablesOK
      <4>2. CASE State(m) = "journaled" /\ delivery' = delivery
        BY <4>2 DEF State
      <4>3. QED  BY <2>2, <4>1, <4>2 DEF EnsureDelivery
    <3>2. pc'[e] = "preflight" /\ to'[e] = NoState
      BY <1>1, <2>2 DEF Goto, SoleInv, TypeOK, EnginesOK
    <3>3. NoState \notin {"suppressed", "target_unavailable", "prompt_submitted"}
      BY ConstantsAssumption DEF DeliveryState
    <3>4. QED
      BY <1>1, <1>3, <2>2, <3>1, <3>2, <3>3 DEF PositionOK, Promptless, Agrees
  <2>3. QED  BY <2>1, <2>2 DEF EnsureDelivery
<1>7. QED  BY <1>2, <1>4, <1>5, <1>6

(* Publishing, crashing and being called write no row and submit nothing.   *)
LEMMA PositionOtherwise ==
  ASSUME SoleInv, NEW e \in Engines, Publish(e) \/ Command(e) \/ Crash(e)
  PROVE  PositionOK(e)' /\ UNCHANGED <<delivery, prompts, raised>>
<1>1. UNCHANGED <<delivery, prompts, raised>>
  BY DEF Publish, Command, Send, Redeliver, Crash, rows, world, model
<1>2. CASE Publish(e) \/ Crash(e)
  <2>1. ~Busy(e)'
    BY <1>2 DEF Publish, Crash, Forget, Busy, SoleInv, TypeOK, EnginesOK
  <2>2. QED  BY <1>1, <2>1 DEF PositionOK
<1>3. CASE Command(e)
  <2>1. PICK m \in Messages : Call(e, m) /\ seen' = seen
    BY <1>3 DEF Command, Send, Redeliver
  <2>2. pc'[e] = "ensure" /\ to'[e] = NoState /\ cur'[e] = m /\ <<e, m>> \in Callers
    BY <2>1 DEF Call, At, Goto, SoleInv, TypeOK, EnginesOK
  <2>3. seen'[e] = << >>
    BY <2>1 DEF Call, At, SoleInv, TypeOK, LocalsOK
  <2>4. NoState \notin {"suppressed", "target_unavailable", "prompt_submitted"}
    BY ConstantsAssumption DEF DeliveryState
  <2>5. QED  BY <1>1, <2>2, <2>3, <2>4 DEF PositionOK, Promptless, Agrees
<1>4. QED  BY <1>2, <1>3

(* What one step does to the row and the prompts of message m.              *)
RowStep(m) ==
  /\ RowOK(m)'
  /\ \/ State(m)' = State(m) /\ prompts'[m] = prompts[m] /\ delivery'[m] = delivery[m]
     \/ /\ State(m) = NoState /\ State(m)' = "journaled" /\ prompts'[m] = prompts[m]
        /\ Opened(m)
     \/ /\ State(m) = "ready" /\ prompts[m] = 0 /\ prompts'[m] = 1
        /\ delivery'[m] = delivery[m] /\ State(m)' = State(m)
     \/ /\ LegalStep(State(m), State(m)') /\ prompts'[m] = prompts[m]
        /\ delivery'[m] = Append(delivery[m], State(m)') /\ State(m)' \in DeliveryState
        /\ State(m)' = "prompt_submitted" => prompts[m] = 1
        /\ State(m)' \in {"suppressed", "target_unavailable"} => prompts[m] = 0

LEMMA OwnPosition ==
  ASSUME SoleInv, NEW e \in Engines, Own(e)
  PROVE  PositionOK(e)' /\ raised' = {}
<1>1. CASE Moves(e) /\ Step(e)
  <2>1. pc[e] # "idle" /\ to[e] = NoState
    BY <1>1 DEF Moves, Persists, Goes, PersistFlow, GotoFlow, At
  <2>2. raised' = raised
    BY <1>1, <2>1 DEF Step, model, TransitionRead, TransitionWrite, EnsureDelivery, Preflight,
       Project, Lookup, RefreshBinding, StrictTurn, Gate, Prompt, RecordRoute, ObserveEffect,
       AfterActivity, WaitSettled, CaptureReply, Acknowledge, Publish
  <2>3. QED  BY <1>1, <2>2, PositionAfterMove DEF SoleInv
<1>2. CASE TransitionRead(e)
  BY <1>2, PositionAfterRead DEF SoleInv
<1>3. CASE TransitionWrite(e)
  <2>1. cur[e] \in Messages /\ raised' = raised
    BY <1>3, HeldMessage DEF TransitionWrite, model, Busy, SoleInv
  <2>2. QED  BY <1>3, <2>1, PositionAfterWrite DEF SoleInv
<1>4. CASE EnsureDelivery(e)
  <2>1. cur[e] \in Messages /\ raised' = raised
    BY <1>4, ReadyType DEF EnsureDelivery, model, SoleInv, Labels
  <2>2. QED  BY <1>4, <2>1, PositionAfterOpen DEF SoleInv
<1>5. CASE Publish(e) \/ Command(e) \/ Crash(e)
  BY <1>5, PositionOtherwise DEF SoleInv
<1>6. QED  BY <1>1, <1>2, <1>3, <1>4, <1>5, FollowsFlow DEF Own, SoleInv

LEMMA OwnRowStep ==
  ASSUME SoleInv, NEW e \in Engines, Own(e), NEW m \in Messages
  PROVE  RowStep(m)
<1>0. RowOK(m)  BY DEF SoleInv
<1>1. ASSUME delivery'[m] = delivery[m], prompts'[m] = prompts[m] PROVE RowStep(m)
  BY <1>0, <1>1 DEF RowStep, RowOK, State
<1>2. CASE m # cur[e]
  BY <1>1, <1>2, OtherMessages DEF SoleInv
<1>3. CASE m = cur[e] /\ Moves(e) /\ Step(e)
  <2>1. RowOK(m)' /\ State(m)' = State(m) /\ delivery' = delivery
    BY <1>3, PositionAfterMove DEF Moves, State, RowOK
  <2>2. CASE prompts' = prompts
    BY <1>1, <2>1, <2>2
  <2>3. CASE At(e, "prompt") /\ prompts' = [prompts EXCEPT ![m] = @ + 1]
    <3>1. State(m) = "ready" /\ prompts[m] = 0
      BY <1>3, <2>3 DEF SoleInv, PositionOK, Busy, At, Promptless, Agrees
    <3>2. prompts'[m] = 1
      BY <2>3, <3>1 DEF SoleInv, TypeOK, TablesOK
    <3>3. QED  BY <2>1, <3>1, <3>2 DEF RowStep
  <2>4. QED  BY <1>3, <2>2, <2>3, OwnPrompts DEF SoleInv
<1>4. CASE m = cur[e] /\ TransitionRead(e)
  BY <1>1, <1>4, PositionAfterRead
<1>5. CASE m = cur[e] /\ TransitionWrite(e)
  <2>1. to[e] \in DeliveryState
    BY <1>5 DEF TransitionWrite, SoleInv, TypeOK, EnginesOK
  <2>2. QED  BY <1>5, <2>1, PositionAfterWrite DEF RowStep, Promptless
<1>6. CASE m = cur[e] /\ EnsureDelivery(e)
  <2>1. RowOK(m)' /\ prompts' = prompts
    BY <1>6, PositionAfterOpen
  <2>2. CASE delivery' = delivery
    BY <1>1, <2>1, <2>2
  <2>3. CASE delivery[m] = << >> /\ delivery' = [delivery EXCEPT ![m] = <<"journaled">>]
    <3>1. Opened(m) /\ State(m) = NoState /\ State(m)' = "journaled"
      BY <2>3 DEF Opened, State, SoleInv, TypeOK, TablesOK
    <3>2. QED  BY <2>1, <3>1 DEF RowStep
  <2>4. QED  BY <1>6, <2>2, <2>3 DEF EnsureDelivery
<1>7. CASE Publish(e) \/ Command(e) \/ Crash(e)
  BY <1>1, <1>7, PositionOtherwise
<1>8. QED  BY <1>2, <1>3, <1>4, <1>5, <1>6, <1>7, FollowsFlow DEF Own, SoleInv

LEMMA SoleStep ==
  ASSUME SoleCaller, SoleInv, [Next]_vars
  PROVE  SoleInv' /\ \A m \in Messages : RowStep(m)
<1>1. TypeOK'  BY TypeStep DEF SoleInv
<1>2. ASSUME NEW e \in Engines, Own(e)
      PROVE  SoleInv' /\ \A m \in Messages : RowStep(m)
  <2>1. \A m \in Messages : RowStep(m)  BY <1>2, OwnRowStep
  <2>2. \A f \in Engines : PositionOK(f)'
    BY <1>2, OwnPosition, PositionKept
  <2>3. QED  BY <1>1, <1>2, <2>1, <2>2, OwnPosition DEF SoleInv, RowStep
<1>3. CASE Outside \/ UNCHANGED vars
  <2>1. UNCHANGED <<engine, rows, raised, prompts>>
    BY <1>3, OutsideKeepsEngines DEF vars, model, world, Outside, JournalReply, RecordReply,
       IssueLock, RevokeLock, Reconcile, BindAgent, RuntimeMoves, RuntimeReplaced, AgentAnswers
  <2>2. \A f \in Engines : PositionOK(f)'
    BY <2>1 DEF SoleInv, PositionOK, Promptless, State, Busy, engine, rows
  <2>3. \A m \in Messages : RowStep(m)
    BY <2>1 DEF SoleInv, RowStep, RowOK, State, rows
  <2>4. QED  BY <1>1, <2>1, <2>2, <2>3 DEF SoleInv, RowStep
<1>4. QED  BY <1>2, <1>3, StepsOf

-----------------------------------------------------------------------------
(* PromptedOnce: AtMostOnePrompt, across crashes at any step and repeated   *)
(* calls.                                                                   *)
THEOREM PromptedOnce == SoleCaller => (Spec => []AtMostOnePrompt)
<1> SUFFICES ASSUME SoleCaller PROVE Spec => []AtMostOnePrompt
  OBVIOUS
<1>1. SoleInv /\ [Next]_vars => SoleInv'  BY SoleStep
<1>2. SoleInv => AtMostOnePrompt  BY DEF SoleInv, RowOK, AtMostOnePrompt
<1>3. QED  BY SoleInit, <1>1, <1>2, PTL DEF Spec

(* NothingRaised: NoIllegalTransition.                                      *)
THEOREM NothingRaised == SoleCaller => (Spec => []NoIllegalTransition)
<1> SUFFICES ASSUME SoleCaller PROVE Spec => []NoIllegalTransition
  OBVIOUS
<1>1. SoleInv /\ [Next]_vars => SoleInv'  BY SoleStep
<1>2. SoleInv => NoIllegalTransition  BY DEF SoleInv, NoIllegalTransition
<1>3. QED  BY SoleInit, <1>1, <1>2, PTL DEF Spec

(* HistoryGrows: HistoryAppendOnly.                                         *)
THEOREM HistoryGrows == SoleCaller => (Spec => HistoryAppendOnly)
<1> SUFFICES ASSUME SoleCaller PROVE Spec => HistoryAppendOnly
  OBVIOUS
<1>1. SoleInv /\ [Next]_vars => SoleInv'  BY SoleStep
<1> DEFINE Grows(m) == /\ Len(delivery'[m]) >= Len(delivery[m])
                       /\ \A i \in 1 .. Len(delivery[m]) : delivery'[m][i] = delivery[m][i]
<1>2. ASSUME SoleInv, [Next]_vars, NEW m \in Messages PROVE Grows(m)
  <2>1. RowStep(m) /\ delivery[m] \in Seq(DeliveryState)
    BY <1>2, SoleStep DEF SoleInv, TypeOK, TablesOK
  <2>2. CASE delivery'[m] = delivery[m]
    BY <2>1, <2>2
  <2>3. CASE Opened(m)
    BY <2>3 DEF Opened
  <2>4. ASSUME NEW s \in DeliveryState, delivery'[m] = Append(delivery[m], s) PROVE Grows(m)
    BY <2>1, <2>4
  <2>5. QED  BY <2>1, <2>2, <2>3, <2>4 DEF RowStep
<1>3. SoleInv /\ [Next]_vars =>
        [\A m \in Messages : Grows(m)]_vars
  BY <1>2
<1>4. QED  BY SoleInit, <1>1, <1>3, PTL DEF Spec, HistoryAppendOnly

-----------------------------------------------------------------------------
(* Refinement: deliver() implements the promise of DeliveryLifecycle, with  *)
(* the last entry of a row as its state.                                    *)
THEOREM Implements == SoleCaller => (Spec => ImplementsLifecycle)
<1> SUFFICES ASSUME SoleCaller PROVE Spec => ImplementsLifecycle
  OBVIOUS
<1> DEFINE states == [m \in Messages |-> State(m)]
<1>1. Init => Promise!Init
  BY DEF Init, Promise!Init, State
<1>2. SoleInv /\ [Next]_vars => SoleInv'  BY SoleStep
<1>3. SoleInv /\ [Next]_vars => [Promise!Next]_(Promise!lifecycle)
  <2> SUFFICES ASSUME SoleInv, [Next]_vars PROVE [Promise!Next]_(Promise!lifecycle)
    OBVIOUS
  <2>1. \A m \in Messages : RowStep(m)  BY SoleStep
  <2>2. ASSUME NEW e \in Engines, Own(e), NEW m \in Messages, m = cur[e]
        PROVE  [Promise!Next]_(Promise!lifecycle)
    <3>1. \A n \in Messages \ {m} : State(n)' = State(n) /\ prompts'[n] = prompts[n]
      BY <2>2, OtherMessages DEF SoleInv
    <3>2. prompts \in [Messages -> Nat] /\ prompts' \in [Messages -> Nat]
      BY TypeStep DEF SoleInv, TypeOK, TablesOK
    <3>3. ASSUME State(m)' = State(m), prompts'[m] = prompts[m]
          PROVE  UNCHANGED Promise!lifecycle
      <4>1. prompts' = prompts  BY <3>1, <3>2, <3>3
      <4>2. states' = states  BY <3>1, <3>3
      <4>3. QED  BY <4>1, <4>2 DEF Promise!lifecycle
    <3>4. ASSUME State(m) = NoState, State(m)' = "journaled", prompts'[m] = prompts[m]
          PROVE  Promise!Open(m)
      <4>1. prompts' = prompts  BY <3>1, <3>2, <3>4
      <4>2. states' = [states EXCEPT ![m] = "journaled"]  BY <3>1, <3>4
      <4>3. QED  BY <3>4, <4>1, <4>2 DEF Promise!Open
    <3>5. ASSUME State(m) = "ready", prompts[m] = 0, prompts'[m] = 1, State(m)' = State(m)
          PROVE  Promise!Submit(m)
      <4>1. prompts' = [prompts EXCEPT ![m] = 1]  BY <3>1, <3>2, <3>5
      <4>2. states' = states  BY <3>1, <3>5
      <4>3. QED  BY <3>5, <4>1, <4>2 DEF Promise!Submit
    <3>6. ASSUME <<State(m), State(m)'>> \in Promise!AllowedTransitions, prompts'[m] = prompts[m],
                 State(m)' = "prompt_submitted" => prompts[m] = 1,
                 State(m)' \in {"suppressed", "target_unavailable"} => prompts[m] = 0
          PROVE  Promise!Advance(m, State(m)')
      <4>1. prompts' = prompts  BY <3>1, <3>2, <3>6
      <4>2. states' = [states EXCEPT ![m] = State(m)']  BY <3>1
      <4>3. QED  BY <3>6, <4>1, <4>2 DEF Promise!Advance
    <3>7. RowStep(m) /\ DeliveryState = Promise!DeliveryState
      BY <2>1 DEF DeliveryState, Promise!DeliveryState
    <3>8. LegalStep(State(m), State(m)') =>
            State(m)' = State(m) \/ <<State(m), State(m)'>> \in Promise!AllowedTransitions
      BY DEF LegalStep, AllowedTransitions, Promise!AllowedTransitions
    <3>9. QED
      BY <2>2, <3>3, <3>4, <3>5, <3>6, <3>7, <3>8 DEF RowStep, Promise!Next
  <2>3. CASE \A m \in Messages : State(m)' = State(m) /\ prompts'[m] = prompts[m]
    <3>1. prompts \in [Messages -> Nat] /\ prompts' \in [Messages -> Nat]
      BY TypeStep DEF SoleInv, TypeOK, TablesOK
    <3>2. prompts' = prompts  BY <2>3, <3>1
    <3>3. states' = states  BY <2>3
    <3>4. QED  BY <3>2, <3>3 DEF Promise!lifecycle
  <2>4. ASSUME NEW e \in Engines, Own(e), cur[e] \notin Messages
        PROVE  \A m \in Messages : State(m)' = State(m) /\ prompts'[m] = prompts[m]
    BY <2>4, OtherMessages DEF SoleInv
  <2>5. ASSUME Outside \/ UNCHANGED vars
        PROVE  \A m \in Messages : State(m)' = State(m) /\ prompts'[m] = prompts[m]
    BY <2>5, OutsideKeepsEngines DEF State, rows, vars, world, Outside, JournalReply, RecordReply,
       IssueLock, RevokeLock, Reconcile, BindAgent, RuntimeMoves, RuntimeReplaced, AgentAnswers
  <2>6. QED  BY <2>2, <2>3, <2>4, <2>5, StepsOf
<1>4. QED  BY SoleInit, <1>1, <1>2, <1>3, PTL DEF Spec, ImplementsLifecycle, Promise!Spec

-----------------------------------------------------------------------------
(* That an acknowledgement rests on evidence, and that the board never runs *)
(* ahead of the journal.                                                    *)

Captures == {"reply_captured", "acknowledged"}
Published(m) == \E s \in Captures : <<m, s>> \in board

(* What deliver() knows from its capture to its last statement.             *)
CaptureOK(e) ==
  Busy(e) =>
    /\ cap[e] # NoState => to[e] \in {"reply_captured", "capture_failed"}
    /\ to[e] = "reply_captured" /\ msg[cur[e]].ack => Evidence(cur[e], cap[e])
    /\ pc[e] = "ack" /\ to[e] = NoState /\ msg[cur[e]].ack => Evidence(cur[e], conf[cur[e]])
    /\ to[e] = "acknowledged" => msg[cur[e]].ack /\ Evidence(cur[e], conf[cur[e]])
    /\ pc[e] = "publish" =>
         \/ msg[cur[e]].ack /\ to[e] = "acknowledged"
         \/ msg[cur[e]].ack /\ to[e] = NoState /\ State(cur[e]) = "acknowledged"
         \/ ~msg[cur[e]].ack /\ to[e] = NoState /\ State(cur[e]) = "reply_captured"
    /\ Published(cur[e]) => pc[e] = "ensure" /\ to[e] = NoState

CapturedOK(m) ==
  /\ State(m) = "acknowledged" => Evidence(m, conf[m])
  /\ \A s \in Captures : <<m, s>> \in board => State(m) = s

CaptureInv ==
  /\ SoleInv
  /\ \A e \in Engines : CaptureOK(e)
  /\ \A m \in Messages : CapturedOK(m)

LEMMA CaptureInit == Init => CaptureInv
  BY SoleInit, ConstantsAssumption
     DEF Init, CaptureInv, CaptureOK, CapturedOK, Busy, State, DeliveryState

(* Replies and answers are never withdrawn.                                 *)
LEMMA EvidenceStays ==
  ASSUME [Next]_vars, NEW m, NEW c, Evidence(m, c)
  PROVE  Evidence(m, c)'
<1>1. replies \subseteq replies' /\ answered \subseteq answered'
  <2>1. ASSUME NEW e \in Engines, Own(e) PROVE UNCHANGED <<replies, answered>>
    <3>1. CASE Step(e)
      BY <3>1 DEF Step, tables, world, TransitionRead, TransitionWrite, EnsureDelivery,
         Preflight, Project, Lookup, RefreshBinding, StrictTurn, Gate, Prompt, RecordRoute,
         ObserveEffect, AfterActivity, WaitSettled, CaptureReply, Acknowledge, Publish
    <3>2. CASE Command(e) \/ Crash(e)
      BY <3>2 DEF Command, Send, Redeliver, Crash, tables, world
    <3>3. QED  BY <2>1, <3>1, <3>2 DEF Own
  <2>2. CASE Outside
    BY <2>2 DEF Outside, JournalReply, RecordReply, IssueLock, RevokeLock, Reconcile,
       BindAgent, RuntimeMoves, RuntimeReplaced, AgentAnswers, tables, world
  <2>3. CASE UNCHANGED vars  BY <2>3 DEF vars, tables, world
  <2>4. QED  BY <2>1, <2>2, <2>3, StepsOf
<1>2. QED  BY <1>1 DEF Evidence

LEMMA OtherCaptures ==
  ASSUME TypeOK, NEW e \in Engines, Own(e), NEW m \in Messages, m # cur[e]
  PROVE  conf'[m] = conf[m] /\ \A s \in Captures : <<m, s>> \in board' <=> <<m, s>> \in board
<1>1. CASE Project(e)
  BY <1>1 DEF Project, rows, Captures
<1>2. CASE Publish(e)
  BY <1>2 DEF Publish, rows, Captures
<1>3. CASE TransitionWrite(e)
  BY <1>3 DEF TransitionWrite, tables, TypeOK, TablesOK
<1>4. CASE Step(e) /\ ~Project(e) /\ ~Publish(e) /\ ~TransitionWrite(e)
  BY <1>4 DEF Step, rows, tables, TransitionRead, EnsureDelivery, Preflight, Lookup,
     RefreshBinding, StrictTurn, Gate, Prompt, RecordRoute, ObserveEffect, AfterActivity,
     WaitSettled, CaptureReply, Acknowledge
<1>5. CASE Command(e) \/ Crash(e)
  BY <1>5 DEF Command, Send, Redeliver, Crash, rows, tables
<1>6. QED  BY <1>1, <1>2, <1>3, <1>4, <1>5 DEF Own

LEMMA CaptureKept ==
  ASSUME SoleCaller, CaptureInv, Next, NEW e \in Engines, Own(e), NEW f \in Engines, f # e
  PROVE  CaptureOK(f)'
<1>1. SameLocals(f) /\ MsgKept
  BY OwnKeepsOthers, MessagesKept DEF OthersKept, CaptureInv, SoleInv, TypeOK
<1>2. CASE ~Busy(f)
  BY <1>1, <1>2 DEF SameLocals, CaptureOK, Busy
<1>3. CASE Busy(f)
  <2> DEFINE m == cur[f]
  <2>1. m \in Messages /\ m # cur[e] /\ msg[m] # NoMessage
    <3>1. CASE Busy(e)
      BY <1>3, <3>1, Apart DEF CaptureInv, SoleInv, TypeOK, LocalsOK
    <3>2. CASE ~Busy(e)
      BY <1>3, <3>2, ConstantsAssumption DEF CaptureInv, SoleInv, TypeOK, LocalsOK
    <3>3. QED  BY <3>1, <3>2
  <2>2. /\ conf'[m] = conf[m] /\ State(m)' = State(m) /\ msg'[m] = msg[m]
        /\ Published(m)' <=> Published(m)
    <3>1. TypeOK /\ cur'[f] = cur[f]  BY <1>1 DEF CaptureInv, SoleInv, SameLocals
    <3>2. msg'[m] = msg[m]  BY <1>1, <2>1 DEF MsgKept
    <3>3. delivery'[m] = delivery[m]  BY <2>1, <3>1, OtherMessages
    <3>4. State(m)' = State(m)  BY <3>1, <3>3 DEF State
    <3>5. /\ conf'[m] = conf[m]
          /\ \A s \in Captures : <<m, s>> \in board' <=> <<m, s>> \in board
      BY <2>1, <3>1, OtherCaptures
    <3>6. QED  BY <3>1, <3>2, <3>4, <3>5 DEF Published
  <2>3. CaptureOK(f)  BY DEF CaptureInv
  <2>4. \A c : Evidence(m, c) => Evidence(m, c)'
    BY EvidenceStays, <1>1 DEF SameLocals, Evidence
  <2>5. Evidence(m, cap[f]) => (Evidence(m, cap[f]))'
    BY <1>1, <2>4 DEF SameLocals, Evidence
  <2>6. Evidence(m, conf[m]) => (Evidence(m, conf[m]))'
    BY <1>1, <2>2, <2>4 DEF SameLocals, Evidence
  <2>7. QED
    BY <1>1, <1>3, <2>2, <2>3, <2>5, <2>6 DEF SameLocals, CaptureOK, Busy, Published, State
<1>4. QED  BY <1>2, <1>3

LEMMA MoveStart ==
  ASSUME CaptureInv, NEW e \in Engines, Step(e), Moves(e), NEW m \in Messages, m = cur[e]
  PROVE  /\ Busy(e) /\ to[e] = NoState /\ cap[e] = NoState /\ ~Published(m)
         /\ msg' = msg /\ conf' = conf /\ cur'[e] = m /\ State(m)' = State(m)
         /\ delivery' = delivery
         /\ Agrees(pc[e], State(m)) /\ (Published(m)' <=> Published(m))
         /\ CaptureOK(e) /\ Busy(e)'
<1>1. PICK k \in Labels \ {"idle", "ensure", "publish"} : At(e, k)
  BY FlowIsLegal, GotoKeepsRow DEF Moves, Persists, Goes, PersistFlow, GotoFlow, Labels
<1>2. Busy(e) /\ to[e] = NoState /\ pc[e] = k
  BY <1>1, ReadyType DEF CaptureInv, SoleInv
<1>3. CaptureOK(e) /\ PositionOK(e)
  BY DEF CaptureInv, SoleInv
<1>4. cap[e] = NoState /\ ~Published(m) /\ Agrees(pc[e], State(m))
  BY <1>2, <1>3, ConstantsAssumption DEF CaptureOK, PositionOK, DeliveryState
<1>5. cur' = cur /\ delivery' = delivery
  BY DEF Moves
<1>6. msg' = msg /\ conf' = conf
  BY <1>1 DEF Step, At, rows, tables, TransitionRead, TransitionWrite, EnsureDelivery, Preflight,
     Project, Lookup, RefreshBinding, StrictTurn, Gate, Prompt, RecordRoute, ObserveEffect,
     AfterActivity, WaitSettled, CaptureReply, Acknowledge, Publish
<1>7. board' = board \/ board' = board \cup {<<m, "journaled">>}
  <2>1. CASE Project(e)
    BY <2>1 DEF Project
  <2>2. CASE ~Project(e)
    BY <1>1, <2>2 DEF Step, At, tables, TransitionRead, TransitionWrite, EnsureDelivery,
       Preflight, Lookup, RefreshBinding, StrictTurn, Gate, Prompt, RecordRoute,
       ObserveEffect, AfterActivity, WaitSettled, CaptureReply, Acknowledge, Publish
  <2>3. QED  BY <2>1, <2>2
<1>8. Published(m)' <=> Published(m)
  BY <1>7 DEF Published, Captures
<1>9. Busy(e)'
  <2>1. CASE Persists(e)
    BY <2>1, ConstantsAssumption DEF Persists, PersistFlow, Persist, Busy,
       CaptureInv, SoleInv, TypeOK, EnginesOK, DeliveryState
  <2>2. CASE Goes(e)
    BY <2>2 DEF Goes, GotoFlow, Goto, Busy, CaptureInv, SoleInv, TypeOK, EnginesOK
  <2>3. QED  BY <2>1, <2>2 DEF Moves
<1>10. QED  BY <1>2, <1>3, <1>4, <1>5, <1>6, <1>8, <1>9 DEF State


(* Only the capturing steps touch the confidence to be written, and what    *)
(* they write for a message that wants an acknowledgement is evidence.      *)
LEMMA CapturedByMove ==
  ASSUME CaptureInv, NEW e \in Engines, Step(e), Moves(e), NEW m \in Messages, m = cur[e]
  PROVE  /\ cap'[e] # NoState => to'[e] \in {"reply_captured", "capture_failed"}
         /\ to'[e] = "reply_captured" /\ msg[m].ack => Evidence(m, cap'[e])
<1>1. Busy(e) /\ to[e] = NoState /\ cap[e] = NoState
  BY MoveStart
<1> USE DEF CaptureInv, SoleInv, TypeOK, EnginesOK
<1>2. CASE AfterActivity(e) \/ WaitSettled(e)
  <2>1. ASSUME cap' = cap, NEW s \in DeliveryState \ {"reply_captured"}, NEW l, Persist(e, s, l)
        PROVE  cap'[e] = NoState /\ to'[e] # "reply_captured"
    BY <1>1, <2>1 DEF Persist
  <2>2. ASSUME cap' = cap, Goto(e, "wait")
        PROVE  cap'[e] = NoState /\ to'[e] # "reply_captured"
    BY <1>1, <2>2, ConstantsAssumption DEF Goto, DeliveryState
  <2>3. ASSUME m \in replies, CaptureStructured(e)
        PROVE  to'[e] = "reply_captured" /\ Evidence(m, cap'[e])
    BY <2>3 DEF CaptureStructured, Persist, Evidence
  <2>4. {"blocked", "runtime_settled", "uncertain", "failed"} \subseteq DeliveryState \ {"reply_captured"}
    BY DEF DeliveryState
  <2>5. \/ cap' = cap /\ \E s \in {"blocked", "runtime_settled", "uncertain", "failed"}, l \in Labels :
             Persist(e, s, l)
        \/ cap' = cap /\ Goto(e, "wait")
        \/ m \in replies /\ CaptureStructured(e)
    BY <1>2 DEF AfterActivity, WaitSettled, Labels
  <2>6. QED  BY <2>1, <2>2, <2>3, <2>4, <2>5
<1>3. CASE CaptureReply(e)
  <2>1. CASE cap' = cap /\ Persist(e, "capture_failed", "idle")
    BY <1>1, <2>1 DEF Persist
  <2>2. ASSUME NEW c \in Found(m), cap' = [cap EXCEPT ![e] = c],
               IF c = "none" \/ (msg[m].ack /\ ~Acceptable(c))
               THEN Persist(e, "capture_failed", "idle")
               ELSE Persist(e, "reply_captured", "ack")
        PROVE  /\ to'[e] \in {"reply_captured", "capture_failed"}
               /\ to'[e] = "reply_captured" /\ msg[m].ack => Evidence(m, cap'[e])
    <3>1. cap'[e] = c  BY <2>2
    <3>2. CASE c = "none" \/ (msg[m].ack /\ ~Acceptable(c))
      BY <2>2, <3>2 DEF Persist
    <3>3. CASE ~(c = "none" \/ (msg[m].ack /\ ~Acceptable(c)))
      <4>1. to'[e] = "reply_captured"  BY <2>2, <3>3 DEF Persist
      <4>2. msg[m].ack => Evidence(m, c)
        BY <2>2, <3>3 DEF Found, Acceptable, Evidence
      <4>3. QED  BY <3>1, <4>1, <4>2
    <3>4. QED  BY <3>2, <3>3
  <2>3. QED  BY <1>3, <2>1, <2>2 DEF CaptureReply
<1>4. CASE ~AfterActivity(e) /\ ~WaitSettled(e) /\ ~CaptureReply(e)
  <2>1. pc[e] \notin {"active", "wait", "capture"} /\ cap' = cap
    BY <1>1, <1>4 DEF Step, At, TransitionRead, TransitionWrite, EnsureDelivery, Preflight,
       Project, Lookup, RefreshBinding, StrictTurn, Gate, Prompt, RecordRoute, ObserveEffect,
       Acknowledge, Publish, Moves, Persists, Goes, PersistFlow, GotoFlow
  <2>2. to'[e] # "reply_captured"
    <3>1. CASE Persists(e)
      BY <2>1, <3>1 DEF Persists, PersistFlow, Persist, At
    <3>2. CASE Goes(e)
      BY <1>1, <3>2, ConstantsAssumption DEF Goes, Goto, DeliveryState
    <3>3. QED  BY <3>1, <3>2 DEF Moves
  <2>3. QED  BY <1>1, <2>1, <2>2
<1>5. QED  BY <1>2, <1>3, <1>4

LEMMA CaptureAfterMove ==
  ASSUME CaptureInv, NEW e \in Engines, Step(e), Moves(e), [Next]_vars,
         NEW m \in Messages, m = cur[e]
  PROVE  CaptureOK(e)'
<1>1. /\ to[e] = NoState /\ ~Published(m) /\ msg' = msg /\ conf' = conf /\ cur'[e] = m
      /\ State(m)' = State(m) /\ Agrees(pc[e], State(m)) /\ ~Published(m)' /\ CaptureOK(e) /\ Busy(e)
  BY MoveStart
<1>2. /\ cap'[e] # NoState => to'[e] \in {"reply_captured", "capture_failed"}
      /\ to'[e] = "reply_captured" /\ msg[m].ack => Evidence(m, cap'[e])
  BY CapturedByMove
<1>3. \A c : Evidence(m, c) => Evidence(m, c)'
  BY EvidenceStays DEF Evidence
<1>4. CASE Acknowledge(e)
  <2>1. pc[e] = "ack" /\ State(m) = "reply_captured"
    BY <1>1, <1>4 DEF Acknowledge, At, Agrees
  <2>2. CASE msg[m].ack
    <3>1. pc'[e] = "publish" /\ to'[e] = "acknowledged" /\ Evidence(m, conf[m])
      BY <1>1, <1>4, <2>1, <2>2 DEF Acknowledge, Persist, CaptureOK, CaptureInv, SoleInv, TypeOK, EnginesOK
    <3>2. (Evidence(m, conf[m]))'  BY <1>1, <1>3, <3>1 DEF Evidence
    <3>3. cap'[e] = NoState  BY <1>2, <3>1
    <3>4. QED  BY <1>1, <2>2, <3>1, <3>2, <3>3 DEF CaptureOK, Published, Evidence
  <2>3. CASE ~msg[m].ack
    <3>1. pc'[e] = "publish" /\ to'[e] = NoState
      BY <1>1, <1>4, <2>3 DEF Acknowledge, Goto, CaptureInv, SoleInv, TypeOK, EnginesOK
    <3>2. NoState \notin {"reply_captured", "capture_failed", "acknowledged"}
      BY ConstantsAssumption DEF DeliveryState
    <3>3. QED  BY <1>1, <1>2, <2>1, <2>3, <3>1, <3>2 DEF CaptureOK, Published, State
  <2>4. QED  BY <2>2, <2>3
<1>5. CASE ~Acknowledge(e)
  <2>1. pc[e] # "ack"
    BY <1>1, <1>5 DEF Step, At, TransitionRead, TransitionWrite, EnsureDelivery, Preflight,
       Project, Lookup, RefreshBinding, StrictTurn, Gate, Prompt, RecordRoute, ObserveEffect,
       AfterActivity, WaitSettled, CaptureReply, Publish, Moves, Persists, Goes, PersistFlow, GotoFlow
  <2>2. /\ to'[e] # "acknowledged" /\ pc'[e] # "publish" /\ (pc'[e] = "ack" => to'[e] # NoState)
    <3>1. CASE Persists(e)
      BY <2>1, <3>1, ConstantsAssumption DEF Persists, PersistFlow, Persist, At, CaptureInv, SoleInv, TypeOK, EnginesOK, DeliveryState
    <3>2. CASE Goes(e)
      BY <1>1, <2>1, <3>2, ConstantsAssumption DEF Goes, GotoFlow, Goto, At, CaptureInv, SoleInv, TypeOK, EnginesOK, DeliveryState
    <3>3. QED  BY <3>1, <3>2 DEF Moves
  <2>3. Evidence(m, cap'[e]) => (Evidence(m, cap[e]))'
    BY <1>1, <1>3 DEF Evidence
  <2>4. QED  BY <1>1, <1>2, <2>2, <2>3 DEF CaptureOK, Published, Evidence
<1>6. QED  BY <1>4, <1>5

LEMMA CaptureAfterOther ==
  ASSUME CaptureInv, NEW e \in Engines, [Next]_vars,
         TransitionRead(e) \/ EnsureDelivery(e) \/ Publish(e) \/ Command(e) \/ Crash(e)
  PROVE  CaptureOK(e)' /\ conf' = conf
<1>1. conf' = conf
  BY DEF TransitionRead, EnsureDelivery, Publish, Command, Send, Redeliver, Crash, rows
<1>2. CASE Forget(e)
  BY <1>1, <1>2 DEF Forget, CaptureOK, Busy, CaptureInv, SoleInv, TypeOK, EnginesOK
<1>3. CASE TransitionRead(e) /\ ~Forget(e)
  <2>1. /\ UNCHANGED <<pc, cur, to, live, cap, msg, delivery, board>> /\ Busy(e) /\ CaptureOK(e)
    BY <1>3 DEF TransitionRead, rows, tables, Busy, CaptureInv
  <2>2. \A m, c : Evidence(m, c) => Evidence(m, c)'
    BY EvidenceStays
  <2>3. QED  BY <1>1, <2>1, <2>2 DEF CaptureOK, Busy, Published, State, Evidence
<1>4. CASE EnsureDelivery(e) /\ ~Forget(e)
  <2>1. Busy(e) /\ cur[e] \in Messages /\ to[e] = NoState /\ pc[e] = "ensure"
    BY <1>4, ReadyType DEF EnsureDelivery, Labels, CaptureInv, SoleInv
  <2>2. /\ pc'[e] = "preflight" /\ to'[e] = NoState /\ cap' = cap /\ cur' = cur /\ board' = board
        /\ State(cur[e]) \in {"journaled", NoState}
    BY <1>4, <2>1 DEF EnsureDelivery, Goto, State, tables, CaptureInv, SoleInv, TypeOK, EnginesOK
  <2>3. NoState \notin {"reply_captured", "capture_failed", "acknowledged"}
    BY ConstantsAssumption DEF DeliveryState
  <2>4. ~Published(cur[e]) /\ cap[e] = NoState
    BY <2>1, <2>2, <2>3 DEF Published, Captures, CapturedOK, CaptureOK, CaptureInv
  <2>5. QED  BY <1>1, <2>1, <2>2, <2>3, <2>4 DEF CaptureOK, Published
<1>5. CASE Command(e)
  <2>1. PICK m \in Messages : Call(e, m) /\ cap' = cap
    BY <1>5 DEF Command, Send, Redeliver
  <2>2. pc'[e] = "ensure" /\ to'[e] = NoState /\ cur'[e] = m /\ cap'[e] = NoState
    BY <2>1 DEF Call, At, Goto, Busy, LocalsOK, CaptureInv, SoleInv, TypeOK, EnginesOK
  <2>3. NoState \notin {"reply_captured", "capture_failed", "acknowledged"}
    BY ConstantsAssumption DEF DeliveryState
  <2>4. QED  BY <1>1, <2>2, <2>3 DEF CaptureOK
<1>6. QED  BY <1>2, <1>3, <1>4, <1>5 DEF Publish, Crash

LEMMA CaptureAfterWrite ==
  ASSUME CaptureInv, NEW e \in Engines, [Next]_vars, TransitionWrite(e), NEW m \in Messages, m = cur[e]
  PROVE  CaptureOK(e)' /\ CapturedOK(m)'
<1>1. /\ to[e] # NoState /\ Busy(e) /\ CaptureOK(e) /\ PositionOK(e) /\ State(m)' = to[e]
      /\ board' = board /\ msg' = msg /\ answered' = answered /\ replies' = replies
  BY PositionAfterWrite DEF TransitionWrite, Busy, CaptureInv, SoleInv, tables, world
<1>2. conf'[m] = IF cap[e] = NoState THEN conf[m] ELSE cap[e]
  BY DEF TransitionWrite, CaptureInv, SoleInv, TypeOK, TablesOK
<1>3. ~Published(m)'
  BY <1>1 DEF CaptureOK, Published
<1>4. \A c : Evidence(m, c)' <=> Evidence(m, c)
  BY <1>1 DEF Evidence
<1>5. to[e] = "acknowledged" => Evidence(m, conf'[m])
  BY <1>1, <1>2 DEF CaptureOK
<1>6. to[e] = "reply_captured" /\ msg[m].ack => Evidence(m, conf'[m])
  <2>1. ~Evidence(m, NoState)
    BY ConstantsAssumption DEF Evidence, Confidence
  <2>2. QED  BY <1>1, <1>2, <2>1 DEF CaptureOK
<1>7. CapturedOK(m)'
  BY <1>1, <1>3, <1>4, <1>5 DEF CapturedOK, Published, Evidence
<1>8. CASE Forget(e)
  BY <1>7, <1>8 DEF Forget, CaptureOK, Busy, CaptureInv, SoleInv, TypeOK, EnginesOK
<1>9. CASE ~Forget(e)
  <2>1. /\ pc' = pc /\ cur'[e] = m /\ to'[e] = NoState /\ cap'[e] = NoState
    BY <1>9 DEF TransitionWrite, CaptureInv, SoleInv, TypeOK, EnginesOK
  <2>2. NoState \notin {"reply_captured", "capture_failed", "acknowledged"}
    BY ConstantsAssumption DEF DeliveryState
  <2>3. pc[e] = "ack" => to[e] = "reply_captured"
    BY <1>1 DEF PositionOK, Agrees
  <2>4. pc[e] = "ack" /\ msg[m].ack => (Evidence(m, conf[m]))'
    BY <1>4, <1>6, <2>3 DEF Evidence
  <2>5. pc[e] = "publish" => msg[m].ack /\ to[e] = "acknowledged"
    BY <1>1 DEF CaptureOK
  <2>6. QED
    BY <1>1, <1>3, <1>7, <2>1, <2>2, <2>4, <2>5 DEF CaptureOK, Published, Evidence, State
<1>10. QED  BY <1>7, <1>8, <1>9

LEMMA CapturedAfterOwn ==
  ASSUME CaptureInv, [Next]_vars, NEW e \in Engines, Own(e), NEW m \in Messages
  PROVE  CapturedOK(m)'
<1>0. CapturedOK(m) /\ \A c : Evidence(m, c) => Evidence(m, c)'
  BY EvidenceStays DEF CaptureInv
<1>1. ASSUME State(m)' = State(m), conf'[m] = conf[m],
             \A s \in Captures : <<m, s>> \in board' => <<m, s>> \in board \/ s = State(m)
      PROVE  CapturedOK(m)'
  <2>1. Evidence(m, conf[m]) => (Evidence(m, conf[m]))'
    BY <1>0, <1>1 DEF Evidence
  <2>2. QED  BY <1>0, <1>1, <2>1 DEF CapturedOK
<1>2. CASE m # cur[e]
  BY <1>1, <1>2, OtherMessages, OtherCaptures DEF CaptureInv, SoleInv
<1>3. CASE m = cur[e] /\ Moves(e) /\ Step(e)
  <2>1. State(m)' = State(m) /\ conf' = conf /\ ~Published(m)'
    BY <1>3, MoveStart
  <2>2. QED  BY <1>1, <2>1 DEF Published
<1>4. CASE m = cur[e] /\ TransitionWrite(e)
  BY <1>4, CaptureAfterWrite
<1>5. CASE TransitionRead(e) \/ Command(e) \/ Crash(e)
  <2>1. UNCHANGED <<delivery, conf, board>>
    BY <1>5 DEF TransitionRead, Command, Send, Redeliver, Crash, rows, tables
  <2>2. QED  BY <1>1, <2>1 DEF State
<1>6. CASE m = cur[e] /\ EnsureDelivery(e)
  <2>1. UNCHANGED <<conf, board>>
    BY <1>6 DEF EnsureDelivery, tables
  <2>2. CASE State(m)' = State(m)
    BY <1>1, <2>1, <2>2
  <2>3. CASE State(m) = NoState /\ State(m)' = "journaled"
    <3>1. ~Published(m)
      BY <1>0, <2>3, ConstantsAssumption DEF CapturedOK, Published, Captures, DeliveryState
    <3>2. QED  BY <2>1, <2>3, <3>1 DEF CapturedOK, Published
  <2>4. QED  BY <1>6, <2>2, <2>3, PositionAfterOpen DEF CaptureInv
<1>7. CASE m = cur[e] /\ Publish(e)
  <2>1. UNCHANGED <<delivery, conf>> /\ Busy(e) /\ pc[e] = "publish" /\ to[e] = NoState
    BY <1>7 DEF Publish, At, Busy, rows
  <2>2. board' = board \cup {<<m, IF msg[m].ack THEN "acknowledged" ELSE "reply_captured">>}
    BY <1>7 DEF Publish
  <2>3. NoState # "acknowledged"  BY ConstantsAssumption DEF DeliveryState
  <2>4. State(m) = IF msg[m].ack THEN "acknowledged" ELSE "reply_captured"
    BY <1>7, <2>1, <2>3 DEF CaptureInv, CaptureOK
  <2>5. State(m)' = State(m)  BY <2>1 DEF State
  <2>6. QED  BY <1>1, <2>1, <2>2, <2>4, <2>5
<1>8. QED  BY <1>2, <1>3, <1>4, <1>5, <1>6, <1>7, FollowsFlow DEF Own, CaptureInv, SoleInv

LEMMA CaptureStep ==
  ASSUME SoleCaller, CaptureInv, [Next]_vars
  PROVE  CaptureInv'
<1>1. SoleInv'  BY SoleStep DEF CaptureInv
<1>2. ASSUME NEW e \in Engines, Own(e) PROVE CaptureInv'
  <2>1. CaptureOK(e)'
    <3>1. CASE (Moves(e) /\ Step(e)) \/ TransitionWrite(e)
      <4>1. cur[e] \in Messages
        BY <3>1, HeldMessage DEF Moves, Persists, Goes, PersistFlow, GotoFlow, At, Busy,
           TransitionWrite, CaptureInv, SoleInv
      <4>2. QED  BY <3>1, <4>1, CaptureAfterMove, CaptureAfterWrite
    <3>2. QED  BY <1>2, <3>1, CaptureAfterOther, FollowsFlow DEF Own, CaptureInv, SoleInv
  <2>2. Next  BY <1>2, StepsOf
  <2>3. \A f \in Engines : CaptureOK(f)'
    BY <1>2, <2>1, <2>2, CaptureKept
  <2>4. QED  BY <1>1, <1>2, <2>3, CapturedAfterOwn DEF CaptureInv
<1>3. CASE Outside \/ UNCHANGED vars
  <2>1. /\ UNCHANGED <<pc, cur, to, cap, delivery, conf, board>> /\ MsgKept
    BY <1>3, OutsideKeepsEngines, MessagesKept, StepsOf
       DEF vars, engine, rows, tables, MsgKept, CaptureInv, SoleInv
  <2>2. \A m, c : Evidence(m, c) => Evidence(m, c)'
    BY EvidenceStays
  <2>3. ASSUME NEW m \in Messages PROVE CapturedOK(m)'
    <3>1. Evidence(m, conf[m]) => (Evidence(m, conf[m]))'  BY <2>1, <2>2 DEF Evidence
    <3>2. QED  BY <2>1, <3>1 DEF CaptureInv, CapturedOK, State
  <2>4. ASSUME NEW e \in Engines PROVE CaptureOK(e)'
    <3>1. CASE ~Busy(e)  BY <2>1, <3>1 DEF CaptureOK, Busy
    <3>2. CASE Busy(e)
      <4>1. cur[e] \in Messages /\ msg'[cur[e]] = msg[cur[e]]
        BY <2>1, <3>2 DEF MsgKept, CaptureInv, SoleInv, TypeOK, LocalsOK
      <4>2. Evidence(cur[e], cap[e]) => (Evidence(cur[e], cap[e]))'
        BY <2>1, <2>2 DEF Evidence
      <4>3. Evidence(cur[e], conf[cur[e]]) => (Evidence(cur[e], conf[cur[e]]))'
        BY <2>1, <2>2 DEF Evidence
      <4>4. CaptureOK(e)  BY DEF CaptureInv
      <4>5. QED  BY <2>1, <3>2, <4>1, <4>2, <4>3, <4>4 DEF CaptureOK, Published, State
    <3>3. QED  BY <3>1, <3>2
  <2>5. QED  BY <1>1, <2>3, <2>4 DEF CaptureInv
<1>4. QED  BY <1>2, <1>3, StepsOf

(* AcknowledgedWithEvidence: AckHasEvidence.                                *)
THEOREM AcknowledgedWithEvidence == SoleCaller => (Spec => []AckHasEvidence)
<1> SUFFICES ASSUME SoleCaller PROVE Spec => []AckHasEvidence
  OBVIOUS
<1>1. CaptureInv /\ [Next]_vars => CaptureInv'  BY CaptureStep
<1>2. CaptureInv => AckHasEvidence  BY DEF CaptureInv, CapturedOK, AckHasEvidence
<1>3. QED  BY CaptureInit, <1>1, <1>2, PTL DEF Spec

(* BoardFollowsJournal: BoardAgrees.                                        *)
THEOREM BoardFollowsJournal == SoleCaller => (Spec => []BoardAgrees)
<1> SUFFICES ASSUME SoleCaller PROVE Spec => []BoardAgrees
  OBVIOUS
<1>1. CaptureInv /\ [Next]_vars => CaptureInv'  BY CaptureStep
<1>2. CaptureInv => BoardAgrees  BY DEF CaptureInv, CapturedOK, BoardAgrees, Captures
<1>3. QED  BY CaptureInit, <1>1, <1>2, PTL DEF Spec

-----------------------------------------------------------------------------
(* What deliver() leaves behind, when no process crashes.                   *)

(* NoDeliveryLeft: deliver() returns only from a row that rests: a delivery *)
(* that was begun rests, or some engine is still at it (core.deliver: every *)
(* return follows a transition to a terminal state, or finds one).          *)
InHand(m) == \E e \in Engines : Busy(e) /\ cur[e] = m
RestsOrInHand(m) == delivery[m] # << >> => State(m) \in Resting \/ InHand(m)
NoDeliveryLeft == \A m \in Messages : RestsOrInHand(m)

(* deliver() asks for no transition before its return but one to rest, and  *)
(* what it is called with has no row, or one at rest.                       *)
ReturnOK(e) ==
  /\ pc[e] = "idle" /\ to[e] # NoState => to[e] \in Resting
  /\ pc[e] = "ensure" => to[e] = NoState /\ State(cur[e]) \in Resting \cup {NoState}

RestInv == SoleInv /\ (\A e \in Engines : ReturnOK(e)) /\ NoDeliveryLeft

LEMMA RestInit == Init => RestInv
  BY SoleInit, ConstantsAssumption
  DEF Init, RestInv, ReturnOK, NoDeliveryLeft, RestsOrInHand

(* No engine holds a message another one is called with.                    *)
LEMMA FreeWhenCalled ==
  ASSUME SoleCaller, RestInv, NEW e \in Engines, ~Busy(e), NEW m \in Messages,
         <<e, m>> \in Callers
  PROVE  State(m) \in Resting \cup {NoState}
<1>1. ~InHand(m)
  BY DEF InHand, RestInv, SoleInv, PositionOK, SoleCaller
<1>2. QED  BY <1>1 DEF RestInv, NoDeliveryLeft, RestsOrInHand, State

LEMMA ReturnAfterOwn ==
  ASSUME SoleCaller, RestInv, NEW e \in Engines, Own(e)
  PROVE  ReturnOK(e)'
<1> USE DEF RestInv, SoleInv
<1>1. ReturnOK(e) /\ EnginesOK  BY DEF TypeOK
<1>2. ASSUME NEW k, NEW s, NEW l, <<k, s, l>> \in PersistFlow, Persist(e, s, l)
      PROVE  ReturnOK(e)'
  <2>1. pc'[e] = l /\ to'[e] = s
    BY <1>1, <1>2 DEF Persist, EnginesOK
  <2>2. l # "ensure" /\ (l = "idle" => s \in Resting)
    BY <1>2 DEF PersistFlow, Resting
  <2>3. QED  BY <2>1, <2>2 DEF ReturnOK
<1>3. ASSUME NEW k, NEW l, <<k, l>> \in GotoFlow, Goto(e, l)
      PROVE  ReturnOK(e)'
  <2>1. pc'[e] = l /\ l \notin {"idle", "ensure"}
    BY <1>1, <1>3 DEF Goto, EnginesOK, GotoFlow
  <2>2. QED  BY <2>1 DEF ReturnOK
<1>4. CASE Moves(e)
  BY <1>2, <1>3, <1>4 DEF Moves, Persists, Goes
<1>5. CASE TransitionRead(e)
  <2>1. pc[e] # "ensure"  BY <1>1, <1>5 DEF ReturnOK, TransitionRead
  <2>2. LegalStep(State(cur[e]), to[e])
    BY <1>5 DEF PositionOK, TransitionRead, Busy
  <2>3. pc' = pc /\ to' = to  BY <1>5, <2>2 DEF TransitionRead
  <2>4. QED  BY <1>1, <2>1, <2>3 DEF ReturnOK
<1>6. CASE TransitionWrite(e)
  <2>1. pc[e] # "ensure" /\ to'[e] = NoState /\ pc'[e] = pc[e]
    BY <1>1, <1>6 DEF ReturnOK, TransitionWrite, Forget, EnginesOK
  <2>2. QED  BY <2>1 DEF ReturnOK
<1>7. CASE EnsureDelivery(e)
  <2>1. to'[e] = NoState /\ pc'[e] \in {"idle", "preflight"}
    BY <1>1, <1>7 DEF EnsureDelivery, At, Goto, Forget, EnginesOK
  <2>2. QED  BY <2>1 DEF ReturnOK
<1>8. CASE Publish(e) \/ Crash(e)
  <2>1. to'[e] = NoState /\ pc'[e] = "idle"
    BY <1>1, <1>8 DEF Publish, Crash, Forget, EnginesOK
  <2>2. QED  BY <2>1 DEF ReturnOK
<1>9. CASE Command(e)
  <2>1. PICK m \in Messages : Call(e, m) /\ delivery' = delivery
    BY <1>9 DEF Command, Send, Redeliver, rows
  <2>2. ~Busy(e) /\ <<e, m>> \in Callers /\ cur'[e] = m /\ to'[e] = NoState
    BY <1>1, <2>1 DEF Call, At, Goto, Busy, EnginesOK
  <2>3. State(m)' \in Resting \cup {NoState}
    BY <2>1, <2>2, FreeWhenCalled DEF State
  <2>4. State(cur[e])' = State(m)'
    BY <2>2 DEF State
  <2>5. pc'[e] = "ensure"
    BY <1>1, <2>1 DEF Call, Goto, EnginesOK
  <2>6. QED  BY <2>2, <2>3, <2>4, <2>5 DEF ReturnOK
<1>10. QED
  BY <1>4, <1>5, <1>6, <1>7, <1>8, <1>9, FollowsFlow DEF Own

LEMMA ReturnKept ==
  ASSUME SoleCaller, RestInv, NEW e \in Engines, Own(e), NEW f \in Engines, f # e
  PROVE  ReturnOK(f)'
<1>1. ReturnOK(f) /\ SameLocals(f)
  BY OwnKeepsOthers DEF OthersKept, RestInv, SoleInv, TypeOK
<1>2. ASSUME pc[f] = "ensure" PROVE State(cur[f])' = State(cur[f])
  <2>1. Busy(f) /\ cur[f] \in Messages
    BY <1>2 DEF Busy, RestInv, SoleInv, TypeOK, LocalsOK
  <2>2. cur[f] # cur[e]
    <3>1. CASE Busy(e)
      BY <2>1, <3>1, Apart DEF RestInv, SoleInv
    <3>2. CASE ~Busy(e)
      BY <2>1, <3>2, ConstantsAssumption DEF RestInv, SoleInv, TypeOK, LocalsOK
    <3>3. QED  BY <3>1, <3>2
  <2>3. delivery'[cur[f]] = delivery[cur[f]]
    BY <2>1, <2>2, OtherMessages DEF RestInv, SoleInv
  <2>4. QED  BY <1>1, <2>3 DEF SameLocals, State
<1>3. QED  BY <1>1, <1>2 DEF ReturnOK, SameLocals

LEMMA RestsAfterOwn ==
  ASSUME SoleCaller, ~MayCrash, RestInv, NEW e \in Engines, Own(e), NEW m \in Messages
  PROVE  RestsOrInHand(m)'
<1> USE DEF RestInv, SoleInv
<1>0. ReturnOK(e) /\ EnginesOK /\ RestsOrInHand(m)  BY DEF TypeOK, NoDeliveryLeft
<1>1. CASE m # cur[e]
  <2>1. delivery'[m] = delivery[m] /\ State(m)' = State(m)
    BY <1>1, OtherMessages
  <2>2. ASSUME NEW f \in Engines, Busy(f), cur[f] = m PROVE Busy(f)' /\ cur'[f] = m
    BY <1>1, <2>2, OwnKeepsOthers DEF OthersKept, SameLocals, Busy, TypeOK
  <2>3. QED  BY <1>0, <2>1, <2>2 DEF RestsOrInHand, InHand
<1>2. CASE m = cur[e]
  <2>1. Busy(e)
    BY <1>2, ConstantsAssumption DEF TypeOK, LocalsOK
  <2>2. SUFFICES (Busy(e)' /\ cur'[e] = m) \/ State(m)' \in Resting
    BY DEF RestsOrInHand, InHand
  <2>3. CASE Moves(e)
    <3>1. ASSUME NEW k, NEW s, NEW l, <<k, s, l>> \in PersistFlow, Persist(e, s, l)
          PROVE  Busy(e)'
      <4>1. s # NoState  BY <3>1, ConstantsAssumption DEF PersistFlow, DeliveryState
      <4>2. QED  BY <1>0, <3>1, <4>1 DEF Persist, Busy, EnginesOK
    <3>2. ASSUME NEW k, NEW l, <<k, l>> \in GotoFlow, Goto(e, l)
          PROVE  Busy(e)'
      BY <1>0, <3>2 DEF Goto, GotoFlow, Busy, EnginesOK
    <3>3. QED  BY <1>2, <2>3, <3>1, <3>2 DEF Moves, Persists, Goes
  <2>4. CASE TransitionRead(e)
    <3>1. LegalStep(State(cur[e]), to[e])
      BY <2>1, <2>4 DEF PositionOK, TransitionRead
    <3>2. QED  BY <1>2, <2>1, <2>4, <3>1 DEF TransitionRead, Busy
  <2>5. CASE TransitionWrite(e)
    <3>1. State(m)' = to[e]  BY <1>2, <2>5, PositionAfterWrite
    <3>2. CASE pc[e] = "idle"
      BY <1>0, <2>5, <3>1, <3>2 DEF ReturnOK, TransitionWrite
    <3>3. CASE pc[e] # "idle"
      BY <1>2, <2>5, <3>3 DEF TransitionWrite, Busy
    <3>4. QED  BY <3>2, <3>3
  <2>6. CASE EnsureDelivery(e)
    <3>1. CASE Goto(e, "preflight") /\ cur' = cur
      BY <1>0, <1>2, <3>1 DEF Goto, Busy, EnginesOK
    <3>2. CASE State(m) \notin {"journaled", NoState} /\ delivery' = delivery
      BY <1>0, <1>2, <2>6, <3>2 DEF EnsureDelivery, At, ReturnOK, State
    <3>3. QED  BY <1>2, <2>6, <3>1, <3>2 DEF EnsureDelivery
  <2>7. CASE Publish(e)
    <3>1. State(m) \in Resting
      BY <1>2, <2>1, <2>7 DEF Publish, At, PositionOK, Agrees, Resting
    <3>2. QED  BY <2>7, <3>1 DEF Publish, State, rows
  <2>8. ~Command(e) /\ ~Crash(e)
    BY <2>1 DEF Command, Send, Redeliver, Call, At, Crash, Busy
  <2>9. QED  BY <2>3, <2>4, <2>5, <2>6, <2>7, <2>8, FollowsFlow DEF Own
<1>3. QED  BY <1>1, <1>2

LEMMA RestStep ==
  ASSUME SoleCaller, ~MayCrash, RestInv, [Next]_vars
  PROVE  RestInv'
<1>1. SoleInv'  BY SoleStep DEF RestInv
<1>2. ASSUME NEW e \in Engines, Own(e) PROVE RestInv'
  BY <1>1, <1>2, ReturnAfterOwn, ReturnKept, RestsAfterOwn DEF RestInv, NoDeliveryLeft
<1>3. CASE Outside \/ UNCHANGED vars
  <2>1. UNCHANGED <<engine, rows>>
    BY <1>3, OutsideKeepsEngines DEF vars
  <2>2. (\A e \in Engines : ReturnOK(e))' /\ NoDeliveryLeft'
    BY <2>1 DEF RestInv, ReturnOK, NoDeliveryLeft, RestsOrInHand, InHand, Busy, State, engine, rows
  <2>3. QED  BY <1>1, <2>2 DEF RestInv
<1>4. QED  BY <1>2, <1>3, StepsOf

(* NothingLeft: NoDeliveryLeft, for any number of messages, engines and     *)
(* calls, where no process crashes.                                         *)
THEOREM NothingLeft == SoleCaller /\ ~MayCrash => (Spec => []NoDeliveryLeft)
<1> SUFFICES ASSUME SoleCaller, ~MayCrash PROVE Spec => []NoDeliveryLeft
  OBVIOUS
<1>1. RestInv /\ [Next]_vars => RestInv'  BY RestStep
<1>2. RestInv => NoDeliveryLeft  BY DEF RestInv
<1>3. QED  BY RestInit, <1>1, <1>2, PTL DEF Spec

-----------------------------------------------------------------------------
(* deliver() comes to an end.  Every step it takes brings it closer to its  *)
(* return, whatever other engines, commands and Herdr do in between: there  *)
(* is no loop in it but the wait for earlier work, which is left at once.   *)

Distance ==
  [idle |-> 0, publish |-> 1, ack |-> 2, capture |-> 3, wait |-> 4, active |-> 5,
   observe |-> 6, route |-> 7, prompt |-> 8, gate |-> 9, strict |-> 10, refresh |-> 11,
   lookup |-> 12, board |-> 13, preflight |-> 14, ensure |-> 15]

(* What is left of the statement at a label: the two halves of a transition *)
(* under way, or a second look at a target found working.                   *)
Pending(e) ==
  IF to[e] # NoState THEN IF seen[e] = << >> THEN 3 ELSE 2
  ELSE IF pc[e] = "strict" /\ live[e].status = "working" THEN 1 ELSE 0

Rank(e) == 4 * Distance[pc[e]] + Pending(e)

(* DeliverEnds: each step of deliver() lowers the engine's rank, a step of  *)
(* anyone else never raises it, and only a call raises it from the rank of  *)
(* an engine at rest: deliver() returns after at most 63 steps of its own.  *)
RankOK == \A e \in Engines : Rank(e) \in 0 .. 63 /\ (Rank(e) = 0 <=> ~Busy(e))
RankFalls ==
  [][\A e \in Engines : /\ Step(e) => Rank(e)' < Rank(e)
                        /\ Rank(e)' > Rank(e) => ~Busy(e) /\ Command(e)]_vars
DeliverEnds == []RankOK /\ RankFalls

LEMMA DistanceType == Distance \in [Labels -> 0 .. 15]
  BY DEF Distance, Labels

LEMMA PersistShortens ==
  ASSUME NEW k, NEW s, NEW l, <<k, s, l>> \in PersistFlow
  PROVE  /\ k \in Labels \ {"idle"} /\ l \in Labels /\ s \in DeliveryState
         /\ Distance[l] < Distance[k]
  BY DEF PersistFlow, Labels, Distance, DeliveryState

LEMMA GotoShortens ==
  ASSUME NEW k, NEW l, <<k, l>> \in GotoFlow
  PROVE  /\ k \in Labels \ {"idle"} /\ l \in Labels
         /\ k # l => Distance[l] < Distance[k]
         /\ k = l => k = "strict"
  BY DEF GotoFlow, Labels, Distance

LEMMA RankType ==
  ASSUME TypeOK PROVE RankOK
<1> SUFFICES ASSUME NEW e \in Engines
             PROVE  Rank(e) \in 0 .. 63 /\ (Rank(e) = 0 <=> ~Busy(e))
  BY DEF RankOK
<1>1. pc[e] \in Labels /\ Pending(e) \in 0 .. 3 /\ Distance[pc[e]] \in 0 .. 15
  BY DistanceType DEF TypeOK, EnginesOK, Pending
<1>2. Distance[pc[e]] = 0 <=> pc[e] = "idle"
  BY <1>1 DEF Labels, Distance
<1>3. pc[e] = "idle" => (Pending(e) = 0 <=> to[e] = NoState)
  BY DEF Pending
<1>4. QED  BY <1>1, <1>2, <1>3 DEF Rank, Busy

(* An engine with nothing left has rank zero.                               *)
LEMMA ForgottenRank ==
  ASSUME TypeOK, NEW e \in Engines, Forget(e), Rank(e) # 0
  PROVE  Rank(e)' < Rank(e)
<1>1. ~Busy(e)' /\ TypeOK => Rank(e) \in Nat
  BY RankType DEF RankOK
<1>2. pc'[e] = "idle" /\ to'[e] = NoState
  BY DEF Forget, TypeOK, EnginesOK
<1>3. Rank(e)' = 0
  BY <1>2 DEF Rank, Pending, Distance, Labels
<1>4. Rank(e) \in 0 .. 63  BY RankType DEF RankOK
<1>5. QED  BY <1>3, <1>4

LEMMA StepLowersRank ==
  ASSUME TypeOK, NEW e \in Engines, Step(e)
  PROVE  Rank(e)' < Rank(e)
<1>1. /\ EnginesOK /\ LocalsOK(e) /\ Rank(e) \in 0 .. 63 /\ (Rank(e) = 0 <=> ~Busy(e))
      /\ pc[e] \in Labels /\ Distance[pc[e]] \in 0 .. 15
  BY RankType, DistanceType DEF TypeOK, RankOK, EnginesOK
<1>2. ASSUME NEW k, NEW s, NEW l, <<k, s, l>> \in PersistFlow, At(e, k), Persist(e, s, l)
      PROVE  Rank(e)' < Rank(e)
  <2>1. pc[e] = k /\ to[e] = NoState /\ pc'[e] = l
    BY <1>1, <1>2 DEF At, Persist, EnginesOK
  <2>2. Distance[l] \in 0 .. 15 /\ Distance[k] \in 0 .. 15 /\ Distance[l] < Distance[k]
    BY <1>2, PersistShortens, DistanceType
  <2>3. Pending(e)' \in 0 .. 3 /\ Pending(e) \in 0 .. 3
    BY DEF Pending
  <2>4. Rank(e)' = 4 * Distance[l] + Pending(e)' /\ Rank(e) = 4 * Distance[k] + Pending(e)
    BY <2>1 DEF Rank
  <2>5. QED  BY <2>2, <2>3, <2>4
<1>3. ASSUME NEW k, NEW l, <<k, l>> \in GotoFlow, At(e, k), Goto(e, l)
      PROVE  Rank(e)' < Rank(e)
  <2>1. pc[e] = k /\ to[e] = NoState /\ pc'[e] = l /\ to'[e] = NoState
    BY <1>1, <1>3 DEF At, Goto, EnginesOK
  <2>2. Distance[l] \in 0 .. 15 /\ Distance[k] \in 0 .. 15
    BY <1>3, GotoShortens, DistanceType
  <2>3. Pending(e)' \in 0 .. 1 /\ Pending(e) \in 0 .. 1
    BY <2>1 DEF Pending
  <2>4. Rank(e)' = 4 * Distance[l] + Pending(e)' /\ Rank(e) = 4 * Distance[k] + Pending(e)
    BY <2>1 DEF Rank
  <2>5. CASE k # l
    <3>1. Distance[l] < Distance[k]  BY <1>3, <2>5, GotoShortens
    <3>2. QED  BY <2>2, <2>3, <2>4, <3>1
  <2>6. CASE k = l
    <3>1. k = "strict"  BY <1>3, <2>6, GotoShortens
    <3>2. StrictTurn(e) /\ pc'[e] = "strict"
      BY <2>1, <2>6, <3>1 DEF Step, At, TransitionRead, TransitionWrite, EnsureDelivery, Preflight,
         Project, Lookup, RefreshBinding, Gate, Prompt, RecordRoute, ObserveEffect, AfterActivity,
         WaitSettled, CaptureReply, Acknowledge, Publish
    <3>3. /\ live[e].status = "working"
          /\ live' = [live EXCEPT ![e] = Snapshot(live[e].target)]
          /\ runtime[live[e].target].status \in {"idle", "blocked"}
      BY <1>1, <3>2 DEF StrictTurn, Persist, EnginesOK
    <3>4. live'[e].status # "working"
      BY <1>1, <3>3 DEF Snapshot, EnginesOK
    <3>5. Pending(e) = 1 /\ Pending(e)' = 0
      BY <2>1, <3>1, <3>3, <3>4 DEF Pending
    <3>6. QED  BY <2>2, <2>4, <2>6, <3>5
  <2>7. QED  BY <2>5, <2>6
<1>4. CASE Moves(e)
  BY <1>2, <1>3, <1>4 DEF Moves, Persists, Goes
<1>5. CASE TransitionRead(e)
  <2>1. Pending(e) = 3 /\ Busy(e)
    BY <1>5 DEF TransitionRead, Pending, Busy
  <2>2. CASE LegalStep(State(cur[e]), to[e]) /\ ~Forget(e)
    <3>1. to[e] \in DeliveryState /\ cur[e] \in Messages
      BY <1>1, <1>5, <2>1 DEF TransitionRead, EnginesOK, LocalsOK
    <3>2. delivery[cur[e]] # << >>
      BY <2>2, <3>1, NoRowNoStep DEF State
    <3>3. seen'[e] # << >> /\ pc' = pc /\ to' = to
      BY <1>1, <1>5, <2>2, <3>2 DEF TransitionRead, EnginesOK
    <3>4. Pending(e)' = 2
      BY <1>5, <3>3 DEF Pending, TransitionRead
    <3>5. QED  BY <1>1, <2>1, <3>3, <3>4 DEF Rank
  <2>3. CASE Forget(e)
    BY <1>1, <2>1, <2>3, ForgottenRank
  <2>4. QED  BY <1>5, <2>2, <2>3 DEF TransitionRead
<1>6. CASE TransitionWrite(e)
  <2>1. Pending(e) = 2 /\ Busy(e)
    BY <1>6 DEF TransitionWrite, Pending, Busy
  <2>2. CASE Forget(e)
    BY <1>1, <2>1, <2>2, ForgottenRank
  <2>3. CASE ~Forget(e)
    <3>1. pc' = pc /\ to'[e] = NoState
      BY <1>1, <1>6, <2>3 DEF TransitionWrite, EnginesOK
    <3>2. Pending(e)' \in 0 .. 1
      BY <3>1 DEF Pending
    <3>3. QED  BY <1>1, <2>1, <3>1, <3>2 DEF Rank
  <2>4. QED  BY <2>2, <2>3
<1>7. CASE EnsureDelivery(e)
  <2>1. Busy(e) /\ pc[e] = "ensure" /\ to[e] = NoState
    BY <1>7 DEF EnsureDelivery, At, Busy
  <2>2. CASE Forget(e)
    BY <1>1, <2>1, <2>2, ForgottenRank
  <2>3. CASE Goto(e, "preflight")
    <3>1. pc'[e] = "preflight" /\ to'[e] = NoState
      BY <1>1, <2>1, <2>3 DEF Goto, EnginesOK
    <3>2. Pending(e) = 0 /\ Pending(e)' = 0
      BY <2>1, <3>1 DEF Pending
    <3>3. QED  BY <2>1, <3>1, <3>2 DEF Rank, Distance, Labels
  <2>4. QED  BY <1>7, <2>2, <2>3 DEF EnsureDelivery
<1>8. CASE Publish(e)
  BY <1>1, <1>8, ForgottenRank DEF Publish, At, Busy
<1>9. QED  BY <1>4, <1>5, <1>6, <1>7, <1>8, FollowsFlow

(* EveryDeliverEnds: DeliverEnds, for any number of engines, calls and      *)
(* crashes and any overlap of deliveries.                                   *)
THEOREM EveryDeliverEnds == Spec => DeliverEnds
<1>1. TypeOK /\ [Next]_vars => TypeOK'  BY TypeStep
<1>2. TypeOK => RankOK  BY RankType
<1>3. ASSUME TypeOK, Next, NEW e \in Engines
      PROVE  /\ Step(e) => Rank(e)' < Rank(e)
             /\ Rank(e)' > Rank(e) => ~Busy(e) /\ Command(e)
  <2>1. Rank(e) \in Nat /\ Rank(e)' \in Nat
    <3>1. TypeOK'  BY <1>3, TypeStep
    <3>2. RankOK'  BY <3>1, <1>2, PTL
    <3>3. QED  BY <1>2, <1>3, <3>2 DEF RankOK
  <2>2. ASSUME SameLocals(e) PROVE Rank(e)' = Rank(e)
    BY <2>2 DEF SameLocals, Rank, Pending
  <2>3. CASE Step(e)
    <3>1. Rank(e)' < Rank(e)  BY <1>3, <2>3, StepLowersRank
    <3>2. QED  BY <2>1, <3>1
  <2>4. CASE Crash(e) /\ ~Step(e)
    <3>1. Rank(e) # 0  BY <1>2, <1>3, <2>4 DEF Crash, RankOK, Busy
    <3>2. Rank(e)' < Rank(e)  BY <1>3, <2>4, <3>1, ForgottenRank DEF Crash
    <3>3. QED  BY <2>1, <2>4, <3>2
  <2>5. CASE Command(e) /\ ~Step(e)
    BY <2>5 DEF Command, Send, Redeliver, Call, At, Busy
  <2>6. CASE Outside /\ ~Step(e)
    <3>1. SameLocals(e)  BY <2>6, OutsideKeepsEngines DEF engine, SameLocals
    <3>2. QED  BY <2>1, <2>2, <2>6, <3>1
  <2>7. ASSUME NEW f \in Engines \ {e}, Own(f), ~Step(e)
        PROVE  Rank(e)' = Rank(e)
    BY <1>3, <2>2, <2>7, OwnKeepsOthers DEF OthersKept, TypeOK
  <2>8. QED  BY <1>3, <2>1, <2>3, <2>4, <2>5, <2>6, <2>7, StepsOf DEF Own
<1>4. TypeOK /\ [Next]_vars =>
        [\A e \in Engines : /\ Step(e) => Rank(e)' < Rank(e)
                            /\ Rank(e)' > Rank(e) => ~Busy(e) /\ Command(e)]_vars
  BY <1>3
<1>5. QED  BY TypeInit, <1>1, <1>2, <1>4, PTL DEF Spec, DeliverEnds, RankFalls
=============================================================================
