---------------------------- MODULE BridgeSafety ----------------------------
(***************************************************************************)
(* What BridgeDelivery is checked and proved for.                          *)
(***************************************************************************)
EXTENDS BridgeDelivery

(* Shape of the state.  An engine outside deliver() holds no locals, and a  *)
(* transition about to be written was legal for the row that was read       *)
(* (journal.transition_delivery raises otherwise).                          *)
RuntimeInfo == [status : Status, seq : Nat, terminal : Terminals,
                native : Natives \cup {NoNative}]
BindingRow == [target : Targets \cup {NoTarget}, terminal : Terminals \cup {NoTarget},
               native : Natives \cup {NoNative}]
LiveInfo == [target : Targets \cup {NoTarget}, terminal : Terminals \cup {NoTarget},
             native : Natives \cup {NoNative}, status : Status, seq : Nat]

TablesOK ==
  /\ msg \in [Messages -> Envelope \cup {NoMessage}]
  /\ delivery \in [Messages -> Seq(DeliveryState)]
  /\ conf \in [Messages -> Confidence \cup {NoState}]
  /\ replies \subseteq Messages
  /\ lockState \in [Locks -> {"absent", "issued", "revoked"}]
  /\ binding \in [Agents -> BindingRow]
  /\ \A a \in Agents : binding[a] = Unbound \/ binding[a].target \in Targets
  /\ board \subseteq Messages \X DeliveryState
  /\ runtime \in [Targets -> RuntimeInfo]
  /\ prompts \in [Messages -> Nat]
  /\ answered \subseteq Messages
  /\ calls \in Nat /\ raised \subseteq Messages

EnginesOK ==
  /\ pc \in [Engines -> Labels]
  /\ cur \in [Engines -> Messages \cup {NoMessage}]
  /\ to \in [Engines -> DeliveryState \cup {NoState}]
  /\ seen \in [Engines -> Seq(DeliveryState)]
  /\ live \in [Engines -> LiveInfo]
  /\ cap \in [Engines -> Confidence \cup {NoState}]

Busy(e) == pc[e] # "idle" \/ to[e] # NoState

\* Labels at which deliver() holds the target it looked up.
NeedsTarget(e) ==
  \/ pc[e] \in {"refresh", "strict", "prompt", "route", "observe", "active",
               "wait", "capture"}
  \/ pc[e] = "gate" /\ msg[cur[e]].projection # "board_only"

LocalsOK(e) ==
  /\ ~Busy(e) => cur[e] = NoMessage /\ cap[e] = NoState
  /\ Busy(e) => cur[e] \in Messages /\ msg[cur[e]] # NoMessage
  /\ seen[e] # << >> =>
       to[e] # NoState /\ LegalStep(seen[e][Len(seen[e])], to[e])
  /\ NeedsTarget(e) => live[e].target \in Targets

TypeOK == TablesOK /\ EnginesOK /\ \A e \in Engines : LocalsOK(e)

-----------------------------------------------------------------------------
(* HistoryLegal: whatever engines, crashes and races do to a row, its       *)
(* history is a walk of ALLOWED_TRANSITIONS from journaled: the check and   *)
(* the new history use the same read, even when an update in between is     *)
(* lost (journal.transition_delivery).                                      *)
HistoryLegal == \A m \in Messages : LegalHistory(delivery[m])

(* AuthorityBeforePrompt: no message enters a terminal unless its recipient *)
(* is one the preflight may pass: derived from a parent, named by an issued *)
(* lock, or free because locks are not required (core.                      *)
(* _preflight_target_authority).                                            *)
Authorized(m) ==
  \/ msg[m].parent # NoMessage
  \/ msg[m].lock = NoLock /\ ~RequireTargetLock
  \/ /\ msg[m].lock \in Locks
     /\ lockState[msg[m].lock] # "absent"
     /\ LockInfo[msg[m].lock].agent = msg[m].recipient

AuthorityBeforePrompt == \A m \in Messages : prompts[m] > 0 => Authorized(m)

(* LoopBound: a reply chain stops.  A message that entered a terminal has   *)
(* fewer ancestors than either routing bound, whatever replies were         *)
(* journaled and whoever delivered them (message.reply_message counts, core.*)
(* _loop_reason compares).                                                  *)
Parents(m) == IF msg[m] = NoMessage THEN {} ELSE {msg[m].parent} \ {NoMessage}

\* With a message, its parent.
Closed(C) == \A m \in C : Parents(m) \subseteq C

\* The messages on the way up from m: those in every closed set that holds m's
\* parent.
Ancestors(m) ==
  {a \in Messages :
     \A C \in SUBSET Messages : Closed(C) /\ Parents(m) \subseteq C => a \in C}

LoopBound ==
  \A m \in Messages : prompts[m] > 0 =>
    Cardinality(Ancestors(m)) < MaxHops /\ Cardinality(Ancestors(m)) < MaxDepth

-----------------------------------------------------------------------------
(* The rest assumes that one engine at a time is ever asked to deliver a    *)
(* message: its crash may be followed by another call, but two calls do not *)
(* overlap.                                                                 *)
SoleCaller ==
  \A e, f \in Engines, m \in Messages :
    <<e, m>> \in Callers /\ <<f, m>> \in Callers => e = f

(* AtMostOnePrompt: a message enters its recipient's terminal once at most, *)
(* across ambiguous submissions, crashes between any two steps and calls    *)
(* repeated after them (deliver: "Never implicitly replay a side effect").  *)
AtMostOnePrompt == \A m \in Messages : prompts[m] <= 1

(* NoIllegalTransition: deliver() never asks the journal for a transition   *)
(* the graph refuses: no branch of it ends in ValueError, also when it is   *)
(* entered again after a crash.                                             *)
NoIllegalTransition == raised = {}

(* AckHasEvidence: ACKNOWLEDGED is never concluded from a settled runtime   *)
(* alone: the agent wrote a structured reply, or its marker after the frame,*)
(* as far as terminals show whole frames.                                   *)
Evidence(m, c) ==
  \/ c = "structured" /\ m \in replies
  \/ c = "turn_fenced" /\ (m \in answered \/ CutEcho)
  \/ c = "heuristic" /\ AllowHeuristic

AckHasEvidence ==
  \A m \in Messages : State(m) = "acknowledged" => Evidence(m, conf[m])

(* BoardAgrees: the board never shows a capture or an acknowledgement that  *)
(* the journal does not hold (deliver posts after its last transition).     *)
BoardAgrees ==
  \A m \in Messages, s \in {"reply_captured", "acknowledged"} :
    <<m, s>> \in board => State(m) = s

(* HistoryAppendOnly: a state once recorded stays recorded: no transition   *)
(* rewrites an earlier entry of a row.                                      *)
HistoryAppendOnly ==
  [][\A m \in Messages :
       /\ Len(delivery'[m]) >= Len(delivery[m])
       /\ \A i \in 1 .. Len(delivery[m]) : delivery'[m][i] = delivery[m][i]]_vars

(* ImplementsLifecycle: deliver() implements the promise of                 *)
(* DeliveryLifecycle.                                                       *)
Promise == INSTANCE DeliveryLifecycle WITH
             Absent <- NoState,
             state <- [m \in Messages |-> State(m)],
             prompted <- prompts
ImplementsLifecycle == Promise!Spec

(* OneConfirmedPromptPerRoute: with one engine and no crash, of all messages*)
(* with the same sender, recipient, thread and payload at most one has a    *)
(* journaled PROMPT_SUBMITTED; the others are suppressed (core._loop_reason,*)
(* journal.record_route).                                                   *)
Confirmed(m) == \E i \in 1 .. Len(delivery[m]) : delivery[m][i] = "prompt_submitted"
OneConfirmedPromptPerRoute ==
  \A m, n \in Messages :
    m # n /\ Confirmed(m) /\ Confirmed(n) => Route(m) # Route(n)

(* DeliveryRests: a delivery that was begun by a process that survives      *)
(* reaches a state in which deliver() returns.                              *)
DeliveryRests ==
  \A m \in Messages : (delivery[m] # << >>) ~> (State(m) \in Resting)

-----------------------------------------------------------------------------
(* What the repository says of the Bridge and its code does not do.         *)

(* NoKnownResend: "a known-submitted prompt MUST NOT be automatically       *)
(* submitted again" (protocol v0.1, 9.1): no prompt for a message whose row *)
(* already holds PROMPT_SUBMITTED.                                          *)
NoKnownResend == [][\A m \in Messages : prompts'[m] # prompts[m] => ~Confirmed(m)]_vars
=============================================================================
