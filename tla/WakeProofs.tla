----------------------------- MODULE WakeProofs -----------------------------
(***************************************************************************)
(* Proofs about WakeWatchdog, for every number of watchdogs, submitters    *)
(* and wakes, with and without restarts.                                   *)
(***************************************************************************)
EXTENDS WakeSafety, TLAPS

(* What holds of a wake whatever the watchdogs do: the provider runs only   *)
(* under a claim, and an ACK is the claimer's.                              *)
WakeOK(w) ==
  /\ invoked[w] \in {0, 1}
  /\ claim[w] = Nobody => invoked[w] = 0
  /\ claim[w] # Nobody => request[w] # NoCore /\ <<claim[w], request[w]>> \notin Refuses
  /\ ack[w] # Nobody => ack[w] = claim[w] /\ invoked[w] = 1 /\ failure[w] # ack[w]

(* What a watchdog may rely on between the steps of process.                *)
HolderOK(d) ==
  /\ pc[d] \in {"policy", "expiry", "payload", "claim", "invoke", "ack"} =>
       failure[cur[d]] # d
  /\ pc[d] \in {"policy", "expiry", "payload", "claim", "invoke", "ack", "fail"} =>
       ack[cur[d]] # d
  /\ pc[d] \in {"expiry", "payload", "claim"} => <<d, request[cur[d]]>> \notin Refuses
  /\ pc[d] = "invoke" => claim[cur[d]] = d /\ invoked[cur[d]] = 0
  /\ pc[d] = "ack" => claim[cur[d]] = d /\ invoked[cur[d]] = 1

WakeInv ==
  /\ TypeOK
  /\ \A w \in Wakes : WakeOK(w)
  /\ \A d \in Watchdogs : HolderOK(d)

-----------------------------------------------------------------------------
LEMMA WakeInit == Init => WakeInv
  BY WakeAssumption DEF Init, WakeInv, TypeOK, FilesOK, SubmittersOK, LoopsOK, WakeOK,
     HolderOK, Labels, Idle

(* A request once stored stays, and only watchdogs write the other files.   *)
RequestsKept ==
  \A w \in Wakes : request[w] # NoCore => request'[w] = request[w]

LEMMA SubmitStep ==
  ASSUME WakeInv, NEW s \in Submitters, Submit(s)
  PROVE  WakeInv' /\ RequestsKept
<1> USE DEF WakeInv
<1>1. ASSUME NEW w \in Wakes, NEW c \in Cores, NEW y \in Deliveries, SubmitCheck(s, w, c, y)
      PROVE  WakeInv' /\ RequestsKept
  <2>1. UNCHANGED <<store, world, loop>>  BY <1>1 DEF SubmitCheck
  <2>2. SubmittersOK'
    <3>1. NoRequest # <<w, c, y>>  BY WakeAssumption
    <3>2. QED  BY <1>1, <3>1 DEF SubmitCheck, submits, TypeOK, SubmittersOK
  <2>3. QED  BY <2>1, <2>2 DEF store, world, loop, TypeOK, FilesOK, LoopsOK, WakeOK,
                HolderOK, RequestsKept
<1>2. ASSUME SubmitCreate(s) PROVE WakeInv' /\ RequestsKept
  <2>1. PICK w \in Wakes, c \in Cores, y \in Deliveries : sub[s] = <<w, c, y>>
    BY <1>2, WakeAssumption DEF SubmitCreate, TypeOK, SubmittersOK
  <2>2. c # NoCore  BY WakeAssumption
  <2>3. request' = request \/ (request[w] = NoCore /\ request' = [request EXCEPT ![w] = c])
    BY <1>2, <2>1 DEF SubmitCreate
  <2>4. RequestsKept /\ request' \in [Wakes -> Cores \cup {NoCore}]
    BY <2>3 DEF RequestsKept, TypeOK, FilesOK
  <2>5. UNCHANGED <<duplicates, claim, ack, failure, notified, world, loop>>
    BY <1>2 DEF SubmitCreate
  <2>6. SubmittersOK'
    BY <1>2 DEF SubmitCreate, SubmitDone, SubmitFails, TypeOK, SubmittersOK
  <2>7. TypeOK'
    BY <2>4, <2>5, <2>6 DEF TypeOK, FilesOK, LoopsOK, RequestsKept, world, loop
  <2>8. \A x \in Wakes : WakeOK(x)'
    BY <2>4, <2>5 DEF WakeOK, RequestsKept, world
  <2>9. \A d \in Watchdogs : HolderOK(d)'
    BY <2>4, <2>5 DEF HolderOK, RequestsKept, world, loop, TypeOK, LoopsOK, Idle
  <2>10. QED  BY <2>4, <2>7, <2>8, <2>9
<1>3. ASSUME SubmitObserve(s) PROVE WakeInv' /\ RequestsKept
  <2>1. PICK w \in Wakes, c \in Cores, y \in Deliveries : sub[s] = <<w, c, y>>
    BY <1>3, WakeAssumption DEF SubmitObserve, TypeOK, SubmittersOK
  <2>2. UNCHANGED <<request, claim, ack, failure, notified, world, loop>>
    BY <1>3 DEF SubmitObserve
  <2>3. duplicates' \subseteq Wakes \X Deliveries
    BY <1>3, <2>1 DEF SubmitObserve, TypeOK, FilesOK
  <2>4. SubmittersOK'
    BY <1>3 DEF SubmitObserve, SubmitDone, TypeOK, SubmittersOK
  <2>5. QED  BY <2>2, <2>3, <2>4 DEF world, loop, TypeOK, FilesOK, LoopsOK, WakeOK,
                HolderOK, RequestsKept
<1>4. QED  BY <1>1, <1>2, <1>3 DEF Submit

(* The clock and the payload touch nothing a watchdog relies on.            *)
LEMMA WorldStep ==
  ASSUME WakeInv, NEW w \in Wakes, Expire(w) \/ PayloadChanges(w)
  PROVE  WakeInv' /\ UNCHANGED <<store, invoked, loop, submits>>
  BY DEF WakeInv, Expire, PayloadChanges, store, loop, submits, TypeOK, FilesOK,
     SubmittersOK, LoopsOK, WakeOK, HolderOK

-----------------------------------------------------------------------------
(* A watchdog's steps.  The first lemma is about those that only move it.   *)

Kept(d) ==
  \A e \in Watchdogs \ {d} : pc'[e] = pc[e] /\ cur'[e] = cur[e] /\ queue'[e] = queue[e]

(* Between its steps, process has a submitted wake in hand.                 *)
LEMMA Working ==
  ASSUME WakeInv, NEW d \in Watchdogs, pc[d] \notin Idle
  PROVE  cur[d] \in Wakes /\ cur[d] # NoWake /\ request[cur[d]] # NoCore
<1>1. cur[d] # NoWake  BY DEF WakeInv, TypeOK, LoopsOK
<1>2. cur[d] \in Wakes  BY <1>1 DEF WakeInv, TypeOK, LoopsOK
<1>3. QED  BY <1>1, <1>2 DEF WakeInv, TypeOK, LoopsOK

(* A watchdog that leaves process, to go on or for good, holds nothing.     *)
LEMMA Leaving ==
  ASSUME WakeInv, NEW d \in Watchdogs, NEW l \in Idle, request' = request,
         pc' = [pc EXCEPT ![d] = l], cur' = [cur EXCEPT ![d] = NoWake],
         queue' = queue \/ queue' = [queue EXCEPT ![d] = {}]
  PROVE  LoopsOK' /\ HolderOK(d)'
<1> USE DEF WakeInv, TypeOK, LoopsOK
<1>1. pc'[d] = l /\ cur'[d] = NoWake /\ NoWake \notin Wakes  BY WakeAssumption
<1>2. pc' \in [Watchdogs -> Labels] /\ cur' \in [Watchdogs -> Wakes \cup {NoWake}]
        /\ queue' \in [Watchdogs -> SUBSET Wakes]
  BY DEF Idle, Labels
<1>3. ASSUME NEW e \in Watchdogs
      PROVE  /\ cur'[e] = NoWake <=> pc'[e] \in Idle
             /\ \A w \in queue'[e] \cup {cur'[e]} : w \in Wakes => request'[w] # NoCore
  <2>1. CASE e = d
    BY <1>1, <2>1
  <2>2. CASE e # d
    <3>1. cur'[e] = cur[e] /\ pc'[e] = pc[e] /\ queue'[e] = queue[e]  BY <2>2
    <3>2. QED  BY <3>1
  <2>3. QED  BY <2>1, <2>2
<1>4. HolderOK(d)'  BY <1>1 DEF HolderOK, Idle
<1>5. QED  BY <1>2, <1>3, <1>4

LEMMA Moves ==
  ASSUME WakeInv, NEW d \in Watchdogs,
         Scan(d) \/ TakeNext(d) \/ Policy(d) \/ Expiry(d) \/ Payload(d) \/ Notify(d)
           \/ Restart(d)
  PROVE  WakeInv'
<1> USE DEF WakeInv
<1>1. UNCHANGED <<request, claim, ack, failure, invoked, submits, duplicates, expired, damaged>>
  BY DEF Scan, TakeNext, Policy, Expiry, Payload, Notify, Restart, store, world
<1>2. Kept(d)
  BY DEF Kept, Scan, TakeNext, Policy, Expiry, Payload, Notify, Restart, Goto, Return,
     TypeOK, LoopsOK
<1>3. notified' \subseteq Wakes
  BY DEF Scan, TakeNext, Policy, Expiry, Payload, Notify, Restart, store, TypeOK, FilesOK,
     LoopsOK, Idle
<1>4. LoopsOK' /\ HolderOK(d)'
  <2>1. CASE Scan(d)
    BY <1>1, <2>1 DEF Scan, Pending, HolderOK, TypeOK, LoopsOK, Labels, Idle
  <2>2. CASE TakeNext(d)
    <3>1. CASE queue[d] = {} /\ Goto(d, "scan")
      BY <1>1, <2>2, <3>1 DEF TakeNext, Goto, HolderOK, TypeOK, LoopsOK, Labels, Idle
    <3>2. ASSUME NEW w \in queue[d], queue' = [queue EXCEPT ![d] = @ \ {w}],
                 ~Untouched(w), UNCHANGED <<pc, cur>>
          PROVE  LoopsOK' /\ HolderOK(d)'
      BY <1>1, <2>2, <3>2 DEF TakeNext, HolderOK, TypeOK, LoopsOK
    <3>3. ASSUME NEW w \in queue[d], queue' = [queue EXCEPT ![d] = @ \ {w}],
                 Untouched(w), pc' = [pc EXCEPT ![d] = "policy"], cur' = [cur EXCEPT ![d] = w]
          PROVE  LoopsOK' /\ HolderOK(d)'
      <4>1. w \in Wakes /\ w # NoWake /\ request[w] # NoCore
        BY WakeAssumption DEF TypeOK, LoopsOK
      <4>2. failure[w] # d /\ ack[w] # d
        BY <3>3, WakeAssumption DEF Untouched
      <4>3. QED  BY <1>1, <2>2, <3>3, <4>1, <4>2
                 DEF TakeNext, HolderOK, TypeOK, LoopsOK, Labels, Idle
    <3>4. QED  BY <2>2, <3>1, <3>2, <3>3 DEF TakeNext
  <2>3. CASE Policy(d)
    BY <1>1, <2>3 DEF Policy, Goto, HolderOK, TypeOK, LoopsOK, Labels, Idle
  <2>4. CASE Expiry(d)
    BY <1>1, <2>4 DEF Expiry, Goto, HolderOK, TypeOK, LoopsOK, Labels, Idle
  <2>5. CASE Payload(d)
    BY <1>1, <2>5 DEF Payload, Goto, HolderOK, TypeOK, LoopsOK, Labels, Idle
  <2>6. CASE Notify(d)
    BY <1>1, <2>6, Leaving DEF Notify, Return, Idle
  <2>7. CASE Restart(d)
    BY <1>1, <2>7, Leaving DEF Restart, Idle
  <2>8. QED  BY <2>1, <2>2, <2>3, <2>4, <2>5, <2>6, <2>7
<1>5. TypeOK'
  BY <1>1, <1>3, <1>4 DEF TypeOK, FilesOK, SubmittersOK, submits
<1>6. \A w \in Wakes : WakeOK(w)'
  BY <1>1 DEF WakeOK
<1>7. \A e \in Watchdogs : HolderOK(e)'
  BY <1>1, <1>2, <1>4 DEF Kept, HolderOK
<1>8. QED  BY <1>5, <1>6, <1>7

LEMMA ClaimStep ==
  ASSUME WakeInv, NEW d \in Watchdogs, Claim(d)
  PROVE  WakeInv'
<1> USE DEF WakeInv
<1> DEFINE w == cur[d]
<1>1. w \in Wakes /\ request[w] # NoCore /\ <<d, request[w]>> \notin Refuses
  <2>1. pc[d] = "claim"  BY DEF Claim
  <2>2. pc[d] \notin Idle  BY <2>1 DEF Idle
  <2>3. QED  BY <2>1, <2>2, Working DEF HolderOK
<1>2. UNCHANGED <<request, duplicates, ack, failure, notified, world, submits>>
  BY DEF Claim
<1>3. CASE claim[w] = Nobody /\ claim' = [claim EXCEPT ![w] = d] /\ Goto(d, "invoke")
  <2>1. d # Nobody  BY WakeAssumption
  <2>2. TypeOK'
    BY <1>1, <1>2, <1>3 DEF Goto, TypeOK, FilesOK, SubmittersOK, LoopsOK, Labels, Idle,
       world, submits, Claim
  <2>3. \A x \in Wakes : WakeOK(x)'
    BY <1>1, <1>2, <1>3, <2>1 DEF WakeOK, world, TypeOK, FilesOK
  <2>4. \A e \in Watchdogs : HolderOK(e)'
    <3> SUFFICES ASSUME NEW e \in Watchdogs PROVE HolderOK(e)'  OBVIOUS
    <3>1. CASE e = d
      <4>1. invoked[w] = 0 /\ failure[w] # d /\ ack[w] # d
        BY <1>1, <1>3 DEF WakeOK, HolderOK, Claim
      <4>2. pc'[d] = "invoke" /\ cur'[d] = w /\ claim'[w] = d
        BY <1>1, <1>3 DEF Goto, TypeOK, FilesOK, LoopsOK
      <4>3. QED  BY <1>2, <3>1, <4>1, <4>2 DEF HolderOK, world
    <3>2. CASE e # d
      BY <1>1, <1>2, <1>3, <3>2, WakeAssumption
         DEF Goto, HolderOK, world, TypeOK, FilesOK, LoopsOK
    <3>3. QED  BY <3>1, <3>2
  <2>5. QED  BY <2>2, <2>3, <2>4
<1>4. CASE claim' = claim /\ Return(d)
  <2>1. LoopsOK' /\ HolderOK(d)'
    BY <1>2, <1>4, Leaving DEF Return, Idle
  <2>2. TypeOK'
    BY <1>2, <1>4, <2>1 DEF TypeOK, FilesOK, SubmittersOK, world, submits
  <2>3. \A x \in Wakes : WakeOK(x)'
    BY <1>2, <1>4 DEF WakeOK, world
  <2>4. \A e \in Watchdogs : HolderOK(e)'
    <3> SUFFICES ASSUME NEW e \in Watchdogs, e # d PROVE HolderOK(e)'  BY <2>1
    <3>1. pc'[e] = pc[e] /\ cur'[e] = cur[e]  BY <1>4 DEF Return, TypeOK, LoopsOK
    <3>2. QED  BY <1>2, <1>4, <3>1 DEF HolderOK, world
  <2>5. QED  BY <2>2, <2>3, <2>4
<1>5. QED  BY <1>3, <1>4 DEF Claim

LEMMA InvokeStep ==
  ASSUME WakeInv, NEW d \in Watchdogs, Invoke(d)
  PROVE  WakeInv' /\ claim[cur[d]] = d /\ invoked[cur[d]] = 0 /\ cur[d] \in Wakes
<1> USE DEF WakeInv
<1> DEFINE w == cur[d]
<1>1. w \in Wakes /\ claim[w] = d /\ invoked[w] = 0 /\ d # Nobody
  <2>1. pc[d] = "invoke"  BY DEF Invoke
  <2>2. pc[d] \notin Idle  BY <2>1 DEF Idle
  <2>3. d # Nobody  BY WakeAssumption
  <2>4. QED  BY <2>1, <2>2, <2>3, Working DEF HolderOK
<1>2. UNCHANGED <<store, expired, damaged, submits, queue, cur>>
  BY DEF Invoke, Goto
<1>3. invoked' = [invoked EXCEPT ![w] = 1]
  BY <1>1 DEF Invoke
<1>4. PICK l \in {"ack", "fail"} : pc' = [pc EXCEPT ![d] = l]
  BY DEF Invoke, Goto
<1>5. TypeOK'
  BY <1>1, <1>2, <1>3, <1>4 DEF Invoke, TypeOK, FilesOK, SubmittersOK, LoopsOK, Labels, Idle,
     store, submits
<1>6. \A x \in Wakes : WakeOK(x)'
  BY <1>1, <1>2, <1>3 DEF WakeOK, store, TypeOK, FilesOK
<1>7. \A e \in Watchdogs : HolderOK(e)'
  <2> SUFFICES ASSUME NEW e \in Watchdogs PROVE HolderOK(e)'  OBVIOUS
  <2>1. CASE e = d
    BY <1>1, <1>2, <1>3, <1>4, <2>1 DEF HolderOK, store, TypeOK, FilesOK, LoopsOK, Invoke
  <2>2. CASE e # d
    BY <1>1, <1>2, <1>3, <1>4, <2>2 DEF HolderOK, store, TypeOK, FilesOK, LoopsOK
  <2>3. QED  BY <2>1, <2>2
<1>8. QED  BY <1>1, <1>5, <1>6, <1>7

(* commit_ack finds its claim, and no ACK: another one would be this        *)
(* watchdog's own.                                                          *)
LEMMA AckFree ==
  ASSUME WakeInv, NEW d \in Watchdogs, pc[d] = "ack"
  PROVE  cur[d] \in Wakes /\ claim[cur[d]] = d /\ ack[cur[d]] = Nobody /\ d # Nobody
<1>1. pc[d] \notin Idle  BY DEF Idle
<1>2. cur[d] \in Wakes  BY <1>1, Working
<1>3. claim[cur[d]] = d /\ ack[cur[d]] # d  BY DEF WakeInv, HolderOK
<1>4. d # Nobody  BY WakeAssumption
<1>5. ack[cur[d]] = Nobody  BY <1>2, <1>3 DEF WakeInv, WakeOK
<1>6. QED  BY <1>2, <1>3, <1>4, <1>5

LEMMA AckStep ==
  ASSUME WakeInv, NEW d \in Watchdogs, CommitAck(d)
  PROVE  WakeInv' /\ ack' = [ack EXCEPT ![cur[d]] = d]
<1> USE DEF WakeInv
<1> DEFINE w == cur[d]
<1>1. w \in Wakes /\ claim[w] = d /\ ack[w] = Nobody /\ d # Nobody
  BY AckFree DEF CommitAck
<1>2. ack' = [ack EXCEPT ![w] = d] /\ Goto(d, "notify")
  BY <1>1 DEF CommitAck
<1>3. UNCHANGED <<request, duplicates, claim, failure, notified, world, submits>>
  BY DEF CommitAck
<1>4. TypeOK'
  BY <1>1, <1>2, <1>3 DEF CommitAck, Goto, TypeOK, FilesOK, SubmittersOK, LoopsOK, Labels, Idle,
     world, submits
<1>5. \A x \in Wakes : WakeOK(x)'
  BY <1>1, <1>2, <1>3 DEF CommitAck, WakeOK, HolderOK, world, TypeOK, FilesOK
<1>6. \A e \in Watchdogs : HolderOK(e)'
  BY <1>1, <1>2, <1>3 DEF Goto, HolderOK, world, TypeOK, FilesOK, LoopsOK
<1>7. QED  BY <1>2, <1>4, <1>5, <1>6

LEMMA FailStep ==
  ASSUME WakeInv, NEW d \in Watchdogs, Fail(d)
  PROVE  WakeInv'
<1> USE DEF WakeInv
<1> DEFINE w == cur[d]
<1>1. w \in Wakes /\ ack[w] # d
  <2>1. pc[d] = "fail"  BY DEF Fail
  <2>2. pc[d] \notin Idle  BY <2>1 DEF Idle
  <2>3. QED  BY <2>1, <2>2, Working DEF HolderOK
<1>2. UNCHANGED <<request, duplicates, claim, ack, notified, world, submits>>
  BY DEF Fail
<1>3. CASE failure[w] = Nobody /\ failure' = [failure EXCEPT ![w] = d] /\ Return(d)
  <2>1. TypeOK'
    <3>1. LoopsOK'  BY <1>2, <1>3, Leaving DEF Return, Idle
    <3>2. QED  BY <1>1, <1>2, <1>3, <3>1 DEF TypeOK, FilesOK, SubmittersOK, world, submits
  <2>2. \A x \in Wakes : WakeOK(x)'
    BY <1>1, <1>2, <1>3 DEF WakeOK, world, TypeOK, FilesOK
  <2>3. \A e \in Watchdogs : HolderOK(e)'
    <3> SUFFICES ASSUME NEW e \in Watchdogs PROVE HolderOK(e)'  OBVIOUS
    <3>1. CASE e = d
      BY <1>3, <3>1 DEF Return, HolderOK, TypeOK, LoopsOK
    <3>2. CASE e # d
      BY <1>1, <1>2, <1>3, <3>2 DEF Return, HolderOK, world, TypeOK, FilesOK, LoopsOK
    <3>3. QED  BY <3>1, <3>2
  <2>4. QED  BY <2>1, <2>2, <2>3
<1>4. CASE failure' = failure /\ Die(d)
  <2>1. LoopsOK' /\ HolderOK(d)'
    BY <1>2, <1>4, Leaving DEF Die, Idle
  <2>2. TypeOK'
    BY <1>2, <1>4, <2>1 DEF TypeOK, FilesOK, SubmittersOK, world, submits
  <2>3. \A x \in Wakes : WakeOK(x)'
    BY <1>2, <1>4 DEF WakeOK, world
  <2>4. \A e \in Watchdogs : HolderOK(e)'
    <3> SUFFICES ASSUME NEW e \in Watchdogs, e # d PROVE HolderOK(e)'  BY <2>1
    <3>1. pc'[e] = pc[e] /\ cur'[e] = cur[e]  BY <1>4 DEF Die, TypeOK, LoopsOK
    <3>2. QED  BY <1>2, <1>4, <3>1 DEF HolderOK, world
  <2>5. QED  BY <2>2, <2>3, <2>4
<1>5. QED  BY <1>3, <1>4 DEF Fail

LEMMA WakeStep == WakeInv /\ [Next]_vars => WakeInv'
<1> SUFFICES ASSUME WakeInv, [Next]_vars PROVE WakeInv'  OBVIOUS
<1>1. CASE UNCHANGED vars
  BY <1>1 DEF vars, store, world, loop, submits, WakeInv, TypeOK, FilesOK, SubmittersOK,
     LoopsOK, WakeOK, HolderOK
<1>2. CASE Next
  BY <1>2, SubmitStep, WorldStep, Moves, ClaimStep, InvokeStep, AckStep, FailStep
     DEF Next, Step
<1>3. QED  BY <1>1, <1>2

LEMMA WakeInvariant == Spec => []WakeInv
  BY WakeInit, WakeStep, PTL DEF Spec

-----------------------------------------------------------------------------
(* TypeCorrect: the types of the store, the submitters and the watchdogs.   *)
THEOREM TypeCorrect == Spec => []TypeOK
  BY WakeInvariant, PTL DEF WakeInv

(* InvokedOnce: no wake starts the provider twice, whatever crashes,        *)
(* restarts and further deliveries there are, and only under the policy of  *)
(* the watchdog that holds the claim (watchdog.process, _policy_refusal).   *)
THEOREM InvokedOnce == Spec => []OneInvocation
<1>1. WakeInv => OneInvocation
  <2> SUFFICES ASSUME WakeInv, NEW w \in Wakes
               PROVE  invoked[w] <= 1 /\ (invoked[w] > 0 => Admitted(w))
    BY DEF OneInvocation
  <2>1. invoked[w] = 0 \/ invoked[w] = 1  BY DEF WakeInv, WakeOK
  <2>2. invoked[w] > 0 => Admitted(w)  BY DEF WakeInv, WakeOK, Admitted, TypeOK, FilesOK
  <2>3. QED  BY <2>1, <2>2
<1>2. QED  BY <1>1, WakeInvariant, PTL

(* AcksAreTheClaimers: an ACK is the claim holder's, of a run that it did   *)
(* not record as failed, and commit_ack never raises.                       *)
THEOREM AcksAreTheClaimers == Spec => []AckByClaimer
<1>1. ASSUME WakeInv, NEW w \in Wakes, ack[w] # Nobody
      PROVE  ack[w] = claim[w] /\ invoked[w] = 1 /\ failure[w] # ack[w]
  BY <1>1 DEF WakeInv, WakeOK
<1>2. ASSUME WakeInv, NEW d \in Watchdogs, pc[d] = "ack"
      PROVE  claim[cur[d]] = d /\ ack[cur[d]] = Nobody
  BY <1>2, AckFree
<1>3. WakeInv => AckByClaimer  BY <1>1, <1>2 DEF AckByClaimer
<1>4. QED  BY <1>3, WakeInvariant, PTL

-----------------------------------------------------------------------------
(* SomeoneLives: however many wakes two watchdogs fail at once, the errors  *)
(* that escape process leave a watchdog running: the one that recorded the  *)
(* failure is not about to meet another one.                                *)
LEMMA LivesStep ==
  ASSUME WakeInv, SomeWatchdogLives, [Next]_vars
  PROVE  SomeWatchdogLives'
<1> USE DEF WakeInv
<1> DEFINE Healthy(e) == pc[e] # "dead" /\ ~Doomed(e)
<1>1. PICK h \in Watchdogs : Healthy(h)
  BY DEF SomeWatchdogLives
<1>2. CASE UNCHANGED vars
  BY <1>1, <1>2 DEF vars, store, loop, Doomed, SomeWatchdogLives
<1>3. ASSUME NEW s \in Submitters, Submit(s) PROVE SomeWatchdogLives'
  <2>1. UNCHANGED <<failure, loop>>
    BY <1>3 DEF Submit, SubmitCheck, SubmitCreate, SubmitObserve, store
  <2>2. QED  BY <1>1, <2>1 DEF loop, Doomed, SomeWatchdogLives
<1>4. ASSUME NEW w \in Wakes, Expire(w) \/ PayloadChanges(w) PROVE SomeWatchdogLives'
  BY <1>1, <1>4 DEF Expire, PayloadChanges, store, loop, Doomed, SomeWatchdogLives
<1>5. ASSUME NEW d \in Watchdogs, Fail(d) PROVE SomeWatchdogLives'
  <2>1. CASE failure[cur[d]] = Nobody /\ Return(d)
    BY <2>1 DEF Return, Doomed, SomeWatchdogLives, TypeOK, LoopsOK, Idle
  <2>2. CASE failure[cur[d]] # Nobody /\ failure' = failure /\ Die(d)
    <3>1. pc[d] \notin Idle  BY <1>5 DEF Fail, Idle
    <3>2. h # d  BY <1>1, <2>2, <3>1 DEF Doomed
    <3>3. QED  BY <1>1, <2>2, <3>2 DEF Die, Doomed, SomeWatchdogLives, TypeOK, LoopsOK
  <2>3. QED  BY <1>5, <2>1, <2>2 DEF Fail
<1>6. ASSUME NEW d \in Watchdogs, Restart(d) PROVE SomeWatchdogLives'
  BY <1>6 DEF Restart, Doomed, SomeWatchdogLives, TypeOK, LoopsOK, Idle
<1>7. ASSUME NEW d \in Watchdogs, Step(d), ~Fail(d) PROVE SomeWatchdogLives'
  <2>1. failure' = failure
    BY <1>7 DEF Step, Scan, TakeNext, Policy, Expiry, Payload, Claim, Invoke, CommitAck,
       Notify, store
  <2>2. CASE h # d
    <3>1. pc'[h] = pc[h] /\ cur'[h] = cur[h]
      BY <1>7, <2>2 DEF Step, Scan, TakeNext, Policy, Expiry, Payload, Claim, Invoke,
         CommitAck, Notify, Goto, Return, Die, TypeOK, LoopsOK
    <3>2. QED  BY <1>1, <2>1, <3>1 DEF Doomed, SomeWatchdogLives
  <2>3. CASE h = d
    <3>1. CASE CommitAck(d)
      <4>1. Goto(d, "notify")  BY <3>1, AckFree DEF CommitAck
      <4>2. QED  BY <1>1, <2>1, <2>3, <3>1, <4>1
                 DEF CommitAck, Goto, Doomed, SomeWatchdogLives, TypeOK, LoopsOK, Idle
    <3>2. CASE TakeNext(d)
      BY <1>1, <2>1, <2>3, <3>2
         DEF TakeNext, Untouched, Goto, Doomed, SomeWatchdogLives, TypeOK, LoopsOK, Idle
    <3>3. CASE Scan(d) \/ Notify(d)
      BY <1>1, <2>1, <2>3, <3>3
         DEF Scan, Notify, Return, Doomed, SomeWatchdogLives, TypeOK, LoopsOK, Idle
    <3>4. CASE Policy(d) \/ Expiry(d) \/ Payload(d) \/ Claim(d) \/ Invoke(d)
      BY <1>1, <2>1, <2>3, <3>4
         DEF Policy, Expiry, Payload, Claim, Invoke, Goto, Return, Doomed,
             SomeWatchdogLives, TypeOK, LoopsOK, Idle
    <3>5. QED  BY <1>7, <3>1, <3>2, <3>3, <3>4 DEF Step
  <2>4. QED  BY <2>2, <2>3
<1>8. QED  BY <1>2, <1>3, <1>4, <1>5, <1>6, <1>7 DEF Next

THEOREM SomeoneLives == Watchdogs # {} => (Spec => []SomeWatchdogLives)
<1> SUFFICES ASSUME Watchdogs # {} PROVE Spec => []SomeWatchdogLives  OBVIOUS
<1>1. Init => SomeWatchdogLives
  BY DEF Init, SomeWatchdogLives, Doomed, Idle
<1>2. WakeInv /\ SomeWatchdogLives /\ [Next]_vars => SomeWatchdogLives'
  BY LivesStep
<1>3. QED  BY <1>1, <1>2, WakeInvariant, PTL DEF Spec

-----------------------------------------------------------------------------
(* NoneStranded: a wake that was claimed and is neither acknowledged nor    *)
(* failed is in the hands of its claim's holder, which is about to run the  *)
(* provider or to record how that went, unless a crash interrupted process  *)
(* at this wake: no scan would find it again (store.pending_wake_ids leaves *)
(* claimed wakes out).  What EveryWakeSettles needs of the steps            *)
(* themselves, for any number of wakes and watchdogs.                       *)
Settled(w) == ack[w] # Nobody \/ failure[w] # Nobody
InHand(w) == \E d \in Watchdogs : claim[w] = d /\ cur[d] = w /\ pc[d] \in {"invoke", "ack", "fail"}

NothingStranded ==
  \A w \in Wakes : claim[w] # Nobody => Settled(w) \/ InHand(w) \/ w \in interrupted

\* Of the steps of one watchdog only those that take a claim, settle a wake or
\* crash can end what NothingStranded says.
LEMMA OthersHold ==
  ASSUME WakeInv, NothingStranded, NEW d \in Watchdogs, NEW w \in Wakes,
         UNCHANGED <<claim, ack, failure>>, interrupted \subseteq interrupted', Kept(d),
         \/ pc[d] \notin {"invoke", "ack", "fail"}
         \/ cur[d] # w
         \/ cur'[d] = w /\ pc'[d] \in {"invoke", "ack", "fail"}
  PROVE  claim'[w] # Nobody => (Settled(w) \/ InHand(w) \/ w \in interrupted)'
<1> SUFFICES ASSUME claim[w] # Nobody PROVE (Settled(w) \/ InHand(w) \/ w \in interrupted)'
  OBVIOUS
<1>1. CASE Settled(w)  BY <1>1 DEF Settled
<1>2. CASE w \in interrupted  BY <1>2
<1>3. ASSUME NEW e \in Watchdogs, claim[w] = e, cur[e] = w, pc[e] \in {"invoke", "ack", "fail"}
      PROVE  InHand(w)'
  <2>1. cur'[e] = w /\ pc'[e] \in {"invoke", "ack", "fail"}  BY <1>3 DEF Kept
  <2>2. QED  BY <1>3, <2>1 DEF InHand
<1>4. QED  BY <1>1, <1>2, <1>3 DEF NothingStranded, InHand

LEMMA StrandedStep ==
  ASSUME WakeInv, NothingStranded, [Next]_vars PROVE NothingStranded'
<1> USE DEF WakeInv
<1> SUFFICES ASSUME NEW w \in Wakes
             PROVE  claim'[w] # Nobody => (Settled(w) \/ InHand(w) \/ w \in interrupted)'
  BY DEF NothingStranded
<1>1. ASSUME UNCHANGED <<claim, ack, failure, pc, cur, interrupted>>
      PROVE  claim'[w] # Nobody => (Settled(w) \/ InHand(w) \/ w \in interrupted)'
  BY <1>1 DEF NothingStranded, Settled, InHand
<1>2. CASE UNCHANGED vars
  BY <1>1, <1>2 DEF vars, store, loop, crashes
<1>3. ASSUME NEW s \in Submitters, Submit(s)
      PROVE  claim'[w] # Nobody => (Settled(w) \/ InHand(w) \/ w \in interrupted)'
  BY <1>1, <1>3 DEF Submit, SubmitCheck, SubmitCreate, SubmitObserve, store, loop, crashes
<1>4. ASSUME NEW v \in Wakes, Expire(v) \/ PayloadChanges(v)
      PROVE  claim'[w] # Nobody => (Settled(w) \/ InHand(w) \/ w \in interrupted)'
  BY <1>1, <1>4 DEF Expire, PayloadChanges, store, loop, crashes
<1>5. ASSUME NEW d \in Watchdogs, UNCHANGED crashes,
             Scan(d) \/ TakeNext(d) \/ Policy(d) \/ Expiry(d) \/ Payload(d) \/ Notify(d)
      PROVE  claim'[w] # Nobody => (Settled(w) \/ InHand(w) \/ w \in interrupted)'
  <2>1. UNCHANGED <<claim, ack, failure>> /\ interrupted \subseteq interrupted'
    BY <1>5 DEF Scan, TakeNext, Policy, Expiry, Payload, Notify, store, crashes
  <2>2. Kept(d)
    BY <1>5 DEF Kept, Scan, TakeNext, Policy, Expiry, Payload, Notify, Goto, Return,
       TypeOK, LoopsOK
  <2>3. pc[d] \notin {"invoke", "ack", "fail"}
    BY <1>5 DEF Scan, TakeNext, Policy, Expiry, Payload, Notify
  <2>4. QED  BY <2>1, <2>2, <2>3, OthersHold
<1>6. ASSUME NEW d \in Watchdogs, UNCHANGED crashes, Claim(d)
      PROVE  claim'[w] # Nobody => (Settled(w) \/ InHand(w) \/ w \in interrupted)'
  <2>1. UNCHANGED <<ack, failure>> /\ interrupted' = interrupted /\ pc[d] = "claim"
    BY <1>6 DEF Claim, crashes
  <2>2. Kept(d)  BY <1>6 DEF Kept, Claim, Goto, Return, TypeOK, LoopsOK
  <2>3. CASE claim' = claim  BY <2>1, <2>2, <2>3, OthersHold
  <2>4. CASE claim[cur[d]] = Nobody /\ claim' = [claim EXCEPT ![cur[d]] = d] /\ Goto(d, "invoke")
    <3>1. CASE w = cur[d]
      <4>1. claim'[w] = d /\ cur'[d] = w /\ pc'[d] = "invoke"
        BY <2>4, <3>1 DEF Goto, TypeOK, FilesOK, LoopsOK
      <4>2. QED  BY <4>1 DEF InHand
    <3>2. CASE w # cur[d]
      <4>1. claim'[w] = claim[w]  BY <2>4, <3>2
      <4>2. CASE Settled(w)  BY <2>1, <4>2 DEF Settled
      <4>3. CASE w \in interrupted  BY <2>1, <4>3
      <4>4. ASSUME NEW e \in Watchdogs, claim[w] = e, cur[e] = w,
                   pc[e] \in {"invoke", "ack", "fail"}
            PROVE  InHand(w)'
        <5>1. e # d  BY <2>1, <4>4
        <5>2. cur'[e] = w /\ pc'[e] = pc[e]  BY <2>2, <4>4, <5>1 DEF Kept
        <5>3. QED  BY <4>1, <4>4, <5>2 DEF InHand
      <4>5. QED  BY <4>1, <4>2, <4>3, <4>4 DEF NothingStranded, InHand
    <3>3. QED  BY <3>1, <3>2
  <2>5. QED  BY <1>6, <2>3, <2>4 DEF Claim
<1>7. ASSUME NEW d \in Watchdogs, UNCHANGED crashes, Invoke(d)
      PROVE  claim'[w] # Nobody => (Settled(w) \/ InHand(w) \/ w \in interrupted)'
  <2>1. UNCHANGED <<claim, ack, failure>> /\ interrupted' = interrupted
    BY <1>7 DEF Invoke, store, crashes
  <2>2. Kept(d) /\ cur' = cur /\ pc'[d] \in {"ack", "fail"}
    BY <1>7 DEF Kept, Invoke, Goto, TypeOK, LoopsOK
  <2>3. QED  BY <2>1, <2>2, OthersHold
<1>8. ASSUME NEW d \in Watchdogs, UNCHANGED crashes, CommitAck(d) \/ Fail(d)
      PROVE  claim'[w] # Nobody => (Settled(w) \/ InHand(w) \/ w \in interrupted)'
  <2>1. claim' = claim /\ interrupted' = interrupted
    BY <1>8 DEF CommitAck, Fail, crashes
  <2>2. Kept(d)
    BY <1>8 DEF Kept, CommitAck, Fail, Goto, Return, Die, TypeOK, LoopsOK
  <2>3. cur[d] \in Wakes /\ d # Nobody
    BY <1>8, WakeAssumption DEF CommitAck, Fail, TypeOK, LoopsOK, Idle
  <2>4. ack \in [Wakes -> Watchdogs \cup {Nobody}] /\ failure \in [Wakes -> Watchdogs \cup {Nobody}]
    BY DEF TypeOK, FilesOK
  <2>5. w # cur[d] => ack'[w] = ack[w] /\ failure'[w] = failure[w]
    <3>1. CASE CommitAck(d)  BY <2>4, <3>1, AckStep DEF CommitAck
    <3>2. CASE Fail(d)  BY <2>4, <3>2 DEF Fail
    <3>3. QED  BY <1>8, <3>1, <3>2
  <2>6. CASE w = cur[d]
    <3>1. CASE CommitAck(d)
      <4>1. ack' = [ack EXCEPT ![w] = d]  BY <2>6, <3>1, AckStep
      <4>2. QED  BY <2>3, <2>4, <4>1 DEF Settled
    <3>2. CASE Fail(d)
      <4>1. failure'[w] # Nobody  BY <2>3, <2>4, <2>6, <3>2 DEF Fail
      <4>2. QED  BY <4>1 DEF Settled
    <3>3. QED  BY <1>8, <3>1, <3>2
  <2>7. CASE w # cur[d]
    <3>1. ack'[w] = ack[w] /\ failure'[w] = failure[w]  BY <2>5, <2>7
    <3>2. CASE Settled(w)  BY <3>1, <3>2 DEF Settled
    <3>3. CASE w \in interrupted  BY <2>1, <3>3
    <3>4. ASSUME NEW e \in Watchdogs, claim[w] = e, cur[e] = w,
                 pc[e] \in {"invoke", "ack", "fail"}
          PROVE  InHand(w)'
      <4>1. e # d  BY <2>7, <3>4
      <4>2. cur'[e] = w /\ pc'[e] = pc[e]  BY <2>2, <3>4, <4>1 DEF Kept
      <4>3. QED  BY <2>1, <3>4, <4>2 DEF InHand
    <3>5. QED  BY <2>1, <3>2, <3>3, <3>4 DEF NothingStranded, InHand
  <2>8. QED  BY <2>6, <2>7
<1>9. ASSUME NEW d \in Watchdogs, Restart(d)
      PROVE  claim'[w] # Nobody => (Settled(w) \/ InHand(w) \/ w \in interrupted)'
  <2>1. UNCHANGED <<claim, ack, failure>> /\ interrupted \subseteq interrupted'
    BY <1>9 DEF Restart, store
  <2>2. Kept(d)  BY <1>9 DEF Kept, Restart, TypeOK, LoopsOK
  <2>3. CASE cur[d] = w
    <3>1. w # NoWake  BY WakeAssumption
    <3>2. w \in interrupted'  BY <1>9, <2>3, <3>1 DEF Restart
    <3>3. QED  BY <3>2
  <2>4. CASE cur[d] # w  BY <2>1, <2>2, <2>4, OthersHold
  <2>5. QED  BY <2>3, <2>4
<1>10. ASSUME NEW d \in Watchdogs, Step(d)
       PROVE  claim'[w] # Nobody => (Settled(w) \/ InHand(w) \/ w \in interrupted)'
  BY <1>5, <1>6, <1>7, <1>8, <1>10 DEF Step
<1>11. QED
  BY <1>2, <1>3, <1>4, <1>9, <1>10 DEF Next

THEOREM NoneStranded == Spec => []NothingStranded
<1>1. Init => NothingStranded  BY DEF Init, NothingStranded
<1>2. WakeInv /\ NothingStranded /\ [Next]_vars => NothingStranded'  BY StrandedStep
<1>3. QED  BY <1>1, <1>2, WakeInvariant, PTL DEF Spec

-----------------------------------------------------------------------------
(* Implements: every step of store and watchdogs is a step of WakeContract, *)
(* or none.                                                                 *)
LEMMA ContractStep ==
  ASSUME WakeInv, [Next]_vars
  PROVE  [Contract!Next]_(Contract!wakes)
<1> USE DEF WakeInv, Contract!wakes
<1> DEFINE Answered == {v \in Wakes : ack[v] # Nobody}
<1>1. CASE UNCHANGED vars
  BY <1>1 DEF vars, store, world
<1>2. ASSUME NEW s \in Submitters, Submit(s) PROVE [Contract!Next]_(Contract!wakes)
  <2>1. UNCHANGED <<claim, ack, invoked>>
    BY <1>2 DEF Submit, SubmitCheck, SubmitCreate, SubmitObserve, store, world
  <2>2. CASE request' = request
    BY <2>1, <2>2
  <2>3. CASE request' # request
    <3>1. SubmitCreate(s)
      BY <1>2, <2>3 DEF Submit, SubmitCheck, SubmitObserve, store
    <3>2. PICK w \in Wakes, c \in Cores, y \in Deliveries : sub[s] = <<w, c, y>>
      BY <3>1, WakeAssumption DEF SubmitCreate, TypeOK, SubmittersOK
    <3>3. request[w] = NoCore /\ request' = [request EXCEPT ![w] = c]
      BY <2>3, <3>1, <3>2 DEF SubmitCreate
    <3>4. Contract!Submit(w, c)  BY <2>1, <3>3 DEF Contract!Submit
    <3>5. QED  BY <3>4 DEF Contract!Next
  <2>4. QED  BY <2>2, <2>3
<1>3. ASSUME NEW d \in Watchdogs, Claim(d) PROVE [Contract!Next]_(Contract!wakes)
  <2>1. cur[d] \in Wakes /\ request[cur[d]] # NoCore
    BY <1>3 DEF Claim, TypeOK, LoopsOK, Idle
  <2>2. UNCHANGED <<request, ack, invoked>>  BY <1>3 DEF Claim, world
  <2>3. CASE claim' = claim  BY <2>2, <2>3
  <2>4. CASE claim[cur[d]] = Nobody /\ claim' = [claim EXCEPT ![cur[d]] = d]
    <3>1. Contract!Take(cur[d], d)  BY <2>1, <2>2, <2>4 DEF Contract!Take
    <3>2. QED  BY <2>1, <3>1 DEF Contract!Next
  <2>5. QED  BY <1>3, <2>3, <2>4 DEF Claim
<1>4. ASSUME NEW d \in Watchdogs, Invoke(d) PROVE [Contract!Next]_(Contract!wakes)
  <2>1. cur[d] \in Wakes /\ claim[cur[d]] = d /\ invoked[cur[d]] = 0 /\ d # Nobody
    BY <1>4, InvokeStep, WakeAssumption
  <2>2. UNCHANGED <<request, claim, ack>> /\ invoked' = [invoked EXCEPT ![cur[d]] = 1]
    BY <1>4, <2>1 DEF Invoke, store
  <2>3. Contract!Run(cur[d])  BY <2>1, <2>2 DEF Contract!Run
  <2>4. QED  BY <2>1, <2>3 DEF Contract!Next
<1>5. ASSUME NEW d \in Watchdogs, CommitAck(d) PROVE [Contract!Next]_(Contract!wakes)
  <2>1. cur[d] \in Wakes /\ claim[cur[d]] = d /\ ack[cur[d]] = Nobody /\ d # Nobody
    BY <1>5, AckFree DEF CommitAck
  <2>2. invoked[cur[d]] = 1  BY <1>5 DEF CommitAck, HolderOK
  <2>3. UNCHANGED <<request, claim, invoked>> /\ ack' = [ack EXCEPT ![cur[d]] = d]
    BY <1>5, AckStep DEF CommitAck, world
  <2>4. Answered' = Answered \cup {cur[d]} /\ cur[d] \notin Answered
    BY <2>1, <2>3 DEF TypeOK, FilesOK
  <2>5. PICK x \in Wakes : x = cur[d]  BY <2>1
  <2>6. Contract!Answer(x)  BY <2>2, <2>3, <2>4, <2>5 DEF Contract!Answer
  <2>7. QED  BY <2>6 DEF Contract!Next
<1>6. ASSUME NEW d \in Watchdogs,
             Scan(d) \/ TakeNext(d) \/ Policy(d) \/ Expiry(d) \/ Payload(d) \/ Notify(d)
               \/ Fail(d) \/ Restart(d)
      PROVE  [Contract!Next]_(Contract!wakes)
  BY <1>6 DEF Scan, TakeNext, Policy, Expiry, Payload, Notify, Fail, Restart, store, world
<1>7. ASSUME NEW w \in Wakes, Expire(w) \/ PayloadChanges(w)
      PROVE  [Contract!Next]_(Contract!wakes)
  BY <1>7 DEF Expire, PayloadChanges, store
<1>8. QED  BY <1>1, <1>2, <1>3, <1>4, <1>5, <1>6, <1>7 DEF Next, Step

THEOREM Implements == Spec => ImplementsContract
<1>1. Init => Contract!Init  BY DEF Init, Contract!Init
<1>2. WakeInv /\ [Next]_vars => [Contract!Next]_(Contract!wakes)  BY ContractStep
<1>3. QED  BY <1>1, <1>2, WakeInvariant, PTL DEF Spec, ImplementsContract, Contract!Spec
=============================================================================
