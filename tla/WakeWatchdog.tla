---------------------------- MODULE WakeWatchdog ----------------------------
(***************************************************************************)
(* The durable wake store (eml_wake/store.py) and the watchdogs that poll  *)
(* it (eml_wake/watchdog.py, watch_loop of eml_wake/cli.py).  Submitters   *)
(* and watchdogs are separate processes, each with its own config; they    *)
(* share a directory in which every record is a file published by link(2): *)
(* it appears whole, and never replaces another.  The checks that precede a*)
(* publication are steps of their own, and a process may crash between any *)
(* two of them.  The provider and the clock are the environment.           *)
(***************************************************************************)
EXTENDS Naturals

CONSTANTS
  Watchdogs, Submitters,
  Wakes,       \* wake ids
  Cores,       \* request contents, without the delivery id
  Deliveries,  \* delivery ids
  Refuses,     \* which watchdog's config refuses which content
  MaxRestarts, \* bound on the crashes after which a watchdog is started again
  NoCore, Nobody, NoWake, NoRequest

ASSUME WakeAssumption ==
  /\ Refuses \subseteq Watchdogs \X Cores
  /\ NoCore \notin Cores /\ Nobody \notin Watchdogs /\ NoWake \notin Wakes
  /\ NoRequest \notin Wakes \X Cores \X Deliveries
  /\ MaxRestarts \in Nat

VARIABLES
  \* the store
  request,    \* requests/: the content of each wake
  duplicates, \* duplicates/: the further deliveries observed
  claim,      \* claims/: who holds it
  ack,        \* acks/: who committed it
  failure,    \* failures/: who recorded it
  notified,   \* notifications/
  \* the world
  expired,    \* wakes whose expires_at has passed
  damaged,    \* wakes whose payload cannot be read or has another digest
  invoked,    \* how often the provider was started for each wake
  \* the processes
  pc,         \* where each watchdog is in run_once and process
  queue,      \* the wakes of its pass it has not processed yet
  cur,        \* the wake it processes
  sub,        \* the request a submitter is submitting
  spc,        \* where it is in submit
  raised,     \* submitters that ended in an error
  restarts,   \* crashes so far
  interrupted \* the wakes a watchdog was at when it crashed

store == <<request, duplicates, claim, ack, failure, notified>>
world == <<expired, damaged, invoked>>
loop  == <<pc, queue, cur>>
submits == <<sub, spc, raised>>
crashes == <<restarts, interrupted>>
vars  == <<store, world, loop, submits, crashes>>

Labels == {"scan", "next", "policy", "expiry", "payload", "claim", "invoke",
           "ack", "notify", "fail", "dead"}

Init ==
  /\ request = [w \in Wakes |-> NoCore]
  /\ duplicates = {}
  /\ claim = [w \in Wakes |-> Nobody]
  /\ ack = [w \in Wakes |-> Nobody]
  /\ failure = [w \in Wakes |-> Nobody]
  /\ notified = {}
  /\ expired = {} /\ damaged \in SUBSET Wakes
  /\ invoked = [w \in Wakes |-> 0]
  /\ pc = [d \in Watchdogs |-> "scan"]
  /\ queue = [d \in Watchdogs |-> {}]
  /\ cur = [d \in Watchdogs |-> NoWake]
  /\ sub = [s \in Submitters |-> NoRequest]
  /\ spc = [s \in Submitters |-> "idle"]
  /\ raised = {}
  /\ restarts = 0 /\ interrupted = {}

-----------------------------------------------------------------------------
(* submit, two steps: the existence check, then the publication.            *)

SubmitDone(s) ==
  /\ spc' = [spc EXCEPT ![s] = "idle"]
  /\ sub' = [sub EXCEPT ![s] = NoRequest]

SubmitFails(s) == SubmitDone(s) /\ raised' = raised \cup {s}

\* A wake id already stored with other content is a collision; with the same
\* content, the delivery is recorded as a duplicate unless it already is.
SubmitCheck(s, w, c, y) ==
  /\ spc[s] = "idle"
  /\ UNCHANGED <<store, world, loop>>
  /\ \/ /\ request[w] = NoCore
        /\ sub' = [sub EXCEPT ![s] = <<w, c, y>>]
        /\ spc' = [spc EXCEPT ![s] = "create"]
        /\ raised' = raised
     \/ /\ request[w] = c /\ <<w, y>> \notin duplicates
        /\ sub' = [sub EXCEPT ![s] = <<w, c, y>>]
        /\ spc' = [spc EXCEPT ![s] = "observe"]
        /\ raised' = raised
     \/ /\ request[w] # NoCore
        /\ request[w] # c \/ <<w, y>> \in duplicates
        /\ UNCHANGED submits

SubmitCreate(s) ==
  /\ spc[s] = "create"
  /\ LET w == sub[s][1]
     IN \/ /\ request[w] = NoCore
           /\ request' = [request EXCEPT ![w] = sub[s][2]]
           /\ SubmitDone(s) /\ raised' = raised
        \/ /\ request[w] # NoCore               \* immutable_file_exists
           /\ request' = request
           /\ SubmitFails(s)
  /\ UNCHANGED <<duplicates, claim, ack, failure, notified, world, loop>>

SubmitObserve(s) ==
  /\ spc[s] = "observe"
  /\ LET r == <<sub[s][1], sub[s][3]>>
     IN /\ duplicates' = duplicates \cup {r}
        /\ SubmitDone(s)
        /\ raised' = IF r \in duplicates THEN raised \cup {s} ELSE raised
  /\ UNCHANGED <<request, claim, ack, failure, notified, world, loop>>

-----------------------------------------------------------------------------
(* run_once and process.                                                    *)

Goto(d, l) == pc' = [pc EXCEPT ![d] = l] /\ UNCHANGED <<queue, cur>>

\* process returns, and run_once goes on with its list.
Return(d) ==
  /\ pc' = [pc EXCEPT ![d] = "next"]
  /\ cur' = [cur EXCEPT ![d] = NoWake]
  /\ queue' = queue

\* An exception that process does not catch ends run_once and the loop.
Die(d) ==
  /\ pc' = [pc EXCEPT ![d] = "dead"]
  /\ cur' = [cur EXCEPT ![d] = NoWake]
  /\ queue' = [queue EXCEPT ![d] = {}]

\* pending_wake_ids; watch_loop asks again as long as it is not interrupted.
Pending == {w \in Wakes : /\ request[w] # NoCore
                          /\ claim[w] = Nobody /\ failure[w] = Nobody}

Scan(d) ==
  /\ pc[d] = "scan"
  /\ queue' = [queue EXCEPT ![d] = Pending]
  /\ pc' = [pc EXCEPT ![d] = "next"]
  /\ UNCHANGED <<store, world, cur, submits>>

Untouched(w) == ack[w] = Nobody /\ failure[w] = Nobody /\ claim[w] = Nobody

\* process begins with the wake's status; only a pending one goes any further.
TakeNext(d) ==
  /\ pc[d] = "next"
  /\ \/ /\ queue[d] = {}
        /\ Goto(d, "scan")
     \/ \E w \in queue[d] :
          /\ queue' = [queue EXCEPT ![d] = @ \ {w}]
          /\ \/ /\ Untouched(w)
                /\ pc' = [pc EXCEPT ![d] = "policy"]
                /\ cur' = [cur EXCEPT ![d] = w]
             \/ ~Untouched(w) /\ UNCHANGED <<pc, cur>>
  /\ UNCHANGED <<store, world, submits>>

\* Mutant: the config is not consulted.
PolicyIgnored(d) ==
  /\ pc[d] = "policy"
  /\ Goto(d, "expiry")
  /\ UNCHANGED <<store, world, submits>>

Policy(d) ==
  /\ pc[d] = "policy"
  /\ Goto(d, IF <<d, request[cur[d]]>> \in Refuses THEN "fail" ELSE "expiry")
  /\ UNCHANGED <<store, world, submits>>

\* Mutant: an expired request is dropped without a record.
ExpiryDropped(d) ==
  /\ pc[d] = "expiry"
  /\ IF cur[d] \in expired THEN Return(d) ELSE Goto(d, "payload")
  /\ UNCHANGED <<store, world, submits>>

Expiry(d) ==
  /\ pc[d] = "expiry"
  /\ Goto(d, IF cur[d] \in expired THEN "fail" ELSE "payload")
  /\ UNCHANGED <<store, world, submits>>

\* The payload is read once and its digest checked; what is read is what the
\* provider gets.
Payload(d) ==
  /\ pc[d] = "payload"
  /\ Goto(d, IF cur[d] \in damaged THEN "fail" ELSE "claim")
  /\ UNCHANGED <<store, world, submits>>

\* Mutant: the claim file is replaced.
ClaimReplacing(d) ==
  /\ pc[d] = "claim"
  /\ claim' = [claim EXCEPT ![cur[d]] = d]
  /\ Goto(d, "invoke")
  /\ UNCHANGED <<request, duplicates, ack, failure, notified, world, submits>>

Claim(d) ==
  /\ pc[d] = "claim"
  /\ \/ /\ claim[cur[d]] = Nobody
        /\ claim' = [claim EXCEPT ![cur[d]] = d]
        /\ Goto(d, "invoke")
     \/ /\ claim[cur[d]] # Nobody                \* concurrent_claim_lost
        /\ claim' = claim
        /\ Return(d)
  /\ UNCHANGED <<request, duplicates, ack, failure, notified, world, submits>>

\* Mutant: a busy provider is tried again.
InvokeRetrying(d) ==
  /\ pc[d] = "invoke" /\ invoked[cur[d]] < 2
  /\ invoked' = [invoked EXCEPT ![cur[d]] = @ + 1]
  /\ \E l \in {"ack", "fail", "invoke"} : Goto(d, l)
  /\ UNCHANGED <<store, expired, damaged, submits>>

\* The provider answers, or fails, or returns an error result.
Invoke(d) ==
  /\ pc[d] = "invoke"
  /\ invoked' = [invoked EXCEPT ![cur[d]] = @ + 1]
  /\ \E l \in {"ack", "fail"} : Goto(d, l)
  /\ UNCHANGED <<store, expired, damaged, submits>>

\* commit_ack, which raises without a claim or over another ACK.  (The CTCL
\* registration before it can only degrade the record.)
CommitAck(d) ==
  /\ pc[d] = "ack"
  /\ \/ /\ claim[cur[d]] # Nobody /\ ack[cur[d]] = Nobody
        /\ ack' = [ack EXCEPT ![cur[d]] = d]
        /\ Goto(d, "notify")
     \/ /\ claim[cur[d]] = Nobody \/ ack[cur[d]] # Nobody
        /\ ack' = ack
        /\ Die(d)
  /\ UNCHANGED <<request, duplicates, claim, failure, notified, world, submits>>

\* Notification is recorded or fails; either way the wake is acknowledged.
Notify(d) ==
  /\ pc[d] = "notify"
  /\ notified' \in {notified, notified \cup {cur[d]}}
  /\ Return(d)
  /\ UNCHANGED <<request, duplicates, claim, ack, failure, world, submits>>

\* Mutant: a recorded failure does not end process.
FailThrough(d) ==
  /\ pc[d] = "fail"
  /\ failure' = [failure EXCEPT ![cur[d]] = IF @ = Nobody THEN d ELSE @]
  /\ IF claim[cur[d]] = d THEN Goto(d, "ack") ELSE Return(d)
  /\ UNCHANGED <<request, duplicates, claim, ack, notified, world, submits>>

\* Mutant: the failure is recorded and raised.
FailAndRaise(d) ==
  /\ pc[d] = "fail"
  /\ failure' = [failure EXCEPT ![cur[d]] = IF @ = Nobody THEN d ELSE @]
  /\ Die(d)
  /\ UNCHANGED <<request, duplicates, claim, ack, notified, world, submits>>

\* record_failure: the publication raises over another failure.
Fail(d) ==
  /\ pc[d] = "fail"
  /\ \/ /\ failure[cur[d]] = Nobody
        /\ failure' = [failure EXCEPT ![cur[d]] = d]
        /\ Return(d)
     \/ /\ failure[cur[d]] # Nobody              \* immutable_file_exists
        /\ failure' = failure
        /\ Die(d)
  /\ UNCHANGED <<request, duplicates, claim, ack, notified, world, submits>>

\* A watchdog is started again after a crash, or after an error ended it.
Restart(d) ==
  /\ restarts < MaxRestarts /\ restarts' = restarts + 1
  /\ interrupted' = interrupted \cup ({cur[d]} \ {NoWake})
  /\ pc' = [pc EXCEPT ![d] = "scan"]
  /\ cur' = [cur EXCEPT ![d] = NoWake]
  /\ queue' = [queue EXCEPT ![d] = {}]
  /\ UNCHANGED <<store, world, submits>>

-----------------------------------------------------------------------------
Expire(w) ==
  /\ expired' = expired \cup {w}
  /\ UNCHANGED <<store, damaged, invoked, loop, submits, crashes>>

\* The payload file is changed, or put right.
PayloadChanges(w) ==
  /\ damaged' = IF w \in damaged THEN damaged \ {w} ELSE damaged \cup {w}
  /\ UNCHANGED <<store, expired, invoked, loop, submits, crashes>>

Step(d) ==
  /\ \/ Scan(d) \/ TakeNext(d) \/ Policy(d) \/ Expiry(d) \/ Payload(d) \/ Claim(d)
     \/ Invoke(d) \/ CommitAck(d) \/ Notify(d) \/ Fail(d)
  /\ UNCHANGED crashes

Submit(s) ==
  /\ \/ \E w \in Wakes, c \in Cores, y \in Deliveries : SubmitCheck(s, w, c, y)
     \/ SubmitCreate(s) \/ SubmitObserve(s)
  /\ UNCHANGED crashes

Next ==
  \/ \E s \in Submitters : Submit(s)
  \/ \E d \in Watchdogs : Step(d) \/ Restart(d)
  \/ \E w \in Wakes : Expire(w) \/ PayloadChanges(w)

Spec == Init /\ [][Next]_vars

\* A watchdog keeps polling until it crashes, and when it is started again: the
\* provider and the CTCL request have timeouts.
FairSpec == Spec /\ \A d \in Watchdogs : WF_vars(Step(d))
=============================================================================
