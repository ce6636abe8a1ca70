----------------------------- MODULE WakeSafety -----------------------------
(***************************************************************************)
(* What WakeWatchdog is checked and proved for.                            *)
(***************************************************************************)
EXTENDS WakeWatchdog

(* Shape of the state: a watchdog inside process holds a submitted wake.    *)
Idle == {"scan", "next", "dead"}

FilesOK ==
  /\ request \in [Wakes -> Cores \cup {NoCore}]
  /\ duplicates \subseteq Wakes \X Deliveries
  /\ claim \in [Wakes -> Watchdogs \cup {Nobody}]
  /\ ack \in [Wakes -> Watchdogs \cup {Nobody}]
  /\ failure \in [Wakes -> Watchdogs \cup {Nobody}]
  /\ notified \subseteq Wakes
  /\ expired \subseteq Wakes /\ damaged \subseteq Wakes
  /\ invoked \in [Wakes -> Nat]

SubmittersOK ==
  /\ sub \in [Submitters -> (Wakes \X Cores \X Deliveries) \cup {NoRequest}]
  /\ spc \in [Submitters -> {"idle", "create", "observe"}]
  /\ \A s \in Submitters : spc[s] # "idle" => sub[s] # NoRequest
  /\ raised \subseteq Submitters

LoopsOK ==
  /\ pc \in [Watchdogs -> Labels]
  /\ queue \in [Watchdogs -> SUBSET Wakes]
  /\ cur \in [Watchdogs -> Wakes \cup {NoWake}]
  /\ \A d \in Watchdogs :
       /\ cur[d] = NoWake <=> pc[d] \in Idle
       /\ \A w \in queue[d] \cup {cur[d]} : w \in Wakes => request[w] # NoCore

TypeOK == FilesOK /\ SubmittersOK /\ LoopsOK

-----------------------------------------------------------------------------
(* OneInvocation: the provider is started at most once for a wake, by any   *)
(* number of watchdogs and their restarts, however often it is submitted    *)
(* ("wake_id duplicate != provider replay permission", WAKE_QUICKSTART);    *)
(* and whatever the configs of other watchdogs say, only for a content that *)
(* the config of the claim's holder admits.                                 *)
Admitted(w) == claim[w] \in Watchdogs /\ <<claim[w], request[w]>> \notin Refuses
OneInvocation ==
  \A w \in Wakes : invoked[w] <= 1 /\ (invoked[w] > 0 => Admitted(w))

(* AckByClaimer: an ACK is committed by the watchdog that holds the claim,  *)
(* after the provider ran, and never for a run that it recorded as failed;  *)
(* and commit_ack does not raise: when it is called, the watchdog has its   *)
(* claim and nobody else has put an ACK.                                    *)
AckByClaimer ==
  /\ \A w \in Wakes : ack[w] # Nobody =>
       /\ ack[w] = claim[w] /\ invoked[w] = 1
       /\ failure[w] # ack[w]
  /\ \A d \in Watchdogs : pc[d] = "ack" => claim[cur[d]] = d /\ ack[cur[d]] = Nobody

(* SomeWatchdogLives: errors that escape process, which happen when two     *)
(* watchdogs fail the same wake, never end the last watchdog.               *)
Doomed(d) == pc[d] \notin Idle /\ failure[cur[d]] # Nobody
SomeWatchdogLives == \E d \in Watchdogs : pc[d] # "dead" /\ ~Doomed(d)

(* EveryWakeSettles: a submitted wake is acknowledged or failed in the end, *)
(* or a watchdog crashed while it was at this very wake; crashes at other   *)
(* times, lost claims, and errors that end all watchdogs but one do not keep*)
(* it from that.                                                            *)
EveryWakeSettles ==
  \A w \in Wakes :
    request[w] # NoCore ~> (ack[w] # Nobody \/ failure[w] # Nobody \/ w \in interrupted)

(* ImplementsContract: store and watchdogs implement WakeContract.          *)
Contract == INSTANCE WakeContract WITH
              content <- request, taker <- claim, runs <- invoked,
              answered <- {v \in Wakes : ack[v] # Nobody}
ImplementsContract == Contract!Spec
=============================================================================
