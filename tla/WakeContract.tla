---------------------------- MODULE WakeContract ----------------------------
(***************************************************************************)
(* What eml-wake promises about one durable wake: its content is fixed by  *)
(* the first submission, one watchdog at most takes it, the provider runs  *)
(* for it at most once and only for that watchdog, and an acknowledgement  *)
(* follows that run.  Files, queues, races and crashes are gone.           *)
(***************************************************************************)
EXTENDS Naturals

CONSTANTS Wakes, Cores, Watchdogs, NoCore, Nobody

VARIABLES content, taker, runs, answered

wakes == <<content, taker, runs, answered>>

Init ==
  /\ content = [w \in Wakes |-> NoCore]
  /\ taker = [w \in Wakes |-> Nobody]
  /\ runs = [w \in Wakes |-> 0]
  /\ answered = {}

Submit(w, c) ==
  /\ content[w] = NoCore
  /\ content' = [content EXCEPT ![w] = c]
  /\ UNCHANGED <<taker, runs, answered>>

Take(w, d) ==
  /\ content[w] # NoCore /\ taker[w] = Nobody
  /\ taker' = [taker EXCEPT ![w] = d]
  /\ UNCHANGED <<content, runs, answered>>

Run(w) ==
  /\ taker[w] # Nobody /\ runs[w] = 0
  /\ runs' = [runs EXCEPT ![w] = 1]
  /\ UNCHANGED <<content, taker, answered>>

Answer(w) ==
  /\ runs[w] = 1 /\ w \notin answered
  /\ answered' = answered \cup {w}
  /\ UNCHANGED <<content, taker, runs>>

Next ==
  \E w \in Wakes :
    \/ \E c \in Cores : Submit(w, c)
    \/ \E d \in Watchdogs : Take(w, d)
    \/ Run(w) \/ Answer(w)

Spec == Init /\ [][Next]_wakes
=============================================================================
