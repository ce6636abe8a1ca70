-------------------------- MODULE DeliveryLifecycle --------------------------
(***************************************************************************)
(* What the Bridge promises about one message: it walks the delivery graph *)
(* of DeliveryStates, it enters the recipient's terminal at most once and  *)
(* only while READY is the durable state, and the journal says             *)
(* PROMPT_SUBMITTED, or anything that presupposes it, only of a message    *)
(* that did.  Processes, rows, crashes and runtimes are gone.              *)
(***************************************************************************)
EXTENDS DeliveryStates

CONSTANTS Messages, Absent

VARIABLES state, prompted

lifecycle == <<state, prompted>>

Init ==
  /\ state = [m \in Messages |-> Absent]
  /\ prompted = [m \in Messages |-> 0]

Open(m) ==
  /\ state[m] = Absent
  /\ state' = [state EXCEPT ![m] = "journaled"]
  /\ UNCHANGED prompted

Submit(m) ==
  /\ state[m] = "ready" /\ prompted[m] = 0
  /\ prompted' = [prompted EXCEPT ![m] = 1]
  /\ UNCHANGED state

Advance(m, s) ==
  /\ <<state[m], s>> \in AllowedTransitions
  /\ s = "prompt_submitted" => prompted[m] = 1
  /\ s \in {"suppressed", "target_unavailable"} => prompted[m] = 0
  /\ state' = [state EXCEPT ![m] = s]
  /\ UNCHANGED prompted

Next == \E m \in Messages : Open(m) \/ Submit(m) \/ \E s \in DeliveryState : Advance(m, s)

Spec == Init /\ [][Next]_lifecycle
=============================================================================
