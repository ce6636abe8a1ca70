-------------------------- MODULE HandoffContract --------------------------
(***************************************************************************)
(* What the mailbox promises about handoffs: the content of an id is fixed *)
(* by the first submission, one instance that may have it takes it, only   *)
(* then is it read, and one receipt answers it, alone or with another      *)
(* handoff that replies to it.  Payload files, duplicates, races and       *)
(* crashes are gone.                                                       *)
(***************************************************************************)
EXTENDS Naturals

CONSTANTS Handoffs, Core, Instances, MayTake, NoHandoff, NoCore, NoOne, NoAnswer

VARIABLES content, taker, read, answer

handoffs == <<content, taker, read, answer>>

Init ==
  /\ content = [h \in Handoffs |-> NoCore]
  /\ taker = [h \in Handoffs |-> NoOne]
  /\ read = {}
  /\ answer = [h \in Handoffs |-> NoAnswer]

Offer(h, c) ==
  /\ content[h] = NoCore
  /\ content' = [content EXCEPT ![h] = c]
  /\ UNCHANGED <<taker, read, answer>>

Take(h, i) ==
  /\ content[h] # NoCore /\ taker[h] = NoOne
  /\ <<i, content[h].target>> \in MayTake
  /\ taker' = [taker EXCEPT ![h] = i]
  /\ UNCHANGED <<content, read, answer>>

Read(h) ==
  /\ taker[h] # NoOne /\ h \notin read
  /\ read' = read \cup {h}
  /\ UNCHANGED <<content, taker, answer>>

Answer(h, r) ==
  /\ h \in read /\ answer[h] = NoAnswer
  /\ r # NoHandoff => content[r] # NoCore /\ content[r].reply = h
  /\ answer' = [answer EXCEPT ![h] = [by |-> taker[h], response |-> r]]
  /\ UNCHANGED <<content, taker, read>>

Next ==
  \E h \in Handoffs :
    \/ \E c \in Core : Offer(h, c)
    \/ \E i \in Instances : Take(h, i)
    \/ Read(h)
    \/ \E r \in Handoffs \cup {NoHandoff} : Answer(h, r)

Spec == Init /\ [][Next]_handoffs
=============================================================================
