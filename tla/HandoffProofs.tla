---------------------------- MODULE HandoffProofs ----------------------------
(***************************************************************************)
(* Proofs about HandoffMailbox, for every number of clients, instances and *)
(* handoffs, with and without crashes and changed payload files.           *)
(***************************************************************************)
EXTENDS HandoffSafety, TLAPS

(* What a client may rely on between the checks of its command and its      *)
(* publication.                                                             *)
HolderOK(p) ==
  /\ pc[p] = "commit" /\ sub[p].id \notin tampered => File(sub[p]) = sub[p].core.bytes
  /\ pc[p] = "claim" =>
       envelope[at[p]] # NoCore /\ Authorized(p, envelope[at[p]].target)
  /\ pc[p] = "keep" => claim[at[p]] = As[p] /\ saw[p] = envelope[at[p]].bytes
  /\ pc[p] = "sign" =>
       /\ materialization[at[p]] # NoOne /\ materialization[at[p]].by = As[p]
       /\ Linked(at[p], resp[p])

MailboxInv ==
  /\ TypeOK
  /\ EnvelopeHasPayload /\ OneReceiver /\ SentIsMaterialized /\ ResponseLinked
  /\ \A p \in Clients : HolderOK(p)

(* Records stay: no step replaces or removes one.                           *)
RecordsKept ==
  \A h \in Handoffs :
    /\ envelope[h] # NoCore => envelope'[h] = envelope[h]
    /\ claim[h] # NoOne => claim'[h] = claim[h]
    /\ materialization[h] # NoOne => materialization'[h] = materialization[h]
    /\ receipt[h] # NoReceipt => receipt'[h] = receipt[h]

-----------------------------------------------------------------------------
LEMMA MailboxInit == Init => MailboxInv
  BY MailboxAssumption
  DEF Init, MailboxInv, TypeOK, StoreOK, ClientsOK, EnvelopeHasPayload, OneReceiver,
      SentIsMaterialized, ResponseLinked, HolderOK, Labels, Submitting

(* A client's step leaves the other clients where they are.                 *)
OthersKept(p) ==
  \A q \in Clients \ {p} :
    pc'[q] = pc[q] /\ at'[q] = at[q] /\ sub'[q] = sub[q] /\ resp'[q] = resp[q] /\ saw'[q] = saw[q]

LEMMA Finishing ==
  ASSUME MailboxInv, NEW p \in Clients, Finish(p)
  PROVE  ClientsOK' /\ HolderOK(p)' /\ OthersKept(p)
<1> USE DEF MailboxInv, TypeOK, ClientsOK
<1>1. /\ pc'[p] = "idle" /\ at'[p] = NoHandoff /\ sub'[p] = NoSubmission
      /\ resp'[p] = NoHandoff /\ saw'[p] = NoBytes
  BY DEF Finish
<1>2. /\ pc' \in [Clients -> Labels] /\ at' \in [Clients -> Handoffs \cup {NoHandoff}]
      /\ sub' \in [Clients -> Submission \cup {NoSubmission}]
      /\ resp' \in [Clients -> Handoffs \cup {NoHandoff}]
      /\ saw' \in [Clients -> Bytes \cup {NoBytes}]
  BY DEF Finish, Labels
<1>3. OthersKept(p)  BY DEF Finish, OthersKept
<1>4. HolderOK(p)'  BY <1>1 DEF HolderOK
<1>5. ASSUME NEW q \in Clients
      PROVE  /\ sub'[q] # NoSubmission <=> pc'[q] \in Submitting
             /\ pc'[q] = "idle" => at'[q] = NoHandoff /\ resp'[q] = NoHandoff
             /\ pc'[q] \notin Submitting \cup {"idle"} => at'[q] # NoHandoff
             /\ saw'[q] # NoBytes <=> pc'[q] = "keep"
  <2>1. CASE q = p  BY <1>1, <2>1 DEF Submitting
  <2>2. CASE q # p  BY <1>3, <2>2 DEF OthersKept
  <2>3. QED  BY <2>1, <2>2
<1>6. QED  BY <1>2, <1>3, <1>4, <1>5

(* Going on within submit, or from reply's submission to its receipt.       *)
LEMMA GoingOn ==
  ASSUME MailboxInv, NEW p \in Clients, NEW l \in Labels, Goto(p, l),
         \/ pc[p] \in Submitting /\ l \in Submitting
         \/ pc[p] = "receipt" /\ l = "sign"
  PROVE  ClientsOK' /\ OthersKept(p) /\ pc'[p] = l
<1> USE DEF MailboxInv, TypeOK, ClientsOK
<1>1. pc'[p] = l /\ OthersKept(p) /\ UNCHANGED <<at, sub, resp, saw>>
  BY DEF Goto, OthersKept
<1>2. pc' \in [Clients -> Labels]  BY DEF Goto
<1>3. QED  BY <1>1, <1>2 DEF OthersKept, Submitting

LEMMA SubmittedStep ==
  ASSUME MailboxInv, NEW p \in Clients, pc[p] \in Submitting, Submitted(p)
  PROVE  ClientsOK' /\ HolderOK(p)' /\ OthersKept(p)
<1>1. CASE at[p] = NoHandoff
  BY <1>1, Finishing DEF Submitted
<1>2. CASE at[p] # NoHandoff
  <2> USE DEF MailboxInv, TypeOK, ClientsOK
  <2>1. /\ pc' = [pc EXCEPT ![p] = "receipt"] /\ sub' = [sub EXCEPT ![p] = NoSubmission]
        /\ UNCHANGED <<at, resp, saw>>
    BY <1>2 DEF Submitted
  <2>2. pc' \in [Clients -> Labels] /\ sub' \in [Clients -> Submission \cup {NoSubmission}]
    BY <2>1 DEF Labels
  <2>3. OthersKept(p)  BY <2>1 DEF OthersKept
  <2>4. pc'[p] = "receipt" /\ sub'[p] = NoSubmission  BY <2>1
  <2>5. HolderOK(p)'  BY <2>4 DEF HolderOK
  <2>6. ClientsOK'  BY <1>2, <2>1, <2>2, <2>3, <2>4 DEF OthersKept, Submitting
  <2>7. QED  BY <2>3, <2>5, <2>6
<1>3. QED  BY <1>1, <1>2

(* What a submitter holds is a submission.                                  *)
LEMMA Held ==
  ASSUME MailboxInv, NEW p \in Clients, pc[p] \in Submitting
  PROVE  /\ sub[p] \in Submission /\ sub[p].id \in Handoffs /\ sub[p].core \in Core
         /\ sub[p].core # NoCore /\ sub[p].core.kind \in Kinds
         /\ sub[p].core.bytes \in Bytes /\ sub[p].core.bytes # NoBytes
  BY MailboxAssumption DEF MailboxInv, TypeOK, ClientsOK, Submission, Core

(* The other clients keep what they rely on when records and payloads stay. *)
LEMMA OthersHold ==
  ASSUME MailboxInv, NEW p \in Clients, OthersKept(p), RecordsKept,
         \A h \in Handoffs, k \in Kinds :
           h \in tampered' \/ payload[<<h, k>>] = NoBytes \/ payload'[<<h, k>>] = payload[<<h, k>>],
         tampered \subseteq tampered'
  PROVE  \A q \in Clients \ {p} : HolderOK(q)'
<1> SUFFICES ASSUME NEW q \in Clients, q # p PROVE HolderOK(q)'  OBVIOUS
<1>1. pc'[q] = pc[q] /\ at'[q] = at[q] /\ sub'[q] = sub[q] /\ resp'[q] = resp[q] /\ saw'[q] = saw[q]
  BY DEF OthersKept
<1>2. HolderOK(q)  BY DEF MailboxInv
<1>3. pc[q] \in {"claim", "keep", "sign"} => at[q] \in Handoffs
  BY DEF MailboxInv, TypeOK, ClientsOK, Submitting
<1>4. pc[q] = "commit" /\ sub[q].id \notin tampered' => File(sub[q])' = sub[q].core.bytes
  <2> SUFFICES ASSUME pc[q] = "commit", sub[q].id \notin tampered'
               PROVE  File(sub[q])' = sub[q].core.bytes
    OBVIOUS
  <2>1. pc[q] \in Submitting  BY DEF Submitting
  <2>2. File(sub[q]) = sub[q].core.bytes  BY <1>2 DEF HolderOK
  <2>3. QED  BY <1>1, <2>1, <2>2, Held DEF File
<1>5. pc[q] = "claim" => envelope'[at[q]] # NoCore /\ Authorized(q, envelope'[at[q]].target)
  BY <1>2, <1>3 DEF HolderOK, RecordsKept
<1>6. pc[q] = "keep" => claim'[at[q]] = As[q] /\ saw[q] = envelope'[at[q]].bytes
  <2> SUFFICES ASSUME pc[q] = "keep"
               PROVE  claim'[at[q]] = As[q] /\ saw[q] = envelope'[at[q]].bytes
    OBVIOUS
  <2>1. claim[at[q]] = As[q] /\ As[q] # NoOne /\ at[q] \in Handoffs
    BY <1>2, <1>3, MailboxAssumption DEF HolderOK
  <2>2. envelope[at[q]] # NoCore  BY <2>1 DEF MailboxInv, OneReceiver
  <2>3. QED  BY <1>2, <2>1, <2>2 DEF HolderOK, RecordsKept
<1>7. pc[q] = "sign" =>
        /\ materialization'[at[q]] # NoOne /\ materialization'[at[q]].by = As[q]
        /\ Linked(at[q], resp[q])'
  <2> SUFFICES ASSUME pc[q] = "sign"
               PROVE  materialization'[at[q]] # NoOne /\ materialization'[at[q]].by = As[q]
                        /\ Linked(at[q], resp[q])'
    OBVIOUS
  <2>1. resp[q] \in Handoffs \cup {NoHandoff}  BY DEF MailboxInv, TypeOK, ClientsOK
  <2>2. Linked(at[q], resp[q])'
    BY <1>1, <1>2, <2>1 DEF HolderOK, Linked, RecordsKept
  <2>3. QED  BY <1>2, <1>3, <2>2 DEF HolderOK, RecordsKept
<1>8. QED  BY <1>1, <1>4, <1>5, <1>6, <1>7 DEF HolderOK, Linked, File

-----------------------------------------------------------------------------
(* Steps that publish nothing.                                              *)

Facts == EnvelopeHasPayload /\ OneReceiver /\ SentIsMaterialized /\ ResponseLinked

LEMMA Unpublished ==
  ASSUME MailboxInv, NEW p \in Clients, UNCHANGED <<sent, inbox, tampered>>,
         issued' \subseteq Handoffs \ Named, abandoned' \subseteq issued',
         ClientsOK', HolderOK(p)', OthersKept(p)
  PROVE  MailboxInv' /\ RecordsKept
<1>1. UNCHANGED <<payload, envelope, duplicates, quarantine, claim, materialization,
                  receipt, tampered>>
  BY DEF sent, inbox
<1>2. RecordsKept  BY <1>1 DEF RecordsKept
<1>3. StoreOK'  BY <1>1 DEF MailboxInv, TypeOK, StoreOK
<1>4. Facts'
  BY <1>1 DEF Facts, MailboxInv, EnvelopeHasPayload, OneReceiver, SentIsMaterialized,
     ResponseLinked, Authorized
<1>5. \A q \in Clients \ {p} : HolderOK(q)'
  BY <1>1, <1>2, OthersHold
<1>6. QED  BY <1>2, <1>3, <1>4, <1>5 DEF MailboxInv, TypeOK, Facts

LEMMA Sending ==
  ASSUME MailboxInv, NEW p \in Clients, NEW h \in Handoffs, NEW c \in Core,
         NEW y \in Deliveries, Send(p, h, c, y),
         \/ UNCHANGED <<at, resp>>
         \/ \E g \in Handoffs : at' = [at EXCEPT ![p] = g] /\ resp' = [resp EXCEPT ![p] = h]
  PROVE  ClientsOK' /\ HolderOK(p)' /\ OthersKept(p)
<1> USE DEF MailboxInv, TypeOK, ClientsOK
<1>1. [id |-> h, core |-> c, delivery |-> y] \in Submission  BY DEF Submission
<1>2. /\ pc' = [pc EXCEPT ![p] = "submit"] /\ saw' = saw
      /\ sub' = [sub EXCEPT ![p] = [id |-> h, core |-> c, delivery |-> y]]
  BY DEF Send
<1>3. OthersKept(p)  BY <1>2 DEF OthersKept
<1>4. pc'[p] = "submit" /\ sub'[p] # NoSubmission /\ saw'[p] = NoBytes
  BY <1>1, <1>2, MailboxAssumption DEF Send, Submitting
<1>5. HolderOK(p)'  BY <1>4 DEF HolderOK
<1>6. pc' \in [Clients -> Labels] /\ sub' \in [Clients -> Submission \cup {NoSubmission}]
  BY <1>1, <1>2 DEF Labels
<1>7. /\ at' \in [Clients -> Handoffs \cup {NoHandoff}]
      /\ resp' \in [Clients -> Handoffs \cup {NoHandoff}]
  OBVIOUS
<1>8. ClientsOK'
  BY <1>2, <1>3, <1>4, <1>6, <1>7 DEF OthersKept, Submitting
<1>9. QED  BY <1>3, <1>5, <1>8

LEMMA Composed ==
  ASSUME MailboxAssumption, NEW d \in Contents, NEW h \in Handoffs \cup {NoHandoff}
  PROVE  CoreOf(d, h) \in Core /\ CoreOf(d, h).reply = h
  BY DEF MailboxAssumption, Content, CoreOf, Core

LEMMA SendStep ==
  ASSUME MailboxInv, NEW p \in Clients, NEW h \in Handoffs, NEW y \in Deliveries,
         \/ Redeliver(p, h, y)
         \/ \E d \in Contents :
              Submit(p, h, d, y) \/ \E r \in Handoffs : Reply(p, h, d, r, y)
  PROVE  MailboxInv' /\ RecordsKept
<1>1. CASE Redeliver(p, h, y)
  <2>1. envelope[h] \in Core
    BY <1>1 DEF Redeliver, MailboxInv, TypeOK, StoreOK
  <2>2. ClientsOK' /\ HolderOK(p)' /\ OthersKept(p)
    BY <1>1, <2>1, Sending DEF Redeliver
  <2>3. UNCHANGED <<sent, inbox, issued, abandoned, tampered>>
    BY <1>1 DEF Redeliver, Send, model
  <2>4. QED
    BY <2>2, <2>3, Unpublished DEF MailboxInv, TypeOK, StoreOK
<1>2. ASSUME NEW d \in Contents, Submit(p, h, d, y) PROVE MailboxInv' /\ RecordsKept
  <2>1. CoreOf(d, NoHandoff) \in Core  BY Composed, MailboxAssumption
  <2>2. ClientsOK' /\ HolderOK(p)' /\ OthersKept(p)
    BY <1>2, <2>1, Sending DEF Submit
  <2>3. UNCHANGED <<sent, inbox, issued, abandoned, tampered>>
    BY <1>2 DEF Submit, Send, model
  <2>4. QED
    BY <2>2, <2>3, Unpublished DEF MailboxInv, TypeOK, StoreOK
<1>3. ASSUME NEW d \in Contents, NEW r \in Handoffs, Reply(p, h, d, r, y)
      PROVE  MailboxInv' /\ RecordsKept
  <2>1. CoreOf(d, h) \in Core  BY Composed, MailboxAssumption
  <2>2. ClientsOK' /\ HolderOK(p)' /\ OthersKept(p)
    BY <1>3, <2>1, Sending DEF Reply
  <2>3. UNCHANGED <<sent, inbox, tampered>> /\ issued' = issued \cup {r} /\ abandoned' = abandoned
    BY <1>3 DEF Reply, Send
  <2>4. r \notin Named  BY <1>3 DEF Reply
  <2>5. QED
    BY <2>2, <2>3, <2>4, Unpublished DEF MailboxInv, TypeOK, StoreOK
<1>4. QED  BY <1>1, <1>2, <1>3

(* Commands of a receiver that passed their checks.                         *)
LEMMA Receiving ==
  ASSUME MailboxInv, NEW p \in Clients, NEW h \in Handoffs, pc[p] = "idle",
         NEW l \in {"claim", "keep", "sign"},
         pc' = [pc EXCEPT ![p] = l], at' = [at EXCEPT ![p] = h], sub' = sub,
         resp' = resp \/ \E r \in Handoffs \cup {NoHandoff} : resp' = [resp EXCEPT ![p] = r],
         \/ l = "keep" /\ \E b \in Bytes : saw' = [saw EXCEPT ![p] = b]
         \/ l # "keep" /\ saw' = saw
  PROVE  ClientsOK' /\ OthersKept(p) /\ pc'[p] = l /\ at'[p] = h
<1> USE DEF MailboxInv, TypeOK, ClientsOK
<1>1. OthersKept(p) /\ pc'[p] = l /\ at'[p] = h  BY DEF OthersKept
<1>2. pc' \in [Clients -> Labels]  BY DEF Labels
<1>3. /\ at' \in [Clients -> Handoffs \cup {NoHandoff}]
      /\ resp' \in [Clients -> Handoffs \cup {NoHandoff}]
      /\ saw' \in [Clients -> Bytes \cup {NoBytes}]
  OBVIOUS
<1>4. sub[p] = NoSubmission /\ saw[p] = NoBytes  BY DEF Submitting
<1>5. saw'[p] # NoBytes <=> l = "keep"  BY <1>4, MailboxAssumption
<1>6. h # NoHandoff  BY MailboxAssumption
<1>7. ASSUME NEW q \in Clients
      PROVE  /\ sub'[q] # NoSubmission <=> pc'[q] \in Submitting
             /\ pc'[q] = "idle" => at'[q] = NoHandoff /\ resp'[q] = NoHandoff
             /\ pc'[q] \notin Submitting \cup {"idle"} => at'[q] # NoHandoff
             /\ saw'[q] # NoBytes <=> pc'[q] = "keep"
  <2>1. CASE q = p  BY <1>1, <1>4, <1>5, <1>6, <2>1 DEF Submitting
  <2>2. CASE q # p  BY <1>1, <2>2 DEF OthersKept
  <2>3. QED  BY <2>1, <2>2
<1>8. QED  BY <1>1, <1>2, <1>3, <1>7

LEMMA ReceiveStep ==
  ASSUME MailboxInv, NEW p \in Clients, NEW h \in Handoffs,
         \/ Claim(p, h) \/ Materialize(p, h)
         \/ \E r \in Handoffs \cup {NoHandoff} : Ack(p, h, r)
  PROVE  MailboxInv' /\ RecordsKept
<1>1. CASE Claim(p, h)
  <2>1. ClientsOK' /\ OthersKept(p) /\ pc'[p] = "claim" /\ at'[p] = h
    <3>1. resp' = resp /\ saw' = saw  BY <1>1 DEF Claim
    <3>2. QED  BY <1>1, <3>1, Receiving DEF Claim
  <2>2. UNCHANGED <<sent, inbox, model>>  BY <1>1 DEF Claim
  <2>3. HolderOK(p)'
    BY <1>1, <2>1, <2>2 DEF Claim, HolderOK, sent, Authorized
  <2>4. QED
    BY <2>1, <2>2, <2>3, Unpublished DEF MailboxInv, TypeOK, StoreOK, model
<1>2. CASE Materialize(p, h)
  <2>1. envelope[h] \in Core /\ envelope[h].bytes \in Bytes /\ envelope[h].bytes # NoBytes
    BY <1>2, MailboxAssumption DEF Materialize, MailboxInv, TypeOK, StoreOK, Core
  <2>2. ClientsOK' /\ OthersKept(p) /\ pc'[p] = "keep" /\ at'[p] = h
    <3>1. /\ saw' = [saw EXCEPT ![p] = envelope[h].bytes] /\ resp' = resp /\ sub' = sub
          /\ pc' = [pc EXCEPT ![p] = "keep"] /\ at' = [at EXCEPT ![p] = h]
          /\ pc[p] = "idle"
      BY <1>2 DEF Materialize
    <3>2. QED  BY <2>1, <3>1, Receiving
  <2>3. UNCHANGED <<sent, inbox, model>>  BY <1>2 DEF Materialize
  <2>4. saw'[p] = envelope[h].bytes
    BY <1>2 DEF Materialize, MailboxInv, TypeOK, ClientsOK
  <2>5. HolderOK(p)'
    BY <1>2, <2>2, <2>3, <2>4 DEF Materialize, HolderOK, sent, inbox
  <2>6. QED
    BY <2>2, <2>3, <2>5, Unpublished DEF MailboxInv, TypeOK, StoreOK, model
<1>3. ASSUME NEW r \in Handoffs \cup {NoHandoff}, Ack(p, h, r)
      PROVE  MailboxInv' /\ RecordsKept
  <2>1. ClientsOK' /\ OthersKept(p) /\ pc'[p] = "sign" /\ at'[p] = h
    BY <1>3, Receiving DEF Ack
  <2>2. UNCHANGED <<sent, inbox, model>>  BY <1>3 DEF Ack
  <2>3. resp'[p] = r  BY <1>3 DEF Ack, MailboxInv, TypeOK, ClientsOK
  <2>4. HolderOK(p)'
    BY <1>3, <2>1, <2>2, <2>3 DEF Ack, Preflight, Linked, HolderOK, sent, inbox
  <2>5. QED
    BY <2>1, <2>2, <2>4, Unpublished DEF MailboxInv, TypeOK, StoreOK, model
<1>4. QED  BY <1>1, <1>2, <1>3

-----------------------------------------------------------------------------
(* Steps of submit.                                                         *)

LEMMA SubmitStep ==
  ASSUME MailboxInv, NEW p \in Clients, LookForEnvelope(p) \/ LookForPayload(p)
  PROVE  MailboxInv' /\ RecordsKept
<1>1. UNCHANGED <<sent, inbox, model>> /\ pc[p] \in Submitting
  BY DEF LookForEnvelope, LookForPayload, Submitting
<1>2. ClientsOK' /\ HolderOK(p)' /\ OthersKept(p)
  <2>1. CASE LookForEnvelope(p)
    <3>1. PICK l \in {"classify", "payload"} : Goto(p, l)  BY <2>1 DEF LookForEnvelope
    <3>2. ClientsOK' /\ OthersKept(p) /\ pc'[p] = l
      BY <1>1, <3>1, GoingOn DEF Labels, Submitting
    <3>3. QED  BY <3>2 DEF HolderOK
  <2>2. CASE LookForPayload(p) /\ Finish(p)
    BY <2>2, Finishing
  <2>3. CASE LookForPayload(p) /\ Goto(p, "write")
    <3>1. ClientsOK' /\ OthersKept(p) /\ pc'[p] = "write"
      BY <1>1, <2>3, GoingOn DEF Labels, Submitting
    <3>2. QED  BY <3>1 DEF HolderOK
  <2>4. CASE File(sub[p]) = sub[p].core.bytes /\ Goto(p, "commit")
    <3>1. ClientsOK' /\ OthersKept(p) /\ pc'[p] = "commit"
      BY <1>1, <2>4, GoingOn DEF Labels, Submitting
    <3>2. QED  BY <1>1, <2>4, <3>1 DEF HolderOK, Goto, sent, File
  <2>5. QED  BY <2>1, <2>2, <2>3, <2>4 DEF LookForPayload
<1>3. QED
  BY <1>1, <1>2, Unpublished DEF MailboxInv, TypeOK, StoreOK, model

(* A payload goes where none was.                                           *)
LEMMA WriteStep ==
  ASSUME MailboxInv, NEW p \in Clients, WritePayload(p)
  PROVE  MailboxInv' /\ RecordsKept
<1> DEFINE s == sub[p]
<1>1. UNCHANGED <<envelope, duplicates, quarantine, inbox, model>> /\ pc[p] \in Submitting
  BY DEF WritePayload, Submitting
<1>2. /\ s.id \in Handoffs /\ s.core.kind \in Kinds
      /\ s.core.bytes \in Bytes /\ s.core.bytes # NoBytes
  BY <1>1, Held
<1>3. \/ payload' = payload
      \/ /\ File(s) = NoBytes
         /\ payload' = [payload EXCEPT ![<<s.id, s.core.kind>>] = s.core.bytes]
  BY DEF WritePayload
<1>4. \A h \in Handoffs, k \in Kinds :
        payload[<<h, k>>] # NoBytes => payload'[<<h, k>>] = payload[<<h, k>>]
  BY <1>2, <1>3 DEF File, MailboxInv, TypeOK, StoreOK
<1>5. payload' \in [Handoffs \X Kinds -> Bytes \cup {NoBytes}]
  BY <1>2, <1>3 DEF MailboxInv, TypeOK, StoreOK
<1>6. ClientsOK' /\ HolderOK(p)' /\ OthersKept(p)
  <2>1. CASE Finish(p)
    BY <2>1, Finishing
  <2>2. CASE Goto(p, "commit") /\ File(s)' = s.core.bytes
    <3>1. ClientsOK' /\ OthersKept(p) /\ pc'[p] = "commit"
      BY <1>1, <2>2, GoingOn DEF Labels, Submitting
    <3>2. QED  BY <2>2, <3>1 DEF HolderOK, Goto, File
  <2>3. Goto(p, "commit") => File(s)' = s.core.bytes
    <3> SUFFICES ASSUME Goto(p, "commit") PROVE File(s)' = s.core.bytes  OBVIOUS
    <3>1. sub' = sub /\ pc'[p] = "commit"
      BY DEF Goto, MailboxInv, TypeOK, ClientsOK
    <3>2. ~Finish(p)  BY <3>1 DEF Finish, MailboxInv, TypeOK, ClientsOK
    <3>3. QED  BY <1>2, <3>1, <3>2 DEF WritePayload, File, MailboxInv, TypeOK, StoreOK
  <2>4. QED  BY <2>1, <2>2, <2>3 DEF WritePayload
<1>7. RecordsKept /\ tampered' = tampered
  BY <1>1 DEF RecordsKept, inbox, model
<1>8. Facts'
  <2>1. EnvelopeHasPayload'
    <3> SUFFICES ASSUME NEW h \in Handoffs, envelope[h] # NoCore, h \notin tampered
                 PROVE  payload'[<<h, envelope[h].kind>>] = envelope[h].bytes
      BY <1>1, <1>7 DEF EnvelopeHasPayload
    <3>1. envelope[h].kind \in Kinds /\ envelope[h].bytes # NoBytes
      BY MailboxAssumption DEF MailboxInv, TypeOK, StoreOK, Core
    <3>2. payload[<<h, envelope[h].kind>>] = envelope[h].bytes
      BY DEF MailboxInv, EnvelopeHasPayload
    <3>3. QED  BY <1>4, <3>1, <3>2
  <2>2. QED
    BY <1>1, <2>1 DEF Facts, MailboxInv, OneReceiver, SentIsMaterialized, ResponseLinked,
       Authorized, inbox
<1>9. \A q \in Clients \ {p} : HolderOK(q)'
  BY <1>4, <1>6, <1>7, OthersHold
<1>10. StoreOK'
  BY <1>1, <1>5 DEF MailboxInv, TypeOK, StoreOK, inbox, model
<1>11. QED  BY <1>6, <1>7, <1>8, <1>9, <1>10 DEF MailboxInv, TypeOK, Facts

(* The envelope is published over a payload that is there.                  *)
LEMMA CommitStep ==
  ASSUME MailboxInv, NEW p \in Clients, CommitEnvelope(p)
  PROVE  MailboxInv' /\ RecordsKept
<1> DEFINE s == sub[p]
<1>1. /\ UNCHANGED <<payload, duplicates, quarantine, inbox, model>>
      /\ pc[p] = "commit" /\ pc[p] \in Submitting
  BY DEF CommitEnvelope, Submitting
<1>2. s.id \in Handoffs /\ s.core \in Core /\ s.core # NoCore  BY <1>1, Held
<1>3. CASE envelope' = envelope /\ Goto(p, "classify")
  <2>1. ClientsOK' /\ OthersKept(p) /\ pc'[p] = "classify"
    BY <1>1, <1>3, GoingOn DEF Labels, Submitting
  <2>2. HolderOK(p)'  BY <2>1 DEF HolderOK
  <2>3. UNCHANGED <<sent, inbox, tampered, issued, abandoned>>
    BY <1>1, <1>3 DEF sent, model
  <2>4. QED  BY <2>1, <2>2, <2>3, Unpublished DEF MailboxInv, TypeOK, StoreOK
<1>4. CASE envelope[s.id] = NoCore /\ envelope' = [envelope EXCEPT ![s.id] = s.core]
             /\ Submitted(p)
  <2>1. ClientsOK' /\ HolderOK(p)' /\ OthersKept(p)
    BY <1>1, <1>4, SubmittedStep
  <2>2. RecordsKept /\ tampered' = tampered
    BY <1>1, <1>2, <1>4 DEF RecordsKept, inbox, model, MailboxInv, TypeOK, StoreOK
  <2>3. envelope' \in [Handoffs -> Core \cup {NoCore}]
    BY <1>2, <1>4 DEF MailboxInv, TypeOK, StoreOK
  <2>4. \A h \in Handoffs : h # s.id => envelope'[h] = envelope[h]
    BY <1>4 DEF MailboxInv, TypeOK, StoreOK
  <2>5. envelope'[s.id] = s.core
    BY <1>2, <1>4 DEF MailboxInv, TypeOK, StoreOK
  <2>6. EnvelopeHasPayload'
    <3>1. s.id \notin tampered => payload[<<s.id, s.core.kind>>] = s.core.bytes
      BY <1>1 DEF MailboxInv, HolderOK, File
    <3>2. QED
      BY <1>1, <2>2, <2>4, <2>5, <3>1 DEF MailboxInv, EnvelopeHasPayload
  <2>7. claim[s.id] = NoOne /\ materialization[s.id] = NoOne
    <3>1. claim[s.id] = NoOne  BY <1>2, <1>4 DEF MailboxInv, OneReceiver
    <3>2. ASSUME materialization[s.id] # NoOne PROVE FALSE
      BY <1>2, <3>1, <3>2, MailboxAssumption
      DEF MailboxInv, OneReceiver, TypeOK, StoreOK, Materialization
    <3>3. QED  BY <3>1, <3>2
  <2>8. OneReceiver'
    BY <1>1, <2>4, <2>7 DEF MailboxInv, OneReceiver, inbox, Authorized
  <2>9. SentIsMaterialized'
    BY <1>1, <2>4, <2>7 DEF MailboxInv, SentIsMaterialized, inbox
  <2>10. ResponseLinked'
    BY <1>1, <1>4, <2>4 DEF MailboxInv, ResponseLinked, inbox
  <2>11. \A q \in Clients \ {p} : HolderOK(q)'
    BY <1>1, <2>1, <2>2, OthersHold
  <2>12. StoreOK'
    BY <1>1, <2>3 DEF MailboxInv, TypeOK, StoreOK, inbox, model
  <2>13. QED
    BY <2>1, <2>2, <2>6, <2>8, <2>9, <2>10, <2>11, <2>12 DEF MailboxInv, TypeOK
<1>5. QED  BY <1>3, <1>4 DEF CommitEnvelope

LEMMA ClassifyStep ==
  ASSUME MailboxInv, NEW p \in Clients, Classify(p)
  PROVE  MailboxInv' /\ RecordsKept
<1> DEFINE s == sub[p]
<1>1. UNCHANGED <<payload, envelope, inbox, model>> /\ pc[p] \in Submitting
  BY DEF Classify, Submitting
<1>2. s \in Submission /\ s.id \in Handoffs /\ s.delivery \in Deliveries
  BY <1>1, Held DEF Submission
<1>3. ClientsOK' /\ HolderOK(p)' /\ OthersKept(p)
  BY <1>1, Finishing, SubmittedStep DEF Classify
<1>4. quarantine' \subseteq Handoffs /\ duplicates' \subseteq Handoffs \X Deliveries
  BY <1>2 DEF Classify, MailboxInv, TypeOK, StoreOK
<1>5. RecordsKept /\ tampered' = tampered
  BY <1>1 DEF RecordsKept, inbox, model
<1>6. StoreOK'
  BY <1>1, <1>4 DEF MailboxInv, TypeOK, StoreOK, inbox, model
<1>7. Facts'
  BY <1>1 DEF Facts, MailboxInv, EnvelopeHasPayload, OneReceiver, SentIsMaterialized,
     ResponseLinked, Authorized, inbox, model
<1>8. \A q \in Clients \ {p} : HolderOK(q)'
  BY <1>1, <1>3, <1>5, OthersHold
<1>9. QED  BY <1>3, <1>5, <1>6, <1>7, <1>8 DEF MailboxInv, TypeOK, Facts

-----------------------------------------------------------------------------
(* The receiver's publications.                                             *)

LEMMA WriteClaimStep ==
  ASSUME MailboxInv, NEW p \in Clients, WriteClaim(p)
  PROVE  MailboxInv' /\ RecordsKept
<1> DEFINE h == at[p]
<1>1. /\ UNCHANGED <<sent, materialization, receipt, model>> /\ Finish(p)
      /\ claim' = IF claim[h] = NoOne THEN [claim EXCEPT ![h] = As[p]] ELSE claim
      /\ pc[p] = "claim"
  BY DEF WriteClaim
<1>2. h \in Handoffs /\ envelope[h] # NoCore /\ Authorized(p, envelope[h].target)
  BY <1>1 DEF MailboxInv, HolderOK, TypeOK, ClientsOK, Submitting
<1>3. As[p] \in Instances /\ As[p] # NoOne  BY MailboxAssumption
<1>4. claim' \in [Handoffs -> Instances \cup {NoOne}]
  BY <1>1, <1>3 DEF MailboxInv, TypeOK, StoreOK
<1>5. RecordsKept
  BY <1>1, <1>2 DEF RecordsKept, sent, MailboxInv, TypeOK, StoreOK
<1>6. \A g \in Handoffs : claim'[g] = claim[g] \/ (g = h /\ claim[g] = NoOne /\ claim'[g] = As[p])
  BY <1>1, <1>2 DEF MailboxInv, TypeOK, StoreOK
<1>7. OneReceiver'
  <2> SUFFICES ASSUME NEW g \in Handoffs
               PROVE  /\ claim'[g] # NoOne =>
                           /\ envelope[g] # NoCore
                           /\ \E q \in Clients : As[q] = claim'[g] /\ Authorized(q, envelope[g].target)
                      /\ materialization[g] # NoOne => materialization[g].by = claim'[g]
                      /\ receipt[g] # NoReceipt =>
                           materialization[g] # NoOne /\ receipt[g].by = materialization[g].by
    BY <1>1 DEF OneReceiver, sent, Authorized
  <2>1. materialization[g] # NoOne => claim[g] # NoOne
    BY MailboxAssumption DEF MailboxInv, OneReceiver, TypeOK, StoreOK, Materialization
  <2>2. QED  BY <1>2, <1>6, <2>1 DEF MailboxInv, OneReceiver
<1>8. ClientsOK' /\ HolderOK(p)' /\ OthersKept(p)  BY <1>1, Finishing
<1>9. \A q \in Clients \ {p} : HolderOK(q)'
  BY <1>1, <1>5, <1>8, OthersHold DEF sent, model
<1>10. EnvelopeHasPayload' /\ SentIsMaterialized' /\ ResponseLinked'
  BY <1>1 DEF MailboxInv, EnvelopeHasPayload, SentIsMaterialized, ResponseLinked, sent, model
<1>11. StoreOK'
  BY <1>1, <1>4 DEF MailboxInv, TypeOK, StoreOK, sent, model
<1>12. QED  BY <1>5, <1>7, <1>8, <1>9, <1>10, <1>11 DEF MailboxInv, TypeOK

LEMMA WriteMaterializationStep ==
  ASSUME MailboxInv, NEW p \in Clients, WriteMaterialization(p)
  PROVE  MailboxInv' /\ RecordsKept
<1> DEFINE h == at[p]
           m == [by |-> As[p], bytes |-> saw[p]]
<1>1. /\ UNCHANGED <<sent, claim, receipt, model>> /\ Finish(p)
      /\ materialization' = IF materialization[h] = NoOne
                            THEN [materialization EXCEPT ![h] = m] ELSE materialization
      /\ pc[p] = "keep"
  BY DEF WriteMaterialization
<1>2. h \in Handoffs /\ claim[h] = As[p] /\ saw[p] = envelope[h].bytes
  BY <1>1 DEF MailboxInv, HolderOK, TypeOK, ClientsOK, Submitting
<1>3. m \in Materialization /\ m # NoOne /\ m.by = As[p] /\ m.bytes = saw[p]
  <2>1. saw[p] \in Bytes  BY <1>1 DEF MailboxInv, TypeOK, ClientsOK
  <2>2. m \in Materialization  BY <2>1, MailboxAssumption DEF Materialization
  <2>3. QED  BY <2>2, MailboxAssumption
<1> HIDE DEF m
<1>4. materialization' \in [Handoffs -> Materialization \cup {NoOne}]
  BY <1>1, <1>3 DEF MailboxInv, TypeOK, StoreOK
<1>5. RecordsKept
  BY <1>1, <1>2 DEF RecordsKept, sent, MailboxInv, TypeOK, StoreOK
<1>6. \A g \in Handoffs :
        \/ materialization'[g] = materialization[g]
        \/ g = h /\ materialization[g] = NoOne /\ materialization'[g] = m
  BY <1>1, <1>2 DEF MailboxInv, TypeOK, StoreOK
<1>7. OneReceiver' /\ SentIsMaterialized'
  BY <1>1, <1>2, <1>3, <1>6
  DEF MailboxInv, OneReceiver, SentIsMaterialized, sent, Authorized
<1>8. ClientsOK' /\ HolderOK(p)' /\ OthersKept(p)  BY <1>1, Finishing
<1>9. \A q \in Clients \ {p} : HolderOK(q)'
  BY <1>1, <1>5, <1>8, OthersHold DEF sent, model
<1>10. EnvelopeHasPayload' /\ ResponseLinked'
  BY <1>1 DEF MailboxInv, EnvelopeHasPayload, ResponseLinked, sent, model
<1>11. StoreOK'
  BY <1>1, <1>4 DEF MailboxInv, TypeOK, StoreOK, sent, model
<1>12. QED  BY <1>5, <1>7, <1>8, <1>9, <1>10, <1>11 DEF MailboxInv, TypeOK

LEMMA WriteReceiptStep ==
  ASSUME MailboxInv, NEW p \in Clients, WriteReceipt(p)
  PROVE  MailboxInv' /\ RecordsKept
<1> DEFINE h == at[p]
           a == [by |-> As[p], response |-> resp[p]]
<1>1. /\ UNCHANGED <<sent, claim, materialization, model>> /\ Finish(p)
      /\ receipt' = IF receipt[h] = NoReceipt THEN [receipt EXCEPT ![h] = a] ELSE receipt
      /\ pc[p] = "sign"
  BY DEF WriteReceipt
<1>2. /\ h \in Handoffs /\ materialization[h] # NoOne /\ materialization[h].by = As[p]
      /\ Linked(h, resp[p])
  BY <1>1 DEF MailboxInv, HolderOK, TypeOK, ClientsOK, Submitting
<1>3. a \in Receipt /\ a.by = As[p] /\ a.response = resp[p]
  BY MailboxAssumption DEF MailboxInv, TypeOK, ClientsOK, Receipt
<1> HIDE DEF a
<1>4. receipt' \in [Handoffs -> Receipt \cup {NoReceipt}]
  BY <1>1, <1>3 DEF MailboxInv, TypeOK, StoreOK
<1>5. RecordsKept
  BY <1>1, <1>2 DEF RecordsKept, sent, MailboxInv, TypeOK, StoreOK
<1>6. \A g \in Handoffs :
        receipt'[g] = receipt[g] \/ (g = h /\ receipt[g] = NoReceipt /\ receipt'[g] = a)
  BY <1>1, <1>2 DEF MailboxInv, TypeOK, StoreOK
<1>7. OneReceiver' /\ ResponseLinked'
  <2>1. OneReceiver'
    BY <1>1, <1>2, <1>3, <1>6 DEF MailboxInv, OneReceiver, sent, Authorized
  <2>2. ASSUME NEW g \in Handoffs, NEW r \in Handoffs, receipt'[g] # NoReceipt,
               receipt'[g].response = r
        PROVE  envelope[r] # NoCore /\ envelope[r].reply = g
    <3>1. r # NoHandoff  BY MailboxAssumption
    <3>2. QED
      BY <1>2, <1>3, <1>6, <2>2, <3>1 DEF MailboxInv, ResponseLinked, Linked
  <2>3. QED  BY <1>1, <2>1, <2>2 DEF ResponseLinked, sent
<1>8. ClientsOK' /\ HolderOK(p)' /\ OthersKept(p)  BY <1>1, Finishing
<1>9. \A q \in Clients \ {p} : HolderOK(q)'
  BY <1>1, <1>5, <1>8, OthersHold DEF sent, model
<1>10. EnvelopeHasPayload' /\ SentIsMaterialized'
  BY <1>1 DEF MailboxInv, EnvelopeHasPayload, SentIsMaterialized, sent, model
<1>11. StoreOK'
  BY <1>1, <1>4 DEF MailboxInv, TypeOK, StoreOK, sent, model
<1>12. QED  BY <1>5, <1>7, <1>8, <1>9, <1>10, <1>11 DEF MailboxInv, TypeOK

LEMMA CheckReceiptStep ==
  ASSUME MailboxInv, NEW p \in Clients, CheckReceipt(p)
  PROVE  MailboxInv' /\ RecordsKept
<1>1. UNCHANGED <<sent, inbox, model>>  BY DEF CheckReceipt
<1>2. ClientsOK' /\ HolderOK(p)' /\ OthersKept(p)
  <2>1. CASE Finish(p)
    BY <2>1, Finishing
  <2>2. CASE Preflight(p, at[p]) /\ Linked(at[p], resp[p]) /\ Goto(p, "sign")
    <3>1. ClientsOK' /\ OthersKept(p) /\ pc'[p] = "sign"
      BY <2>2, GoingOn DEF CheckReceipt, Labels
    <3>2. QED
      BY <1>1, <2>2, <3>1 DEF HolderOK, Goto, Preflight, Linked, sent, inbox
  <2>3. QED  BY <2>1, <2>2 DEF CheckReceipt
<1>3. QED
  BY <1>1, <1>2, Unpublished DEF MailboxInv, TypeOK, StoreOK, model

LEMMA CrashStep ==
  ASSUME MailboxInv, NEW p \in Clients, Crash(p)
  PROVE  MailboxInv' /\ RecordsKept
<1>1. /\ UNCHANGED <<sent, inbox, issued, tampered>> /\ Finish(p)
      /\ abandoned' = abandoned \cup ({resp[p]} \cap issued)
  BY DEF Crash
<1>2. ClientsOK' /\ HolderOK(p)' /\ OthersKept(p)  BY <1>1, Finishing
<1>3. QED  BY <1>1, <1>2, Unpublished DEF MailboxInv, TypeOK, StoreOK

LEMMA TamperStep ==
  ASSUME MailboxInv, NEW h \in Handoffs, NEW k \in Kinds, NEW b \in Bytes \cup {NoBytes},
         Tamper(h, k, b)
  PROVE  MailboxInv' /\ RecordsKept
<1>1. /\ UNCHANGED <<envelope, duplicates, quarantine, inbox, clients, issued, abandoned>>
      /\ payload' = [payload EXCEPT ![<<h, k>>] = b] /\ tampered' = tampered \cup {h}
  BY DEF Tamper
<1>2. payload' \in [Handoffs \X Kinds -> Bytes \cup {NoBytes}]
  BY <1>1 DEF MailboxInv, TypeOK, StoreOK
<1>3. \A g \in Handoffs, j \in Kinds :
        g \notin tampered' => payload'[<<g, j>>] = payload[<<g, j>>] /\ g \notin tampered
  BY <1>1 DEF MailboxInv, TypeOK, StoreOK
<1>4. RecordsKept  BY <1>1 DEF RecordsKept, inbox
<1>5. StoreOK' /\ ClientsOK'
  BY <1>1, <1>2 DEF MailboxInv, TypeOK, StoreOK, ClientsOK, inbox, clients
<1>6. EnvelopeHasPayload'
  <2> SUFFICES ASSUME NEW g \in Handoffs, envelope[g] # NoCore, g \notin tampered'
               PROVE  payload'[<<g, envelope[g].kind>>] = envelope[g].bytes
    BY <1>1 DEF EnvelopeHasPayload
  <2>1. envelope[g].kind \in Kinds  BY DEF MailboxInv, TypeOK, StoreOK, Core
  <2>2. QED  BY <1>3, <2>1 DEF MailboxInv, EnvelopeHasPayload
<1>7. OneReceiver' /\ SentIsMaterialized' /\ ResponseLinked'
  BY <1>1 DEF MailboxInv, OneReceiver, SentIsMaterialized, ResponseLinked, Authorized, inbox
<1>8. \A q \in Clients : HolderOK(q)'
  <2> SUFFICES ASSUME NEW q \in Clients PROVE HolderOK(q)'  OBVIOUS
  <2>1. pc'[q] = "commit" /\ sub'[q].id \notin tampered' => File(sub[q])' = sub[q].core.bytes
    <3> SUFFICES ASSUME pc[q] = "commit", sub[q].id \notin tampered'
                 PROVE  File(sub[q])' = sub[q].core.bytes
      BY <1>1 DEF clients
    <3>1. pc[q] \in Submitting  BY DEF Submitting
    <3>2. sub[q].id \in Handoffs /\ sub[q].core.kind \in Kinds  BY <3>1, Held
    <3>3. File(sub[q]) = sub[q].core.bytes  BY <1>3, <3>2 DEF MailboxInv, HolderOK
    <3>4. QED  BY <1>1, <1>3, <3>2, <3>3 DEF File, clients
  <2>2. QED
    BY <1>1, <2>1 DEF MailboxInv, HolderOK, Authorized, Linked, inbox, clients, File
<1>9. QED  BY <1>4, <1>5, <1>6, <1>7, <1>8 DEF MailboxInv, TypeOK

-----------------------------------------------------------------------------
(* All steps together.                                                      *)

LEMMA Progress ==
  ASSUME MailboxInv, [Next]_vars
  PROVE  MailboxInv' /\ RecordsKept
<1>1. CASE UNCHANGED vars
  <2>1. /\ UNCHANGED <<payload, envelope, duplicates, quarantine, claim, materialization>>
        /\ UNCHANGED <<receipt, pc, at, sub, resp, saw, issued, abandoned, tampered>>
    BY <1>1 DEF vars, sent, inbox, clients, model
  <2>2. TypeOK'  BY <2>1 DEF MailboxInv, TypeOK, StoreOK, ClientsOK
  <2>3. Facts'
    BY <2>1 DEF Facts, MailboxInv, EnvelopeHasPayload, OneReceiver, SentIsMaterialized,
       ResponseLinked, Authorized
  <2>4. \A p \in Clients : HolderOK(p)'
    BY <2>1 DEF MailboxInv, HolderOK, File, Authorized, Linked
  <2>5. RecordsKept  BY <2>1 DEF RecordsKept
  <2>6. QED  BY <2>2, <2>3, <2>4, <2>5 DEF MailboxInv, Facts
<1>2. ASSUME NEW p \in Clients, Step(p) PROVE MailboxInv' /\ RecordsKept
  BY <1>2, SubmitStep, WriteStep, CommitStep, ClassifyStep, WriteClaimStep,
     WriteMaterializationStep, CheckReceiptStep, WriteReceiptStep
  DEF Step
<1>3. ASSUME NEW p \in Clients, NEW h \in Handoffs, Command(p, h)
      PROVE  MailboxInv' /\ RecordsKept
  <2>1. CASE Claim(p, h) \/ Materialize(p, h) \/ \E r \in Handoffs \cup {NoHandoff} : Ack(p, h, r)
    BY <2>1, ReceiveStep
  <2>2. ASSUME NEW y \in Deliveries,
               \/ Redeliver(p, h, y)
               \/ \E d \in Contents : Submit(p, h, d, y) \/ \E r \in Handoffs : Reply(p, h, d, r, y)
        PROVE  MailboxInv' /\ RecordsKept
    BY <2>2, SendStep
  <2>3. QED  BY <1>3, <2>1, <2>2 DEF Command
<1>4. QED
  BY <1>1, <1>2, <1>3, CrashStep, TamperStep DEF Next

LEMMA MailboxAlways == Spec => []MailboxInv
<1>1. MailboxInv /\ [Next]_vars => MailboxInv'  BY Progress
<1>2. QED  BY MailboxInit, <1>1, PTL DEF Spec

(* Variables and program counters keep their shape: a client that is idle   *)
(* holds nothing of its last command.                                       *)
THEOREM TypeCorrect == Spec => []TypeOK
<1>1. MailboxInv => TypeOK  BY DEF MailboxInv
<1>2. QED  BY <1>1, MailboxAlways, PTL

(* An envelope is never there before the payload it describes, whatever     *)
(* submissions race and crash (store.submit).                               *)
THEOREM PayloadFirst == Spec => []EnvelopeHasPayload
<1>1. MailboxInv => EnvelopeHasPayload  BY DEF MailboxInv
<1>2. QED  BY <1>1, MailboxAlways, PTL

(* Claim, materialization and receipt of a handoff are of one authorized    *)
(* instance (store.claim, materialize, commit_receipt).                     *)
THEOREM SameReceiver == Spec => []OneReceiver
<1>1. MailboxInv => OneReceiver  BY DEF MailboxInv
<1>2. QED  BY <1>1, MailboxAlways, PTL

(* What was materialized is what was sent, although files may be changed    *)
(* (store.materialize).                                                     *)
THEOREM MaterializedAsSent == Spec => []SentIsMaterialized
<1>1. MailboxInv => SentIsMaterialized  BY DEF MailboxInv
<1>2. QED  BY <1>1, MailboxAlways, PTL

(* A receipt's response replies to the receipt's handoff (commit_receipt).  *)
THEOREM ResponsesAreLinked == Spec => []ResponseLinked
<1>1. MailboxInv => ResponseLinked  BY DEF MailboxInv
<1>2. QED  BY <1>1, MailboxAlways, PTL

-----------------------------------------------------------------------------
(* Responses are accounted for.                                             *)

(* A reply between its first step and its receipt.                          *)
InReply(p) == at[p] # NoHandoff /\ pc[p] \in Submitting \cup {"receipt"}

Answering(p) == InReply(p) \/ pc[p] = "sign"

(* Until its envelope is there, the id of a response is nobody else's; from *)
(* then on it replies to a handoff that this instance has materialized.     *)
ReplyOK(p) ==
  /\ InReply(p) =>
       /\ resp[p] \in issued /\ envelope[at[p]] # NoCore
       /\ materialization[at[p]] # NoOne /\ materialization[at[p]].by = As[p]
  /\ InReply(p) /\ pc[p] = "receipt" =>
       envelope[resp[p]] # NoCore /\ envelope[resp[p]].reply = at[p]
  /\ InReply(p) /\ pc[p] # "receipt" =>
       /\ envelope[resp[p]] = NoCore /\ pc[p] # "classify"
       /\ sub[p].id = resp[p] /\ sub[p].core.reply = at[p]
  /\ pc[p] \in Submitting /\ at[p] = NoHandoff =>
       /\ resp[p] = NoHandoff
       /\ envelope[sub[p].id] = NoCore => sub[p].id \in Named /\ sub[p].core.reply = NoHandoff
  /\ pc[p] \in {"claim", "keep"} => resp[p] = NoHandoff

(* Nobody else signs for an instance that runs one command at a time.       *)
Unanswered(p) == Sole(As[p]) /\ Answering(p) => receipt[at[p]] = NoReceipt

(* Where ids and responses come from.                                       *)
IdsOK ==
  /\ \A h \in Handoffs : envelope[h] # NoCore => h \in Named \cup issued
  /\ \A r \in Handoffs : envelope[r] # NoCore /\ envelope[r].reply # NoHandoff =>
                           r \in issued /\ materialization[envelope[r].reply] # NoOne
  /\ \A p, q \in Clients : InReply(p) /\ InReply(q) /\ resp[p] = resp[q] => p = q

ReplyInv ==
  /\ MailboxInv /\ IdsOK /\ OrphanOnlyAfterCrash
  /\ \A p \in Clients : ReplyOK(p) /\ Unanswered(p)

(* What a step of p has to keep: its own part, and the responses of it.     *)
Own(p) ==
  /\ OthersKept(p) /\ issued \subseteq issued' /\ abandoned \subseteq abandoned'
  /\ \A g \in Handoffs :
       \/ envelope'[g] = envelope[g]
       \/ /\ g = sub[p].id /\ pc[p] = "commit" /\ envelope[g] = NoCore
          /\ envelope'[g] = sub[p].core /\ at'[p] = at[p] /\ resp'[p] = resp[p]
  /\ \A g \in Handoffs :
       receipt'[g] = receipt[g] \/ (g = at[p] /\ pc[p] = "sign")
  /\ at'[p] # NoHandoff /\ pc'[p] \in Submitting \cup {"receipt"} =>
       \/ InReply(p) /\ resp'[p] = resp[p]
       \/ resp'[p] \notin issued

(* A response that p is about to name in a receipt stays accounted for.     *)
Accounted(p) ==
  \A h, r \in Handoffs :
    (/\ at[p] = h /\ resp[p] = r /\ envelope[r] # NoCore /\ envelope[r].reply = h
     /\ materialization[h] # NoOne /\ Sole(materialization[h].by)) =>
      \/ at'[p] = h /\ resp'[p] = r
      \/ receipt'[h] # NoReceipt /\ receipt'[h].response = r
      \/ r \in abandoned'

LEMMA OthersReply ==
  ASSUME ReplyInv, RecordsKept, NEW p \in Clients, Own(p), NEW q \in Clients, q # p
  PROVE  ReplyOK(q)' /\ Unanswered(q)'
<1>1. pc'[q] = pc[q] /\ at'[q] = at[q] /\ sub'[q] = sub[q] /\ resp'[q] = resp[q]
  BY DEF Own, OthersKept
<1>2. ReplyOK(q) /\ Unanswered(q) /\ ReplyOK(p) /\ HolderOK(p) /\ HolderOK(q)
  BY DEF ReplyInv, MailboxInv
<1>3. /\ at[q] \in Handoffs \cup {NoHandoff} /\ resp[q] \in Handoffs \cup {NoHandoff}
      /\ at[p] \in Handoffs \cup {NoHandoff}
      /\ issued \subseteq Handoffs \ Named
      /\ pc[q] = "sign" => at[q] # NoHandoff
      /\ pc[p] = "sign" => at[p] # NoHandoff
      /\ NoHandoff \notin Handoffs
  BY MailboxAssumption DEF ReplyInv, MailboxInv, TypeOK, StoreOK, ClientsOK, Submitting
<1>4. InReply(q)' <=> InReply(q)  BY <1>1 DEF InReply
<1>5. InReply(q) =>
        /\ resp'[q] \in issued' /\ envelope'[at'[q]] # NoCore
        /\ materialization'[at'[q]] # NoOne /\ materialization'[at'[q]].by = As[q]
  BY <1>1, <1>2, <1>3 DEF ReplyOK, InReply, RecordsKept, Own
<1>6. InReply(q) /\ pc'[q] = "receipt" =>
        envelope'[resp'[q]] # NoCore /\ envelope'[resp'[q]].reply = at'[q]
  BY <1>1, <1>2, <1>3 DEF ReplyOK, InReply, RecordsKept
<1>7. InReply(q) /\ pc'[q] # "receipt" =>
        /\ envelope'[resp'[q]] = NoCore /\ pc'[q] # "classify"
        /\ sub'[q].id = resp'[q] /\ sub'[q].core.reply = at'[q]
  <2> SUFFICES ASSUME InReply(q), pc[q] # "receipt" PROVE envelope'[resp[q]] = NoCore
    BY <1>1, <1>2 DEF ReplyOK
  <2>1. resp[q] \in issued /\ envelope[resp[q]] = NoCore /\ resp[q] \in Handoffs
    BY <1>2, <1>3 DEF ReplyOK
  <2>2. ASSUME resp[q] = sub[p].id, pc[p] = "commit" PROVE FALSE
    <3>1. CASE at[p] = NoHandoff
      BY <1>2, <1>3, <2>1, <2>2, <3>1 DEF ReplyOK, Submitting
    <3>2. CASE at[p] # NoHandoff
      BY <1>2, <2>1, <2>2, <3>2 DEF ReplyOK, Submitting, InReply, ReplyInv, IdsOK
    <3>3. QED  BY <3>1, <3>2
  <2>3. QED  BY <2>1, <2>2 DEF Own
<1>8. pc'[q] \in Submitting /\ at'[q] = NoHandoff =>
        /\ resp'[q] = NoHandoff
        /\ envelope'[sub'[q].id] = NoCore => sub'[q].id \in Named /\ sub'[q].core.reply = NoHandoff
  <2> SUFFICES ASSUME pc[q] \in Submitting, at[q] = NoHandoff, envelope'[sub[q].id] = NoCore
               PROVE  envelope[sub[q].id] = NoCore
    BY <1>1, <1>2 DEF ReplyOK
  <2>1. sub[q].id \in Handoffs  BY Held DEF ReplyInv
  <2>2. QED  BY <2>1 DEF RecordsKept
<1>9. pc'[q] \in {"claim", "keep"} => resp'[q] = NoHandoff
  BY <1>1, <1>2 DEF ReplyOK
<1>10. Unanswered(q)'
  <2> SUFFICES ASSUME Sole(As[q]), Answering(q) PROVE receipt'[at[q]] = NoReceipt
    BY <1>1, <1>4 DEF Unanswered, Answering, Sole
  <2>1. at[q] \in Handoffs /\ materialization[at[q]].by = As[q]
    BY <1>2, <1>3 DEF Answering, InReply, ReplyOK, HolderOK
  <2>2. ASSUME at[q] = at[p], pc[p] = "sign" PROVE FALSE
    BY <1>2, <2>1, <2>2 DEF HolderOK, Sole
  <2>3. receipt[at[q]] = NoReceipt  BY <1>2 DEF Unanswered
  <2>4. QED  BY <2>1, <2>2, <2>3 DEF Own
<1>11. QED
  BY <1>4, <1>5, <1>6, <1>7, <1>8, <1>9, <1>10 DEF ReplyOK

(* One client's step, given what it does to its own part.                   *)
LEMMA ReplyKept ==
  ASSUME ReplyInv, MailboxInv', RecordsKept, NEW p \in Clients, Own(p), Accounted(p),
         ReplyOK(p)', Unanswered(p)'
  PROVE  ReplyInv'
<1>1. \A q \in Clients : ReplyOK(q)' /\ Unanswered(q)'
  BY OthersReply
<1>2. /\ NoHandoff \notin Handoffs
      /\ at[p] \in Handoffs \cup {NoHandoff}
      /\ ReplyOK(p)
  BY MailboxAssumption DEF ReplyInv, MailboxInv, TypeOK, ClientsOK
<1>3. \A r \in Handoffs : envelope'[r] # envelope[r] =>
        \/ at[p] = NoHandoff /\ r \in Named /\ envelope'[r].reply = NoHandoff
        \/ /\ InReply(p) /\ r = resp[p] /\ r \in issued /\ envelope'[r].reply = at[p]
           /\ at'[p] = at[p] /\ resp'[p] = resp[p] /\ at[p] \in Handoffs
           /\ materialization[at[p]] # NoOne
  <2> SUFFICES ASSUME NEW r \in Handoffs, envelope'[r] # envelope[r]
               PROVE \/ at[p] = NoHandoff /\ r \in Named /\ envelope'[r].reply = NoHandoff
                     \/ /\ InReply(p) /\ r = resp[p] /\ r \in issued /\ envelope'[r].reply = at[p]
                        /\ at'[p] = at[p] /\ resp'[p] = resp[p] /\ at[p] \in Handoffs
                        /\ materialization[at[p]] # NoOne
    OBVIOUS
  <2>1. /\ r = sub[p].id /\ pc[p] = "commit" /\ envelope[r] = NoCore
        /\ envelope'[r] = sub[p].core /\ at'[p] = at[p] /\ resp'[p] = resp[p]
    BY DEF Own
  <2>2. pc[p] \in Submitting /\ pc[p] # "receipt"  BY <2>1 DEF Submitting
  <2>3. CASE at[p] = NoHandoff  BY <1>2, <2>1, <2>2, <2>3 DEF ReplyOK
  <2>4. CASE at[p] # NoHandoff
    <3>1. InReply(p)  BY <2>2, <2>4 DEF InReply
    <3>2. QED  BY <1>2, <2>1, <2>2, <2>4, <3>1 DEF ReplyOK
  <2>5. QED  BY <2>3, <2>4
<1>4. IdsOK'
  <2>1. \A h \in Handoffs : envelope'[h] # NoCore => h \in Named \cup issued'
    BY <1>3 DEF ReplyInv, IdsOK, Own
  <2>2. \A r \in Handoffs : envelope'[r] # NoCore /\ envelope'[r].reply # NoHandoff =>
          r \in issued' /\ materialization'[envelope'[r].reply] # NoOne
    <3> SUFFICES ASSUME NEW r \in Handoffs, envelope'[r] # NoCore, envelope'[r].reply # NoHandoff
                 PROVE  r \in issued' /\ materialization'[envelope'[r].reply] # NoOne
      OBVIOUS
    <3>1. envelope'[r].reply \in Handoffs
      BY DEF MailboxInv, TypeOK, StoreOK, Core
    <3>2. r \in issued /\ materialization[envelope'[r].reply] # NoOne
      BY <1>3 DEF ReplyInv, IdsOK
    <3>3. QED  BY <3>1, <3>2 DEF Own, RecordsKept
  <2>3. \A q, s \in Clients : InReply(q)' /\ InReply(s)' /\ resp'[q] = resp'[s] => q = s
    <3>1. \A q \in Clients : q # p =>
            (InReply(q)' <=> InReply(q)) /\ resp'[q] = resp[q] /\ (InReply(q) => resp[q] \in issued)
      BY DEF Own, OthersKept, InReply, ReplyInv, ReplyOK
    <3>2. InReply(p)' => (InReply(p) /\ resp'[p] = resp[p]) \/ resp'[p] \notin issued
      BY DEF Own, InReply
    <3>3. QED  BY <3>1, <3>2 DEF ReplyInv, IdsOK
  <2>4. QED  BY <2>1, <2>2, <2>3 DEF IdsOK
<1>5. OrphanOnlyAfterCrash'
  <2> SUFFICES ASSUME NEW h \in Handoffs, NEW r \in Handoffs,
                      envelope'[r] # NoCore, envelope'[r].reply = h,
                      materialization'[h] # NoOne, Sole(materialization'[h].by)
               PROVE  \/ receipt'[h] # NoReceipt /\ receipt'[h].response = r
                      \/ \E q \in Clients : at'[q] = h /\ resp'[q] = r
                      \/ r \in abandoned'
    BY DEF OrphanOnlyAfterCrash, Sole
  <2>1. CASE envelope'[r] # envelope[r]
    BY <1>2, <1>3, <2>1
  <2>2. CASE envelope'[r] = envelope[r]
    <3>1. materialization[h] # NoOne /\ materialization'[h] = materialization[h]
      BY <1>2, <2>2 DEF ReplyInv, IdsOK, RecordsKept
    <3>2. \/ receipt[h] # NoReceipt /\ receipt[h].response = r
          \/ \E q \in Clients : at[q] = h /\ resp[q] = r
          \/ r \in abandoned
      BY <2>2, <3>1 DEF ReplyInv, OrphanOnlyAfterCrash
    <3>3. CASE receipt[h] # NoReceipt /\ receipt[h].response = r
      BY <3>3 DEF RecordsKept
    <3>4. CASE r \in abandoned  BY <3>4 DEF Own
    <3>5. ASSUME NEW q \in Clients, at[q] = h, resp[q] = r, q # p
          PROVE  at'[q] = h /\ resp'[q] = r
      BY <3>5 DEF Own, OthersKept
    <3>6. CASE at[p] = h /\ resp[p] = r
      BY <2>2, <3>1, <3>6 DEF Accounted
    <3>7. QED  BY <3>2, <3>3, <3>4, <3>5, <3>6
  <2>3. QED  BY <2>1, <2>2
<1>6. QED  BY <1>1, <1>4, <1>5 DEF ReplyInv

(* The step of an action that changes neither envelopes nor receipts.       *)
Still ==
  /\ UNCHANGED <<envelope, receipt>>
  /\ issued \subseteq issued' /\ abandoned \subseteq abandoned'

(* A command that ends has nothing left to keep.                            *)
LEMMA Ended ==
  ASSUME ReplyInv, NEW p \in Clients, Finish(p),
         issued \subseteq issued', abandoned \subseteq abandoned',
         \A g \in Handoffs :
           \/ envelope'[g] = envelope[g]
           \/ /\ g = sub[p].id /\ pc[p] = "commit" /\ envelope[g] = NoCore
              /\ envelope'[g] = sub[p].core /\ at'[p] = at[p] /\ resp'[p] = resp[p],
         \A g \in Handoffs :
           receipt'[g] = receipt[g] \/ (g = at[p] /\ pc[p] = "sign")
  PROVE  Own(p) /\ ReplyOK(p)' /\ Unanswered(p)' /\ at'[p] = NoHandoff /\ resp'[p] = NoHandoff
<1>1. /\ pc'[p] = "idle" /\ at'[p] = NoHandoff /\ resp'[p] = NoHandoff
      /\ OthersKept(p)
  <2>1. MailboxInv  BY DEF ReplyInv
  <2>2. OthersKept(p)  BY <2>1, Finishing
  <2>3. QED  BY <2>1, <2>2 DEF Finish, MailboxInv, TypeOK, ClientsOK
<1>2. Own(p)  BY <1>1 DEF Own
<1>3. ReplyOK(p)' /\ Unanswered(p)'
  BY <1>1 DEF ReplyOK, Unanswered, Answering, InReply, Submitting
<1>4. QED  BY <1>1, <1>2, <1>3

(* Going on within a submission.                                            *)
LEMMA StillSubmitting ==
  ASSUME ReplyInv, NEW p \in Clients, pc[p] \in Submitting, NEW l \in Submitting, Goto(p, l),
         InReply(p) => l # "classify", Still, UNCHANGED materialization
  PROVE  Own(p) /\ Accounted(p) /\ ReplyOK(p)' /\ Unanswered(p)'
<1>1. /\ pc'[p] = l /\ at' = at /\ sub' = sub /\ resp' = resp
      /\ OthersKept(p)
  <2>1. MailboxInv  BY DEF ReplyInv
  <2>2. l \in Labels  BY DEF Submitting, Labels
  <2>3. OthersKept(p) /\ pc'[p] = l  BY <2>1, <2>2, GoingOn
  <2>4. QED  BY <2>3 DEF Goto
<1>2. /\ pc[p] # "receipt" /\ pc[p] # "claim" /\ pc[p] # "keep" /\ pc[p] # "sign"
      /\ l # "receipt" /\ l # "claim" /\ l # "keep" /\ l # "sign"
  BY DEF Submitting
<1>3. InReply(p)' <=> InReply(p)  BY <1>1 DEF InReply
<1>4. Own(p)  BY <1>1, <1>2, <1>3 DEF Own, Still, InReply
<1>5. Accounted(p)  BY <1>1 DEF Accounted
<1>6. ReplyOK(p) /\ Unanswered(p)  BY DEF ReplyInv
<1>7. ReplyOK(p)'
  BY <1>1, <1>2, <1>3, <1>6 DEF ReplyOK, Still
<1>8. Unanswered(p)'
  BY <1>1, <1>2, <1>3, <1>6 DEF Unanswered, Answering, Still, Sole
<1>9. QED  BY <1>4, <1>5, <1>7, <1>8

LEMMA ReplySubmits ==
  ASSUME ReplyInv, NEW p \in Clients, LookForEnvelope(p) \/ LookForPayload(p) \/ WritePayload(p)
  PROVE  Own(p) /\ Accounted(p) /\ ReplyOK(p)' /\ Unanswered(p)'
<1>1. pc[p] \in Submitting /\ pc[p] # "receipt" /\ pc[p] # "commit"
  BY DEF LookForEnvelope, LookForPayload, WritePayload, Submitting
<1>2. Still /\ UNCHANGED materialization
  BY DEF LookForEnvelope, LookForPayload, WritePayload, Still, sent, inbox, model
<1>3. ReplyOK(p)  BY DEF ReplyInv
<1>4. ASSUME NEW l \in Submitting, Goto(p, l), l = "classify" => ~InReply(p)
      PROVE  Own(p) /\ Accounted(p) /\ ReplyOK(p)' /\ Unanswered(p)'
  BY <1>1, <1>2, <1>4, StillSubmitting
<1>5. ASSUME Finish(p)
      PROVE  Own(p) /\ Accounted(p) /\ ReplyOK(p)' /\ Unanswered(p)'
  <2>1. Own(p) /\ ReplyOK(p)' /\ Unanswered(p)'
    BY <1>2, <1>5, Ended DEF Still
  <2>2. Accounted(p)
    BY <1>1, <1>3, MailboxAssumption DEF Accounted, ReplyOK, InReply
  <2>3. QED  BY <2>1, <2>2
<1>6. CASE LookForEnvelope(p)
  <2>1. InReply(p) => envelope[sub[p].id] = NoCore
    BY <1>1, <1>3 DEF ReplyOK
  <2>2. CASE Goto(p, "classify") /\ envelope[sub[p].id] # NoCore
    BY <1>4, <2>1, <2>2 DEF Submitting
  <2>3. CASE Goto(p, "payload")
    BY <1>4, <2>3 DEF Submitting
  <2>4. QED  BY <1>6, <2>2, <2>3 DEF LookForEnvelope
<1>7. CASE LookForPayload(p) \/ WritePayload(p)
  <2>1. Goto(p, "write") \/ Goto(p, "commit") \/ Finish(p)
    BY <1>7 DEF LookForPayload, WritePayload
  <2>2. QED  BY <1>4, <1>5, <2>1 DEF Submitting
<1>8. QED  BY <1>6, <1>7

LEMMA ReplyCommits ==
  ASSUME ReplyInv, NEW p \in Clients, CommitEnvelope(p)
  PROVE  Own(p) /\ Accounted(p) /\ ReplyOK(p)' /\ Unanswered(p)'
<1>1. /\ pc[p] = "commit" /\ pc[p] \in Submitting
      /\ UNCHANGED <<claim, materialization, receipt, issued, abandoned>>
      /\ at[p] \in Handoffs \cup {NoHandoff} /\ NoHandoff \notin Handoffs
      /\ sub[p].id \in Handoffs /\ sub[p].core \in Core /\ sub[p].core # NoCore
  BY Held, MailboxAssumption
  DEF CommitEnvelope, Submitting, ReplyInv, MailboxInv, TypeOK, ClientsOK, inbox, model
<1>2. ReplyOK(p) /\ Unanswered(p)  BY DEF ReplyInv
<1>3. CASE envelope[sub[p].id] # NoCore /\ envelope' = envelope /\ Goto(p, "classify")
  <2>1. ~InReply(p)  BY <1>1, <1>2, <1>3 DEF ReplyOK
  <2>2. QED  BY <1>1, <1>3, <2>1, StillSubmitting DEF Still, Submitting
<1>4. CASE /\ envelope[sub[p].id] = NoCore /\ Submitted(p)
           /\ envelope' = [envelope EXCEPT ![sub[p].id] = sub[p].core]
  <2>1. \A g \in Handoffs :
          \/ envelope'[g] = envelope[g]
          \/ g = sub[p].id /\ envelope[g] = NoCore /\ envelope'[g] = sub[p].core
    BY <1>4 DEF ReplyInv, MailboxInv, TypeOK, StoreOK
  <2>2. CASE at[p] = NoHandoff
    <3>1. Finish(p)  BY <1>4, <2>2 DEF Submitted
    <3>2. at'[p] = at[p] /\ resp'[p] = resp[p]
      BY <1>1, <1>2, <2>2, <3>1 DEF Finish, ReplyOK, ReplyInv, MailboxInv, TypeOK, ClientsOK
    <3>3. Own(p) /\ ReplyOK(p)' /\ Unanswered(p)'
      BY <1>1, <2>1, <3>1, <3>2, Ended
    <3>4. QED  BY <3>2, <3>3 DEF Accounted
  <2>3. CASE at[p] # NoHandoff
    <3>1. /\ pc'[p] = "receipt" /\ at' = at /\ resp' = resp
      BY <1>4, <2>3 DEF Submitted, ReplyInv, MailboxInv, TypeOK, ClientsOK
    <3>2. OthersKept(p)
      BY <1>1, <1>4, SubmittedStep DEF ReplyInv
    <3>3. InReply(p) /\ InReply(p)'
      BY <1>1, <2>3, <3>1 DEF InReply
    <3>4. Own(p)
      BY <1>1, <2>1, <3>1, <3>2, <3>3 DEF Own
    <3>5. Accounted(p)  BY <3>1 DEF Accounted
    <3>6. /\ resp[p] \in issued /\ envelope[at[p]] # NoCore /\ materialization[at[p]] # NoOne
          /\ materialization[at[p]].by = As[p] /\ resp[p] = sub[p].id /\ sub[p].core.reply = at[p]
      BY <1>1, <1>2, <3>3 DEF ReplyOK
    <3>7. envelope'[resp[p]] = sub[p].core /\ envelope'[at[p]] # NoCore
      BY <1>1, <1>4, <2>1, <2>3, <3>6 DEF ReplyInv, MailboxInv, TypeOK, StoreOK
    <3>8. ReplyOK(p)'
      BY <1>1, <2>3, <3>1, <3>3, <3>6, <3>7 DEF ReplyOK
    <3>9. Unanswered(p)'
      BY <1>1, <1>2, <3>1, <3>3 DEF Unanswered, Answering, Sole
    <3>10. QED  BY <3>4, <3>5, <3>8, <3>9
  <2>4. QED  BY <2>2, <2>3
<1>5. QED  BY <1>3, <1>4 DEF CommitEnvelope

LEMMA ReplyClassifies ==
  ASSUME ReplyInv, NEW p \in Clients, Classify(p)
  PROVE  Own(p) /\ Accounted(p) /\ ReplyOK(p)' /\ Unanswered(p)'
<1>1. /\ pc[p] = "classify" /\ pc[p] \in Submitting /\ ReplyOK(p)
      /\ at[p] \in Handoffs \cup {NoHandoff}
      /\ UNCHANGED <<envelope, receipt, issued, abandoned>>
  BY DEF Classify, Submitting, ReplyInv, MailboxInv, TypeOK, ClientsOK, inbox, model
<1>2. at[p] = NoHandoff  BY <1>1 DEF ReplyOK, InReply
<1>3. Finish(p)  BY <1>2 DEF Classify, Submitted
<1>4. Own(p) /\ ReplyOK(p)' /\ Unanswered(p)'  BY <1>1, <1>3, Ended
<1>5. Accounted(p)  BY <1>2, MailboxAssumption DEF Accounted
<1>6. QED  BY <1>4, <1>5

(* An idle client starts a command.                                         *)
LEMMA Starts ==
  ASSUME ReplyInv, NEW p \in Clients, pc[p] = "idle", Still, OthersKept(p),
         \/ at'[p] = NoHandoff \/ pc'[p] \notin Submitting \cup {"receipt"}
         \/ resp'[p] \notin issued
  PROVE  Own(p) /\ Accounted(p)
<1>1. at[p] = NoHandoff /\ NoHandoff \notin Handoffs
  BY MailboxAssumption DEF ReplyInv, MailboxInv, TypeOK, ClientsOK
<1>2. QED  BY <1>1 DEF Own, Accounted, Still

LEMMA ReplySends ==
  ASSUME ReplyInv, NEW p \in Clients, NEW h \in Handoffs, NEW y \in Deliveries,
         \/ Redeliver(p, h, y)
         \/ \E d \in Contents :
              Submit(p, h, d, y) \/ \E r \in Handoffs : Reply(p, h, d, r, y)
  PROVE  Own(p) /\ Accounted(p) /\ ReplyOK(p)' /\ Unanswered(p)'
<1> USE DEF ReplyInv
<1> DEFINE Goal == Own(p) /\ Accounted(p) /\ ReplyOK(p)' /\ Unanswered(p)'
<1>1. ASSUME NEW g \in Handoffs, NEW c \in Core, Send(p, g, c, y), UNCHANGED <<at, resp, model>>,
             envelope[g] = NoCore => g \in Named /\ c.reply = NoHandoff
      PROVE  Goal
  <2>1. OthersKept(p)  BY <1>1, Sending
  <2>2. /\ pc[p] = "idle" /\ at'[p] = NoHandoff /\ resp'[p] = NoHandoff /\ pc'[p] = "submit"
        /\ sub'[p].id = g /\ sub'[p].core = c /\ Still
    BY <1>1 DEF Send, MailboxInv, TypeOK, ClientsOK, sent, inbox, model, Still
  <2>3. Own(p) /\ Accounted(p)  BY <2>1, <2>2, Starts
  <2>4. ReplyOK(p)'
    BY <1>1, <2>2 DEF ReplyOK, InReply, Still
  <2>5. Unanswered(p)'
    BY <2>2 DEF Unanswered, Answering, InReply
  <2>6. QED  BY <2>3, <2>4, <2>5
<1>2. CASE Redeliver(p, h, y)
  <2>1. envelope[h] \in Core /\ envelope[h] # NoCore
    BY <1>2 DEF Redeliver, MailboxInv, TypeOK, StoreOK
  <2>2. Send(p, h, envelope[h], y) /\ UNCHANGED <<at, resp, model>>
    BY <1>2 DEF Redeliver
  <2>3. QED  BY <1>1, <2>1, <2>2
<1>3. ASSUME NEW d \in Contents, Submit(p, h, d, y) PROVE Goal
  <2>1. CoreOf(d, NoHandoff) \in Core /\ CoreOf(d, NoHandoff).reply = NoHandoff
    BY Composed, MailboxAssumption
  <2>2. Send(p, h, CoreOf(d, NoHandoff), y) /\ UNCHANGED <<at, resp, model>> /\ h \in Named
    BY <1>3 DEF Submit
  <2>3. QED  BY <1>1, <2>1, <2>2
<1>4. ASSUME NEW d \in Contents, NEW r \in Handoffs, Reply(p, h, d, r, y) PROVE Goal
  <2> DEFINE c == CoreOf(d, h)
  <2>1. c \in Core /\ c.reply = h  BY Composed, MailboxAssumption
  <2>2. /\ Preflight(p, h) /\ r \notin Named \cup issued /\ Send(p, r, c, y)
        /\ issued' = issued \cup {r} /\ UNCHANGED <<abandoned, tampered>>
        /\ at' = [at EXCEPT ![p] = h] /\ resp' = [resp EXCEPT ![p] = r]
    BY <1>4 DEF Reply
  <2> HIDE DEF c
  <2>3. OthersKept(p)  BY <2>1, <2>2, Sending
  <2>4. /\ pc[p] = "idle" /\ at'[p] = h /\ resp'[p] = r /\ pc'[p] = "submit"
        /\ sub'[p].id = r /\ sub'[p].core = c
        /\ Still /\ UNCHANGED materialization
    BY <2>2 DEF Send, MailboxInv, TypeOK, ClientsOK, sent, inbox, Still
  <2>5. Own(p) /\ Accounted(p)  BY <2>2, <2>3, <2>4, Starts
  <2>6. envelope[r] = NoCore  BY <2>2 DEF IdsOK
  <2>7. h # NoHandoff  BY MailboxAssumption
  <2>8. ReplyOK(p)'
    BY <2>1, <2>2, <2>4, <2>6, <2>7 DEF ReplyOK, InReply, Submitting, Preflight, Still
  <2>9. Unanswered(p)'
    BY <2>2, <2>4 DEF Unanswered, Answering, InReply, Preflight, Still
  <2>10. QED  BY <2>5, <2>8, <2>9
<1>5. QED  BY <1>2, <1>3, <1>4

LEMMA ReplyReceives ==
  ASSUME ReplyInv, NEW p \in Clients, NEW h \in Handoffs,
         \/ Claim(p, h) \/ Materialize(p, h)
         \/ \E r \in Handoffs \cup {NoHandoff} : Ack(p, h, r)
  PROVE  Own(p) /\ Accounted(p) /\ ReplyOK(p)' /\ Unanswered(p)'
<1> USE DEF ReplyInv, MailboxInv, TypeOK, ClientsOK
<1>1. CASE Claim(p, h) \/ Materialize(p, h)
  <2>1. /\ pc[p] = "idle" /\ pc'[p] \in {"claim", "keep"} /\ resp'[p] = NoHandoff
        /\ OthersKept(p) /\ Still
    BY <1>1 DEF Claim, Materialize, OthersKept, Still, sent, inbox, model
  <2>2. pc'[p] \notin Submitting \cup {"receipt", "sign"}  BY <2>1 DEF Submitting
  <2>3. Own(p) /\ Accounted(p)  BY <2>1, <2>2, Starts
  <2>4. QED
    BY <2>1, <2>2, <2>3 DEF ReplyOK, Unanswered, Answering, InReply
<1>2. ASSUME NEW r \in Handoffs \cup {NoHandoff}, Ack(p, h, r)
      PROVE  Own(p) /\ Accounted(p) /\ ReplyOK(p)' /\ Unanswered(p)'
  <2>1. /\ pc[p] = "idle" /\ pc'[p] = "sign" /\ at'[p] = h /\ OthersKept(p) /\ Still
        /\ receipt[h] = NoReceipt
    BY <1>2 DEF Ack, Preflight, OthersKept, Still, sent, inbox, model
  <2>2. pc'[p] \notin Submitting \cup {"receipt"}  BY <2>1 DEF Submitting
  <2>3. Own(p) /\ Accounted(p)  BY <2>1, <2>2, Starts
  <2>4. QED
    BY <2>1, <2>2, <2>3 DEF ReplyOK, Unanswered, Answering, InReply, Still
<1>3. QED  BY <1>1, <1>2

LEMMA ReplyEnds ==
  ASSUME ReplyInv, NEW p \in Clients,
         \/ WriteClaim(p) \/ WriteMaterialization(p) \/ WriteReceipt(p) \/ Crash(p)
  PROVE  Own(p) /\ Accounted(p) /\ ReplyOK(p)' /\ Unanswered(p)'
<1>1. ReplyOK(p) /\ Unanswered(p) /\ HolderOK(p)  BY DEF ReplyInv, MailboxInv
<1>2. Finish(p) /\ envelope' = envelope /\ issued' = issued /\ abandoned \subseteq abandoned'
  BY DEF WriteClaim, WriteMaterialization, WriteReceipt, Crash, sent, model
<1>3. \A g \in Handoffs : receipt'[g] = receipt[g] \/ (g = at[p] /\ pc[p] = "sign")
  BY DEF WriteClaim, WriteMaterialization, WriteReceipt, Crash, inbox, ReplyInv, MailboxInv,
     TypeOK, StoreOK
<1>4. Own(p) /\ ReplyOK(p)' /\ Unanswered(p)'
  BY <1>2, <1>3, Ended
<1>5. Accounted(p)
  <2> SUFFICES ASSUME NEW h \in Handoffs, NEW r \in Handoffs, at[p] = h, resp[p] = r,
                      envelope[r] # NoCore, envelope[r].reply = h,
                      materialization[h] # NoOne, Sole(materialization[h].by)
               PROVE  (receipt'[h] # NoReceipt /\ receipt'[h].response = r) \/ r \in abandoned'
    BY DEF Accounted
  <2>1. NoHandoff \notin Handoffs  BY MailboxAssumption
  <2>2. CASE WriteClaim(p) \/ WriteMaterialization(p)
    BY <1>1, <2>1, <2>2 DEF WriteClaim, WriteMaterialization, ReplyOK
  <2>3. CASE WriteReceipt(p)
    <3> DEFINE a == [by |-> As[p], response |-> resp[p]]
    <3>1. materialization[h].by = As[p] /\ pc[p] = "sign"
      BY <1>1, <2>3 DEF WriteReceipt, HolderOK
    <3>2. receipt[h] = NoReceipt
      BY <1>1, <3>1 DEF Unanswered, Answering, Sole
    <3>3. a \in Receipt /\ a.response = r
      BY MailboxAssumption DEF Receipt
    <3> HIDE DEF a
    <3>4. receipt'[h] = a
      BY <2>3, <3>2 DEF WriteReceipt, a, ReplyInv, MailboxInv, TypeOK, StoreOK
    <3>5. QED  BY <3>3, <3>4, MailboxAssumption
  <2>4. CASE Crash(p)
    <3>1. r \in issued  BY <2>1 DEF ReplyInv, IdsOK
    <3>2. QED  BY <2>4, <3>1 DEF Crash
  <2>5. QED  BY <2>2, <2>3, <2>4
<1>6. QED  BY <1>4, <1>5

LEMMA ReplyChecks ==
  ASSUME ReplyInv, NEW p \in Clients, CheckReceipt(p)
  PROVE  Own(p) /\ Accounted(p) /\ ReplyOK(p)' /\ Unanswered(p)'
<1>1. /\ pc[p] = "receipt" /\ Still /\ at[p] \in Handoffs /\ resp[p] \in Handoffs \cup {NoHandoff}
      /\ NoHandoff \notin Handoffs /\ InReply(p)
  BY MailboxAssumption
  DEF CheckReceipt, Still, ReplyInv, MailboxInv, TypeOK, ClientsOK, Submitting, InReply, sent,
      inbox, model
<1>2. ReplyOK(p) /\ Unanswered(p)  BY DEF ReplyInv
<1>3. CASE Goto(p, "sign") /\ Preflight(p, at[p])
  <2>1. /\ pc'[p] = "sign" /\ at' = at /\ resp' = resp /\ OthersKept(p)
    BY <1>3 DEF Goto, OthersKept, ReplyInv, MailboxInv, TypeOK, ClientsOK
  <2>2. pc'[p] \notin Submitting \cup {"receipt", "claim", "keep"}  BY <2>1 DEF Submitting
  <2>3. Own(p) /\ Accounted(p)
    BY <1>1, <2>1, <2>2 DEF Own, Accounted, Still
  <2>4. QED
    BY <1>1, <1>3, <2>1, <2>2, <2>3 DEF ReplyOK, Unanswered, Answering, InReply, Preflight, Still
<1>4. CASE Finish(p) /\ ~(Preflight(p, at[p]) /\ Linked(at[p], resp[p]))
  <2>1. Own(p) /\ ReplyOK(p)' /\ Unanswered(p)'
    BY <1>1, <1>4, Ended DEF Still
  <2>2. ~Sole(As[p])
    BY <1>1, <1>2, <1>4 DEF ReplyOK, Unanswered, Answering, Preflight, Linked
  <2>3. materialization[at[p]].by = As[p]  BY <1>1, <1>2 DEF ReplyOK
  <2>4. QED  BY <2>1, <2>2, <2>3 DEF Accounted
<1>5. QED  BY <1>3, <1>4 DEF CheckReceipt

LEMMA ReplyProgress ==
  ASSUME ReplyInv, [Next]_vars
  PROVE  ReplyInv'
<1>1. MailboxInv' /\ RecordsKept  BY Progress DEF ReplyInv
<1>2. ASSUME UNCHANGED <<envelope, claim, materialization, receipt, clients, issued, abandoned>>
      PROVE  ReplyInv'
  BY <1>1, <1>2
  DEF clients, ReplyInv, IdsOK, OrphanOnlyAfterCrash, ReplyOK, Unanswered, InReply, Answering, Sole
<1>3. ASSUME NEW p \in Clients, Step(p) \/ Crash(p) PROVE ReplyInv'
  BY <1>1, <1>3, ReplyKept, ReplySubmits, ReplyCommits, ReplyClassifies, ReplyEnds, ReplyChecks
  DEF Step
<1>4. ASSUME NEW p \in Clients, NEW h \in Handoffs, Command(p, h) PROVE ReplyInv'
  <2>1. Own(p) /\ Accounted(p) /\ ReplyOK(p)' /\ Unanswered(p)'
    <3>1. ASSUME NEW y \in Deliveries,
                 \/ Redeliver(p, h, y)
                 \/ \E d \in Contents :
                      Submit(p, h, d, y) \/ \E r \in Handoffs : Reply(p, h, d, r, y)
          PROVE  Own(p) /\ Accounted(p) /\ ReplyOK(p)' /\ Unanswered(p)'
      BY <3>1, ReplySends
    <3>2. QED  BY <1>4, <3>1, ReplyReceives DEF Command
  <2>2. QED  BY <1>1, <2>1, ReplyKept
<1>5. QED
  BY <1>2, <1>3, <1>4 DEF Next, Tamper, vars, sent, inbox, model

LEMMA ReplyInit == Init => ReplyInv
<1> SUFFICES ASSUME Init PROVE ReplyInv  OBVIOUS
<1>1. MailboxInv  BY MailboxInit
<1>2. QED
  BY <1>1 DEF Init, ReplyInv, IdsOK, OrphanOnlyAfterCrash, ReplyOK, Unanswered, InReply, Answering,
     Submitting

(* For an instance that runs one command at a time, a stored response is    *)
(* named by its handoff's receipt, or reply is still at work on it, or that *)
(* command crashed between submission and receipt (eml_handoff/cli.py).     *)
THEOREM OrphansOfCrashes == Spec => []OrphanOnlyAfterCrash
<1>1. ReplyInv /\ [Next]_vars => ReplyInv'  BY ReplyProgress
<1>2. ReplyInv => OrphanOnlyAfterCrash  BY DEF ReplyInv
<1>3. QED  BY ReplyInit, <1>1, <1>2, PTL DEF Spec

-----------------------------------------------------------------------------
(* Refinement: every publication of a record is a step of HandoffContract,  *)
(* all else stutters.                                                       *)

ReadSet == {h \in Handoffs : materialization[h] # NoOne}

LEMMA ContractStep ==
  ASSUME MailboxInv, [Next]_vars
  PROVE  Contract!Next \/ UNCHANGED <<envelope, claim, ReadSet, receipt>>
<1> DEFINE records == <<envelope, claim, materialization, receipt>>
<1>1. CASE UNCHANGED records
  BY <1>1 DEF ReadSet
<1>2. ASSUME NEW p \in Clients, CommitEnvelope(p), ~UNCHANGED records
      PROVE  Contract!Next
  <2>1. /\ envelope[sub[p].id] = NoCore
        /\ envelope' = [envelope EXCEPT ![sub[p].id] = sub[p].core]
        /\ UNCHANGED <<claim, materialization, receipt>>
    BY <1>2 DEF CommitEnvelope, inbox
  <2>2. sub[p].id \in Handoffs /\ sub[p].core \in Core
    BY <1>2, Held DEF CommitEnvelope, Submitting
  <2>3. Contract!Offer(sub[p].id, sub[p].core)
    BY <2>1 DEF Contract!Offer
  <2>4. QED  BY <2>2, <2>3 DEF Contract!Next
<1>3. ASSUME NEW p \in Clients, WriteClaim(p), ~UNCHANGED records
      PROVE  Contract!Next
  <2> DEFINE h == at[p]
  <2>1. /\ claim[h] = NoOne /\ claim' = [claim EXCEPT ![h] = As[p]]
        /\ UNCHANGED <<envelope, materialization, receipt>>
    BY <1>3 DEF WriteClaim, sent
  <2>2. h \in Handoffs /\ envelope[h] # NoCore /\ Authorized(p, envelope[h].target)
    BY <1>3 DEF WriteClaim, MailboxInv, HolderOK, TypeOK, ClientsOK, Submitting
  <2>3. envelope[h].target \in Targets /\ As[p] \in Instances
    BY <2>2, MailboxAssumption DEF MailboxInv, TypeOK, StoreOK, Core
  <2>4. <<As[p], envelope[h].target>> \in
          {x \in Instances \X Targets : \E q \in Clients : As[q] = x[1] /\ Authorized(q, x[2])}
    BY <2>2, <2>3
  <2>5. Contract!Take(h, As[p])
    BY <2>1, <2>2, <2>4 DEF Contract!Take
  <2>6. QED  BY <2>2, <2>3, <2>5 DEF Contract!Next
<1>4. ASSUME NEW p \in Clients, WriteMaterialization(p), ~UNCHANGED records
      PROVE  Contract!Next
  <2> DEFINE h == at[p]
             m == [by |-> As[p], bytes |-> saw[p]]
  <2>1. /\ materialization[h] = NoOne /\ materialization' = [materialization EXCEPT ![h] = m]
        /\ UNCHANGED <<envelope, claim, receipt>> /\ pc[p] = "keep"
    BY <1>4 DEF WriteMaterialization, sent
  <2>2. h \in Handoffs /\ claim[h] = As[p] /\ As[p] # NoOne
    BY <2>1, MailboxAssumption DEF MailboxInv, HolderOK, TypeOK, ClientsOK, Submitting
  <2>3. m # NoOne
    <3>1. saw[p] \in Bytes  BY <2>1 DEF MailboxInv, TypeOK, ClientsOK
    <3>2. m \in Materialization  BY <3>1, MailboxAssumption DEF Materialization
    <3>3. QED  BY <3>2, MailboxAssumption
  <2> HIDE DEF m
  <2>4. ReadSet' = ReadSet \cup {h} /\ h \notin ReadSet
    BY <2>1, <2>2, <2>3 DEF ReadSet, MailboxInv, TypeOK, StoreOK
  <2>5. claim[h] # NoOne /\ UNCHANGED <<envelope, claim, receipt>>  BY <2>1, <2>2
  <2> HIDE DEF h
  <2>6. QED  BY <2>2, <2>4, <2>5 DEF Contract!Next, Contract!Read, ReadSet
<1>5. ASSUME NEW p \in Clients, WriteReceipt(p), ~UNCHANGED records
      PROVE  Contract!Next
  <2> DEFINE h == at[p]
  <2>1. /\ receipt[h] = NoReceipt
        /\ receipt' = [receipt EXCEPT ![h] = [by |-> As[p], response |-> resp[p]]]
        /\ UNCHANGED <<envelope, claim, materialization>> /\ pc[p] = "sign"
    BY <1>5 DEF WriteReceipt, sent
  <2>2. /\ h \in Handoffs /\ materialization[h] # NoOne /\ materialization[h].by = As[p]
        /\ Linked(h, resp[p]) /\ resp[p] \in Handoffs \cup {NoHandoff}
    BY <2>1 DEF MailboxInv, HolderOK, TypeOK, ClientsOK, Submitting
  <2>3. claim[h] = As[p]  BY <2>2 DEF MailboxInv, OneReceiver
  <2>4. ReadSet' = ReadSet /\ h \in ReadSet  BY <2>1, <2>2 DEF ReadSet
  <2>5. Contract!Answer(h, resp[p])
    BY <2>1, <2>2, <2>3, <2>4 DEF Contract!Answer, Linked, ReadSet
  <2>6. QED  BY <2>2, <2>5 DEF Contract!Next
<1>6. CASE UNCHANGED vars
  BY <1>1, <1>6 DEF vars, sent, inbox
<1>7. ASSUME NEW p \in Clients, Step(p), ~UNCHANGED records PROVE Contract!Next
  BY <1>2, <1>3, <1>4, <1>5, <1>7
  DEF Step, LookForEnvelope, LookForPayload, WritePayload, Classify, CheckReceipt, sent, inbox
<1>8. ASSUME NEW p \in Clients, NEW h \in Handoffs, Command(p, h) PROVE UNCHANGED records
  BY <1>8 DEF Command, Submit, Redeliver, Reply, Send, Claim, Materialize, Ack, sent, inbox
<1>9. ASSUME NEW p \in Clients, Crash(p) PROVE UNCHANGED records
  BY <1>9 DEF Crash, sent, inbox
<1>10. ASSUME NEW h \in Handoffs, NEW k \in Kinds, NEW b \in Bytes \cup {NoBytes}, Tamper(h, k, b)
       PROVE  UNCHANGED records
  BY <1>10 DEF Tamper, inbox
<1>11. QED  BY <1>1, <1>6, <1>7, <1>8, <1>9, <1>10 DEF Next

(* The store under any number of commands keeps HandoffContract.            *)
THEOREM Implements == Spec => ImplementsContract
<1>1. Init => Contract!Init
  BY DEF Init, Contract!Init
<1>2. MailboxInv /\ [Next]_vars => [Contract!Next]_(Contract!handoffs)
  BY ContractStep DEF ReadSet, Contract!handoffs
<1>3. QED
  BY <1>1, <1>2, MailboxAlways, PTL DEF Spec, ImplementsContract, Contract!Spec
=============================================================================
