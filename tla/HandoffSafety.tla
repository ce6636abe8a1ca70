--------------------------- MODULE HandoffSafety ---------------------------
(***************************************************************************)
(* What HandoffMailbox is checked and proved for.                          *)
(***************************************************************************)
EXTENDS HandoffMailbox

(* Shape of the state: what a client holds at each step of its command.     *)
Submitting == {"submit", "payload", "write", "commit", "classify"}

StoreOK ==
  /\ payload \in [Handoffs \X Kinds -> Bytes \cup {NoBytes}]
  /\ envelope \in [Handoffs -> Core \cup {NoCore}]
  /\ duplicates \subseteq Handoffs \X Deliveries
  /\ quarantine \subseteq Handoffs
  /\ claim \in [Handoffs -> Instances \cup {NoOne}]
  /\ materialization \in [Handoffs -> Materialization \cup {NoOne}]
  /\ receipt \in [Handoffs -> Receipt \cup {NoReceipt}]
  /\ issued \subseteq Handoffs \ Named /\ abandoned \subseteq issued
  /\ tampered \subseteq Handoffs

ClientsOK ==
  /\ pc \in [Clients -> Labels]
  /\ at \in [Clients -> Handoffs \cup {NoHandoff}]
  /\ sub \in [Clients -> Submission \cup {NoSubmission}]
  /\ resp \in [Clients -> Handoffs \cup {NoHandoff}]
  /\ saw \in [Clients -> Bytes \cup {NoBytes}]
  /\ \A p \in Clients :
       /\ sub[p] # NoSubmission <=> pc[p] \in Submitting
       /\ pc[p] = "idle" => at[p] = NoHandoff /\ resp[p] = NoHandoff
       /\ pc[p] \notin Submitting \cup {"idle"} => at[p] # NoHandoff
       /\ saw[p] # NoBytes <=> pc[p] = "keep"

TypeOK == StoreOK /\ ClientsOK

-----------------------------------------------------------------------------
(* EnvelopeHasPayload: a receiver who sees an envelope finds the payload it *)
(* describes, whatever submissions raced or crashed for that id, unless the *)
(* file was changed by hand (store.submit: payload before envelope).        *)
EnvelopeHasPayload ==
  \A h \in Handoffs :
    envelope[h] # NoCore /\ h \notin tampered =>
      payload[<<h, envelope[h].kind>>] = envelope[h].bytes

(* OneReceiver: a handoff is claimed by an instance that may have it, and   *)
(* read and acknowledged by that instance and in that order, whatever other *)
(* clients try (store.claim, materialize, preflight_receipt).               *)
OneReceiver ==
  \A h \in Handoffs :
    /\ claim[h] # NoOne =>
         /\ envelope[h] # NoCore
         /\ \E p \in Clients : As[p] = claim[h] /\ Authorized(p, envelope[h].target)
    /\ materialization[h] # NoOne => materialization[h].by = claim[h]
    /\ receipt[h] # NoReceipt =>
         materialization[h] # NoOne /\ receipt[h].by = materialization[h].by

(* SentIsMaterialized: what a materialization vouches for is the payload of *)
(* the envelope, although the file may be changed at any time (materialize: *)
(* "stored payload changed after commit").                                  *)
SentIsMaterialized ==
  \A h \in Handoffs :
    materialization[h] # NoOne => materialization[h].bytes = envelope[h].bytes

(* ResponseLinked: the response a receipt names is there, and replies to    *)
(* the handoff the receipt is for (commit_receipt).                         *)
ResponseLinked ==
  \A h, r \in Handoffs :
    receipt[h] # NoReceipt /\ receipt[h].response = r =>
      envelope[r] # NoCore /\ envelope[r].reply = h

(* OrphanOnlyAfterCrash: reply "creates no orphan response" (test_handoff_  *)
(* cli) for an instance that runs one command at a time: a stored response  *)
(* is the one its parent's receipt names, or reply is still at work, or it  *)
(* crashed between submission and receipt.                                  *)
Sole(i) == \A p, q \in Clients : As[p] = i /\ As[q] = i => p = q

OrphanOnlyAfterCrash ==
  \A h, r \in Handoffs :
    (/\ envelope[r] # NoCore /\ envelope[r].reply = h
     /\ materialization[h] # NoOne /\ Sole(materialization[h].by)) =>
      \/ receipt[h] # NoReceipt /\ receipt[h].response = r
      \/ \E p \in Clients : at[p] = h /\ resp[p] = r
      \/ r \in abandoned

(* ImplementsContract: store and commands implement HandoffContract.        *)
Contract == INSTANCE HandoffContract WITH
              MayTake <- {x \in Instances \X Targets :
                            \E p \in Clients : As[p] = x[1] /\ Authorized(p, x[2])},
              NoAnswer <- NoReceipt,
              content <- envelope, taker <- claim,
              read <- {h \in Handoffs : materialization[h] # NoOne},
              answer <- receipt
ImplementsContract == Contract!Spec
=============================================================================
