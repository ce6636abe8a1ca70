--------------------------- MODULE HandoffMailbox ---------------------------
(***************************************************************************)
(* The durable handoff mailbox (eml_handoff/store.py) under the commands   *)
(* of eml_handoff/cli.py.  Clients are separate processes on one           *)
(* directory; each runs one command at a time and may crash in it.  Every  *)
(* record is a file published by link(2): it appears whole, and never      *)
(* replaces another.  A submission publishes two of them, the payload and  *)
(* then its envelope.  The checks that precede a publication are steps of  *)
(* their own.  Records never change once published, so checks that read    *)
(* only records, one after the other, are one step.                        *)
(***************************************************************************)
EXTENDS Naturals

CONSTANTS
  Clients,     \* processes that run eml-handoff
  Instances,   \* receiver_instance_ref, "unresolved" being one of them
  As,          \* the instance each client acts for
  Handoffs,    \* handoff ids
  Named,       \* the ids that submitters choose themselves
  Contents,    \* payload, media type and target of the documents there are
  Bytes, Kinds, Targets,
  Open,        \* targets of kind task and shared_topic
  Verified,    \* which client the host's verifier accepts for which target
  Deliveries,  \* delivery ids
  MayCrash,
  Editable,    \* handoffs whose payload file is changed by hand
  NoHandoff, NoCore, NoBytes, NoOne, NoReceipt, NoSubmission

Content == [bytes : Bytes, kind : Kinds, target : Targets]
Core == [bytes : Bytes, kind : Kinds, target : Targets, reply : Handoffs \cup {NoHandoff}]
Submission == [id : Handoffs, core : Core, delivery : Deliveries]
Materialization == [by : Instances, bytes : Bytes]
Receipt == [by : Instances, response : Handoffs \cup {NoHandoff}]

ASSUME MailboxAssumption ==
  /\ As \in [Clients -> Instances]
  /\ Named \subseteq Handoffs /\ Contents \subseteq Content
  /\ Open \subseteq Targets /\ Verified \subseteq Clients \X Targets
  /\ NoHandoff \notin Handoffs /\ NoCore \notin Core /\ NoBytes \notin Bytes
  /\ NoOne \notin Instances \cup Materialization /\ NoReceipt \notin Receipt
  /\ NoSubmission \notin Submission
  /\ MayCrash \in BOOLEAN /\ Editable \subseteq Handoffs

VARIABLES
  \* the store
  payload,         \* payloads/, by handoff and extension
  envelope,        \* envelopes/: the core of each handoff
  duplicates,      \* duplicates/
  quarantine,      \* quarantine/: the handoffs that collided
  claim,           \* claims/: the receiver instance
  materialization, \* materializations/
  receipt,         \* receipts/
  \* the clients
  pc,              \* where each is in its command
  at,              \* the handoff it claims, materializes or acknowledges
  sub,             \* what it submits
  resp,            \* the response its receipt will name
  saw,             \* the payload it has read
  \* bookkeeping of the model
  issued,          \* ids generated by uuid4
  abandoned,       \* responses whose client crashed
  tampered         \* handoffs whose payload file was changed by hand

inbox   == <<claim, materialization, receipt>>
sent    == <<payload, envelope, duplicates, quarantine>>
clients == <<pc, at, sub, resp, saw>>
model   == <<issued, abandoned, tampered>>
vars    == <<sent, inbox, clients, model>>

Labels == {"idle", "submit", "payload", "write", "commit", "classify",
           "claim", "keep", "receipt", "sign"}

Init ==
  /\ payload = [f \in Handoffs \X Kinds |-> NoBytes]
  /\ envelope = [h \in Handoffs |-> NoCore]
  /\ duplicates = {} /\ quarantine = {}
  /\ claim = [h \in Handoffs |-> NoOne]
  /\ materialization = [h \in Handoffs |-> NoOne]
  /\ receipt = [h \in Handoffs |-> NoReceipt]
  /\ pc = [p \in Clients |-> "idle"]
  /\ at = [p \in Clients |-> NoHandoff]
  /\ sub = [p \in Clients |-> NoSubmission]
  /\ resp = [p \in Clients |-> NoHandoff]
  /\ saw = [p \in Clients |-> NoBytes]
  /\ issued = {} /\ abandoned = {} /\ tampered = {}

Goto(p, l) == pc' = [pc EXCEPT ![p] = l] /\ UNCHANGED <<at, sub, resp, saw>>

\* A command ends, with its result or with an error.
Finish(p) ==
  /\ pc' = [pc EXCEPT ![p] = "idle"]
  /\ at' = [at EXCEPT ![p] = NoHandoff]
  /\ sub' = [sub EXCEPT ![p] = NoSubmission]
  /\ resp' = [resp EXCEPT ![p] = NoHandoff]
  /\ saw' = [saw EXCEPT ![p] = NoBytes]

-----------------------------------------------------------------------------
(* submit, by create or with an id of the caller's; reply continues in it.  *)

CoreOf(d, h) == [bytes |-> d.bytes, kind |-> d.kind, target |-> d.target, reply |-> h]

Send(p, h, c, y) ==
  /\ pc[p] = "idle"
  /\ pc' = [pc EXCEPT ![p] = "submit"]
  /\ sub' = [sub EXCEPT ![p] = [id |-> h, core |-> c, delivery |-> y]]
  /\ UNCHANGED <<sent, inbox, saw>>

Submit(p, h, d, y) ==
  /\ h \in Named
  /\ Send(p, h, CoreOf(d, NoHandoff), y)
  /\ UNCHANGED <<at, resp, model>>

\* A stored envelope can be delivered again by whoever has it.
Redeliver(p, h, y) ==
  /\ envelope[h] # NoCore
  /\ Send(p, h, envelope[h], y)
  /\ UNCHANGED <<at, resp, model>>

LookForEnvelope(p) ==
  /\ pc[p] = "submit"
  /\ Goto(p, IF envelope[sub[p].id] # NoCore THEN "classify" ELSE "payload")
  /\ UNCHANGED <<sent, inbox, model>>

File(s) == payload[<<s.id, s.core.kind>>]

\* An orphan payload with the same bytes is adopted, with others it refuses.
LookForPayload(p) ==
  /\ pc[p] = "payload"
  /\ \/ File(sub[p]) = NoBytes /\ Goto(p, "write")
     \/ File(sub[p]) = sub[p].core.bytes /\ Goto(p, "commit")
     \/ File(sub[p]) \notin {NoBytes, sub[p].core.bytes} /\ Finish(p)
  /\ UNCHANGED <<sent, inbox, model>>

\* Mutant: a payload that appeared since is taken for one's own.
WritePayloadUnread(p) ==
  /\ pc[p] = "write"
  /\ payload' = IF File(sub[p]) = NoBytes
                THEN [payload EXCEPT ![<<sub[p].id, sub[p].core.kind>>] = sub[p].core.bytes]
                ELSE payload
  /\ Goto(p, "commit")
  /\ UNCHANGED <<envelope, duplicates, quarantine, inbox, model>>

WritePayload(p) ==
  /\ pc[p] = "write"
  /\ \/ /\ File(sub[p]) = NoBytes
        /\ payload' = [payload EXCEPT ![<<sub[p].id, sub[p].core.kind>>] = sub[p].core.bytes]
        /\ Goto(p, "commit")
     \/ /\ File(sub[p]) = sub[p].core.bytes
        /\ payload' = payload
        /\ Goto(p, "commit")
     \/ /\ File(sub[p]) \notin {NoBytes, sub[p].core.bytes}
        /\ payload' = payload
        /\ Finish(p)
  /\ UNCHANGED <<envelope, duplicates, quarantine, inbox, model>>

\* submit returns; reply goes on to the receipt.
Submitted(p) ==
  IF at[p] = NoHandoff
  THEN Finish(p)
  ELSE /\ pc' = [pc EXCEPT ![p] = "receipt"]
       /\ sub' = [sub EXCEPT ![p] = NoSubmission]
       /\ UNCHANGED <<at, resp, saw>>

\* Mutant: the envelope replaces one that was published since.
CommitEnvelopeReplacing(p) ==
  /\ pc[p] = "commit"
  /\ envelope' = [envelope EXCEPT ![sub[p].id] = sub[p].core]
  /\ Submitted(p)
  /\ UNCHANGED <<payload, duplicates, quarantine, inbox, model>>

CommitEnvelope(p) ==
  /\ pc[p] = "commit"
  /\ LET h == sub[p].id
     IN \/ /\ envelope[h] = NoCore
           /\ envelope' = [envelope EXCEPT ![h] = sub[p].core]
           /\ Submitted(p)
        \/ /\ envelope[h] # NoCore
           /\ envelope' = envelope
           /\ Goto(p, "classify")
  /\ UNCHANGED <<payload, duplicates, quarantine, inbox, model>>

\* _classify_existing_submission: other content is quarantined and refused, the
\* same content is a duplicate if the stored payload is still the one sent.
Classify(p) ==
  /\ pc[p] = "classify"
  /\ LET s == sub[p]
     IN \/ /\ envelope[s.id] # s.core
           /\ quarantine' = quarantine \cup {s.id}
           /\ duplicates' = duplicates
           /\ Finish(p)
        \/ /\ envelope[s.id] = s.core /\ File(s) # s.core.bytes
           /\ UNCHANGED <<quarantine, duplicates>>
           /\ Finish(p)
        \/ /\ envelope[s.id] = s.core /\ File(s) = s.core.bytes
           /\ duplicates' = duplicates \cup {<<s.id, s.delivery>>}
           /\ quarantine' = quarantine
           /\ Submitted(p)
  /\ UNCHANGED <<payload, envelope, inbox, model>>

-----------------------------------------------------------------------------
(* The receiver's commands.  One that is refused before it writes leaves no *)
(* trace and is no step.                                                    *)

\* authorize_claim: exact instances and entities need the host's verifier.
Authorized(p, t) == t \in Open \/ <<p, t>> \in Verified

Claim(p, h) ==
  /\ pc[p] = "idle"
  /\ envelope[h] # NoCore /\ claim[h] = NoOne
  /\ Authorized(p, envelope[h].target)
  /\ pc' = [pc EXCEPT ![p] = "claim"] /\ at' = [at EXCEPT ![p] = h]
  /\ UNCHANGED <<sent, inbox, sub, resp, saw, model>>

\* Mutant: the claim replaces one that was published since.
WriteClaimReplacing(p) ==
  /\ pc[p] = "claim"
  /\ claim' = [claim EXCEPT ![at[p]] = As[p]]
  /\ Finish(p)
  /\ UNCHANGED <<sent, materialization, receipt, model>>

WriteClaim(p) ==
  /\ pc[p] = "claim"
  /\ claim' = IF claim[at[p]] = NoOne THEN [claim EXCEPT ![at[p]] = As[p]] ELSE claim
  /\ Finish(p)
  /\ UNCHANGED <<sent, materialization, receipt, model>>

\* Mutant: the payload is not compared with the envelope.
MaterializeUnverified(p, h) ==
  /\ pc[p] = "idle"
  /\ envelope[h] # NoCore /\ claim[h] = As[p]
  /\ LET b == payload[<<h, envelope[h].kind>>]
     IN b # NoBytes /\ saw' = [saw EXCEPT ![p] = b]
  /\ pc' = [pc EXCEPT ![p] = "keep"] /\ at' = [at EXCEPT ![p] = h]
  /\ UNCHANGED <<sent, inbox, sub, resp, model>>

\* materialize reads the payload and compares its digest with the envelope's.
Materialize(p, h) ==
  /\ pc[p] = "idle"
  /\ envelope[h] # NoCore /\ claim[h] = As[p]
  /\ LET b == payload[<<h, envelope[h].kind>>]
     IN b = envelope[h].bytes /\ saw' = [saw EXCEPT ![p] = b]
  /\ pc' = [pc EXCEPT ![p] = "keep"] /\ at' = [at EXCEPT ![p] = h]
  /\ UNCHANGED <<sent, inbox, sub, resp, model>>

WriteMaterialization(p) ==
  /\ pc[p] = "keep"
  /\ materialization' =
       IF materialization[at[p]] = NoOne
       THEN [materialization EXCEPT ![at[p]] = [by |-> As[p], bytes |-> saw[p]]]
       ELSE materialization
  /\ Finish(p)
  /\ UNCHANGED <<sent, claim, receipt, model>>

\* preflight_receipt: not answered yet, and materialized by this instance.
Preflight(p, h) ==
  /\ envelope[h] # NoCore /\ receipt[h] = NoReceipt
  /\ materialization[h] # NoOne /\ materialization[h].by = As[p]

\* Mutant: any stored handoff will do as a response.
LinkedToAny(h, r) == r # NoHandoff => envelope[r] # NoCore

\* The response a receipt names has to exist and to reply to the handoff.
Linked(h, r) == r # NoHandoff => envelope[r] # NoCore /\ envelope[r].reply = h

Ack(p, h, r) ==
  /\ pc[p] = "idle"
  /\ Preflight(p, h) /\ Linked(h, r)
  /\ pc' = [pc EXCEPT ![p] = "sign"]
  /\ at' = [at EXCEPT ![p] = h] /\ resp' = [resp EXCEPT ![p] = r]
  /\ UNCHANGED <<sent, inbox, sub, saw, model>>

\* Mutant: reply leaves it to commit_receipt to look at the handoff.
ReplyUnchecked(p, h, d, r, y) ==
  /\ envelope[h] # NoCore /\ r \notin Named \cup issued
  /\ Send(p, r, CoreOf(d, h), y)
  /\ issued' = issued \cup {r}
  /\ at' = [at EXCEPT ![p] = h] /\ resp' = [resp EXCEPT ![p] = r]
  /\ UNCHANGED <<abandoned, tampered>>

\* reply: preflight, submit a response under a new id, then commit_receipt.
Reply(p, h, d, r, y) ==
  /\ Preflight(p, h) /\ r \notin Named \cup issued
  /\ Send(p, r, CoreOf(d, h), y)
  /\ issued' = issued \cup {r}
  /\ at' = [at EXCEPT ![p] = h] /\ resp' = [resp EXCEPT ![p] = r]
  /\ UNCHANGED <<abandoned, tampered>>

CheckReceipt(p) ==
  /\ pc[p] = "receipt"
  /\ IF Preflight(p, at[p]) /\ Linked(at[p], resp[p]) THEN Goto(p, "sign") ELSE Finish(p)
  /\ UNCHANGED <<sent, inbox, model>>

WriteReceipt(p) ==
  /\ pc[p] = "sign"
  /\ receipt' = IF receipt[at[p]] = NoReceipt
                THEN [receipt EXCEPT ![at[p]] = [by |-> As[p], response |-> resp[p]]]
                ELSE receipt
  /\ Finish(p)
  /\ UNCHANGED <<sent, claim, materialization, model>>

-----------------------------------------------------------------------------
(* Crashes, and payload files changed or removed by hand.                   *)

Crash(p) ==
  /\ MayCrash /\ pc[p] # "idle"
  /\ abandoned' = abandoned \cup ({resp[p]} \cap issued)
  /\ Finish(p)
  /\ UNCHANGED <<sent, inbox, issued, tampered>>

Tamper(h, k, b) ==
  /\ h \in Editable /\ payload[<<h, k>>] \notin {NoBytes, b}
  /\ payload' = [payload EXCEPT ![<<h, k>>] = b]
  /\ tampered' = tampered \cup {h}
  /\ UNCHANGED <<envelope, duplicates, quarantine, inbox, clients, issued, abandoned>>

Step(p) ==
  \/ LookForEnvelope(p) \/ LookForPayload(p) \/ WritePayload(p) \/ CommitEnvelope(p)
  \/ Classify(p) \/ WriteClaim(p) \/ WriteMaterialization(p) \/ CheckReceipt(p)
  \/ WriteReceipt(p)

Command(p, h) ==
  \/ \E d \in Contents, y \in Deliveries :
       Submit(p, h, d, y) \/ \E r \in Handoffs : Reply(p, h, d, r, y)
  \/ \E y \in Deliveries : Redeliver(p, h, y)
  \/ Claim(p, h) \/ Materialize(p, h)
  \/ \E r \in Handoffs \cup {NoHandoff} : Ack(p, h, r)

Next ==
  \/ \E p \in Clients : Step(p) \/ Crash(p) \/ \E h \in Handoffs : Command(p, h)
  \/ \E h \in Handoffs, k \in Kinds, b \in Bytes \cup {NoBytes} : Tamper(h, k, b)

Spec == Init /\ [][Next]_vars
=============================================================================
