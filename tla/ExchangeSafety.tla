--------------------------- MODULE ExchangeSafety ---------------------------
(***************************************************************************)
(* What RealmExchange is checked for.                                      *)
(***************************************************************************)
EXTENDS RealmExchange

Live(q, s, f) == IF q = "a" THEN A!Live(s, f) ELSE B!Live(s, f)
Settled(q, s, f) == IF q = "a" THEN A!Settled(s, f) ELSE B!Settled(s, f)
Winners(q, s, f) == IF q = "a" THEN A!Winners(s, f) ELSE B!Winners(s, f)

(* VerdictsTravel: a conflict that one realm found between two events holds *)
(* in the other as well, which may know other parents of theirs and other   *)
(* descendants and may not have looked for conflicts: where both are live   *)
(* and the field is not settled, no realm's projection chooses one of them  *)
(* (reconcile_event in one store, rebuild_json on the other).  Unless the   *)
(* realms use one id for two events: parents name ids, so that the history  *)
(* of an event is then not the same in both.                                *)
VerdictsTravel ==
  ~SameId(logA \cup logB) =>
    \A q \in Realms, c \in conflictsA \cup conflictsB, m, n \in logA \cap logB :
      (/\ c.class # "causal_history_conflict" /\ c.members = {m.id, n.id} /\ m # n
       /\ m.field = n.field /\ {m, n} \subseteq Live(q, m.subject, m.field)
       /\ ~Settled(q, m.subject, m.field)) =>
         Winners(q, m.subject, m.field) \cap {m, n} = {}

\* An event that shares its id or its number with another is quarantined on
\* import, in each realm the one that is not there yet.
Clashes(e) == \E f \in logA \cup logB : e # f /\ (e.id = f.id \/ e.slot = f.slot)

Caught(q) == \A e \in Log[Other[q]] : e \in Log[q] \/ Clashes(e)

Agreed ==
  logA = logB =>
    \A e \in logA : e.field # NoField =>
      Winners("a", e.subject, e.field) = Winners("b", e.subject, e.field)

(* Converges: realms that go on synchronizing end up with each other's      *)
(* events, whatever stale inventories, refused imports and deaths came in   *)
(* between, and where they have the same events their projections agree,    *)
(* the resolution that one of them made included ("both realms rebuild to   *)
(* the same projection", Federated Event and Sync Profile v1, 19 step 11).  *)
Converges == <>[](Caught("a") /\ Caught("b") /\ Agreed)
=============================================================================
