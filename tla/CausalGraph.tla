---------------------------- MODULE CausalGraph ----------------------------
(***************************************************************************)
(* The causal order of federated events (eml_pmw/federation/causal.py) as  *)
(* operators on a set S of events, of which only id, slot and parents      *)
(* matter here.  What the code finds by walking the graph is stated by     *)
(* closed sets, for finite graphs the same.                                *)
(***************************************************************************)

SameId(S)   == \E e, f \in S : e.id = f.id /\ e # f
SameSlot(S) == \E e, f \in S : e.slot = f.slot /\ e.id # f.id

\* A cycle: each event of some set has a parent in the set.
Cyclic(S) == \E C \in SUBSET S : C # {} /\ \A e \in C : \E f \in C : f.id \in e.parents

Missing(S) == (UNION {e.parents : e \in S}) \ {e.id : e \in S}

\* Mutant of Complete: parents may be missing.
CompleteSoFar(S) == ~Cyclic(S)

\* What validate_graph calls valid, of events with ids and slots of their own.
Complete(S) == ~Cyclic(S) /\ Missing(S) = {}

Names(S) == {e.id : e \in S} \cup UNION {e.parents : e \in S}
Closed(S, C) == \A e \in S : e.id \in C => e.parents \subseteq C

\* The ids reached from e by parents; an id that is not in S leads no further.
Ancestors(S, e) ==
  {a \in Names(S) : \A C \in SUBSET Names(S) :
                      e.parents \subseteq C /\ Closed(S, C) => a \in C}

Concurrent(S, e, f) == e.id \notin Ancestors(S, f) /\ f.id \notin Ancestors(S, e)
=============================================================================
