--------------------------- MODULE ExchangeProofs ---------------------------
(***************************************************************************)
(* Proofs about RealmExchange, for any events and any number of processes  *)
(* in each realm.  Each of them by itself does what FederationReconcile    *)
(* does, so that what ReconcileProofs shows holds in either.               *)
(***************************************************************************)
EXTENDS ExchangeSafety, TLAPS

PA == INSTANCE ReconcileProofs WITH
        log <- logA, conflicts <- conflictsA, resolutions <- resolutionsA,
        draft <- draftA, ruling <- rulingA
PB == INSTANCE ReconcileProofs WITH
        log <- logB, conflicts <- conflictsB, resolutions <- resolutionsB,
        draft <- draftB, ruling <- rulingB

LEMMA Assumed == PA!ReconcileAssumption /\ PB!ReconcileAssumption
BY ExchangeAssumption DEF PA!ReconcileAssumption, PB!ReconcileAssumption,
   PA!Conflict, PB!Conflict, PA!Resolution, PB!Resolution, PA!Classes, PB!Classes,
   PA!Priority, PB!Priority, A!Conflict, A!Resolution, A!Classes, A!Priority

-----------------------------------------------------------------------------
(* ReconcileProofs speaks of its own copy of FederationReconcile.           *)
LEMMA SameA == [A!Next]_(A!vars) => [PA!Next]_(PA!vars)
<1>1. ASSUME NEW e \in Events, A!Arrive(e) PROVE PA!Arrive(e)
  BY <1>1 DEF A!Arrive, PA!Arrive, A!Store!Append, PA!Store!Append
<1>2. ASSUME NEW p \in Processes, NEW e \in Events, A!Look(p, e) PROVE PA!Look(p, e)
  BY <1>2 DEF A!Look, PA!Look, A!Idle, PA!Idle, A!Adoptable, PA!Adoptable, A!Candidates,
     PA!Candidates, A!Applies, PA!Applies, A!Record, PA!Record, A!Priority, PA!Priority,
     A!Classes, PA!Classes, A!Cardinality, PA!Cardinality, A!Complete, PA!Complete, A!Cyclic,
     PA!Cyclic, A!Missing, PA!Missing, A!Concurrent, PA!Concurrent, A!Ancestors, PA!Ancestors,
     A!Names, PA!Names, A!Closed, PA!Closed
<1>3. ASSUME NEW p \in Processes, NEW e \in Events, A!Settle(p, e) PROVE PA!Settle(p, e)
  BY <1>3 DEF A!Settle, PA!Settle, A!Idle, PA!Idle, A!Empowered, PA!Empowered, A!Ruling,
     PA!Ruling, A!Store!Append, PA!Store!Append
<1>4. ASSUME NEW p \in Processes, A!Step(p) PROVE PA!Step(p)
  BY <1>4 DEF A!Step, PA!Step, A!RecordConflict, PA!RecordConflict, A!RecordResolution,
     PA!RecordResolution, A!Crash, PA!Crash, A!Idle, PA!Idle
<1>5. UNCHANGED A!vars => UNCHANGED PA!vars  BY DEF A!vars, PA!vars
<1>6. QED  BY <1>1, <1>2, <1>3, <1>4, <1>5 DEF A!Next, PA!Next

(* What happens to a realm is a step of FederationReconcile.                *)
LEMMA MovesA == [Next]_vars => [A!Next]_(A!vars)
<1> DEFINE Move == A!Next \/ UNCHANGED realmA
<1>1. Move => [A!Next]_(A!vars)  BY DEF realmA, A!vars
<1>2. ASSUME NEW r \in Realms, NEW e \in Events, Enter(r, e) PROVE Move
  BY <1>2 DEF Enter, realmA, A!Next
<1>3. ASSUME NEW r \in Realms, NEW e \in Events, Create(r, e) \/ Import(r, e) PROVE Move
  <2>1. Enter(r, e) \/ Quarantine(r, e) \/ UNCHANGED realmA  BY <1>3 DEF Create, Import
  <2>2. QED  BY <1>2, <2>1 DEF Quarantine
<1>4. ASSUME NEW r \in Realms, NEW e \in Events, Reconcile(r, e) \/ Resolve(r, e) PROVE Move
  BY <1>4 DEF Reconcile, Resolve, realmA, A!Next
<1>5. ASSUME NEW r \in Realms, Record(r) \/ Crash(r) PROVE Move
  BY <1>5 DEF Record, Crash, realmA, A!Next, A!Step
<1>6. ASSUME NEW r \in Realms, TakeInventory(r) \/ Compare(r) PROVE Move
  BY <1>6 DEF TakeInventory, Compare
<1>7. ASSUME UNCHANGED vars PROVE Move  BY <1>7 DEF vars
<1>8. QED  BY <1>1, <1>3, <1>4, <1>5, <1>6, <1>7 DEF Next

LEMMA AlwaysA == Spec => []PA!ReconcileInv
<1>1. Init => PA!ReconcileInv
  <2>1. Init => PA!Init  BY DEF Init, A!Init, PA!Init
  <2>2. QED  BY <2>1, PA!InvInit, Assumed
<1>2. PA!ReconcileInv /\ [Next]_vars => PA!ReconcileInv'
  BY MovesA, SameA, PA!NextKeeps, Assumed
<1>3. QED  BY <1>1, <1>2, PTL DEF Spec

-----------------------------------------------------------------------------
(* ReconcileProofs speaks of its own copy of FederationReconcile.           *)
LEMMA SameB == [B!Next]_(B!vars) => [PB!Next]_(PB!vars)
<1>1. ASSUME NEW e \in Events, B!Arrive(e) PROVE PB!Arrive(e)
  BY <1>1 DEF B!Arrive, PB!Arrive, B!Store!Append, PB!Store!Append
<1>2. ASSUME NEW p \in Processes, NEW e \in Events, B!Look(p, e) PROVE PB!Look(p, e)
  BY <1>2 DEF B!Look, PB!Look, B!Idle, PB!Idle, B!Adoptable, PB!Adoptable, B!Candidates,
     PB!Candidates, B!Applies, PB!Applies, B!Record, PB!Record, B!Priority, PB!Priority,
     B!Classes, PB!Classes, B!Cardinality, PB!Cardinality, B!Complete, PB!Complete, B!Cyclic,
     PB!Cyclic, B!Missing, PB!Missing, B!Concurrent, PB!Concurrent, B!Ancestors, PB!Ancestors,
     B!Names, PB!Names, B!Closed, PB!Closed
<1>3. ASSUME NEW p \in Processes, NEW e \in Events, B!Settle(p, e) PROVE PB!Settle(p, e)
  BY <1>3 DEF B!Settle, PB!Settle, B!Idle, PB!Idle, B!Empowered, PB!Empowered, B!Ruling,
     PB!Ruling, B!Store!Append, PB!Store!Append
<1>4. ASSUME NEW p \in Processes, B!Step(p) PROVE PB!Step(p)
  BY <1>4 DEF B!Step, PB!Step, B!RecordConflict, PB!RecordConflict, B!RecordResolution,
     PB!RecordResolution, B!Crash, PB!Crash, B!Idle, PB!Idle
<1>5. UNCHANGED B!vars => UNCHANGED PB!vars  BY DEF B!vars, PB!vars
<1>6. QED  BY <1>1, <1>2, <1>3, <1>4, <1>5 DEF B!Next, PB!Next

(* What happens to a realm is a step of FederationReconcile.                *)
LEMMA MovesB == [Next]_vars => [B!Next]_(B!vars)
<1> DEFINE Move == B!Next \/ UNCHANGED realmB
<1>1. Move => [B!Next]_(B!vars)  BY DEF realmB, B!vars
<1>2. ASSUME NEW r \in Realms, NEW e \in Events, Enter(r, e) PROVE Move
  BY <1>2 DEF Enter, realmB, B!Next
<1>3. ASSUME NEW r \in Realms, NEW e \in Events, Create(r, e) \/ Import(r, e) PROVE Move
  <2>1. Enter(r, e) \/ Quarantine(r, e) \/ UNCHANGED realmB  BY <1>3 DEF Create, Import
  <2>2. QED  BY <1>2, <2>1 DEF Quarantine
<1>4. ASSUME NEW r \in Realms, NEW e \in Events, Reconcile(r, e) \/ Resolve(r, e) PROVE Move
  BY <1>4 DEF Reconcile, Resolve, realmB, B!Next
<1>5. ASSUME NEW r \in Realms, Record(r) \/ Crash(r) PROVE Move
  BY <1>5 DEF Record, Crash, realmB, B!Next, B!Step
<1>6. ASSUME NEW r \in Realms, TakeInventory(r) \/ Compare(r) PROVE Move
  BY <1>6 DEF TakeInventory, Compare
<1>7. ASSUME UNCHANGED vars PROVE Move  BY <1>7 DEF vars
<1>8. QED  BY <1>1, <1>3, <1>4, <1>5, <1>6, <1>7 DEF Next

LEMMA AlwaysB == Spec => []PB!ReconcileInv
<1>1. Init => PB!ReconcileInv
  <2>1. Init => PB!Init  BY DEF Init, B!Init, PB!Init
  <2>2. QED  BY <2>1, PB!InvInit, Assumed
<1>2. PB!ReconcileInv /\ [Next]_vars => PB!ReconcileInv'
  BY MovesB, SameB, PB!NextKeeps, Assumed
<1>3. QED  BY <1>1, <1>2, PTL DEF Spec

-----------------------------------------------------------------------------
(* Each realm by itself behaves as FederationReconcile says, whatever is    *)
(* exchanged and whoever dies: all that holds there holds here.             *)
THEOREM EachReconciles == Spec => A!Spec /\ B!Spec
<1>1. Init => A!Init /\ B!Init  BY DEF Init
<1>2. QED  BY <1>1, MovesA, MovesB, PTL DEF Spec, A!Spec, B!Spec

(* A part of a log without missing parents shows the members of a conflict  *)
(* to be concurrent.                                                        *)
Shown(c, S) ==
  /\ Missing(S) = {}
  /\ \E l, r \in S : l # r /\ c.members = {l.id, r.id} /\ Concurrent(S, l, r)

LEMMA ShownA ==
  ASSUME PA!ReconcileInv, NEW c \in conflictsA, c.class # "causal_history_conflict"
  PROVE  \E S \in SUBSET logA : Shown(c, S)
<1>1. PICK S \in SUBSET logA : PA!Found(c, S)  BY DEF PA!ReconcileInv, PA!Known
<1>2. Shown(c, S)
  BY <1>1 DEF Shown, PA!Found, Missing, PA!Missing, Concurrent, PA!Concurrent, Ancestors,
     PA!Ancestors, Names, PA!Names, Closed, PA!Closed
<1>3. QED  BY <1>2

LEMMA ShownB ==
  ASSUME PB!ReconcileInv, NEW c \in conflictsB, c.class # "causal_history_conflict"
  PROVE  \E S \in SUBSET logB : Shown(c, S)
<1>1. PICK S \in SUBSET logB : PB!Found(c, S)  BY DEF PB!ReconcileInv, PB!Known
<1>2. Shown(c, S)
  BY <1>1 DEF Shown, PB!Found, Missing, PB!Missing, Concurrent, PB!Concurrent, Ancestors,
     PB!Ancestors, Names, PB!Names, Closed, PB!Closed
<1>3. QED  BY <1>2

LEMMA StaysConcurrent ==
  ASSUME NEW S, NEW T, S \subseteq T, ~SameId(T), Missing(S) = {}, NEW l \in S, NEW r \in S,
         Concurrent(S, l, r)
  PROVE  Concurrent(T, l, r)
BY PA!ConcurrentForGood DEF SameId, PA!SameId, Missing, PA!Missing, Concurrent, PA!Concurrent,
   Ancestors, PA!Ancestors, Names, PA!Names, Closed, PA!Closed

(* A part of a log has no ancestors that the whole does not have.           *)
LEMMA FewerAncestors ==
  ASSUME NEW S, NEW T, S \subseteq T, NEW e \in S
  PROVE  Ancestors(S, e) \subseteq Ancestors(T, e)
<1> SUFFICES ASSUME NEW a \in Ancestors(S, e) PROVE a \in Ancestors(T, e)  OBVIOUS
<1>1. Names(S) \subseteq Names(T)  BY DEF Names
<1>2. a \in Names(T)  BY <1>1 DEF Ancestors
<1>3. ASSUME NEW C \in SUBSET Names(T), e.parents \subseteq C, Closed(T, C) PROVE a \in C
  <2>1. \A f \in S : f.parents \subseteq Names(S)  BY DEF Names
  <2>2. e.parents \subseteq C \cap Names(S) /\ Closed(S, C \cap Names(S))
    BY <1>3, <2>1 DEF Closed
  <2>3. QED  BY <2>2 DEF Ancestors
<1>4. QED  BY <1>2, <1>3 DEF Ancestors

(* What a realm finds concurrent, no realm finds one before the other.      *)
LEMMA ConcurrentInBoth ==
  ASSUME PA!ReconcileInv, PB!ReconcileInv, ~SameId(logA \cup logB),
         NEW c \in conflictsA \cup conflictsB, c.class # "causal_history_conflict",
         NEW S \in {logA, logB}, NEW m \in S, NEW n \in S, m # n, c.members = {m.id, n.id}
  PROVE  Concurrent(S, m, n)
<1> DEFINE T == logA \cup logB
<1>1. PICK U \in SUBSET T : Shown(c, U)  BY ShownA, ShownB
<1>2. PICK l, r \in U : l # r /\ c.members = {l.id, r.id} /\ Concurrent(U, l, r)
  BY <1>1 DEF Shown
<1>3. Concurrent(T, l, r)  BY <1>1, <1>2, StaysConcurrent DEF Shown
<1>4. \A f, g \in T : f.id = g.id => f = g  BY DEF SameId
<1>5. {l, r} = {m, n}  BY <1>2, <1>4
<1>6. Concurrent(T, m, n)  BY <1>2, <1>3, <1>5 DEF Concurrent
<1>7. QED  BY <1>6, FewerAncestors DEF Concurrent

LEMMA WinnersKept ==
  ASSUME PA!ReconcileInv, PB!ReconcileInv PROVE VerdictsTravel
<1> SUFFICES ASSUME ~SameId(logA \cup logB), NEW q \in Realms,
                    NEW c \in conflictsA \cup conflictsB,
                    NEW m \in logA \cap logB, NEW n \in logA \cap logB,
                    c.class # "causal_history_conflict", c.members = {m.id, n.id}, m # n,
                    m.field = n.field, {m, n} \subseteq Live(q, m.subject, m.field),
                    ~Settled(q, m.subject, m.field)
             PROVE  Winners(q, m.subject, m.field) \cap {m, n} = {}
  BY DEF VerdictsTravel
<1>1. Concurrent(logA, m, n) /\ Concurrent(logB, m, n)  BY ConcurrentInBoth
<1>2. CASE q = "a"
  <2>1. {m, n} \subseteq A!Active(m.subject, m.field)
    BY <1>2 DEF Live, Settled, A!Active
  <2>2. ASSUME NEW x \in {m, n}, x \in A!Winners(m.subject, m.field) PROVE FALSE
    BY <1>1, <2>1, <2>2 
       DEF A!Winners, Concurrent, A!Ancestors, Ancestors, A!Names, Names, A!Closed, Closed
  <2>3. QED  BY <1>2, <2>2 DEF Winners
<1>3. CASE q = "b"
  <2>1. {m, n} \subseteq B!Active(m.subject, m.field)
    BY <1>3 DEF Live, Settled, B!Active
  <2>2. ASSUME NEW x \in {m, n}, x \in B!Winners(m.subject, m.field) PROVE FALSE
    BY <1>1, <2>1, <2>2 
       DEF B!Winners, Concurrent, B!Ancestors, Ancestors, B!Names, Names, B!Closed, Closed
  <2>3. QED  BY <1>3, <2>2 DEF Winners
<1>4. QED  BY <1>2, <1>3 DEF Realms

(* A conflict that one realm found keeps its members from being chosen in   *)
(* the other, whatever either of them knows.                                *)
THEOREM VerdictsHold == Spec => []VerdictsTravel
BY AlwaysA, AlwaysB, WinnersKept, PTL
-----------------------------------------------------------------------------
LEMMA IssuedA == Spec => []PA!IssuedInv
<1>1. Init => PA!IssuedInv
  <2>1. Init => PA!Init  BY DEF Init, A!Init, PA!Init
  <2>2. QED  BY <2>1, PA!IssuedInit, Assumed
<1>2. PA!ReconcileInv /\ PA!IssuedInv /\ [Next]_vars => PA!IssuedInv'
  BY MovesA, SameA, PA!IssuedKept, Assumed DEF PA!ReconcileInv
<1>3. QED  BY <1>1, <1>2, AlwaysA, PTL DEF Spec

LEMMA IssuedB == Spec => []PB!IssuedInv
<1>1. Init => PB!IssuedInv
  <2>1. Init => PB!Init  BY DEF Init, B!Init, PB!Init
  <2>2. QED  BY <2>1, PB!IssuedInit, Assumed
<1>2. PB!ReconcileInv /\ PB!IssuedInv /\ [Next]_vars => PB!IssuedInv'
  BY MovesB, SameB, PB!IssuedKept, Assumed DEF PB!ReconcileInv
<1>3. QED  BY <1>1, <1>2, AlwaysB, PTL DEF Spec

\* Every event that conflict-resolve accepts has been carried out.
CarriedOut(S, R) ==
  \A r \in S :
    (/\ r.kind = "resolution" /\ A!Empowered(r)
     /\ r.selects \in r.subject.members /\ r.parents = r.subject.members) => A!Ruling(r) \in R

(* SameProjection: realms that have the same events and have carried out    *)
(* the resolutions among them rebuild to the same projection, whichever of  *)
(* them found the conflicts and whoever died in between: what a store has   *)
(* besides the log follows from the log (rebuild_json; "both realms rebuild *)
(* to the same projection", Federated Event and Sync Profile v1, 19 step    *)
(* 11).                                                                     *)
SameProjection ==
  (/\ logA = logB
   /\ CarriedOut(logA, resolutionsA) /\ CarriedOut(logB, resolutionsB)) =>
     \A e \in logA : Winners("a", e.subject, e.field) = Winners("b", e.subject, e.field)

LEMMA ProjectionsAgree == ASSUME PA!IssuedInv, PB!IssuedInv PROVE SameProjection
<1> SUFFICES ASSUME logA = logB, CarriedOut(logA, resolutionsA), CarriedOut(logB, resolutionsB),
                    NEW e \in logA
             PROVE  Winners("a", e.subject, e.field) = Winners("b", e.subject, e.field)
  BY DEF SameProjection
<1>1. resolutionsA \subseteq resolutionsB
  BY DEF PA!IssuedInv, PA!Issued, PA!Decides, PA!Empowered, PA!Ruling, CarriedOut, A!Empowered,
     A!Ruling
<1>2. resolutionsB \subseteq resolutionsA
  BY DEF PB!IssuedInv, PB!Issued, PB!Decides, PB!Empowered, PB!Ruling, CarriedOut, A!Empowered,
     A!Ruling
<1>3. resolutionsA = resolutionsB  BY <1>1, <1>2
<1>4. \A s, f : A!Live(s, f) = B!Live(s, f)
  BY DEF A!Live, B!Live, A!Retracted, B!Retracted
<1>5. \A s, f : A!Active(s, f) = B!Active(s, f)
  BY <1>3, <1>4 DEF A!Active, B!Active, A!Settled, B!Settled
<1>6. \A s, f : A!Winners(s, f) = B!Winners(s, f)
  BY <1>5 DEF A!Winners, B!Winners, A!Ancestors, B!Ancestors, A!Names, B!Names, A!Closed, B!Closed
<1>7. QED  BY <1>6 DEF Winners

(* What both realms have is enough for them to agree, in any instance.      *)
THEOREM ProjectionsTheSame == Spec => []SameProjection
BY IssuedA, IssuedB, ProjectionsAgree, PTL
=============================================================================
