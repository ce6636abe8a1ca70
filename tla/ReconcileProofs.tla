-------------------------- MODULE ReconcileProofs --------------------------
(***************************************************************************)
(* Proofs about FederationReconcile, for any events, processes and         *)
(* authorities.                                                            *)
(***************************************************************************)
EXTENDS ReconcileSafety, FiniteSetTheorems, WellFoundedInduction, TLAPS

(* What was read of the log when the conflict was found: a part of the log  *)
(* without missing parents.                                                 *)
Found(c, S) ==
  /\ Missing(S) = {}
  /\ \E l, r \in S : /\ l # r /\ c.members = {l.id, r.id}
                     /\ l.subject = c.subject /\ r.subject = c.subject
                     /\ Concurrent(S, l, r)

Known(c) ==
  /\ \A i \in c.members : \E e \in log : e.id = i
  /\ c.class # "causal_history_conflict" => \E S \in SUBSET log : Found(c, S)

ReconcileInv ==
  /\ TypeOK
  /\ \A c \in conflicts : Known(c)
  /\ \A p \in Processes : draft[p] # NoConflict => Known(draft[p])
  /\ \A x \in resolutions : Backed(x)
  /\ \A p \in Processes : ruling[p] # NoResolution => Backed(ruling[p])

(* What an event must be for conflict-resolve to carry it out.              *)
Decides(r) ==
  /\ r.kind = "resolution" /\ Empowered(r)
  /\ r.selects \in r.subject.members /\ r.parents = r.subject.members

Issued(x) == \E r \in log : Decides(r) /\ x = Ruling(r)

IssuedInv ==
  /\ \A x \in resolutions : Issued(x)
  /\ \A p \in Processes : ruling[p] # NoResolution => Issued(ruling[p])

Grown == log \subseteq log' /\ conflicts \subseteq conflicts'

-----------------------------------------------------------------------------
(* Past a set of events without missing parents nothing can change: what    *)
(* comes to it later adds no ancestor to any of them.                       *)
LEMMA StableAncestors ==
  ASSUME NEW S, NEW T, S \subseteq T, ~SameId(T), Missing(S) = {}, NEW e \in S
  PROVE  Ancestors(T, e) = Ancestors(S, e)
<1> DEFINE N == {f.id : f \in S}
<1>1. \A f \in S : f.parents \subseteq N
  <2> SUFFICES ASSUME NEW f \in S, NEW i \in f.parents PROVE i \in N  OBVIOUS
  <2>1. i \in UNION {g.parents : g \in S}  OBVIOUS
  <2>2. QED  BY <2>1 DEF Missing
<1>2. Names(S) = N /\ N \subseteq Names(T)  BY <1>1 DEF Names
<1>3. \A g \in T : g.id \in N => g \in S  BY DEF SameId
<1>4. ASSUME NEW a \in Ancestors(S, e) PROVE a \in Ancestors(T, e)
  <2>1. a \in Names(T)  BY <1>2, <1>4 DEF Ancestors
  <2>2. ASSUME NEW C \in SUBSET Names(T), e.parents \subseteq C, Closed(T, C)
        PROVE  a \in C
    <3>1. C \cap N \in SUBSET Names(S)  BY <1>2
    <3>2. e.parents \subseteq C \cap N /\ Closed(S, C \cap N)  BY <1>1, <2>2 DEF Closed
    <3>3. a \in C \cap N  BY <1>4, <3>1, <3>2 DEF Ancestors
    <3>4. QED  BY <3>3
  <2>3. QED  BY <2>1, <2>2 DEF Ancestors
<1>5. ASSUME NEW a \in Ancestors(T, e) PROVE a \in Ancestors(S, e)
  <2>1. Closed(T, N)  BY <1>1, <1>3 DEF Closed
  <2>2. a \in Names(S)  BY <1>1, <1>2, <1>5, <2>1 DEF Ancestors
  <2>3. ASSUME NEW C \in SUBSET Names(S), e.parents \subseteq C, Closed(S, C)
        PROVE  a \in C
    <3>1. Closed(T, C)  BY <1>2, <1>3, <2>3 DEF Closed
    <3>2. C \in SUBSET Names(T)  BY <1>2
    <3>3. QED  BY <1>5, <2>3, <3>1, <3>2 DEF Ancestors
  <2>4. QED  BY <2>2, <2>3 DEF Ancestors
<1>6. QED  BY <1>4, <1>5

LEMMA ConcurrentForGood ==
  ASSUME NEW S, NEW T, S \subseteq T, ~SameId(T), Missing(S) = {}, NEW l \in S, NEW r \in S,
         Concurrent(S, l, r)
  PROVE  Concurrent(T, l, r)
BY StableAncestors DEF Concurrent

(* What is known of a conflict or a resolution stays.                       *)
LEMMA KnownStays == ASSUME Grown PROVE \A c : Known(c) => Known(c)'
<1> SUFFICES ASSUME NEW c, Known(c) PROVE Known(c)'  OBVIOUS
<1>1. \A S \in SUBSET log : S \in SUBSET log'  BY DEF Grown
<1>2. QED  BY <1>1 DEF Known, Grown, Found

LEMMA BackedStays == ASSUME Grown PROVE \A x : Backed(x) => Backed(x)'
BY DEF Backed, Grown, Empowered

-----------------------------------------------------------------------------
LEMMA InvInit == Init => ReconcileInv
BY DEF Init, ReconcileInv, TypeOK, SameId

LEMMA AppendKeeps ==
  ASSUME ~SameId(log), log \subseteq Events, NEW e \in Events, Store!Append(e)
  PROVE  /\ ~SameId(log)' /\ log' \subseteq Events /\ log \subseteq log' /\ e \in log'
BY DEF SameId, Store!Append

LEMMA ArriveKeeps == ASSUME ReconcileInv, NEW e \in Events, Arrive(e) PROVE ReconcileInv'
<1>1. ~SameId(log)' /\ log' \subseteq Events /\ Grown
  BY AppendKeeps DEF ReconcileInv, TypeOK, Arrive, Grown
<1>2. TypeOK'  BY <1>1 DEF ReconcileInv, TypeOK, Arrive
<1>3. QED  BY <1>1, <1>2, KnownStays, BackedStays DEF ReconcileInv, Arrive

(* The record of the pair that was found.                                   *)
LEMMA FoundInLog ==
  ASSUME ReconcileInv, NEW e \in log, NEW x \in Candidates(log, e)
  PROVE  /\ Record(x[1], x[2], e) \in Conflict
         /\ Known(Record(x[1], x[2], e))
<1> DEFINE c == Record(x[1], x[2], e)
<1>1. x[1] \in Classes /\ x[2] \in log /\ x[2] # e /\ Applies(log, x[1], x[2], e)
  BY DEF Candidates
<1>2. log \subseteq Events  BY DEF ReconcileInv, TypeOK
<1>3. c \in Conflict  BY <1>1, <1>2, ReconcileAssumption DEF Record, Conflict
<1>4. \A i \in c.members : \E f \in log : f.id = i  BY <1>1 DEF Record
<1>5. ASSUME c.class # "causal_history_conflict" PROVE Found(c, log)
  <2>1. Complete(log) /\ Concurrent(log, x[2], e) /\ x[2].subject = e.subject
    BY <1>1, <1>5 DEF Applies, Record
  <2>2. QED  BY <1>1, <2>1 DEF Found, Record, Complete
<1>6. QED  BY <1>3, <1>4, <1>5 DEF Known

LEMMA LookKeeps ==
  ASSUME ReconcileInv, NEW e \in Events, NEW p \in Processes, Look(p, e)
  PROVE  ReconcileInv'
<1>1. PICK x \in Candidates(log, e) : draft' = [draft EXCEPT ![p] = Record(x[1], x[2], e)]
  BY DEF Look
<1>2. e \in log /\ Idle(p) /\ UNCHANGED <<log, conflicts, resolutions, ruling>>  BY DEF Look
<1>3. Record(x[1], x[2], e) \in Conflict /\ Known(Record(x[1], x[2], e))  BY <1>2, FoundInLog
<1>4. TypeOK'  BY <1>1, <1>2, <1>3 DEF ReconcileInv, TypeOK, Idle
<1>5. Grown  BY <1>2 DEF Grown
<1>6. (\A q \in Processes : draft[q] # NoConflict => Known(draft[q]))'
  BY <1>1, <1>3, <1>5, KnownStays DEF ReconcileInv, TypeOK
<1>7. QED  BY <1>2, <1>4, <1>5, <1>6, KnownStays, BackedStays DEF ReconcileInv

LEMMA RecordConflictKeeps ==
  ASSUME ReconcileInv, NEW p \in Processes, RecordConflict(p) PROVE ReconcileInv'
<1>1. draft[p] \in Conflict /\ Known(draft[p])
  BY DEF ReconcileInv, TypeOK, RecordConflict
<1>2. TypeOK' /\ Grown  BY <1>1 DEF ReconcileInv, TypeOK, RecordConflict, Grown
<1>3. QED  BY <1>1, <1>2, KnownStays, BackedStays DEF ReconcileInv, TypeOK, RecordConflict

LEMMA SettleKeeps ==
  ASSUME ReconcileInv, NEW r \in Events, NEW p \in Processes, Settle(p, r)
  PROVE  ReconcileInv'
<1>1. /\ Idle(p) /\ r.subject \in conflicts /\ Empowered(r)
      /\ r.selects \in r.subject.members /\ r.parents = r.subject.members
      /\ ruling' = [ruling EXCEPT ![p] = Ruling(r)]
      /\ UNCHANGED <<conflicts, resolutions, draft>>
  BY DEF Settle
<1>2. ~SameId(log)' /\ log' \subseteq Events /\ log \subseteq log' /\ r \in log'
  <2>1. CASE r \in log /\ log' = log  BY <2>1 DEF ReconcileInv, TypeOK, SameId
  <2>2. CASE Store!Append(r)  BY <2>2, AppendKeeps DEF ReconcileInv, TypeOK
  <2>3. QED  BY <2>1, <2>2 DEF Settle
<1>3. r.subject \in Conflict /\ Known(r.subject)  BY <1>1 DEF ReconcileInv, TypeOK
<1>4. Ruling(r) \in Resolution  BY <1>1, <1>3 DEF Ruling, Resolution, Conflict
<1>5. Grown  BY <1>1, <1>2 DEF Grown
<1>6. Backed(Ruling(r))'
  BY <1>1, <1>2, <1>3 DEF Backed, Ruling, Known, Empowered
<1>7. TypeOK'  BY <1>1, <1>2, <1>4 DEF ReconcileInv, TypeOK, Idle
<1>8. (\A q \in Processes : ruling[q] # NoResolution => Backed(ruling[q]))'
  BY <1>1, <1>5, <1>6, BackedStays DEF ReconcileInv, TypeOK
<1>9. QED  BY <1>1, <1>5, <1>7, <1>8, KnownStays, BackedStays DEF ReconcileInv

LEMMA RecordResolutionKeeps ==
  ASSUME ReconcileInv, NEW p \in Processes, RecordResolution(p) PROVE ReconcileInv'
<1>1. ruling[p] \in Resolution /\ Backed(ruling[p])
  BY DEF ReconcileInv, TypeOK, RecordResolution
<1>2. TypeOK' /\ Grown  BY <1>1 DEF ReconcileInv, TypeOK, RecordResolution, Grown
<1>3. QED  BY <1>1, <1>2, KnownStays, BackedStays DEF ReconcileInv, TypeOK, RecordResolution

LEMMA CrashKeeps ==
  ASSUME ReconcileInv, NEW p \in Processes, Crash(p) PROVE ReconcileInv'
<1>1. TypeOK' /\ Grown  BY DEF ReconcileInv, TypeOK, Crash, Grown
<1>2. QED  BY <1>1, KnownStays, BackedStays DEF ReconcileInv, TypeOK, Crash

LEMMA NextKeeps == ReconcileInv /\ [Next]_vars => ReconcileInv'
<1> SUFFICES ASSUME ReconcileInv, [Next]_vars PROVE ReconcileInv'  OBVIOUS
<1>1. ASSUME NEW e \in Events, Arrive(e) PROVE ReconcileInv'  BY <1>1, ArriveKeeps
<1>2. ASSUME NEW e \in Events, NEW p \in Processes, Look(p, e) \/ Settle(p, e)
      PROVE  ReconcileInv'
  BY <1>2, LookKeeps, SettleKeeps
<1>3. ASSUME NEW p \in Processes, Step(p) PROVE ReconcileInv'
  BY <1>3, RecordConflictKeeps, RecordResolutionKeeps, CrashKeeps DEF Step
<1>4. CASE UNCHANGED vars
  <2>1. TypeOK' /\ Grown  BY <1>4 DEF vars, ReconcileInv, TypeOK, Grown
  <2>2. QED  BY <1>4, <2>1, KnownStays, BackedStays DEF vars, ReconcileInv
<1>5. QED  BY <1>1, <1>2, <1>3, <1>4 DEF Next

LEMMA InvAlways == Spec => []ReconcileInv
BY InvInit, NextKeeps, PTL DEF Spec

-----------------------------------------------------------------------------
(* Every resolution is what conflict-resolve makes of some event in the     *)
(* log: the records add nothing of their own.                               *)
LEMMA IssuedInit == Init => IssuedInv  BY DEF Init, IssuedInv

LEMMA IssuedKept ==
  ASSUME TypeOK, IssuedInv, [Next]_vars PROVE IssuedInv'
<1>1. ASSUME log \subseteq log', NEW x, Issued(x) PROVE Issued(x)'
  BY <1>1 DEF Issued, Decides, Empowered, Ruling
<1>2. ASSUME NEW e \in Events, Arrive(e) PROVE IssuedInv'
  <2>1. log \subseteq log'  BY <1>2 DEF Arrive, Store!Append
  <2>2. QED  BY <1>1, <1>2, <2>1 DEF Arrive, IssuedInv
<1>3. ASSUME NEW e \in Events, NEW p \in Processes, Look(p, e) PROVE IssuedInv'
  BY <1>1, <1>3 DEF Look, IssuedInv
<1>4. ASSUME NEW r \in Events, NEW p \in Processes, Settle(p, r) PROVE IssuedInv'
  <2>1. log \subseteq log' /\ r \in log'  BY <1>4 DEF Settle, Store!Append
  <2>2. Issued(Ruling(r))'  BY <1>4, <2>1 DEF Settle, Issued, Decides, Empowered, Ruling
  <2>3. \A q \in Processes : ruling'[q] = IF q = p THEN Ruling(r) ELSE ruling[q]
    BY <1>4 DEF Settle, TypeOK
  <2>4. resolutions' = resolutions  BY <1>4 DEF Settle
  <2>5. \A x \in resolutions' : Issued(x)'  BY <1>1, <2>1, <2>4 DEF IssuedInv
  <2>6. ASSUME NEW q \in Processes, ruling'[q] # NoResolution PROVE (Issued(ruling[q]))'
    <3>1. CASE q = p  BY <2>2, <2>3, <3>1 DEF Ruling
    <3>2. CASE q # p
      <4>1. ruling'[q] = ruling[q] /\ Issued(ruling[q])  BY <2>3, <2>6, <3>2 DEF IssuedInv
      <4>2. QED  BY <1>1, <2>1, <4>1
    <3>3. QED  BY <3>1, <3>2
  <2>7. QED  BY <2>5, <2>6 DEF IssuedInv
<1>5. ASSUME NEW p \in Processes, Step(p) PROVE IssuedInv'
  BY <1>1, <1>5 DEF Step, RecordConflict, RecordResolution, Crash, IssuedInv, TypeOK
<1>6. CASE UNCHANGED vars  BY <1>1, <1>6 DEF vars, IssuedInv
<1>7. QED  BY <1>2, <1>3, <1>4, <1>5, <1>6 DEF Next

(* The shape of the state, for any instance.                                *)
THEOREM TypeCorrect == Spec => []TypeOK
<1>1. ReconcileInv => TypeOK  BY DEF ReconcileInv
<1>2. QED  BY <1>1, InvAlways, PTL

(* A conflict found between concurrent events on a stale reading stays one, *)
(* however many events arrive in whatever order.                            *)
LEMMA StandsInLog ==
  ASSUME ReconcileInv, NEW c \in conflicts, c.class # "causal_history_conflict"
  PROVE  \E l, r \in log : /\ l # r /\ c.members = {l.id, r.id}
                           /\ l.subject = c.subject /\ r.subject = c.subject
                           /\ Concurrent(log, l, r)
<1>1. PICK S \in SUBSET log : Found(c, S)  BY DEF ReconcileInv, Known
<1>2. PICK l, r \in S : /\ l # r /\ c.members = {l.id, r.id}
                        /\ l.subject = c.subject /\ r.subject = c.subject
                        /\ Concurrent(S, l, r)
  BY <1>1 DEF Found
<1>3. Missing(S) = {} /\ ~SameId(log)  BY <1>1 DEF Found, ReconcileInv, TypeOK
<1>4. Concurrent(log, l, r)  BY <1>2, <1>3, ConcurrentForGood
<1>5. QED  BY <1>2, <1>4

THEOREM VerdictsStand == Spec => []VerdictStands
<1>1. ReconcileInv => VerdictStands  BY StandsInLog DEF VerdictStands
<1>2. QED  BY <1>1, InvAlways, PTL

(* No crash and no other command leaves a resolution without its event,     *)
(* its members or its authority.                                            *)
THEOREM ResolutionsBacked == Spec => []ResolutionBacked
<1>1. ReconcileInv => ResolutionBacked  BY DEF ReconcileInv, ResolutionBacked
<1>2. QED  BY <1>1, InvAlways, PTL

(* An unresolved conflict never lets one of its values through.             *)
THEOREM ConflictsChooseNone == Spec => []ConflictChoosesNone
<1>1. ASSUME ReconcileInv, NEW c \in conflicts, NEW l \in log, NEW r \in log,
             c.class # "causal_history_conflict", c.members = {l.id, r.id}, l # r,
             l.field = r.field, {l, r} \subseteq Live(l.subject, l.field),
             ~Settled(l.subject, l.field)
      PROVE  Winners(l.subject, l.field) \cap {l, r} = {}
  <2>1. PICK m, n \in log : /\ m # n /\ c.members = {m.id, n.id} /\ Concurrent(log, m, n)
    BY <1>1, StandsInLog
  <2>2. \A f, g \in log : f.id = g.id => f = g  BY <1>1 DEF ReconcileInv, TypeOK, SameId
  <2>3. {l, r} = {m, n}  BY <1>1, <2>1, <2>2
  <2>4. l.id \notin Ancestors(log, r) /\ r.id \notin Ancestors(log, l)
    BY <2>1, <2>3 DEF Concurrent
  <2>5. {l, r} \subseteq Active(l.subject, l.field)  BY <1>1 DEF Active
  <2>6. QED  BY <1>1, <2>4, <2>5 DEF Winners
<1>2. ReconcileInv => ConflictChoosesNone  BY <1>1 DEF ConflictChoosesNone
<1>3. QED  BY <1>2, InvAlways, PTL
-----------------------------------------------------------------------------
(* What the walk of _is_ancestor visits: parents, and parents of what it    *)
(* has visited.                                                             *)
LEMMA AncestorsClosed ==
  ASSUME NEW S, NEW e \in S
  PROVE  e.parents \subseteq Ancestors(S, e) /\ Closed(S, Ancestors(S, e))
<1>1. \A f \in S : f.parents \subseteq Names(S)  BY DEF Names
<1>2. e.parents \subseteq Ancestors(S, e)  BY <1>1 DEF Ancestors
<1>3. ASSUME NEW f \in S, f.id \in Ancestors(S, e), NEW i \in f.parents
      PROVE  i \in Ancestors(S, e)
  <2>1. i \in Names(S)  BY <1>1
  <2>2. ASSUME NEW C \in SUBSET Names(S), e.parents \subseteq C, Closed(S, C) PROVE i \in C
    BY <1>3, <2>2 DEF Ancestors, Closed
  <2>3. QED  BY <2>1, <2>2 DEF Ancestors
<1>4. QED  BY <1>2, <1>3 DEF Closed

LEMMA AncestorsLeast ==
  ASSUME NEW S, NEW e \in S, NEW C, e.parents \subseteq C, Closed(S, C)
  PROVE  Ancestors(S, e) \subseteq C
<1>1. \A f \in S : f.parents \subseteq Names(S)  BY DEF Names
<1>2. e.parents \subseteq C \cap Names(S) /\ Closed(S, C \cap Names(S))  BY <1>1 DEF Closed
<1>3. QED  BY <1>2 DEF Ancestors

LEMMA AncestorsTransitive ==
  ASSUME NEW S, NEW e \in S, NEW f \in S, f.id \in Ancestors(S, e)
  PROVE  Ancestors(S, f) \subseteq Ancestors(S, e)
<1>1. Closed(S, Ancestors(S, e))  BY AncestorsClosed
<1>2. f.parents \subseteq Ancestors(S, e)  BY <1>1 DEF Closed
<1>3. QED  BY <1>1, <1>2, AncestorsLeast

(* An ancestor is a parent, or an ancestor of an event that is one.         *)
LEMMA ThroughAParent ==
  ASSUME NEW S, NEW e \in S, NEW a \in Ancestors(S, e)
  PROVE  a \in e.parents \/ \E f \in S : f.id \in e.parents /\ a \in Ancestors(S, f)
<1> DEFINE P == {f \in S : f.id \in e.parents}
           D == e.parents \cup UNION {Ancestors(S, f) : f \in P}
<1>1. ASSUME NEW g \in S, g.id \in D PROVE g.parents \subseteq D
  <2>1. CASE g.id \in e.parents
    <3>1. g \in P  BY <2>1
    <3>2. g.parents \subseteq Ancestors(S, g)  BY AncestorsClosed
    <3>3. QED  BY <3>1, <3>2
  <2>2. CASE \E f \in P : g.id \in Ancestors(S, f)
    <3>1. PICK f \in P : g.id \in Ancestors(S, f)  BY <2>2
    <3>2. Closed(S, Ancestors(S, f))  BY AncestorsClosed
    <3>3. g.parents \subseteq Ancestors(S, f)  BY <3>1, <3>2 DEF Closed
    <3>4. QED  BY <3>3
  <2>3. QED  BY <1>1, <2>1, <2>2
<1>2. Closed(S, D)  BY <1>1 DEF Closed
<1>3. a \in D  BY <1>2, AncestorsLeast
<1>4. QED  BY <1>3

(* Without a cycle no event comes before itself.                            *)
LEMMA NoneBeforeItself ==
  ASSUME NEW S, NEW e \in S, ~Cyclic(S)
  PROVE  e.id \notin Ancestors(S, e)
<1> SUFFICES ASSUME e.id \in Ancestors(S, e) PROVE FALSE  OBVIOUS
<1> DEFINE C == {f \in S : e.id \in Ancestors(S, f)}
<1>1. ASSUME NEW f \in C PROVE \E g \in C : g.id \in f.parents
  <2>1. e.id \in f.parents \/ \E g \in S : g.id \in f.parents /\ e.id \in Ancestors(S, g)
    BY ThroughAParent
  <2>2. QED  BY <2>1
<1>2. C \in SUBSET S /\ C # {}  OBVIOUS
<1>3. QED  BY <1>1, <1>2 DEF Cyclic

LEMMA NotBothWays ==
  ASSUME NEW S, NEW e \in S, NEW f \in S, ~Cyclic(S), f.id \in Ancestors(S, e)
  PROVE  e.id \notin Ancestors(S, f)
BY AncestorsTransitive, NoneBeforeItself

NatLess == {ss \in Nat \X Nat : ss[1] < ss[2]}

LEMMA GreatestNatural ==
  ASSUME NEW S, NEW b \in Nat, S \subseteq 0 .. b, S # {}
  PROVE  \E n \in S : \A m \in S : m <= n
<1> DEFINE D == {b - x : x \in S}
<1>1. IsWellFoundedOn(NatLess, Nat)  BY NatLessThanWellFounded DEF OpToRel, NatLess
<1>2. D \subseteq Nat /\ D # {}
  <2>1. \A x \in S : b - x \in Nat  OBVIOUS
  <2>2. QED  BY <2>1
<1>3. PICK d \in D : \A m \in D : <<m, d>> \notin NatLess
  <2> HIDE DEF D
  <2>1. QED  BY <1>1, <1>2, WFMin
<1>4. \A m \in D : ~(m < d)  BY <1>2, <1>3 DEF NatLess
<1>5. PICK n \in S : d = b - n  OBVIOUS
<1>6. \A m \in S : m <= n  BY <1>4, <1>5
<1>7. QED  BY <1>6

(* Of events that are pairwise ordered, finitely many and one at least, one *)
(* comes after all others.                                                  *)
LEMMA LatestOfOrdered ==
  ASSUME NEW S, ~Cyclic(S), IsFiniteSet(S), NEW T, T \subseteq S, T # {},
         \A m, n \in T : m # n => ~Concurrent(S, m, n)
  PROVE  \E e \in T : \A o \in T \ {e} : o.id \in Ancestors(S, e)
<1> DEFINE Below(e) == {x \in T : x.id \in Ancestors(S, e)}
           Counts == {Cardinality(Below(e)) : e \in T}
<1>1. ASSUME NEW U \in SUBSET S
      PROVE  IsFiniteSet(U) /\ Cardinality(U) \in 0 .. Cardinality(S)
  <2>1. IsFiniteSet(U) /\ Cardinality(U) <= Cardinality(S)  BY <1>1, FS_Subset
  <2>2. Cardinality(U) \in Nat /\ Cardinality(S) \in Nat  BY <2>1, FS_CardinalityType
  <2>3. QED  BY <2>1, <2>2
<1>2. \A e \in T : Below(e) \in SUBSET S  OBVIOUS
<1>3. Counts \subseteq 0 .. Cardinality(S) /\ Counts # {}  BY <1>1, <1>2
<1>4. Cardinality(S) \in Nat  BY FS_CardinalityType
<1>5. PICK k \in Counts : \A m \in Counts : m <= k
  <2> HIDE DEF Counts
  <2>1. QED  BY <1>3, <1>4, GreatestNatural
<1>6. PICK e \in T : k = Cardinality(Below(e))  OBVIOUS
<1>7. ASSUME NEW o \in T \ {e}, o.id \notin Ancestors(S, e) PROVE FALSE
  <2>1. e.id \in Ancestors(S, o)  BY <1>7 DEF Concurrent
  <2>2. Ancestors(S, e) \subseteq Ancestors(S, o)  BY <2>1, AncestorsTransitive
  <2>3. e.id \notin Ancestors(S, e)  BY NoneBeforeItself
  <2>4. Below(e) \subseteq Below(o) /\ e \in Below(o) /\ e \notin Below(e)
    BY <2>1, <2>2, <2>3
  <2>5. IsFiniteSet(Below(o)) /\ Cardinality(Below(o)) \in Nat /\ Cardinality(Below(e)) \in Nat
    BY <1>1, <1>2
  <2>6. Cardinality(Below(e)) <= Cardinality(Below(o))
        /\ Cardinality(Below(e)) # Cardinality(Below(o))
    <3> HIDE DEF Below
    <3>1. QED  BY <2>4, <2>5, FS_Subset
  <2>7. Cardinality(Below(o)) <= Cardinality(Below(e))  BY <1>5, <1>6
  <2>8. QED  BY <2>5, <2>6, <2>7
<1>8. QED  BY <1>7

LEMMA FiniteLog == Spec => []IsFiniteSet(log)
<1>1. Init => IsFiniteSet(log)  BY FS_EmptySet DEF Init
<1>2. ASSUME IsFiniteSet(log), [Next]_vars PROVE IsFiniteSet(log)'
  <2>1. log' = log \/ \E e \in Events : log' = log \cup {e}
    BY <1>2 DEF Next, vars, Step, Arrive, Look, Settle, RecordConflict, RecordResolution,
       Crash, Store!Append
  <2>2. QED  BY <1>2, <2>1, FS_AddElement
<1>3. QED  BY <1>1, <1>2, PTL DEF Spec

(* FieldDecided: where the history has no cycle, a field has one value, or  *)
(* none because no event is left or two that are left are concurrent: it    *)
(* does not matter in which order the candidates are looked at, of which    *)
(* the first that all others precede is taken (projector.py,                *)
(* _projection_value), and nothing is listed as unresolved without a rival. *)
FieldDecided ==
  ~Cyclic(log) => \A e \in log :
    \/ \E w \in log : Winners(e.subject, e.field) = {w}
    \/ /\ Winners(e.subject, e.field) = {}
       /\ \/ Active(e.subject, e.field) = {}
          \/ \E m, n \in Active(e.subject, e.field) : m # n /\ Concurrent(log, m, n)

LEMMA DecidedInLog == ASSUME IsFiniteSet(log), TypeOK PROVE FieldDecided
<1> SUFFICES ASSUME ~Cyclic(log), NEW e \in log
             PROVE  \/ \E w \in log : Winners(e.subject, e.field) = {w}
                    \/ /\ Winners(e.subject, e.field) = {}
                       /\ \/ Active(e.subject, e.field) = {}
                          \/ \E m, n \in Active(e.subject, e.field) :
                               m # n /\ Concurrent(log, m, n)
  BY DEF FieldDecided
<1> DEFINE T == Active(e.subject, e.field)
           W == Winners(e.subject, e.field)
<1>1. T \subseteq log /\ W = {x \in T : \A o \in T \ {x} : o.id \in Ancestors(log, x)}
  BY DEF Active, Live, Winners
<1> HIDE DEF T, W
<1>2. \A x, y \in W : x = y
  <2> SUFFICES ASSUME NEW x \in W, NEW y \in W, x # y PROVE FALSE  OBVIOUS
  <2>1. x \in log /\ y \in log /\ y.id \in Ancestors(log, x) /\ x.id \in Ancestors(log, y)
    BY <1>1
  <2>2. QED  BY <2>1, NotBothWays
<1>3. CASE W # {}
  <2>1. PICK w \in W : TRUE  BY <1>3
  <2>2. W = {w} /\ w \in log  BY <1>1, <1>2, <2>1
  <2>3. QED  BY <2>2 DEF W
<1>4. CASE W = {} /\ T # {}
  <2>1. ~ \E x \in T : \A o \in T \ {x} : o.id \in Ancestors(log, x)  BY <1>1, <1>4
  <2>2. \E m, n \in T : m # n /\ Concurrent(log, m, n)  BY <1>1, <1>4, <2>1, LatestOfOrdered
  <2>3. QED  BY <1>4, <2>2 DEF T, W
<1>5. QED  BY <1>3, <1>4 DEF T, W

(* One value of a field, or none and a reason, for any history that has no  *)
(* cycle, any resolutions and any withdrawals.                              *)
THEOREM FieldsDecided == Spec => []FieldDecided
BY FiniteLog, InvAlways, DecidedInLog, PTL DEF ReconcileInv
-----------------------------------------------------------------------------
(* The commands do no more to the log than FederationContract lets anyone   *)
(* do, which FederationStore implements: what they are proved for holds on  *)
(* the store with its files, races and crashes.                             *)
THEOREM KeepsContract == Spec => Store!Spec
<1>1. Init => Store!Init  BY DEF Init, Store!Init
<1>2. [Next]_vars => [Store!Next]_<<log, {}>>
  <2>1. ASSUME NEW e \in Events, Arrive(e) \/ \E p \in Processes : Look(p, e) \/ Settle(p, e)
        PROVE  (\E f \in Events : Store!Append(f)) \/ log' = log
    BY <2>1 DEF Arrive, Look, Settle
  <2>2. ASSUME NEW p \in Processes, Step(p) PROVE log' = log
    BY <2>2 DEF Step, RecordConflict, RecordResolution, Crash
  <2>3. QED  BY <2>1, <2>2 DEF Next, vars, Store!Next
<1>3. QED  BY <1>1, <1>2, PTL DEF Spec, Store!Spec
=============================================================================
