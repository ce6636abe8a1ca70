---------------------------- MODULE MCReconcile ----------------------------
(* Small instances of FederationReconcile. *)
EXTENDS ReconcileSafety, TLC

CONSTANTS p1, p2, a, b, c, d, w, r, s1, f1, k1, k2, v1, v2, v3, NoValue

Ev(i, parents, kind, authority, value) ==
  [id |-> i, slot |-> i, parents |-> parents, kind |-> kind, subject |-> s1,
   authority |-> authority, field |-> IF value = NoValue THEN NoField ELSE f1,
   value |-> value, corrects |-> NoId, withdraws |-> NoId, selects |-> NoId]

\* Two values of a field; the conflict between them; its resolution.
Left  == Ev(a, {}, "field", k1, v1)
Right == Ev(b, {}, "field", k1, v2)
Dispute == [class |-> "field_value_conflict", subject |-> s1, members |-> {a, b}]
Judgement ==
  [Ev(r, {a, b}, "resolution", k1, NoValue) EXCEPT !.subject = Dispute, !.selects = a]
Both == {s1, Dispute}

\* A child of Left about identity, and a grandchild under another authority:
\* while the child is missing, nothing shows that Left comes before the
\* grandchild.  And a withdrawal of Right, as a state transition.
Child  == Ev(c, {a}, "identity", k1, v3)
Change == Ev(d, {c}, "field", k2, v2)
Withdrawal == [Ev(w, {b}, "transition", k1, NoValue) EXCEPT !.withdraws = b]

Disputed == {Left, Right, Judgement, Child, Change, Withdrawal}

\* A third value of the field, under another authority.
Rival == Ev(d, {}, "field", k2, v3)
Contested == {Left, Right, Rival, Judgement}

Powers == {<<k1, "resolve_conflict", Dispute>>, <<k1, "adopt_event", s1>>}
=============================================================================
