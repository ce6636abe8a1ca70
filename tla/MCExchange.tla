----------------------------- MODULE MCExchange -----------------------------
(* A small instance of RealmExchange. *)
EXTENDS ExchangeSafety, TLC

CONSTANTS p1, a, b, n, r, s1, f1, k1, v1, v2, NoValue

Ev(i, slot, parents, kind, field, value) ==
  [id |-> i, slot |-> slot, parents |-> parents, kind |-> kind, subject |-> s1,
   authority |-> k1, field |-> field, value |-> value,
   corrects |-> NoId, withdraws |-> NoId, selects |-> NoId]

\* Each realm has a value of a field; the conflict between them; its
\* resolution, which either realm may make.
Left  == Ev(a, a, {}, "field", f1, v1)
Right == Ev(b, b, {}, "field", f1, v2)
Dispute == [class |-> "field_value_conflict", subject |-> s1, members |-> {a, b}]
Judgement ==
  [Ev(r, r, {a, b}, "resolution", NoField, NoValue) EXCEPT !.subject = Dispute, !.selects = a]

\* A note in realm a that names the resolution as its parent, be it there or
\* not, and that has its number: where one is, the other is quarantined.
Note == Ev(n, r, {r}, "field", NoField, NoValue)

All == {Left, Right, Judgement, Note}
Both == {s1, Dispute}
Where == [e \in All |-> IF e \in {Left, Note} THEN "a" ELSE "b"]
Powers == {<<k1, "resolve_conflict", Dispute>>}
=============================================================================
