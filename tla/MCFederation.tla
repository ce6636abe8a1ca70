---------------------------- MODULE MCFederation ----------------------------
(* Small instances of FederationStore. *)
EXTENDS FederationSafety, TLC

CONSTANTS p1, p2, i1, i2, s1, s2, r1, r2, b1, b2, y1, o1, o2

Ev(i, s, r, b, c) == [id |-> i, slot |-> s, ref |-> r, bytes |-> b, parents |-> c]

\* A genesis, an event of its id in another slot, one of its id and slot, a
\* child in the second one's slot, and one with another payload of a name.
Colliding ==
  { Ev(i1, s1, r1, b1, {}), Ev(i1, s2, r1, b1, {}), Ev(i1, s1, r1, b1, {i2}),
    Ev(i2, s2, r2, b1, {i1}), Ev(i2, s1, r1, b2, {}) }

NoneOrAll == {{}, Ids}
=============================================================================
