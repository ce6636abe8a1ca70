----------------------------- MODULE MCHandoff -----------------------------
(* Small instances of HandoffMailbox. *)
EXTENDS HandoffSafety, TLC

CONSTANTS k1, k2, i1, i2, h1, h2, b1, b2, md, task, exact, y1

TwoInstances == k1 :> i1 @@ k2 :> i2
Letter(b, k, t) == [bytes |-> b, kind |-> k, target |-> t]
Letters == {Letter(b1, md, task), Letter(b2, md, exact)}
OneVerified == {<<k2, exact>>}
=============================================================================
