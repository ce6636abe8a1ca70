------------------------------ MODULE MCBridge ------------------------------
(* Small instances of BridgeDelivery. *)
EXTENDS BridgeSafety, TLC

CONSTANTS e1, e2, m1, m2, m3, a1, a2, t1, x1, x2, n1, p1, l1

Letter(s, r, l, b, d) ==
  [sender |-> s, recipient |-> r, payload |-> p1, lock |-> l, parent |-> NoMessage,
   hop |-> d, depth |-> d, ack |-> TRUE, strict |-> TRUE, projection |-> b]

EveryPair == Engines \X Messages

\* Engines are alike; runs of invariants only use it.
EngineSymmetry == Permutations(Engines)

\* l1 names a1, in whatever session it runs or in session n1 exactly.
OneLock == l1 :> [agent |-> a1, native |-> NoNative, proxy |-> FALSE]
ExactLock == l1 :> [agent |-> a1, native |-> n1, proxy |-> FALSE]

Addressing ==
  {Letter(a2, a1, l1, "herdr_prompt", 0), Letter(a1, a2, l1, "herdr_prompt", 0)}
Unlocked == {Letter(a1, a1, NoLock, "herdr_prompt", 0)}
NoLocks == << >>
\* Without locks: a prompt, and a post that only the board gets.
Chains ==
  {Letter(a2, a1, NoLock, "herdr_prompt", 0), Letter(a2, a1, NoLock, "board_only", 0)}
Variety ==
  { Letter(a2, a1, l1, "herdr_prompt", 0),
    [Letter(a2, a1, l1, "board_and_prompt", 0) EXCEPT !.ack = FALSE, !.strict = FALSE],
    Letter(a2, a1, l1, "board_only", 0),
    Letter(a2, a1, l1, "herdr_prompt", MaxHops),
    Letter(a1, a2, l1, "herdr_prompt", 0),
    Letter(a2, a1, NoLock, "herdr_prompt", 0) }
=============================================================================
