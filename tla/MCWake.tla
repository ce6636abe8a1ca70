------------------------------- MODULE MCWake -------------------------------
(* A small instance of WakeWatchdog. *)
EXTENDS WakeSafety

CONSTANTS d1, d2, s1, s2, w1, c1, c2, y1, y2

OneRefuses == {<<d1, c1>>}
=============================================================================
