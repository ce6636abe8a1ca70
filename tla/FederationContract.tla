------------------------- MODULE FederationContract -------------------------
(***************************************************************************)
(* What a realm's store promises: a log that only grows, in which an event *)
(* id and a replica's sequence number belong to one event each, and one    *)
(* observation per event and observer, of events that are in the log.      *)
(* Files, races, retries and crashes are gone.                             *)
(***************************************************************************)

CONSTANTS Events, Observers

VARIABLES log, seen

Init == log = {} /\ seen = {}

Append(e) ==
  /\ \A f \in log : f.id # e.id /\ f.slot # e.slot
  /\ log' = log \cup {e}
  /\ seen' = seen

Observe(e, o) ==
  /\ e \in log /\ <<e.id, o>> \notin seen
  /\ seen' = seen \cup {<<e.id, o>>}
  /\ log' = log

Next == \E e \in Events : Append(e) \/ \E o \in Observers : Observe(e, o)

Spec == Init /\ [][Next]_<<log, seen>>
=============================================================================
