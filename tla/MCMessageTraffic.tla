-------------------------- MODULE MCMessageTraffic --------------------------
(* The small instances of MessageTraffic that TLC checks.                  *)
EXTENDS MessageTraffic, TLC

CONSTANTS r1, r2, p1, p2

OneOwner == r1 :> p1
SameOwner == r1 :> p1 @@ r2 :> p1
TwoOwners == r1 :> p1 @@ r2 :> p2
OneProperty == <<p1>>
TwoProperties == <<p1, p2>>
AnyStays == OwnSelection
EveryPropertyBooked == {s \in OwnSelection : NoReservation \notin {s[p] : p \in Properties}}

=============================================================================
