----------------------------- MODULE MCLookups -----------------------------
(* Instances of Lookups for TLC: two accounts, the first of which changes. *)
EXTENDS Lookups

CONSTANTS e1, e2, n1, n2, p1, p2, p3, q1, r1, r2, r3, hospitable, other, d1, d2, dq,
          s1, sq, hub, foreign

Both == {e1, e2}
Namespaces == (e1 :> n1) @@ (e2 :> n2)

\* A sensor of p1 and one of q1, an entity without a device and someone else's.
Entities ==
    (s1 :> [platform |-> hospitable, config_entry_id |-> e1, device_id |-> d1]) @@
    (sq :> [platform |-> hospitable, config_entry_id |-> e2, device_id |-> dq]) @@
    (hub :> [platform |-> hospitable, config_entry_id |-> e1, device_id |-> Unset]) @@
    (foreign :> [platform |-> other, config_entry_id |-> e1, device_id |-> d1])
Devices ==
    (d1 :> [config_entries |-> {e1}, identifiers |-> {<<n1, p1>>}]) @@
    (d2 :> [config_entries |-> {e1}, identifiers |-> {<<n1, p2>>}]) @@
    (dq :> [config_entries |-> {e2}, identifiers |-> {<<n2, q1>>}])

Accounts == (p1 :> e1) @@ (p2 :> e1) @@ (p3 :> e1) @@ (q1 :> e2)
Stay == (r1 :> p1) @@ (r2 :> p1) @@ (r3 :> p2)
Unflawed == [r \in {r1, r2, r3} |-> "none"]
OneFlawed == (r1 :> "none") @@ (r2 :> "booking_date") @@ (r3 :> "none")

Some == (e1 :> {p1, p2}) @@ (e2 :> {})
Listing == (e1 :> [properties |-> <<p1, p2>>, reservations |-> <<r1, r2, r3>>]) @@
           (e2 :> [properties |-> <<q1>>, reservations |-> << >>])

\* p3 has never been selected, so no device was made for it.
Listing3 == [Listing EXCEPT ![e1].properties = <<p1, p2, p3>>]

Target(entities, devices_) == [entity_id |-> entities, device_id |-> devices_]
NoTarget == Target(<< >>, << >>)

Finds ==
    [service : {"find_reservation"}, config_entry_id : {e1, e2, Unset},
     reservation_uuid : {r1, Unset}, entity_id : {s1, hub, foreign, Unset}]
Lists ==
    [service : ListServices, config_entry_id : {e1, Unset},
     property_id : {p1, p3, Unset},
     target : {NoTarget, Target(<<s1>>, << >>), Target(<<hub>>, << >>),
               Target(<<foreign, s1>>, << >>), Target(<<sq>>, << >>),
               Target(<< >>, <<d2>>), Target(<< >>, <<dq, d2>>), Target(<<s1>>, <<dq>>)}]
Everything == [service : {"list_properties"}, config_entry_id : {e1, Unset}]
AllCalls == Finds \cup Lists \cup Everything

\* Each way in which an answer may fall short, and the one that does not.
AsDue == [x \in {} |-> x]
Shortcomings ==
    {AsDue, [status |-> 403, says |-> "scope"], [status |-> 404], [status |-> 500],
     [json |-> FALSE], [current_page |-> 0], [last_page |-> Unreadable],
     [includes |-> {}]}
NoShortcomings == {AsDue}

=============================================================================
