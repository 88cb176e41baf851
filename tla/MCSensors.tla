------------------------------ MODULE MCSensors ------------------------------
(* An instance of Sensors for TLC: three tasks on two pages, three days. *)
EXTENDS Sensors

CONSTANTS t1, t2, t3

\* Two tasks that start at different times, and one that cannot be placed.
Starts == (t1 :> 2) @@ (t2 :> 3) @@ (t3 :> Unusable)
Types == (t1 :> 5) @@ (t2 :> 8) @@ (t3 :> None)
Services == (t1 :> 8) @@ (t2 :> None) @@ (t3 :> 5)
Reported == (t1 :> None) @@ (t2 :> "on_the_way") @@ (t3 :> "new_to_us")

\* Number 5 is a task type and a service type, of different labels.
Tables ==
    [task_types |-> (5 :> [label |-> "Maintenance", service_id |-> 8]) @@
                    (8 :> [label |-> "Check", service_id |-> None]),
     service_types |-> (5 :> "Owner") @@ (8 :> "Handyman")]
Renamed == [Tables EXCEPT !.task_types = 5 :> [label |-> "Repairs", service_id |-> 8]]
Both == {Tables, Renamed}

DayOf(available, reason, price, currency) ==
    [available |-> available, reason |-> reason, price |-> price, currency |-> currency]
Free == DayOf("true", "none", 10000, "JPY")
Reserved == DayOf("false", "RESERVED", 10000, "USD")
Blocked == DayOf("false", "BLOCKED", None, "USD")

Days == 0..4
Quiet == [d \in Days |-> IF d = 1 THEN Reserved ELSE Free]
Changed == [d \in Days |-> IF d = 0 THEN Reserved ELSE Blocked]
Either == {Quiet, Changed}

Decimals == [JPY |-> 0, KWD |-> 3]

OneByOne == {{"tasks"}, {"calendar"}}

\* Each way in which an answer may fall short, and the one that does not.
AsDue == [x \in {} |-> x]
Shortcomings ==
    {AsDue, [status |-> 500], [envelope |-> FALSE], [last_page |-> Unreadable]}

=============================================================================
