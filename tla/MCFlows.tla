------------------------------ MODULE MCFlows ------------------------------
(* An instance of Flows for TLC: two accounts and two flows. *)
EXTENDS Flows, TLC

CONSTANTS home, work, ta, ta2, tb, p1, p2, q1, f1, f2, rome, nowhere

AccountOfToken == (ta :> home) @@ (ta2 :> home) @@ (tb :> work)
Listed == (home :> {p1, p2}) @@ (work :> {q1})
\* An entry that is not loaded holds nothing.
Held == [a \in {home, work} |-> {<<{}, 0>>, <<Listed[a], 101>>}]

Usual == [reservation_interval |-> 5, property_interval |-> 60, lookback_days |-> 90,
          lookahead_days |-> 90, task_interval |-> 15, task_window_days |-> 14]
Zero == [Usual EXCEPT !.property_interval = 0]
Odd == [Usual EXCEPT !.reservation_interval = 7, !.property_interval = 100,
                       !.lookback_days = 7, !.task_interval = 5]

Entered == {Odd, Zero}
Ticked == {{"guest_contact_details", "awaiting_host_reply"}}
\* Nothing tells apart the flows, the properties or the tokens of home.
Symmetric == {f @@ p @@ t : f \in Permutations({f1, f2}), p \in Permutations({p1, p2}),
                            t \in Permutations({ta, ta2})}

=============================================================================
