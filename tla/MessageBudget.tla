--------------------------- MODULE MessageBudget ---------------------------
(***************************************************************************)
(* What the tracker promises about an account, whoever calls and however   *)
(* the calls overlap: at any moment no more than Limit requests have been  *)
(* charged to it within the last Window.  MessageTraffic implements this   *)
(* with Limit = TOKEN_LIMIT + (number of tasks - 1): with TOKEN_LIMIT      *)
(* itself when calls come one at a time.                                   *)
(***************************************************************************)
EXTENDS Integers, Sequences, FiniteSets

CONSTANTS Accounts, Limit, Window

VARIABLES
    clock,
    charged   \* [Accounts -> instants, some of them too old to count]

Counting(stamps, t) == {i \in 1..Len(stamps) : t - stamps[i] < Window}

Init ==
    /\ clock = 0
    /\ charged = [a \in Accounts |-> << >>]

Charge(a) ==
    /\ Cardinality(Counting(charged[a], clock)) < Limit
    /\ charged' = [charged EXCEPT ![a] = Append(@, clock)]
    /\ UNCHANGED clock

\* The oldest instants may be forgotten once none of them counts.
Forget(a) ==
    /\ \E n \in 0..Len(charged[a]) :
          /\ \A i \in 1..n : clock - charged[a][i] >= Window
          /\ charged' = [charged EXCEPT ![a] = SubSeq(@, n + 1, Len(@))]
    /\ UNCHANGED clock

Advance == clock' = clock + 1 /\ UNCHANGED charged

Next == Advance \/ \E a \in Accounts : Charge(a) \/ Forget(a)

vars == <<clock, charged>>
Spec == Init /\ [][Next]_vars

TypeOK == clock \in Nat /\ charged \in [Accounts -> Seq(Nat)]

\* No rolling window ever holds more than Limit charged requests.
Promise == \A a \in Accounts : Cardinality(Counting(charged[a], clock)) <= Limit

============================================================================
