------------------------ MODULE MessageBudgetProofs ------------------------
(* That the abstract budget keeps its promise, for every limit and window. *)
EXTENDS MessageBudget, FiniteSetTheorems, FunctionTheorems, SequenceTheorems, TLAPS

\* The instants that count are finitely many, at most as many as are kept.
LEMMA CountingIsFinite ==
    ASSUME NEW s \in Seq(Nat), NEW t \in Int
    PROVE  /\ IsFiniteSet(Counting(s, t))
           /\ Cardinality(Counting(s, t)) \in Nat
           /\ Cardinality(Counting(s, t)) <= Len(s)
<1>1. Len(s) \in Nat
  BY LenProperties
<1>2. Counting(s, t) \in SUBSET (1..Len(s))
  BY DEF Counting
<1>3. IsFiniteSet(1..Len(s)) /\ Cardinality(1..Len(s)) = Len(s)
  <2>1. 1 \in Int /\ Len(s) \in Int
    BY <1>1
  <2>2. /\ IsFiniteSet(1..Len(s))
        /\ Cardinality(1..Len(s)) = IF 1 > Len(s) THEN 0 ELSE Len(s) - 1 + 1
    BY <2>1, FS_Interval
  <2>. QED
    BY <1>1, <2>2
<1>. QED
  BY <1>2, <1>3, FS_Subset, FS_CardinalityType

\* One more instant adds at most one to the count.
LEMMA AppendCounts ==
    ASSUME NEW s \in Seq(Nat), NEW t \in Nat
    PROVE  Cardinality(Counting(Append(s, t), t)) <= Cardinality(Counting(s, t)) + 1
<1>. DEFINE old == Counting(s, t)
            new == Counting(Append(s, t), t)
            last == Len(s) + 1
<1>1. /\ Append(s, t) \in Seq(Nat)
      /\ Len(Append(s, t)) = last
      /\ \A i \in 1..Len(s) : Append(s, t)[i] = s[i]
  BY AppendProperties
<1>2. new \subseteq old \cup {last}
  BY <1>1, LenProperties DEF Counting
<1>3. t \in Int
  OBVIOUS
<1>4. IsFiniteSet(old) /\ Cardinality(old) \in Nat
  BY <1>3, CountingIsFinite
<1>5. Cardinality(new) \in Nat
  BY <1>1, <1>3, CountingIsFinite
<1>6. /\ IsFiniteSet(old \cup {last})
      /\ Cardinality(old \cup {last}) <= Cardinality(old) + 1
  <2>1. /\ IsFiniteSet(old \cup {last})
        /\ Cardinality(old \cup {last}) =
              IF last \in old THEN Cardinality(old) ELSE Cardinality(old) + 1
    BY <1>4, FS_AddElement
  <2>. QED
    BY <1>4, <2>1
<1>7. Cardinality(new) <= Cardinality(old \cup {last})
  BY <1>2, <1>6, FS_Subset
<1>8. Cardinality(old \cup {last}) \in Nat
  BY <1>6, FS_CardinalityType
<1>. QED
  BY <1>4, <1>5, <1>6, <1>7, <1>8

\* Forgetting the oldest instants adds nothing: what is kept is shifted.
LEMMA SuffixCounts ==
    ASSUME NEW s \in Seq(Nat), NEW t \in Int, NEW n \in 0..Len(s)
    PROVE  /\ SubSeq(s, n + 1, Len(s)) \in Seq(Nat)
           /\ Cardinality(Counting(SubSeq(s, n + 1, Len(s)), t))
                <= Cardinality(Counting(s, t))
<1>. DEFINE r == SubSeq(s, n + 1, Len(s))
            f == [i \in Counting(r, t) |-> i + n]
<1>1. Len(s) \in Nat /\ n \in Nat /\ \A i \in 1..Len(s) : s[i] \in Nat
  BY LenProperties, ElementOfSeq
<1>2. /\ r \in Seq(Nat)
      /\ Len(r) = Len(s) - n
      /\ \A i \in 1..Len(r) : r[i] = s[n + i]
  <2>1. \A i \in n + 1 .. Len(s) : s[i] \in Nat
    BY <1>1
  <2>2. /\ r \in Seq(Nat)
        /\ Len(r) = IF n + 1 <= Len(s) THEN Len(s) - (n + 1) + 1 ELSE 0
        /\ \A i \in 1 .. Len(s) - (n + 1) + 1 : r[i] = s[(n + 1) + i - 1]
    BY <2>1, <1>1, SubSeqProperties
  <2>. QED
    BY <2>2, <1>1
<1>3. \A i \in Counting(r, t) : i \in Nat /\ i + n \in Counting(s, t)
  BY <1>1, <1>2 DEF Counting
<1>4. f \in Injection(Counting(r, t), Counting(s, t))
  <2>1. f \in [Counting(r, t) -> Counting(s, t)]
    BY <1>3
  <2>2. \A i, j \in Counting(r, t) : f[i] = f[j] => i = j
    BY <1>1, <1>3
  <2>. QED
    BY <2>1, <2>2, Fun_IsInj
<1>. QED
  BY <1>2, <1>4, CountingIsFinite, FS_Injection

\* No rolling window ever holds more than Limit charged requests: the budget
\* that the message traffic of rate_limit.py implements keeps its promise.
THEOREM PromiseKept ==
    ASSUME Limit \in Nat, Window \in Int
    PROVE  Spec => [](TypeOK /\ Promise)
<1>. DEFINE Inv == TypeOK /\ Promise
<1>1. Init => Inv
  <2>. SUFFICES ASSUME Init PROVE Inv
    OBVIOUS
  <2>1. TypeOK
    BY EmptySeq DEF Init, TypeOK
  <2>2. ASSUME NEW a \in Accounts PROVE Cardinality(Counting(charged[a], clock)) <= Limit
    <3>1. charged[a] = << >> /\ Len(<< >>) = 0
      BY EmptySeq DEF Init
    <3>2. Counting(charged[a], clock) = {}
      BY <3>1 DEF Counting
    <3>. QED
      BY <3>2, FS_EmptySet
  <2>. QED
    BY <2>1, <2>2 DEF Promise
<1>2. Inv /\ [Next]_vars => Inv'
  <2>. SUFFICES ASSUME Inv, [Next]_vars PROVE Inv'
    OBVIOUS
  <2>1. ASSUME NEW a \in Accounts, Charge(a) PROVE Inv'
    <3>1. /\ clock' = clock /\ clock \in Nat
          /\ charged[a] \in Seq(Nat)
          /\ charged'[a] = Append(charged[a], clock)
          /\ \A b \in Accounts \ {a} : charged'[b] = charged[b]
      BY <2>1 DEF Charge, TypeOK
    <3>2. TypeOK'
      BY <2>1, <3>1, AppendProperties DEF Charge, TypeOK
    <3>3. Cardinality(Counting(charged[a], clock)) < Limit
      BY <2>1 DEF Charge
    <3>4. /\ Cardinality(Counting(charged[a], clock)) \in Nat
          /\ Cardinality(Counting(charged'[a], clock')) \in Nat
      <4>1. charged'[a] \in Seq(Nat) /\ clock \in Int
        BY <3>1, <3>2 DEF TypeOK
      <4>. QED
        BY <3>1, <4>1, CountingIsFinite
    <3>5. Cardinality(Counting(charged'[a], clock')) <= Limit
      BY <3>1, <3>3, <3>4, AppendCounts
    <3>. QED
      BY <3>1, <3>2, <3>5 DEF Promise
  <2>2. ASSUME NEW a \in Accounts, Forget(a) PROVE Inv'
    <3>1. clock' = clock /\ clock \in Nat /\ charged[a] \in Seq(Nat)
      BY <2>2 DEF Forget, TypeOK
    <3>2. PICK n \in 0..Len(charged[a]) :
            charged' = [charged EXCEPT ![a] = SubSeq(@, n + 1, Len(@))]
      BY <2>2 DEF Forget
    <3>3. /\ charged'[a] = SubSeq(charged[a], n + 1, Len(charged[a]))
          /\ \A b \in Accounts \ {a} : charged'[b] = charged[b]
      BY <3>2 DEF TypeOK
    <3>4. /\ charged'[a] \in Seq(Nat)
          /\ Cardinality(Counting(charged'[a], clock))
                <= Cardinality(Counting(charged[a], clock))
      BY <3>1, <3>3, SuffixCounts
    <3>5. TypeOK'
      BY <3>1, <3>2, <3>4 DEF TypeOK
    <3>6. Cardinality(Counting(charged'[a], clock')) <= Limit
      <4>1. clock \in Int
        BY <3>1
      <4>2. /\ Cardinality(Counting(charged[a], clock)) \in Nat
            /\ Cardinality(Counting(charged'[a], clock)) \in Nat
        BY <3>1, <3>4, <4>1, CountingIsFinite
      <4>3. Cardinality(Counting(charged[a], clock)) <= Limit
        BY DEF Promise
      <4>. QED
        BY <3>1, <3>4, <4>2, <4>3
    <3>. QED
      BY <3>1, <3>3, <3>5, <3>6 DEF Promise
  <2>3. ASSUME Advance PROVE Inv'
    <3>1. clock \in Nat /\ clock' = clock + 1 /\ charged' = charged
      BY <2>3 DEF Advance, TypeOK
    <3>2. ASSUME NEW a \in Accounts
          PROVE  Cardinality(Counting(charged'[a], clock')) <= Limit
      <4>1. charged[a] \in Seq(Nat)
        BY DEF TypeOK
      <4>2. \A i \in 1..Len(charged[a]) : charged[a][i] \in Nat
        BY <4>1, ElementOfSeq
      <4>3. Counting(charged[a], clock + 1) \subseteq Counting(charged[a], clock)
        BY <3>1, <4>2 DEF Counting
      <4>4. clock \in Int /\ clock + 1 \in Int
        BY <3>1
      <4>5. /\ IsFiniteSet(Counting(charged[a], clock))
            /\ Cardinality(Counting(charged[a], clock)) \in Nat
            /\ Cardinality(Counting(charged[a], clock + 1)) \in Nat
        BY <4>1, <4>4, CountingIsFinite
      <4>6. Cardinality(Counting(charged[a], clock + 1))
              <= Cardinality(Counting(charged[a], clock))
        BY <4>3, <4>5, FS_Subset
      <4>7. Cardinality(Counting(charged[a], clock)) <= Limit
        BY DEF Promise
      <4>. QED
        BY <3>1, <4>5, <4>6, <4>7
    <3>. QED
      BY <3>1, <3>2 DEF TypeOK, Promise
  <2>4. ASSUME UNCHANGED vars PROVE Inv'
    BY <2>4 DEF vars, TypeOK, Promise
  <2>. QED
    BY <2>1, <2>2, <2>3, <2>4 DEF Next
<1>. QED
  BY <1>1, <1>2, PTL DEF Spec

============================================================================
