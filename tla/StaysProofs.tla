---------------------------- MODULE StaysProofs ----------------------------
(***************************************************************************)
(* What the occupancy and the selection guarantee for all reservations,    *)
(* offsets and instants, and what follows for the entities of Stays.       *)
(***************************************************************************)
EXTENDS Stays, TLAPS, FiniteSetTheorems, WellFoundedInduction

-----------------------------------------------------------------------------
(* Days                                                                    *)

\* Division by a positive number is monotonic.
LEMMA DivisionMonotonic ==
    ASSUME NEW a \in Int, NEW b \in Int, NEW e \in Int, e > 0, a <= b
    PROVE  a \div e \in Int /\ a \div e <= b \div e
<1>1. a \div e \in Int /\ b \div e \in Int
  OBVIOUS
<1>2. a = e * (a \div e) + (a % e) /\ 0 <= a % e /\ a % e < e
  OBVIOUS
<1>3. b = e * (b \div e) + (b % e) /\ 0 <= b % e /\ b % e < e
  OBVIOUS
<1>4. ASSUME NEW x \in Int, NEW y \in Int, NEW m \in Int, NEW n \in Int,
             0 <= m, n < e, e * x + m <= e * y + n
      PROVE  x <= y
  <2>1. SUFFICES ASSUME x >= y + 1 PROVE FALSE
    BY <1>4
  <2>2. e * x >= e * y + e
    BY <2>1
  <2>3. e * x \in Int /\ e * y \in Int
    OBVIOUS
  <2> QED BY <2>2, <2>3, <1>4
<1> QED BY <1>1, <1>2, <1>3, <1>4

\* A reservation's offset is an integer, its days are too, and they never
\* run backwards.
LEMMA DaysGoForward ==
    ASSUME NEW r \in Reservations, NEW t \in Int, NEW u \in Int, t <= u
    PROVE  /\ Today(r, t) \in Int /\ Today(r, u) \in Int
           /\ Today(r, t) <= Today(r, u)
<1>1. Zone(r) \in Int
  <2>1. /\ r.checkin # NoTime => r.checkin \in Moments
        /\ r.checkout # NoTime => r.checkout \in Moments
    BY DEF Reservations
  <2>2. \A m \in Moments : m.offset \in Int
    BY OccupancyAssumption DEF Moments
  <2> QED BY <2>1, <2>2 DEF Zone
<1>2. TicksPerDay \in Int /\ TicksPerDay > 0
  BY OccupancyAssumption
<1>3. t + Zone(r) \in Int /\ u + Zone(r) \in Int /\ t + Zone(r) <= u + Zone(r)
  BY <1>1
<1>4. u + Zone(r) <= u + Zone(r)
  BY <1>3
<1> QED BY <1>2, <1>3, <1>4, DivisionMonotonic DEF Today, LocalDay

-----------------------------------------------------------------------------
(* Occupancy                                                               *)

\* classify_occupancy finds a regular stay occupied exactly when it is in
\* progress: its distinctions by day agree with the scheduled moments.
LEMMA OccupiedIsInProgress ==
    ASSUME NEW r \in Reservations, NEW t \in Int, Regular(r)
    PROVE  Occupancy(r, t) = "occupied" <=> InProgress(r, t)
<1> DEFINE d == Today(r, t)
<1>1. d \in Int /\ r.arrival \in Int /\ r.departure \in Int /\ r.arrival < r.departure
  BY DaysGoForward, t <= t DEF Reservations, Regular
<1>2. r.checkin # NoTime =>
        /\ r.checkin.at \in Int
        /\ r.checkin.at <= t => r.arrival <= d
        /\ t <= r.checkin.at => d <= r.arrival
  BY DaysGoForward DEF Reservations, Moments, Regular
<1>3. r.checkout # NoTime =>
        /\ r.checkout.at \in Int
        /\ r.checkout.at <= t => r.departure <= d
        /\ t <= r.checkout.at => d <= r.departure
  BY DaysGoForward DEF Reservations, Moments, Regular
<1>4. None # "check_in" /\ None # "check_out"
  BY OccupancyAssumption
<1> HIDE DEF d
<1>5. Occupancy(r, t) = "occupied" <=>
        /\ DegradedField(r, t) = None
        /\ ~ (Awaited(r, t) /\ ~ (d # r.arrival /\ Left(r, t)))
        /\ ~ Left(r, t)
  BY DEF Occupancy, d
<1>6. DegradedField(r, t) = None <=>
        /\ d = r.arrival => r.checkin # NoTime
        /\ d # r.arrival /\ d = r.departure => r.checkout # NoTime
  BY <1>4 DEF DegradedField, d
<1>7. Awaited(r, t) <=> \/ d < r.arrival
                        \/ d \in {r.arrival, r.departure} /\ Ahead(t, r.checkin)
  BY DEF Awaited, d
<1>8. Left(r, t) <=> \/ d > r.departure
                     \/ d \in {r.arrival, r.departure} /\ Reached(t, r.checkout)
  BY DEF Left, d
<1>9. InProgress(r, t) <=>
        /\ IF r.checkin # NoTime THEN r.checkin.at <= t ELSE r.arrival < d
        /\ IF r.checkout # NoTime THEN t < r.checkout.at ELSE d < r.departure
  BY DEF InProgress, d
<1>10. CASE r.checkin # NoTime /\ r.checkout # NoTime
  BY <1>1, <1>2, <1>3, <1>5, <1>6, <1>7, <1>8, <1>9, <1>10 DEF Ahead, Reached
<1>11. CASE r.checkin = NoTime /\ r.checkout # NoTime
  BY <1>1, <1>3, <1>5, <1>6, <1>7, <1>8, <1>9, <1>11 DEF Ahead, Reached
<1>12. CASE r.checkin # NoTime /\ r.checkout = NoTime
  BY <1>1, <1>2, <1>5, <1>6, <1>7, <1>8, <1>9, <1>12 DEF Ahead, Reached
<1>13. CASE r.checkin = NoTime /\ r.checkout = NoTime
  BY <1>1, <1>5, <1>6, <1>7, <1>8, <1>9, <1>13 DEF Ahead, Reached
<1> QED BY <1>10, <1>11, <1>12, <1>13

\* The stage of a regular stay on its local day c.
StageOnDay(r, v, c) ==
    IF c < r.arrival THEN 0
    ELSE IF c = r.arrival
    THEN IF r.checkin = NoTime THEN 1 ELSE IF v < r.checkin.at THEN 0 ELSE 2
    ELSE IF c < r.departure THEN 2
    ELSE IF c = r.departure
    THEN IF r.checkout = NoTime THEN 3 ELSE IF r.checkout.at <= v THEN 4 ELSE 2
    ELSE 4

\* The stage of a regular stay follows from its local day and its moments.
LEMMA StageByDay ==
    ASSUME NEW r \in Reservations, NEW v \in Int, Regular(r)
    PROVE  Stage(r, v) = StageOnDay(r, v, Today(r, v))
<1>1. r.arrival \in Int /\ r.departure \in Int /\ r.arrival < r.departure
  BY DEF Reservations, Regular
<1>2. /\ r.checkin # NoTime =>
            /\ r.checkin.at \in Int
            /\ r.checkin.at <= v => r.arrival <= Today(r, v)
            /\ v <= r.checkin.at => Today(r, v) <= r.arrival
      /\ r.checkout # NoTime =>
            /\ r.checkout.at \in Int
            /\ r.checkout.at <= v => r.departure <= Today(r, v)
            /\ v <= r.checkout.at => Today(r, v) <= r.departure
  BY DaysGoForward DEF Reservations, Moments, Regular
<1>3. None # "check_in" /\ None # "check_out"
  BY OccupancyAssumption
<1> DEFINE c == Today(r, v)
<1>4. c \in Int
  BY DaysGoForward, v <= v
<1>5. DegradedField(r, v) =
        IF c = r.arrival /\ r.checkin = NoTime THEN "check_in"
        ELSE IF c # r.arrival /\ c = r.departure /\ r.checkout = NoTime
        THEN "check_out" ELSE None
  BY DEF DegradedField
<1>6. Awaited(r, v) <=> \/ c < r.arrival
                        \/ c \in {r.arrival, r.departure} /\ Ahead(v, r.checkin)
  BY DEF Awaited
<1>7. Left(r, v) <=> \/ c > r.departure
                     \/ c \in {r.arrival, r.departure} /\ Reached(v, r.checkout)
  BY DEF Left
<1>8. Occupancy(r, v) =
        IF DegradedField(r, v) # None THEN "unknown"
        ELSE IF Awaited(r, v) /\ ~ (c # r.arrival /\ Left(r, v))
             THEN "awaiting_checkin"
        ELSE IF Left(r, v) THEN "checked_out" ELSE "occupied"
  BY DEF Occupancy
<1> HIDE DEF c
<1>9. CASE c < r.arrival
  BY <1>1, <1>2, <1>3, <1>4, <1>5, <1>6, <1>7, <1>8, <1>9 DEF Stage, StageOnDay, Ahead, Reached, c
<1>10. CASE c = r.arrival
  BY <1>1, <1>2, <1>3, <1>4, <1>5, <1>6, <1>7, <1>8, <1>10 DEF Stage, StageOnDay, Ahead, Reached, c
<1>11. CASE r.arrival < c /\ c < r.departure
  BY <1>1, <1>3, <1>4, <1>5, <1>6, <1>7, <1>8, <1>11 DEF Stage, StageOnDay, c
<1>12. CASE c = r.departure
  BY <1>1, <1>2, <1>3, <1>4, <1>5, <1>6, <1>7, <1>8, <1>12 DEF Stage, StageOnDay, Ahead, Reached, c
<1>13. CASE r.departure < c
  BY <1>1, <1>2, <1>3, <1>4, <1>5, <1>6, <1>7, <1>8, <1>13 DEF Stage, StageOnDay, Ahead, Reached, c
<1> QED BY <1>1, <1>4, <1>9, <1>10, <1>11, <1>12, <1>13 DEF c

\* As time passes a regular stay goes from one stage to a later one.
LEMMA StagesGoForward ==
    ASSUME NEW r \in Reservations, NEW t \in Int, NEW u \in Int, t <= u, Regular(r)
    PROVE  Stage(r, t) <= Stage(r, u)
<1> DEFINE d == Today(r, t)
           e == Today(r, u)
<1>1. /\ d \in Int /\ e \in Int /\ d <= e
      /\ r.arrival \in Int /\ r.departure \in Int /\ r.arrival < r.departure
  BY DaysGoForward DEF Reservations, Regular
<1>2. /\ r.checkin # NoTime => r.checkin.at \in Int
      /\ r.checkout # NoTime => r.checkout.at \in Int
  BY DEF Reservations, Moments
<1>3. Stage(r, t) = StageOnDay(r, t, d) /\ Stage(r, u) = StageOnDay(r, u, e)
  BY StageByDay
<1> HIDE DEF d, e
<1> QED BY <1>1, <1>2, <1>3 DEF StageOnDay

-----------------------------------------------------------------------------
(* Selection                                                               *)

Keys == [1..6 -> Int]

\* The order on sort keys is a strict total order.
LEMMA LexOrder ==
    ASSUME NEW a \in Keys, NEW b \in Keys, NEW c \in Keys
    PROVE  /\ ~ LexLess(a, a)
           /\ LexLess(a, b) /\ LexLess(b, c) => LexLess(a, c)
           /\ a = b \/ LexLess(a, b) \/ LexLess(b, a)
<1>1. DOMAIN a = 1..6 /\ DOMAIN b = 1..6 /\ \A i \in 1..6 : a[i] \in Int /\ b[i] \in Int /\ c[i] \in Int
  BY DEF Keys
<1>2. ~ LexLess(a, a)
  BY <1>1 DEF LexLess
<1>3. ASSUME LexLess(a, b), LexLess(b, c) PROVE LexLess(a, c)
  <2>1. PICK i \in 1..6 : a[i] < b[i] /\ \A j \in 1..6 : j < i => a[j] = b[j]
    BY <1>1, <1>3 DEF LexLess
  <2>2. PICK k \in 1..6 : b[k] < c[k] /\ \A j \in 1..6 : j < k => b[j] = c[j]
    BY <1>1, <1>3 DEF LexLess
  <2>3. CASE i <= k
    <3>1. a[i] < c[i]
      BY <1>1, <2>1, <2>2, <2>3
    <3>2. \A j \in 1..6 : j < i => a[j] = c[j]
      BY <2>1, <2>2, <2>3
    <3> QED BY <1>1, <3>1, <3>2 DEF LexLess
  <2>4. CASE k < i
    <3>1. a[k] < c[k]
      BY <1>1, <2>1, <2>2, <2>4
    <3>2. \A j \in 1..6 : j < k => a[j] = c[j]
      BY <2>1, <2>2, <2>4
    <3> QED BY <1>1, <3>1, <3>2 DEF LexLess
  <2> QED BY <2>3, <2>4
<1>4. ASSUME a # b, ~ LexLess(a, b) PROVE LexLess(b, a)
  <2> DEFINE D == {i \in 1..6 : a[i] # b[i]}
  <2>1. D # {}
    BY <1>4 DEF Keys
  <2>2. PICK i \in D : \A j \in D : i <= j
    <3>1. CASE 1 \in D
      BY <3>1
    <3>2. CASE 1 \notin D /\ 2 \in D
      BY <3>2
    <3>3. CASE 1 \notin D /\ 2 \notin D /\ 3 \in D
      BY <3>3
    <3>4. CASE 1 \notin D /\ 2 \notin D /\ 3 \notin D /\ 4 \in D
      BY <3>4
    <3>5. CASE 1 \notin D /\ 2 \notin D /\ 3 \notin D /\ 4 \notin D
      BY <3>5, <2>1
    <3> QED BY <3>1, <3>2, <3>3, <3>4, <3>5
  <2>3. \A j \in 1..6 : j < i => a[j] = b[j]
    BY <2>2
  <2>4. a[i] < b[i] \/ b[i] < a[i]
    BY <1>1
  <2> QED BY <1>1, <1>4, <2>3, <2>4 DEF LexLess
<1> QED BY <1>2, <1>3, <1>4

\* Sort keys are keys, and end with the identifier.
LEMMA SortKeyType ==
    ASSUME NEW r \in Reservations, NEW t \in Int
    PROVE  SortKey(r, t) \in Keys /\ SortKey(r, t)[6] = r.id
<1>1. /\ r.arrival \in Int /\ r.departure \in Int /\ r.id \in Int
      /\ r.checkin # NoTime => r.checkin.at \in Int
      /\ r.checkout # NoTime => r.checkout.at \in Int
  BY DEF Reservations, Moments
<1>2. Tier(r, t) \in {0, 1, 2}
  BY DEF Tier
<1>3. \A k \in {0, 1, 2} :
        /\ DayRank(r, k) \in Int
        /\ TimeRank(r, k)[1] \in Int /\ TimeRank(r, k)[2] \in Int
  BY <1>1 DEF DayRank, TimeRank, Dated
<1> DEFINE k == Tier(r, t)
           a == IF IsActive(r) THEN 0 ELSE 1
<1>4. SortKey(r, t) = <<a, k, DayRank(r, k), TimeRank(r, k)[1], TimeRank(r, k)[2], r.id>>
  BY DEF SortKey
<1>5. a \in Int /\ k \in Int /\ DayRank(r, k) \in Int
      /\ TimeRank(r, k)[1] \in Int /\ TimeRank(r, k)[2] \in Int
  BY <1>2, <1>3
<1> HIDE DEF a, k
<1> QED BY <1>1, <1>4, <1>5 DEF Keys

\* Every finite set has a first element under a strict order.
LEMMA FirstExists ==
    ASSUME NEW S, IsFiniteSet(S), S # {}, NEW R,
           \A x \in S : <<x, x>> \notin R,
           \A x, y, z \in S : <<x, y>> \in R /\ <<y, z>> \in R => <<x, z>> \in R
    PROVE  \E x \in S : \A y \in S : <<y, x>> \notin R
<1> DEFINE Before(x) == {y \in S : <<y, x>> \in R}
           T == {Before(x) : x \in S}
<1>1. PICK m \in T : \A n \in T : ~ (<<n, m>> \in StrictSubsetOrdering(S))
  <2>1. \A x \in S : Before(x) \in SUBSET S
    OBVIOUS
  <2>2. \A x \in S : IsFiniteSet(Before(x))
    BY <2>1, FS_Subset
  <2>3. T \subseteq FiniteSubsetsOf(S)
    <3>1. \A x \in S : Before(x) \in FiniteSubsetsOf(S)
      BY <2>1, <2>2 DEF FiniteSubsetsOf
    <3> QED BY <3>1
  <2>4. T # {}
    <3>1. PICK x \in S : TRUE
      OBVIOUS
    <3>2. Before(x) \in T
      BY <3>1
    <3> QED BY <3>2
  <2> HIDE DEF T
  <2>5. IsWellFoundedOn(StrictSubsetOrdering(S), FiniteSubsetsOf(S))
    BY FS_StrictSubsetOrderingWellFounded
  <2>6. \E m \in T : \A n \in T : ~ (<<n, m>> \in StrictSubsetOrdering(S))
    BY <2>3, <2>4, <2>5, WFMin
  <2> QED BY <2>6 DEF T
<1>2. PICK x \in S : m = Before(x)
  OBVIOUS
<1>3. ASSUME NEW y \in S, <<y, x>> \in R PROVE FALSE
  <2>1. Before(y) \subseteq Before(x) /\ y \in Before(x) /\ y \notin Before(y)
    BY <1>3
  <2>2. <<Before(y), m>> \in StrictSubsetOrdering(S)
    BY <1>2, <2>1 DEF StrictSubsetOrdering
  <2> QED BY <1>1, <2>2
<1> QED BY <1>3

\* A finite, consistent list of reservations has one first reservation,
\* whatever order it came in: there is a representative, and only one.
THEOREM RepresentativeExists ==
    ASSUME NEW S \in SUBSET Reservations, IsFiniteSet(S), S # {}, Consistent(S),
           NEW t \in Int
    PROVE  /\ Selected(S, t) \in S
           /\ \A s \in S \ {Selected(S, t)} : Precedes(Selected(S, t), s, t)
           /\ \A r \in S : (\A s \in S \ {r} : Precedes(r, s, t)) => r = Selected(S, t)
<1>1. \A r, s, q \in S : /\ ~ Precedes(r, r, t)
                         /\ Precedes(r, s, t) /\ Precedes(s, q, t) => Precedes(r, q, t)
                         /\ r = s \/ Precedes(r, s, t) \/ Precedes(s, r, t)
  <2> TAKE r, s, q \in S
  <2>1. \A x \in {r, s, q} : SortKey(x, t) \in Keys /\ SortKey(x, t)[6] = x.id
    BY SortKeyType
  <2>2. SortKey(r, t) = SortKey(s, t) => r = s
    BY <2>1 DEF Consistent
  <2> QED BY <2>1, <2>2, LexOrder DEF Precedes
<1> DEFINE R == {p \in S \X S : Precedes(p[1], p[2], t)}
<1>2. \A x, y \in S : <<x, y>> \in R <=> Precedes(x, y, t)
  OBVIOUS
<1> HIDE DEF R
<1>3. PICK r \in S : \A s \in S : <<s, r>> \notin R
  <2>1. \A x \in S : <<x, x>> \notin R
    BY <1>1, <1>2
  <2>2. \A x, y, z \in S : <<x, y>> \in R /\ <<y, z>> \in R => <<x, z>> \in R
    BY <1>1, <1>2
  <2> QED BY <2>1, <2>2, FirstExists
<1>4. \A s \in S \ {r} : Precedes(r, s, t)
  BY <1>1, <1>2, <1>3
<1>5. /\ Selected(S, t) \in S
      /\ \A s \in S \ {Selected(S, t)} : Precedes(Selected(S, t), s, t)
  BY <1>4 DEF Selected
<1>6. \A q \in S : (\A s \in S \ {q} : Precedes(q, s, t)) => q = Selected(S, t)
  BY <1>1, <1>5
<1> QED BY <1>5, <1>6

\* An active stay in progress, if no other is, represents the property.
LEMMA GuestRepresentsProperty ==
    ASSUME NEW S \in SUBSET Reservations, IsFiniteSet(S), Consistent(S),
           NEW t \in Int, \A s \in S : Regular(s),
           NEW r \in S, IsActive(r), InProgress(r, t),
           \A s \in S : IsActive(s) /\ InProgress(s, t) => s = r
    PROVE  Selected(S, t) = r
<1>1. Tier(r, t) = 0
  BY OccupiedIsInProgress DEF Tier
<1>2. ASSUME NEW s \in S \ {r} PROVE Precedes(r, s, t)
  <2>1. SortKey(r, t) \in Keys /\ SortKey(s, t) \in Keys
    BY SortKeyType
  <2>2. SortKey(r, t)[1] = 0 /\ SortKey(r, t)[2] = 0
    BY <1>1 DEF SortKey
  <2>3. CASE IsActive(s)
    <3>1. Tier(s, t) # 0
      BY <1>2, <2>3, OccupiedIsInProgress DEF Tier
    <3>2. SortKey(s, t)[1] = 0 /\ SortKey(s, t)[2] \in {1, 2}
      BY <2>3, <3>1 DEF SortKey, Tier
    <3> QED BY <2>1, <2>2, <3>2 DEF Precedes, LexLess, Keys
  <2>4. CASE ~ IsActive(s)
    <3>1. SortKey(s, t)[1] = 1
      BY <2>4 DEF SortKey
    <3> QED BY <2>1, <2>2, <3>1 DEF Precedes, LexLess, Keys
  <2> QED BY <2>3, <2>4
<1> QED BY <1>2, RepresentativeExists

-----------------------------------------------------------------------------
(* Finite sets                                                             *)

\* The image of a finite set under a function is finite.
LEMMA FiniteImage ==
    ASSUME NEW S, IsFiniteSet(S), NEW f
    PROVE  IsFiniteSet({f[x] : x \in S})
<1> DEFINE T == {f[x] : x \in S}
           g == [x \in S |-> f[x]]
<1>1. g \in Surjection(S, T)
  BY DEF Surjection
<1> HIDE DEF g, T
<1>2. IsFiniteSet(T)
  BY <1>1, FS_Surjection
<1> QED BY <1>2 DEF T

\* A finite, nonempty set of integers has a least element.
LEMMA LeastExists ==
    ASSUME NEW S \in SUBSET Int, IsFiniteSet(S), S # {}
    PROVE  \E x \in S : \A y \in S : x <= y
<1> DEFINE R == {p \in S \X S : p[1] < p[2]}
<1>1. \A x, y \in S : <<x, y>> \in R <=> x < y
  OBVIOUS
<1> HIDE DEF R
<1>2. \A x \in S : <<x, x>> \notin R
  BY <1>1
<1>3. \A x, y, z \in S : <<x, y>> \in R /\ <<y, z>> \in R => <<x, z>> \in R
  BY <1>1
<1>4. PICK x \in S : \A y \in S : <<y, x>> \notin R
  BY <1>2, <1>3, FirstExists
<1>5. ASSUME NEW y \in S PROVE x <= y
  <2>1. ~ (y < x)
    BY <1>1, <1>4
  <2>2. x \in Int /\ y \in Int
    OBVIOUS
  <2> QED BY <2>1, <2>2
<1> QED BY <1>5

\* What next_arrival and next_departure show is a moment or nothing.
LEMMA SoonestType ==
    ASSUME NEW M \in SUBSET (Moments \cup {NoTime}), IsFiniteSet(M), now \in Int
    PROVE  SoonestAhead(M) \in Int \cup {None}
<1> DEFINE A == {n \in M : Ahead(now, n)}
           f == [m \in A |-> m.at]
           ahead == {m.at : m \in A}
<1>1. A \subseteq Moments /\ IsFiniteSet(A)
  BY FS_Subset DEF Ahead
<1>2. \A m \in A : m.at \in Int
  BY <1>1 DEF Moments
<1>3. ahead = {f[m] : m \in A}
  OBVIOUS
<1>4. ahead \in SUBSET Int /\ IsFiniteSet(ahead)
  <2>1. ahead \in SUBSET Int
    BY <1>2
  <2> HIDE DEF f, ahead, A
  <2>2. IsFiniteSet({f[m] : m \in A})
    BY <1>1, FiniteImage
  <2> QED BY <1>3, <2>1, <2>2
<1>5. SoonestAhead(M) =
        IF ahead = {} THEN None ELSE CHOOSE t \in ahead : \A u \in ahead : t <= u
  BY DEF SoonestAhead
<1> HIDE DEF ahead, f, A
<1>6. ASSUME ahead # {}
      PROVE  (CHOOSE t \in ahead : \A u \in ahead : t <= u) \in Int
  <2>1. \E t \in ahead : \A u \in ahead : t <= u
    BY <1>4, <1>6, LeastExists
  <2> QED BY <1>4, <2>1
<1> QED BY <1>5, <1>6

-----------------------------------------------------------------------------
(* Types                                                                   *)

\* What the coordinator may hold.
LEMMA DataFacts ==
    ASSUME NEW S \in SUBSET Bookable
    PROVE  /\ S \in SUBSET Reservations /\ IsFiniteSet(S)
           /\ Cardinality(S) \in 0..Cardinality(Bookable)
<1>1. IsFiniteSet(Bookable) /\ Bookable \subseteq Reservations
  BY StaysAssumption
<1>2. IsFiniteSet(S) /\ Cardinality(S) <= Cardinality(Bookable)
  BY <1>1, FS_Subset
<1>3. Cardinality(S) \in Nat /\ Cardinality(Bookable) \in Nat
  BY <1>1, <1>2, FS_CardinalityType
<1> QED BY <1>1, <1>2, <1>3

\* TypeOK is inductive: Selected picks from the data, the warnings are of
\* known fields, and the counters count finite sets.
THEOREM TypeCorrect == Spec => []TypeOK
<1>1. Init => TypeOK
  <2> SUFFICES ASSUME Init PROVE TypeOK
    OBVIOUS
  <2>1. bookings \subseteq Bookable /\ Consistent(bookings) /\ data = bookings
    BY DEF Init
  <2>2. 0 \in 0..Cardinality(Bookable)
    BY DataFacts, {} \in SUBSET Bookable
  <2> QED BY <2>1, <2>2, StaysAssumption DEF Init, TypeOK, Blank, Writes
<1>2. TypeOK /\ [Next]_vars => TypeOK'
  <2> SUFFICES ASSUME TypeOK, [Next]_vars PROVE TypeOK'
    OBVIOUS
  <2>0. now \in Int /\ Len(Writes) = 5
    BY StaysAssumption DEF TypeOK, Writes
  <2>1. CASE WriteStatus
    <3>1. done' \in 0..Len(Writes)
      BY <2>0, <2>1 DEF WriteStatus, TypeOK
    <3>2. CASE data = {}
      <4>1. /\ shown' = [shown EXCEPT !.status = "no_reservation"]
            /\ stamp' = [at |-> now, stay |-> None]
            /\ UNCHANGED <<now, bookings, edits, data, warned, logs>>
        BY <2>1, <3>2 DEF WriteStatus
      <4>2. /\ DOMAIN shown' = DOMAIN Blank /\ shown'.stay = shown.stay
            /\ shown'.upcoming = shown.upcoming /\ shown'.arrival = shown.arrival
            /\ shown'.departure = shown.departure /\ shown'.count = shown.count
        BY <4>1 DEF TypeOK, Blank
      <4>3. stamp'.at = now /\ stamp'.stay = None
        BY <4>1
      <4> QED BY <2>0, <3>1, <4>1, <4>2, <4>3 DEF TypeOK
    <3>3. CASE data # {}
      <4> DEFINE r == Selected(data, now)
      <4>1. r \in data
        BY <2>0, <3>3, DataFacts, RepresentativeExists DEF TypeOK
      <4>2. NewWarnings(r) \subseteq DOMAIN logs
        <5>1. DegradedField(r, now) \in Fields \cup {None}
          BY DEF DegradedField, Fields
        <5>2. r.id \in {s.id : s \in Bookable}
          BY <4>1 DEF TypeOK
        <5> QED BY <5>1, <5>2 DEF NewWarnings, TypeOK
      <4>3. /\ shown' = [shown EXCEPT !.status = Status(r.category, Occupancy(r, now))]
            /\ stamp' = [at |-> now, stay |-> r]
            /\ warned' = warned \cup NewWarnings(r)
            /\ logs' = [k \in DOMAIN logs |->
                          IF k \in NewWarnings(r) THEN logs[k] + 1 ELSE logs[k]]
            /\ UNCHANGED <<now, bookings, edits, data>>
        BY <2>1, <3>3 DEF WriteStatus
      <4> HIDE DEF r
      <4>4. stamp'.at = now /\ stamp'.stay \in Bookable
        BY <4>1, <4>3 DEF TypeOK
      <4>5. logs' \in [{s.id : s \in Bookable} \X Fields -> Nat]
        BY <4>3 DEF TypeOK
      <4>6. warned' \subseteq DOMAIN logs'
        BY <4>2, <4>3 DEF TypeOK
      <4>7. /\ DOMAIN shown' = DOMAIN Blank /\ shown'.stay = shown.stay
            /\ shown'.upcoming = shown.upcoming /\ shown'.arrival = shown.arrival
            /\ shown'.departure = shown.departure /\ shown'.count = shown.count
        BY <4>3 DEF TypeOK, Blank
      <4> QED BY <2>0, <3>1, <4>3, <4>4, <4>5, <4>6, <4>7 DEF TypeOK
    <3> QED BY <3>2, <3>3
  <2>2. CASE WriteNext
    <3>1. done' \in 0..Len(Writes) /\ Writes[done + 1] \in {"attributes", "arrival", "departure", "count"}
      BY <2>0, <2>2 DEF WriteNext, TypeOK, Writes
    <3>2. \/ data = {}
          \/ Selected(data, now) \in data
      BY <2>0, DataFacts, RepresentativeExists DEF TypeOK
    <3>3. \A S : S \subseteq data => Forthcoming(S) \in SUBSET Bookable
      BY DEF Forthcoming, TypeOK
    <3>4. Cardinality(Forthcoming(data)) \in 0..Cardinality(Bookable)
      BY <3>3, DataFacts
    <3>5. /\ SoonestAhead({r.checkin : r \in Active(data)}) \in Int \cup {None}
          /\ SoonestAhead({r.checkout : r \in Active(data)}) \in Int \cup {None}
      <4> DEFINE A == Active(data)
                 f == [r \in A |-> r.checkin]
                 g == [r \in A |-> r.checkout]
      <4>1. A \in SUBSET Reservations /\ IsFiniteSet(A)
        BY DataFacts, FS_Subset DEF Active, TypeOK
      <4>2. \A r \in A : r.checkin \in Moments \cup {NoTime} /\ r.checkout \in Moments \cup {NoTime}
        BY <4>1 DEF Reservations
      <4>3. {r.checkin : r \in A} = {f[r] : r \in A} /\ {r.checkout : r \in A} = {g[r] : r \in A}
        OBVIOUS
      <4> HIDE DEF A, f, g
      <4>4. IsFiniteSet({f[r] : r \in A}) /\ IsFiniteSet({g[r] : r \in A})
        BY <4>1, FiniteImage
      <4>5. /\ {r.checkin : r \in A} \in SUBSET (Moments \cup {NoTime})
            /\ {r.checkout : r \in A} \in SUBSET (Moments \cup {NoTime})
        BY <4>2
      <4>6. /\ SoonestAhead({r.checkin : r \in A}) \in Int \cup {None}
            /\ SoonestAhead({r.checkout : r \in A}) \in Int \cup {None}
        BY <2>0, <4>3, <4>4, <4>5, SoonestType
      <4> QED BY <4>6 DEF A
    <3>6. /\ shown' = Rendered(Writes[done + 1])
          /\ UNCHANGED <<now, bookings, edits, data, warned, stamp, logs>>
      BY <2>2 DEF WriteNext
    <3>7. /\ DOMAIN shown' = DOMAIN Blank
          /\ shown'.stay \in Bookable \cup {None}
          /\ shown'.upcoming \subseteq Bookable
          /\ shown'.arrival \in Int \cup {None} /\ shown'.departure \in Int \cup {None}
          /\ shown'.count \in 0..Cardinality(Bookable)
      <4>1. CASE Writes[done + 1] = "attributes"
        BY <3>2, <3>3, <3>6, <4>1 DEF Rendered, TypeOK, Blank
      <4>2. CASE Writes[done + 1] = "arrival"
        BY <3>5, <3>6, <4>2 DEF Rendered, TypeOK, Blank
      <4>3. CASE Writes[done + 1] = "departure"
        BY <3>5, <3>6, <4>3 DEF Rendered, TypeOK, Blank
      <4>4. CASE Writes[done + 1] = "count"
        BY <3>4, <3>6, <4>4 DEF Rendered, TypeOK, Blank
      <4> QED BY <3>1, <4>1, <4>2, <4>3, <4>4
    <3> QED BY <3>1, <3>6, <3>7 DEF TypeOK
  <2>3. CASE Poll \/ Rewrite
    BY <2>0, <2>3 DEF Poll, Rewrite, TypeOK
  <2>4. CASE Reload
    BY <2>0, <2>4 DEF Reload, TypeOK
  <2>5. CASE Edit
    <3>1. bookings' \subseteq Bookable /\ Consistent(bookings')
      BY <2>5 DEF Edit, TypeOK, Consistent
    <3>2. edits' \in 0..MaxEdits
      BY <2>5, StaysAssumption DEF Edit, TypeOK
    <3> QED BY <2>5, <3>1, <3>2 DEF Edit, TypeOK
  <2>6. CASE Tick
    <3>1. now' \in 0..Horizon /\ stamp.at \in 0..now'
      BY <2>6, StaysAssumption DEF Tick, TypeOK
    <3> QED BY <2>6, <3>1 DEF Tick, TypeOK
  <2>7. CASE UNCHANGED vars
    BY <2>7 DEF vars, TypeOK
  <2> QED BY <2>1, <2>2, <2>3, <2>4, <2>5, <2>6, <2>7 DEF Next
<1> QED BY <1>1, <1>2, PTL DEF Spec

-----------------------------------------------------------------------------
(* What was written                                                        *)

\* Since the last poll the status is that of the stay selected at the moment
\* of the write, and a field that was missing then has been warned of.
StatusOfWrite ==
    StatusWritten =>
        IF data = {}
        THEN stamp.stay = None /\ shown.status = "no_reservation"
        ELSE LET r == Selected(data, stamp.at)
             IN  /\ stamp.stay = r
                 /\ shown.status = Status(r.category, Occupancy(r, stamp.at))
                 /\ DegradedField(r, stamp.at) # None =>
                       <<r.id, DegradedField(r, stamp.at)>> \in warned

\* _occupancy_warned holds exactly what has been logged, once each.
LoggedAreWarned == \A k \in DOMAIN logs : logs[k] = IF k \in warned THEN 1 ELSE 0

\* StatusOfWrite is inductive: data and stamp move together with the write,
\* and a poll makes the status unwritten.
LEMMA StatusOfWriteInvariant == Spec => []StatusOfWrite
<1>1. Init => StatusOfWrite
  BY DEF Init, StatusOfWrite, StatusWritten
<1>2. TypeOK /\ StatusOfWrite /\ [Next]_vars => StatusOfWrite'
  <2> SUFFICES ASSUME TypeOK, StatusOfWrite, [Next]_vars PROVE StatusOfWrite'
    OBVIOUS
  <2>1. CASE WriteStatus
    <3>1. DOMAIN shown = DOMAIN Blank
      BY DEF TypeOK
    <3>2. CASE data = {}
      <4>1. shown'.status = "no_reservation" /\ stamp'.stay = None /\ data' = {}
        BY <2>1, <3>1, <3>2 DEF WriteStatus, Blank
      <4> QED BY <4>1 DEF StatusOfWrite
    <3>3. CASE data # {}
      <4> DEFINE r == Selected(data, now)
      <4>1. /\ shown' = [shown EXCEPT !.status = Status(r.category, Occupancy(r, now))]
            /\ stamp' = [at |-> now, stay |-> r]
            /\ warned' = warned \cup NewWarnings(r)
            /\ data' = data
        BY <2>1, <3>3 DEF WriteStatus
      <4>2. DegradedField(r, now) # None =>
               <<r.id, DegradedField(r, now)>> \in warned \cup NewWarnings(r)
        BY DEF NewWarnings
      <4>3. stamp'.at = now /\ stamp'.stay = r /\ Selected(data', stamp'.at) = r
        BY <4>1
      <4> HIDE DEF r
      <4>4. shown'.status = Status(r.category, Occupancy(r, now))
        BY <3>1, <4>1 DEF Blank
      <4>5. /\ stamp'.stay = r
            /\ shown'.status = Status(r.category, Occupancy(r, stamp'.at))
            /\ DegradedField(r, stamp'.at) # None =>
                  <<r.id, DegradedField(r, stamp'.at)>> \in warned'
        BY <4>1, <4>2, <4>3, <4>4
      <4> QED BY <3>3, <4>1, <4>3, <4>5 DEF StatusOfWrite
    <3> QED BY <3>2, <3>3
  <2>2. CASE WriteNext
    <3>1. done \in 0..5 /\ DOMAIN shown = DOMAIN Blank
      BY DEF TypeOK, Writes
    <3>2. StatusWritten
      BY <2>2, <3>1 DEF WriteNext, Writes, StatusWritten
    <3>3. Rendered(Writes[done + 1]).status = shown.status
      <4>1. Writes[done + 1] \in {"attributes", "arrival", "departure", "count"}
        BY <2>2, <3>1 DEF WriteNext, Writes
      <4>2. CASE Writes[done + 1] = "attributes"
        BY <3>1, <4>2 DEF Rendered, Blank
      <4>3. CASE Writes[done + 1] = "arrival"
        BY <3>1, <4>3 DEF Rendered, Blank
      <4>4. CASE Writes[done + 1] = "departure"
        BY <3>1, <4>4 DEF Rendered, Blank
      <4>5. CASE Writes[done + 1] = "count"
        BY <3>1, <4>5 DEF Rendered, Blank
      <4> QED BY <4>1, <4>2, <4>3, <4>4, <4>5
    <3>4. shown'.status = shown.status /\ UNCHANGED <<data, stamp, warned>>
      BY <2>2, <3>3 DEF WriteNext
    <3> QED BY <3>2, <3>4 DEF StatusOfWrite
  <2>3. CASE Poll \/ Rewrite \/ Reload
    BY <2>3 DEF Poll, Rewrite, Reload, StatusOfWrite, StatusWritten
  <2>4. CASE Edit \/ Tick \/ UNCHANGED vars
    <3>1. UNCHANGED <<data, done, shown, stamp, warned>>
      BY <2>4 DEF Edit, Tick, vars
    <3> QED BY <3>1 DEF StatusOfWrite, StatusWritten
  <2> QED BY <2>1, <2>2, <2>3, <2>4 DEF Next
<1> QED BY <1>1, <1>2, TypeCorrect, PTL DEF Spec

\* LoggedAreWarned is inductive: only new warnings are logged and added, and
\* new sensors start with neither.
LEMMA LoggedAreWarnedInvariant == Spec => []LoggedAreWarned
<1>1. Init => LoggedAreWarned
  BY DEF Init, LoggedAreWarned
<1>2. TypeOK /\ LoggedAreWarned /\ [Next]_vars => LoggedAreWarned'
  <2> SUFFICES ASSUME TypeOK, LoggedAreWarned, [Next]_vars PROVE LoggedAreWarned'
    OBVIOUS
  <2>1. CASE WriteStatus
    <3>1. CASE data = {}
      BY <2>1, <3>1 DEF WriteStatus, LoggedAreWarned
    <3>2. CASE data # {}
      <4> DEFINE W == NewWarnings(Selected(data, now))
      <4>1. /\ warned' = warned \cup W
            /\ logs' = [k \in DOMAIN logs |-> IF k \in W THEN logs[k] + 1 ELSE logs[k]]
        BY <2>1, <3>2 DEF WriteStatus
      <4>2. \A k \in W : k \notin warned
        BY DEF NewWarnings
      <4> HIDE DEF W
      <4> QED BY <4>1, <4>2 DEF LoggedAreWarned
    <3> QED BY <3>1, <3>2
  <2>2. CASE Reload
    BY <2>2 DEF Reload, LoggedAreWarned
  <2>3. CASE WriteNext \/ Poll \/ Rewrite \/ Edit \/ Tick \/ UNCHANGED vars
    <3>1. UNCHANGED <<warned, logs>>
      BY <2>3 DEF WriteNext, Poll, Rewrite, Edit, Tick, vars
    <3> QED BY <3>1 DEF LoggedAreWarned
  <2> QED BY <2>1, <2>2, <2>3 DEF Next
<1> QED BY <1>1, <1>2, TypeCorrect, PTL DEF Spec

\* The status sensor says "occupied" exactly when an accepted stay was in
\* progress at the moment of the write, for any reservations and offsets.
THEOREM StatusTruthful == Spec => []StatusTellsOccupancy
<1>1. TypeOK /\ StatusOfWrite => StatusTellsOccupancy
  <2> DEFINE running == {r \in Active(data) : InProgress(r, stamp.at)}
  <2> SUFFICES ASSUME TypeOK, StatusOfWrite, StatusWritten,
                      Cardinality(running) <= 1, \A r \in data : Regular(r)
               PROVE  shown.status = "occupied" <=> \E r \in running : r.category = "accepted"
    BY DEF StatusTellsOccupancy
  <2>1. /\ data \in SUBSET Reservations /\ IsFiniteSet(data) /\ Consistent(data)
        /\ stamp.at \in Int
    BY DataFacts DEF TypeOK
  <2>2. \A r \in running : r \in data /\ IsActive(r) /\ InProgress(r, stamp.at)
    BY DEF Active
  <2>3. \A r, s \in running : r = s
    <3>1. IsFiniteSet(running)
      BY <2>1, <2>2, FS_Subset, running \subseteq data
    <3> HIDE DEF running
    <3>2. SUFFICES ASSUME NEW r \in running, NEW s \in running, r # s PROVE FALSE
      OBVIOUS
    <3>3. Cardinality({r, s}) <= Cardinality(running)
      BY <3>1, FS_Subset, {r, s} \subseteq running
    <3>4. Cardinality({r, s}) = 2
      <4>1. IsFiniteSet({r}) /\ Cardinality({r}) = 1
        BY FS_Singleton
      <4>2. Cardinality({r} \cup {s}) = Cardinality({r}) + 1
        BY <3>2, <4>1, FS_AddElement
      <4>3. {r, s} = {r} \cup {s}
        OBVIOUS
      <4> QED BY <4>1, <4>2, <4>3
    <3>5. Cardinality(running) \in Nat
      BY <3>1, FS_CardinalityType
    <3> QED BY <3>3, <3>4, <3>5
  <2>4. CASE data = {}
    <3>1. shown.status = "no_reservation"
      BY <2>4 DEF StatusOfWrite
    <3> QED BY <2>2, <2>4, <3>1
  <2>5. CASE data # {}
    <3> DEFINE q == Selected(data, stamp.at)
    <3>1. q \in data
      BY <2>1, <2>5, RepresentativeExists
    <3>2. shown.status = Status(q.category, Occupancy(q, stamp.at))
      BY <2>5 DEF StatusOfWrite
    <3>3. q \in running <=> IsActive(q) /\ InProgress(q, stamp.at)
      BY <3>1 DEF Active
    <3>4. \A r \in running : r = q
      <4>1. SUFFICES ASSUME NEW r \in running PROVE r = q
        OBVIOUS
      <4>2. r \in data /\ IsActive(r) /\ InProgress(r, stamp.at)
        BY <2>2
      <4>3. \A s \in data : IsActive(s) /\ InProgress(s, stamp.at) => s = r
        BY <2>3 DEF Active
      <4> HIDE DEF running, q
      <4>4. Selected(data, stamp.at) = r
        BY <2>1, <4>2, <4>3, GuestRepresentsProperty
      <4> QED BY <4>4 DEF q
    <3> HIDE DEF q, running
    <3>5. Occupancy(q, stamp.at) = "occupied" <=> InProgress(q, stamp.at)
      BY <2>1, <3>1, OccupiedIsInProgress
    <3>6. shown.status = "occupied" <=>
            q.category = "accepted" /\ Occupancy(q, stamp.at) = "occupied"
      BY <3>2 DEF Status, Fixed
    <3>7. q.category = "accepted" => IsActive(q)
      BY DEF IsActive, Inactive
    <3> QED BY <3>3, <3>4, <3>5, <3>6, <3>7
  <2> QED BY <2>4, <2>5
<1> QED BY <1>1, TypeCorrect, StatusOfWriteInvariant, PTL

\* An accepted stay that is shown as unknown has been warned of, and no
\* sensor warns of the same reservation and field twice.
THEOREM WarnedOnce == Spec => []DegradationLoggedOnce
<1>1. TypeOK /\ StatusOfWrite /\ LoggedAreWarned => DegradationLoggedOnce
  <2> SUFFICES ASSUME TypeOK, StatusOfWrite, LoggedAreWarned
               PROVE  DegradationLoggedOnce
    OBVIOUS
  <2>1. \A k \in DOMAIN logs : logs[k] <= 1
    BY DEF LoggedAreWarned
  <2>2. ASSUME StatusWritten, stamp.stay # None, shown.status = "unknown",
               stamp.stay.category = "accepted"
        PROVE  \E f \in Fields : logs[<<stamp.stay.id, f>>] = 1
    <3> DEFINE r == stamp.stay
               f == DegradedField(r, stamp.at)
    <3>1. /\ shown.status = Status(r.category, Occupancy(r, stamp.at))
          /\ f # None => <<r.id, f>> \in warned
      BY <2>2 DEF StatusOfWrite
    <3>2. Occupancy(r, stamp.at) = "unknown"
      BY <2>2, <3>1 DEF Status
    <3>3. f # None
      BY <3>2 DEF Occupancy
    <3>4. f \in Fields
      BY <3>3 DEF DegradedField, Fields
    <3> QED BY <3>1, <3>3, <3>4 DEF LoggedAreWarned, TypeOK
  <2> QED BY <2>1, <2>2 DEF DegradationLoggedOnce
<1> QED BY <1>1, TypeCorrect, StatusOfWriteInvariant, LoggedAreWarnedInvariant, PTL

\* As time passes the occupancy of a regular stay never goes back, whatever
\* scheduled times are missing and whatever the offsets are.
THEOREM NoStayGoesBack == Spec => OccupancyMovesForward
<1>1. TypeOK /\ [Next]_vars =>
        [\A r \in data : Regular(r) => Stage(r, now) <= Stage(r, now')]_vars
  <2> SUFFICES ASSUME TypeOK, Next, NEW r \in data, Regular(r)
               PROVE  Stage(r, now) <= Stage(r, now')
    OBVIOUS
  <2>1. now \in Int /\ r \in Reservations
    BY StaysAssumption DEF TypeOK
  <2>2. now' \in Int /\ now <= now'
    BY <2>1 DEF Next, WriteStatus, WriteNext, Poll, Rewrite, Reload, Edit, Tick
  <2> QED BY <2>1, <2>2, StagesGoForward
<1> QED BY <1>1, TypeCorrect, PTL DEF Spec, OccupancyMovesForward

-----------------------------------------------------------------------------
(* Entities that are written one after the other                           *)

\* A stay that is still to come was to come before.
LEMMA ForthcomingBefore ==
    ASSUME NEW r \in Reservations, NEW t \in Int, NEW u \in Int, t <= u,
           IsForthcoming(r, u)
    PROVE  IsForthcoming(r, t)
<1>1. CASE r.checkin # NoTime
  <2>1. r.checkin.at \in Int /\ r.checkin.at > u
    BY <1>1 DEF IsForthcoming, Reservations, Moments
  <2> QED BY <1>1, <2>1 DEF IsForthcoming
<1>2. CASE r.checkin = NoTime
  <2>1. r.arrival \in Int /\ r.arrival > Today(r, u)
    BY <1>2 DEF IsForthcoming, Reservations
  <2>2. Today(r, t) \in Int /\ Today(r, u) \in Int /\ Today(r, t) <= Today(r, u)
    BY DaysGoForward
  <2> QED BY <1>2, <2>1, <2>2 DEF IsForthcoming
<1> QED BY <1>1, <1>2

\* The soonest moment that lies ahead is one of them, and none of them is sooner.
LEMMA SoonestIsFirst ==
    ASSUME NEW M \in SUBSET (Moments \cup {NoTime}), IsFiniteSet(M), now \in Int,
           NEW n \in M, Ahead(now, n)
    PROVE  /\ \E m \in M : Ahead(now, m) /\ SoonestAhead(M) = m.at
           /\ \A m \in M : Ahead(now, m) => SoonestAhead(M) <= m.at
<1> DEFINE A == {m \in M : Ahead(now, m)}
           f == [m \in A |-> m.at]
           ahead == {m.at : m \in A}
<1>1. A \subseteq Moments /\ IsFiniteSet(A)
  BY FS_Subset DEF Ahead
<1>2. \A m \in A : m.at \in Int
  BY <1>1 DEF Moments
<1>3. ahead = {f[m] : m \in A} /\ ahead # {}
  OBVIOUS
<1>4. ahead \in SUBSET Int /\ IsFiniteSet(ahead)
  <2>1. ahead \in SUBSET Int
    BY <1>2
  <2> HIDE DEF f, ahead, A
  <2>2. IsFiniteSet({f[m] : m \in A})
    BY <1>1, FiniteImage
  <2> QED BY <1>3, <2>1, <2>2
<1>5. SoonestAhead(M) = CHOOSE t \in ahead : \A u \in ahead : t <= u
  BY <1>3 DEF SoonestAhead
<1>6. SoonestAhead(M) \in ahead /\ \A u \in ahead : SoonestAhead(M) <= u
  <2> HIDE DEF f, ahead, A
  <2>1. \E t \in ahead : \A u \in ahead : t <= u
    BY <1>3, <1>4, LeastExists
  <2> QED BY <1>5, <2>1
<1> QED BY <1>6

\* With nothing ahead, nothing is shown.
LEMMA NothingAhead ==
    ASSUME NEW M, \A m \in M : ~ Ahead(now, m)
    PROVE  SoonestAhead(M) = None
<1>1. {m.at : m \in {n \in M : Ahead(now, n)}} = {}
  OBVIOUS
<1> QED BY <1>1 DEF SoonestAhead

\* Once the attributes are written, what is to come is listed or represented.
ListedOfWrite ==
    done >= 2 => Forthcoming(data) \subseteq shown.upcoming \cup {shown.stay}

\* Once next_arrival is written, it shows an active stay's check-in, which lay
\* ahead when the status was written, and none that still lies ahead is sooner.
ArrivalOfWrite ==
    done >= 3 =>
        /\ shown.arrival # None =>
              \E s \in Active(data) : s.checkin # NoTime /\ s.checkin.at = shown.arrival
        /\ \A r \in Active(data) : Ahead(now, r.checkin) =>
              /\ shown.arrival <= r.checkin.at
              /\ \E s \in Active(data) :
                    Ahead(stamp.at, s.checkin) /\ s.checkin.at = shown.arrival

EntitiesOfWrite == ListedOfWrite /\ ArrivalOfWrite /\ ForthcomingAddsUp

\* What the clock leaves of the forthcoming stays was there before.
LEMMA ForthcomingShrinks ==
    ASSUME TypeOK, now' \in Int, now <= now', data' = data
    PROVE  Forthcoming(data)' \subseteq Forthcoming(data)
<1>1. now \in Int /\ data \subseteq Reservations
  BY DataFacts, StaysAssumption DEF TypeOK
<1>2. ASSUME NEW r \in data, IsForthcoming(r, now') PROVE IsForthcoming(r, now)
  BY <1>1, <1>2, ForthcomingBefore
<1> QED BY <1>2 DEF Forthcoming


\* EntitiesOfWrite is inductive: each write is made of the same data as those
\* before it, at a moment that is no earlier.
LEMMA EntitiesOfWriteInvariant == Spec => []EntitiesOfWrite
<1>1. Init => EntitiesOfWrite
  BY DEF Init, EntitiesOfWrite, ListedOfWrite, ArrivalOfWrite, ForthcomingAddsUp,
         AllWritten, Writes
<1>2. TypeOK /\ EntitiesOfWrite /\ [Next]_vars => EntitiesOfWrite'
  <2> SUFFICES ASSUME TypeOK, EntitiesOfWrite, [Next]_vars PROVE EntitiesOfWrite'
    OBVIOUS
  <2>0. /\ now \in Int /\ done \in 0..5 /\ Len(Writes) = 5 /\ DOMAIN shown = DOMAIN Blank
        /\ data \in SUBSET Bookable /\ data \in SUBSET Reservations /\ IsFiniteSet(data)
        /\ shown.arrival \in Int \cup {None} /\ stamp.at \in Int /\ stamp.at <= now
    BY DataFacts, StaysAssumption DEF TypeOK, Writes
  <2>1. CASE WriteStatus
    <3>1. done' = 1
      BY <2>0, <2>1 DEF WriteStatus, Writes
    <3> QED BY <3>1 DEF EntitiesOfWrite, ListedOfWrite, ArrivalOfWrite, ForthcomingAddsUp,
                        AllWritten, Writes
  <2>2. CASE Poll \/ Rewrite \/ Reload
    <3>1. done' = 0
      BY <2>2 DEF Poll, Rewrite, Reload
    <3> QED BY <3>1 DEF EntitiesOfWrite, ListedOfWrite, ArrivalOfWrite, ForthcomingAddsUp,
                        AllWritten, Writes
  <2>3. CASE Edit \/ UNCHANGED vars
    <3>1. UNCHANGED <<now, data, done, shown, stamp>>
      BY <2>3 DEF Edit, vars
    <3> QED BY <3>1 DEF EntitiesOfWrite, ListedOfWrite, ArrivalOfWrite, ForthcomingAddsUp,
                        AllWritten, Forthcoming, Active
  <2>4. CASE Tick
    <3>1. now' = now + 1 /\ UNCHANGED <<data, done, shown, stamp>>
      BY <2>4 DEF Tick
    <3>2. ListedOfWrite'
      <4>1. Forthcoming(data)' \subseteq Forthcoming(data)
        BY <2>0, <3>1, ForthcomingShrinks
      <4> QED BY <3>1, <4>1 DEF EntitiesOfWrite, ListedOfWrite
    <3>3. ArrivalOfWrite'
      <4>1. \A r \in Active(data) : Ahead(now', r.checkin) => Ahead(now, r.checkin)
        <5> SUFFICES ASSUME NEW r \in Active(data), Ahead(now', r.checkin)
                     PROVE  Ahead(now, r.checkin)
          OBVIOUS
        <5>1. r.checkin # NoTime /\ r.checkin.at \in Int
          BY <2>0 DEF Ahead, Active, Reservations, Moments
        <5> QED BY <2>0, <3>1, <5>1 DEF Ahead
      <4>2. Active(data)' = Active(data)
        BY <3>1 DEF Active
      <4> QED BY <3>1, <4>1, <4>2 DEF EntitiesOfWrite, ArrivalOfWrite
    <3>4. ForthcomingAddsUp'
      BY <2>0, <3>1 DEF EntitiesOfWrite, ForthcomingAddsUp, AllWritten
    <3> QED BY <3>2, <3>3, <3>4 DEF EntitiesOfWrite
  <2>5. CASE WriteNext
    <3>1. /\ done' = done + 1 /\ shown' = Rendered(Writes[done + 1])
          /\ UNCHANGED <<now, data, stamp>> /\ done \in 1..4
      BY <2>0, <2>5 DEF WriteNext, Writes
    <3>2. Active(data)' = Active(data) /\ Forthcoming(data)' = Forthcoming(data)
      BY <3>1 DEF Active, Forthcoming
    <3>3. CASE done = 1
      <4>1. shown' = Rendered("attributes")
        BY <3>1, <3>3 DEF Writes
      <4>2. Forthcoming(data) \subseteq shown'.upcoming \cup {shown'.stay}
        <5>1. CASE data = {}
          BY <5>1 DEF Forthcoming
        <5>2. CASE data # {}
          <6>1. /\ shown'.stay = Selected(data, now)
                /\ shown'.upcoming = Forthcoming(data \ {Selected(data, now)})
            BY <2>0, <4>1, <5>2 DEF Rendered, Blank
          <6> QED BY <6>1 DEF Forthcoming
        <5> QED BY <5>1, <5>2
      <4> QED BY <2>0, <3>1, <3>2, <3>3, <4>2
              DEF EntitiesOfWrite, ListedOfWrite, ArrivalOfWrite, ForthcomingAddsUp, AllWritten
    <3>4. CASE done = 2
      <4> DEFINE M == {r.checkin : r \in Active(data)}
      <4>1. shown' = [shown EXCEPT !.arrival = SoonestAhead(M)]
        BY <3>1, <3>4 DEF Writes, Rendered
      <4>2. M \in SUBSET (Moments \cup {NoTime}) /\ IsFiniteSet(M)
        <5> DEFINE B == Active(data)
                   f == [r \in B |-> r.checkin]
        <5>1. B \in SUBSET Reservations /\ IsFiniteSet(B)
          BY <2>0, FS_Subset DEF Active
        <5>2. M = {f[r] : r \in B}
          OBVIOUS
        <5>3. M \in SUBSET (Moments \cup {NoTime})
          BY <5>1 DEF Reservations
        <5> HIDE DEF B, f
        <5>4. IsFiniteSet({f[r] : r \in B})
          BY <5>1, FiniteImage
        <5> HIDE DEF M
        <5> QED BY <5>2, <5>3, <5>4
      <4>3. ListedOfWrite'
        <5>1. shown'.upcoming = shown.upcoming /\ shown'.stay = shown.stay
          BY <2>0, <4>1 DEF Blank
        <5> QED BY <3>1, <3>2, <3>4, <5>1 DEF EntitiesOfWrite, ListedOfWrite
      <4>4. shown'.arrival = SoonestAhead(M)
        BY <2>0, <4>1 DEF Blank
      <4>5. ArrivalOfWrite'
        <5>1. CASE \A m \in M : ~ Ahead(now, m)
          <6>1. shown'.arrival = None
            BY <4>4, <5>1, NothingAhead
          <6>2. \A r \in Active(data) : ~ Ahead(now, r.checkin)
            BY <5>1
          <6> QED BY <3>1, <3>2, <6>1, <6>2 DEF ArrivalOfWrite
        <5>2. CASE \E m \in M : Ahead(now, m)
          <6>1. PICK n \in M : Ahead(now, n)
            BY <5>2
          <6>2. /\ \E m \in M : Ahead(now, m) /\ SoonestAhead(M) = m.at
                /\ \A m \in M : Ahead(now, m) => SoonestAhead(M) <= m.at
            <7> HIDE DEF M
            <7> QED BY <2>0, <4>2, <6>1, SoonestIsFirst
          <6>3. PICK s \in Active(data) : Ahead(now, s.checkin) /\ SoonestAhead(M) = s.checkin.at
            BY <6>2
          <6>4. Ahead(stamp.at, s.checkin) /\ s.checkin # NoTime
            <7>1. s.checkin # NoTime /\ s.checkin.at \in Int
              BY <2>0, <6>3 DEF Ahead, Active, Reservations, Moments
            <7> QED BY <2>0, <6>3, <7>1 DEF Ahead
          <6>5. \A r \in Active(data) : Ahead(now, r.checkin) => SoonestAhead(M) <= r.checkin.at
            BY <6>2
          <6> HIDE DEF M
          <6> QED BY <3>1, <3>2, <4>4, <6>3, <6>4, <6>5 DEF ArrivalOfWrite
        <5> QED BY <5>1, <5>2
      <4> QED BY <2>0, <3>1, <3>4, <4>3, <4>5 DEF EntitiesOfWrite, ForthcomingAddsUp, AllWritten
    <3>5. CASE done = 3
      <4>1. shown' = Rendered("departure")
        BY <3>1, <3>5 DEF Writes
      <4>2. /\ shown'.upcoming = shown.upcoming /\ shown'.stay = shown.stay
            /\ shown'.arrival = shown.arrival
        BY <2>0, <4>1 DEF Rendered, Blank
      <4> QED BY <2>0, <3>1, <3>2, <3>5, <4>2
              DEF EntitiesOfWrite, ListedOfWrite, ArrivalOfWrite, ForthcomingAddsUp, AllWritten
    <3>6. CASE done = 4
      <4>1. shown' = Rendered("count")
        BY <3>1, <3>6 DEF Writes
      <4>2. /\ shown'.upcoming = shown.upcoming /\ shown'.stay = shown.stay
            /\ shown'.arrival = shown.arrival /\ shown'.count = Cardinality(Forthcoming(data))
        BY <2>0, <4>1 DEF Rendered, Blank
      <4>3. ListedOfWrite' /\ ArrivalOfWrite'
        BY <2>0, <3>1, <3>2, <3>6, <4>2 DEF EntitiesOfWrite, ListedOfWrite, ArrivalOfWrite
      <4>4. Forthcoming(data) \subseteq shown.upcoming \cup {shown.stay}
        BY <3>6 DEF EntitiesOfWrite, ListedOfWrite
      <4>5. IsFiniteSet(shown.upcoming)
        BY FS_Subset, StaysAssumption DEF TypeOK
      <4>6. Cardinality(Forthcoming(data)) <= Cardinality(shown.upcoming) + 1
        <5> DEFINE U == shown.upcoming
                   V == U \cup {shown.stay}
        <5>1. IsFiniteSet(V) /\ Cardinality(V) <= Cardinality(U) + 1
          <6> HIDE DEF U
          <6>1. IsFiniteSet(U) /\ Cardinality(U) \in Nat
            BY <4>5, FS_CardinalityType DEF U
          <6> QED BY <6>1, FS_AddElement
        <5>2. Cardinality(Forthcoming(data)) <= Cardinality(V)
          BY <4>4, <5>1, FS_Subset
        <5>3. /\ Cardinality(U) \in Nat /\ Cardinality(V) \in Nat
              /\ Cardinality(Forthcoming(data)) \in Nat
          BY <4>4, <4>5, <5>1, FS_Subset, FS_CardinalityType
        <5> HIDE DEF U, V
        <5> QED BY <5>1, <5>2, <5>3 DEF U
      <4>7. ASSUME shown.arrival # None, shown.arrival > now
            PROVE  Cardinality(Forthcoming(data)) > 0
        <5>1. PICK s \in Active(data) : s.checkin # NoTime /\ s.checkin.at = shown.arrival
          BY <3>6, <4>7 DEF EntitiesOfWrite, ArrivalOfWrite
        <5>2. s \in Forthcoming(data)
          BY <4>7, <5>1 DEF Forthcoming, Active, IsForthcoming
        <5>3. IsFiniteSet(Forthcoming(data))
          BY <2>0, FS_Subset DEF Forthcoming
        <5>4. Cardinality(Forthcoming(data)) \in Nat /\ Cardinality(Forthcoming(data)) # 0
          BY <5>2, <5>3, FS_CardinalityType, FS_EmptySet
        <5> QED BY <5>4
      <4>8. ForthcomingAddsUp'
        BY <3>1, <4>2, <4>6, <4>7 DEF ForthcomingAddsUp
      <4> QED BY <4>3, <4>8 DEF EntitiesOfWrite
    <3> QED BY <3>1, <3>3, <3>4, <3>5, <3>6
  <2> QED BY <2>1, <2>2, <2>3, <2>4, <2>5 DEF Next
<1> QED BY <1>1, <1>2, TypeCorrect, PTL DEF Spec

\* A shown arrival that still lies ahead is counted, and the count is at most one
\* more than the stays listed, however much time passes between the writes of these
\* entities (sensor/property.py:125).
THEOREM EntitiesAddUp == Spec => []ForthcomingAddsUp
<1>1. EntitiesOfWrite => ForthcomingAddsUp
  BY DEF EntitiesOfWrite
<1> QED BY <1>1, EntitiesOfWriteInvariant, PTL

-----------------------------------------------------------------------------
(* Stays that follow each other                                            *)

\* The tier of a regular stay is its stage.
LEMMA TierOfStage ==
    ASSUME NEW r \in Reservations, NEW t \in Int, Regular(r)
    PROVE  /\ Stage(r, t) \in 0..4
           /\ Tier(r, t) = IF Stage(r, t) = 2 THEN 0 ELSE IF Stage(r, t) < 2 THEN 1 ELSE 2
<1> DEFINE d == Today(r, t)
<1>1. d \in Int /\ r.arrival \in Int /\ r.departure \in Int /\ r.arrival < r.departure
  BY DaysGoForward, t <= t DEF Reservations, Regular
<1>2. /\ r.checkin # NoTime =>
            /\ r.checkin.at \in Int
            /\ r.checkin.at <= t => r.arrival <= d
            /\ t <= r.checkin.at => d <= r.arrival
      /\ r.checkout # NoTime =>
            /\ r.checkout.at \in Int
            /\ r.checkout.at <= t => r.departure <= d
            /\ t <= r.checkout.at => d <= r.departure
  BY DaysGoForward DEF Reservations, Moments, Regular
<1>3. Stage(r, t) = StageOnDay(r, t, d)
  BY StageByDay
<1>4. Occupancy(r, t) = "occupied" <=> InProgress(r, t)
  BY OccupiedIsInProgress
<1>5. InProgress(r, t) <=>
        /\ IF r.checkin # NoTime THEN r.checkin.at <= t ELSE r.arrival < d
        /\ IF r.checkout # NoTime THEN t < r.checkout.at ELSE d < r.departure
  BY DEF InProgress
<1>6. Tier(r, t) = IF InProgress(r, t) THEN 0 ELSE IF r.arrival >= d THEN 1 ELSE 2
  BY <1>4 DEF Tier
<1> HIDE DEF d
<1>7. StageOnDay(r, t, d) \in 0..4
  BY <1>1, <1>2 DEF StageOnDay
<1>8. InProgress(r, t) <=> StageOnDay(r, t, d) = 2
  BY <1>1, <1>2, <1>5 DEF StageOnDay
<1>9. ~ InProgress(r, t) => (r.arrival >= d <=> StageOnDay(r, t, d) < 2)
  BY <1>1, <1>2, <1>5 DEF StageOnDay
<1> QED BY <1>3, <1>6, <1>7, <1>8, <1>9

\* Which of two active stays precedes the other, by their tiers.
LEMMA ActivePrecedes ==
    ASSUME NEW r \in Reservations, NEW s \in Reservations, NEW t \in Int,
           IsActive(r), IsActive(s), Precedes(r, s, t)
    PROVE  /\ Tier(r, t) <= Tier(s, t)
           /\ Tier(r, t) = Tier(s, t) => DayRank(r, Tier(r, t)) <= DayRank(s, Tier(r, t))
           /\ Tier(r, t) = 0 /\ Tier(s, t) = 0 => r.id < s.id
<1> DEFINE a == SortKey(r, t)
           b == SortKey(s, t)
<1>1. a \in Keys /\ b \in Keys /\ a[6] = r.id /\ b[6] = s.id
  BY SortKeyType
<1>2. /\ a[1] = 0 /\ a[2] = Tier(r, t) /\ a[3] = DayRank(r, Tier(r, t))
      /\ a[4] = TimeRank(r, Tier(r, t))[1] /\ a[5] = TimeRank(r, Tier(r, t))[2]
  BY DEF SortKey
<1>3. /\ b[1] = 0 /\ b[2] = Tier(s, t) /\ b[3] = DayRank(s, Tier(s, t))
      /\ b[4] = TimeRank(s, Tier(s, t))[1] /\ b[5] = TimeRank(s, Tier(s, t))[2]
  BY DEF SortKey
<1>4. ASSUME Tier(r, t) = 0, Tier(s, t) = 0
      PROVE  a[3] = b[3] /\ a[4] = b[4] /\ a[5] = b[5]
  BY <1>2, <1>3, <1>4 DEF DayRank, TimeRank
<1> HIDE DEF a, b
<1>5. PICK i \in 1..6 : a[i] < b[i] /\ \A j \in 1..6 : j < i => a[j] = b[j]
  BY <1>1 DEF Precedes, LexLess, Keys, a, b
<1>6. a[2] <= b[2] /\ (a[2] = b[2] => a[3] <= b[3])
  BY <1>1, <1>2, <1>3, <1>5 DEF Keys
<1>7. a[1] = b[1] /\ a[2] = b[2] /\ a[3] = b[3] /\ a[4] = b[4] /\ a[5] = b[5] => a[6] < b[6]
  BY <1>1, <1>5 DEF Keys
<1> QED BY <1>1, <1>2, <1>3, <1>4, <1>6, <1>7

\* As long as a property has active stays, one of them represents it.
LEMMA RepresentativeActive ==
    ASSUME NEW S \in SUBSET Reservations, IsFiniteSet(S), Consistent(S), Active(S) # {},
           NEW t \in Int
    PROVE  Selected(S, t) \in Active(S)
<1> DEFINE q == Selected(S, t)
<1>1. q \in S /\ \A s \in S \ {q} : Precedes(q, s, t)
  BY RepresentativeExists DEF Active
<1> HIDE DEF q
<1>2. SUFFICES ASSUME ~ IsActive(q) PROVE FALSE
  BY <1>1 DEF Active, q
<1>3. PICK s \in S : IsActive(s)
  BY DEF Active
<1>4. Precedes(q, s, t)
  BY <1>1, <1>2, <1>3
<1>5. SortKey(q, t)[1] = 1 /\ SortKey(s, t)[1] = 0
  BY <1>2, <1>3 DEF SortKey
<1>6. SortKey(q, t) \in Keys /\ SortKey(s, t) \in Keys
  BY <1>1, SortKeyType
<1> QED BY <1>4, <1>5, <1>6 DEF Precedes, LexLess, Keys

\* A later stay that represents the property is not given up for an earlier one.
LEMMA SelectionGoesForward ==
    ASSUME NEW S \in SUBSET Reservations, IsFiniteSet(S), Consistent(S), Active(S) # {},
           Sequenced(S), NEW t \in Int, NEW u \in Int, t <= u, InStep(S, t), InStep(S, u)
    PROVE  Selected(S, t).arrival <= Selected(S, u).arrival
<1> DEFINE r == Selected(S, t)
           s == Selected(S, u)
<1>1. r \in Active(S) /\ s \in Active(S)
  BY RepresentativeActive
<1>2. /\ r # s => Precedes(r, s, t)
      /\ r # s => Precedes(s, r, u)
  BY <1>1, RepresentativeExists DEF Active
<1> HIDE DEF r, s
<1>3. SUFFICES ASSUME s.arrival < r.arrival PROVE FALSE
  BY <1>1 DEF r, s, Active, Reservations
<1>4. /\ r \in Reservations /\ s \in Reservations /\ Regular(r) /\ Regular(s)
      /\ IsActive(r) /\ IsActive(s) /\ r # s
      /\ r.id \in Int /\ s.id \in Int
      /\ r.arrival \in Int /\ r.departure \in Int /\ s.arrival \in Int /\ s.departure \in Int
  BY <1>1, <1>3 DEF Active, Sequenced, Reservations
<1>5. s.departure < r.departure
  BY <1>1, <1>3, <1>4 DEF Sequenced, Regular
<1>6. Stage(r, t) <= Stage(s, t) /\ Stage(r, u) <= Stage(s, u)
  BY <1>1, <1>3 DEF InStep
<1>7. Stage(r, t) <= Stage(r, u) /\ Stage(s, t) <= Stage(s, u)
  BY <1>4, StagesGoForward
<1>8. \A x \in {r, s}, v \in {t, u} :
         /\ Stage(x, v) \in 0..4
         /\ Tier(x, v) = IF Stage(x, v) = 2 THEN 0 ELSE IF Stage(x, v) < 2 THEN 1 ELSE 2
  BY <1>4, TierOfStage
<1>9. /\ Tier(r, t) <= Tier(s, t)
      /\ Tier(r, t) = Tier(s, t) => DayRank(r, Tier(r, t)) <= DayRank(s, Tier(r, t))
      /\ Tier(r, t) = 0 /\ Tier(s, t) = 0 => r.id < s.id
  BY <1>2, <1>4, ActivePrecedes
<1>10. /\ Tier(s, u) <= Tier(r, u)
       /\ Tier(s, u) = Tier(r, u) => DayRank(s, Tier(s, u)) <= DayRank(r, Tier(s, u))
       /\ Tier(s, u) = 0 /\ Tier(r, u) = 0 => s.id < r.id
  BY <1>2, <1>4, ActivePrecedes
<1>11. /\ DayRank(r, 1) = r.arrival /\ DayRank(s, 1) = s.arrival
       /\ DayRank(r, 2) = - r.departure /\ DayRank(s, 2) = - s.departure
  BY DEF DayRank
<1>12. CASE Stage(r, t) = 2
  BY <1>4, <1>5, <1>6, <1>7, <1>8, <1>9, <1>10, <1>11, <1>12
<1>13. CASE Stage(r, t) < 2
  BY <1>3, <1>4, <1>5, <1>6, <1>7, <1>8, <1>9, <1>10, <1>11, <1>13
<1>14. CASE Stage(r, t) > 2
  BY <1>4, <1>5, <1>6, <1>7, <1>8, <1>9, <1>10, <1>11, <1>14
<1> QED BY <1>8, <1>12, <1>13, <1>14

\* With the same data the representative moves on to later stays only, for any
\* reservations and offsets that keep the stays in step.
THEOREM RepresentativeMovesOn == Spec => SelectionMovesForward
<1>1. TypeOK /\ [Next]_vars =>
        [/\ data' = data /\ Active(data) # {} /\ Sequenced(data)
         /\ InStep(data, now) /\ InStep(data, now')
         => Selected(data, now).arrival <= Selected(data, now').arrival]_vars
  <2> SUFFICES ASSUME TypeOK, Next, Active(data) # {}, Sequenced(data),
                      InStep(data, now), InStep(data, now')
               PROVE  Selected(data, now).arrival <= Selected(data, now').arrival
    OBVIOUS
  <2>1. now \in Int /\ data \in SUBSET Reservations /\ IsFiniteSet(data) /\ Consistent(data)
    BY DataFacts, StaysAssumption DEF TypeOK
  <2>2. now' \in Int /\ now <= now'
    BY <2>1 DEF Next, WriteStatus, WriteNext, Poll, Rewrite, Reload, Edit, Tick
  <2> QED BY <2>1, <2>2, SelectionGoesForward
<1> QED BY <1>1, TypeCorrect, PTL DEF Spec, SelectionMovesForward

\* A regular stay has not begun until its check-in moment, where that is known.
LEMMA BeginsAtCheckIn ==
    ASSUME NEW r \in Reservations, NEW t \in Int, Regular(r), r.checkin # NoTime
    PROVE  r.checkin.at \in Int /\ (Stage(r, t) = 0 <=> t < r.checkin.at)
<1> DEFINE d == Today(r, t)
<1>1. d \in Int /\ r.arrival \in Int /\ r.departure \in Int /\ r.arrival < r.departure
  BY DaysGoForward, t <= t DEF Reservations, Regular
<1>2. /\ r.checkin.at \in Int
      /\ r.checkin.at <= t => r.arrival <= d
      /\ t <= r.checkin.at => d <= r.arrival
  BY DaysGoForward DEF Reservations, Moments, Regular
<1>3. Stage(r, t) = StageOnDay(r, t, d)
  BY StageByDay
<1> HIDE DEF d
<1> QED BY <1>1, <1>2, <1>3 DEF StageOnDay

\* The guest whom the status awaits is the next arrival, although the two are
\* written at different moments and ranked by different keys.
THEOREM AwaitedArrives == Spec => []AwaitedStayArrivesNext
<1>1. TypeOK /\ StatusOfWrite /\ EntitiesOfWrite => AwaitedStayArrivesNext
  <2> DEFINE r == stamp.stay
             t == stamp.at
  <2> SUFFICES ASSUME TypeOK, StatusOfWrite, EntitiesOfWrite, AllWritten,
                      Sequenced(data), r # None,
                      \A q \in Active(data) : q.checkin # NoTime => InStep(data, q.checkin.at),
                      shown.status = "awaiting_checkin", r.checkin # NoTime,
                      ~ (r.checkin.at <= now)
               PROVE  shown.arrival = r.checkin.at
    BY DEF AwaitedStayArrivesNext
  <2>1. /\ data \in SUBSET Reservations /\ IsFiniteSet(data) /\ Consistent(data)
        /\ now \in Int /\ t \in Int /\ t <= now /\ done = 5
    BY DataFacts, StaysAssumption DEF TypeOK, AllWritten, Writes
  <2>2. /\ data # {} /\ r = Selected(data, t)
        /\ shown.status = Status(r.category, Occupancy(r, t))
    BY <2>1 DEF StatusOfWrite, StatusWritten
  <2>3. Occupancy(r, t) = "awaiting_checkin" /\ IsActive(r)
    BY <2>2 DEF Status, Fixed, IsActive, Inactive
  <2>4. r \in Active(data) /\ r \in Reservations /\ Regular(r)
    BY <2>1, <2>2, <2>3, RepresentativeExists DEF Active, Sequenced
  <2>5. \A q \in data \ {r} : Precedes(r, q, t)
    BY <2>1, <2>2, RepresentativeExists
  <2> HIDE DEF r, t
  <2>6. r.checkin.at \in Int /\ Ahead(now, r.checkin)
    BY <2>1, <2>4 DEF Ahead, Reservations, Moments
  <2>7. PICK s \in Active(data) : /\ shown.arrival <= r.checkin.at
                                  /\ Ahead(t, s.checkin) /\ s.checkin.at = shown.arrival
    BY <2>1, <2>4, <2>6 DEF EntitiesOfWrite, ArrivalOfWrite, t
  <2>8. CASE s = r
    BY <2>7, <2>8
  <2>9. CASE s # r
    <3>1. /\ s \in Reservations /\ s \in data /\ Regular(s) /\ IsActive(s)
          /\ s.checkin # NoTime /\ s.arrival \in Int /\ r.arrival \in Int
          /\ r.departure \in Int /\ s.departure \in Int
      BY <2>1, <2>4, <2>7 DEF Active, Sequenced, Ahead, Reservations
    <3>2. Stage(r, t) = 0 /\ Stage(s, t) = 0
      <4>1. t < r.checkin.at /\ t < s.checkin.at
        BY <2>1, <2>6, <2>7 DEF Ahead
      <4> QED BY <2>1, <2>4, <3>1, <4>1, BeginsAtCheckIn
    <3>3. Tier(r, t) = 1 /\ Tier(s, t) = 1
      BY <2>1, <2>4, <3>1, <3>2, TierOfStage
    <3>4. r.arrival <= s.arrival
      <4>1. Precedes(r, s, t)
        BY <2>5, <2>9, <3>1
      <4> QED BY <2>1, <2>3, <2>4, <3>1, <3>3, <4>1, ActivePrecedes DEF DayRank
    <3>5. r.arrival < s.arrival
      BY <2>4, <2>7, <2>9, <3>1, <3>4 DEF Sequenced, Regular
    <3>6. Stage(s, s.checkin.at) <= Stage(r, s.checkin.at)
      BY <2>4, <2>7, <3>1, <3>5 DEF InStep
    <3>7. s.checkin.at \in Int /\ Stage(s, s.checkin.at) # 0
      <4>1. s.checkin.at \in Int
        BY <3>1 DEF Reservations, Moments
      <4> QED BY <3>1, <4>1, BeginsAtCheckIn
    <3>8. Stage(s, s.checkin.at) \in 0..4 /\ Stage(r, s.checkin.at) \in 0..4
      BY <2>4, <3>1, <3>7, TierOfStage
    <3>9. Stage(r, s.checkin.at) # 0
      BY <3>6, <3>7, <3>8
    <3>10. ~ (s.checkin.at < r.checkin.at)
      BY <2>4, <3>7, <3>9, BeginsAtCheckIn
    <3> QED BY <2>6, <2>7, <3>7, <3>10
  <2> QED BY <2>8, <2>9
<1> QED BY <1>1, TypeCorrect, StatusOfWriteInvariant, EntitiesOfWriteInvariant, PTL

\* The stays of a property that are all read in one offset are in step, whatever
\* moments are missing: the premise of SelectionMovesForward and
\* AwaitedStayArrivesNext fails only where offsets differ.
THEOREM OneOffsetInStep ==
    ASSUME NEW S \in SUBSET Reservations, Sequenced(S), NEW t \in Int,
           \A r, s \in Active(S) : Zone(r) = Zone(s)
    PROVE  InStep(S, t)
<1> SUFFICES ASSUME NEW r \in Active(S), NEW s \in Active(S), r.arrival < s.arrival
             PROVE  Stage(s, t) <= Stage(r, t)
  BY DEF InStep
<1> DEFINE d == Today(r, t)
<1>1. /\ r \in Reservations /\ s \in Reservations /\ Regular(r) /\ Regular(s)
  BY DEF Active, Sequenced
<1>2. /\ r.arrival \in Int /\ r.departure \in Int /\ r.arrival < r.departure
      /\ s.arrival \in Int /\ s.departure \in Int /\ s.arrival < s.departure
  BY <1>1 DEF Reservations, Regular
<1>3. r # s /\ r.departure <= s.arrival
  BY <1>1, <1>2 DEF Sequenced
<1>4. d \in Int /\ Today(s, t) = d
  <2>1. d \in Int
    BY <1>1, DaysGoForward, t <= t
  <2> QED BY <2>1 DEF Today
<1>5. Stage(r, t) = StageOnDay(r, t, d) /\ Stage(s, t) = StageOnDay(s, t, d)
  BY <1>1, <1>4, StageByDay
<1> HIDE DEF d
<1> QED BY <1>2, <1>3, <1>4, <1>5 DEF StageOnDay

=============================================================================
