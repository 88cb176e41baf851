---------------------------- MODULE SensorsProofs ----------------------------
(***************************************************************************)
(* Whatever the tasks, the calendars, the clock and the ways in which an   *)
(* answer may fall short.                                                  *)
(***************************************************************************)
EXTENDS Sensors, TLAPS, FiniteSetTheorems, SequenceTheorems, FunctionTheorems,
        WellFoundedInduction

-----------------------------------------------------------------------------
(* The inductive invariant                                                 *)

Numbers ==
    /\ now \in 0..MaxNow /\ changes \in 0..MaxChanges
    /\ held = [c \in Coordinators |-> held[c]]
    /\ failures \in [Coordinators -> 0..MAX_CONSECUTIVE_FAILURES]
    /\ last_success \in [Coordinators -> BOOLEAN]

Upstream ==
    /\ upstream = [list |-> upstream.list, tables |-> upstream.tables,
                   calendar |-> upstream.calendar]
    /\ upstream.list \in Seq(Tasks) /\ IsInjective(upstream.list)
    /\ upstream.tables \in Vocabularies /\ upstream.calendar \in Calendars

\* What the payload model makes of the first n tasks of a list, and of them all.
FirstParsed(list, tables, n) == [i \in 1..n |-> HospitableTask(list[i], tables)]
Parsed(list, tables) == FirstParsed(list, tables, Len(list))

\* A read that was not disturbed has got the pages before the one it asks for.
ReadSoFar(cycle) ==
    LET list == cycle.source.list
        page == cycle.reader.page
    IN  /\ cycle.source = [list |-> Listed(upstream.list, cycle.today), tables |-> upstream.tables]
        /\ (page - 1) * PER_PAGE_MAX <= Len(list)
        /\ cycle.reader.got = FirstParsed(list, cycle.source.tables,
                                           (page - 1) * PER_PAGE_MAX)

\* What was read is all of one answer to the whole read, and nothing else.
Whole(tasks, source) ==
    source # Disturbed =>
        /\ source.list \in Seq(Tasks) /\ source.tables \in Vocabularies
        /\ tasks = Parsed(source.list, source.tables)

TasksReader(page, got) ==
    [batches |-> << <<"property">> >>, page |-> page, got |-> got, error |-> "none"]

Pages == 1..(Cardinality(Tasks) \div PER_PAGE_MAX + 1)

TasksReading(cycle) ==
    /\ cycle = [stage |-> "reading", today |-> cycle.today, reader |-> cycle.reader,
                source |-> cycle.source]
    /\ cycle.today \in Int
    /\ cycle.reader = TasksReader(cycle.reader.page, cycle.reader.got)
    /\ cycle.reader.page \in Pages
    /\ cycle.source # Disturbed => ReadSoFar(cycle)

TasksCycle ==
    \/ tasks_cycle = Idle
    \/ TasksReading(tasks_cycle)
    \/ /\ tasks_cycle.stage = "read"
       /\ tasks_cycle.reader.error = "none" =>
             Whole(tasks_cycle.reader.got, tasks_cycle.source)

OfCalendar(read) ==
    read.complete =>
        /\ read.source \in Calendars
        /\ \E t \in 0..MaxNow : read.first = Day(t)
        /\ read.days = [d \in read.first..(read.first + LOOKAHEAD) |->
                           HospitableCalendarDay(read.source[d])]

CalendarCycle ==
    \/ calendar_cycle = Idle
    \/ calendar_cycle.stage = "reading" /\ \E t \in 0..MaxNow : calendar_cycle.today = Day(t)
    \/ calendar_cycle.stage = "read" /\ (calendar_cycle.ok => OfCalendar(calendar_cycle.read))

Held ==
    /\ held.tasks # None => Whole(held.tasks.tasks, held.tasks.source)
    /\ held.calendar # None => OfCalendar(held.calendar)

\* What the entities show is made of what is held, as of when they were written.
NextTaskOf(tasks, written, detailed) ==
    LET task == NextTask(tasks, written)
        detail == NextTask(tasks, detailed)
    IN  [state |-> IF task = None THEN None ELSE task.task_type_label,
         task_id |-> IF detail = None THEN None ELSE detail.task_id,
         service_type |-> IF detail = None THEN None ELSE detail.service_type_label,
         written |-> written, detailed |-> detailed]

AvailabilityOf(days, written, detailed) ==
    LET day == Today(days, written)
        detail == Today(days, detailed)
    IN  [state |-> IF day = None THEN None ELSE day.availability,
         nightly_rate |-> IF detail = None THEN None
                          ELSE MinorUnits(detail.price, detail.currency),
         written |-> written, detailed |-> detailed]

Instants(shown_) ==
    /\ shown_.written \in 0..MaxNow /\ shown_.detailed \in 0..MaxNow
    /\ shown_.written <= shown_.detailed /\ shown_.detailed <= now

Shown ==
    /\ next_task # Unavailable =>
          /\ Instants(next_task) /\ held.tasks # None
          /\ next_task = NextTaskOf(held.tasks.tasks, next_task.written, next_task.detailed)
          /\ task_count = [state |-> Len(held.tasks.tasks),
                           buckets |-> [b \in DOMAIN Statuses |-> Bucket(held.tasks.tasks, b)]]
    /\ availability # Unavailable =>
          /\ Instants(availability) /\ held.calendar # None
          /\ availability = AvailabilityOf(held.calendar.days, availability.written,
                                           availability.detailed)

SensorsInv ==
    /\ Numbers /\ Upstream /\ TasksCycle /\ CalendarCycle /\ Held /\ Shown

-----------------------------------------------------------------------------
(* Lists and pages                                                         *)

\* The places are finitely many, and ranks grow from one to the next.
LEMMA RankGrows ==
    ASSUME NEW S, NEW list \in Seq(S), NEW wanted
    PROVE  LET places == Places(list, wanted) IN
           /\ places \in SUBSET (1..Len(list)) /\ Len(list) \in Nat
           /\ IsFiniteSet(places)
           /\ Cardinality(places) \in 0..Len(list)
           /\ \A i \in places : Rank(list, wanted, i) \in 1..Cardinality(places)
           /\ \A i, j \in places : i < j => Rank(list, wanted, i) < Rank(list, wanted, j)
<1> DEFINE places == Places(list, wanted)
           UpTo(i) == {j \in places : j <= i}
<1>1. places \in SUBSET (1..Len(list)) /\ Len(list) \in Nat
  BY LenProperties DEF Places
<1>2. IsFiniteSet(1..Len(list)) /\ Cardinality(1..Len(list)) = Len(list)
  <2>1. 1 \in Int /\ Len(list) \in Int
    BY <1>1
  <2>2. Cardinality(1..Len(list)) = IF 1 > Len(list) THEN 0 ELSE Len(list) - 1 + 1
    BY <2>1, FS_Interval
  <2> QED BY <1>1, <2>1, <2>2, FS_Interval
<1>3. IsFiniteSet(places) /\ Cardinality(places) <= Len(list)
  BY <1>1, <1>2, FS_Subset
<1>4. Cardinality(places) \in Nat
  BY <1>3, FS_CardinalityType
<1>5. ASSUME NEW i PROVE IsFiniteSet(UpTo(i)) /\ Cardinality(UpTo(i)) \in Nat
                         /\ Cardinality(UpTo(i)) <= Cardinality(places)
  <2>1. UpTo(i) \in SUBSET places
    OBVIOUS
  <2> QED BY <1>3, <2>1, FS_Subset, FS_CardinalityType
<1>6. ASSUME NEW i \in places, NEW j \in places, i < j
      PROVE  Cardinality(UpTo(i)) < Cardinality(UpTo(j))
  <2>1. UpTo(i) \in SUBSET UpTo(j) /\ UpTo(j) # UpTo(i)
    <3>1. i \in Int /\ j \in Int
      BY <1>1
    <3>2. \A k \in places : k \in Int
      BY <1>1
    <3>3. j \in UpTo(j) /\ j \notin UpTo(i)
      BY <1>6, <3>1
    <3>4. ASSUME NEW k \in UpTo(i) PROVE k \in UpTo(j)
      <4>1. k \in places /\ k <= i /\ k \in Int
        BY <3>2
      <4> QED BY <4>1, <1>6, <3>1
    <3> QED BY <3>3, <3>4
  <2>2. Cardinality(UpTo(i)) <= Cardinality(UpTo(j)) /\ Cardinality(UpTo(i)) # Cardinality(UpTo(j))
    <3> HIDE DEF UpTo
    <3> QED BY <2>1, <1>5, FS_Subset
  <2> HIDE DEF UpTo
  <2> QED BY <2>2, <1>5
<1>7. ASSUME NEW i \in places PROVE Cardinality(UpTo(i)) >= 1
  <2>1. i \in UpTo(i)
    BY <1>1
  <2>2. Cardinality(UpTo(i)) # 0
    <3> HIDE DEF UpTo
    <3> QED BY <2>1, <1>5, FS_EmptySet
  <2> HIDE DEF UpTo
  <2> QED BY <2>2, <1>5
<1>8. \A i : Rank(list, wanted, i) = Cardinality(UpTo(i))
  BY DEF Rank
<1> HIDE DEF UpTo
<1> QED BY <1>1, <1>3, <1>4, <1>5, <1>6, <1>7, <1>8

\* Kept has each of the items that are wanted, at the rank of its place.
LEMMA KeptByRank ==
    ASSUME NEW S, NEW list \in Seq(S), NEW wanted
    PROVE  LET places == Places(list, wanted)
               kept == Kept(list, wanted)
           IN  /\ Len(kept) = Cardinality(places)
               /\ kept \in Seq(S)
               /\ \A i \in places : /\ Rank(list, wanted, i) \in 1..Len(kept)
                                    /\ kept[Rank(list, wanted, i)] = list[i]
               /\ \A k \in 1..Len(kept) :
                     \E i \in places : Rank(list, wanted, i) = k /\ kept[k] = list[i]
<1> DEFINE places == Places(list, wanted)
           kept == Kept(list, wanted)
           n == Cardinality(places)
           rank == [i \in places |-> Rank(list, wanted, i)]
           Nth(k) == CHOOSE i \in places : Rank(list, wanted, i) = k
<1>1. /\ places \in SUBSET (1..Len(list)) /\ Len(list) \in Nat
      /\ IsFiniteSet(places) /\ n \in Nat
      /\ \A i \in places : Rank(list, wanted, i) \in 1..n
      /\ \A i, j \in places : i < j => Rank(list, wanted, i) < Rank(list, wanted, j)
  BY RankGrows
<1>2. \A i, j \in places : Rank(list, wanted, i) = Rank(list, wanted, j) => i = j
  <2> SUFFICES ASSUME NEW i \in places, NEW j \in places, i # j
               PROVE  Rank(list, wanted, i) # Rank(list, wanted, j)
    OBVIOUS
  <2>1. i \in Int /\ j \in Int
    BY <1>1
  <2>2. i < j \/ j < i
    BY <2>1
  <2>3. Rank(list, wanted, i) \in Int /\ Rank(list, wanted, j) \in Int
    BY <1>1
  <2> QED BY <1>1, <2>2, <2>3
<1>3. rank \in Injection(places, 1..n)
  <2> HIDE DEF places
  <2>1. rank \in [places -> 1..n]
    BY <1>1
  <2>2. \A i, j \in places : rank[i] = rank[j] => i = j
    BY <1>2
  <2> QED BY <2>1, <2>2, Fun_IsInj
<1>4. rank \in Surjection(places, 1..n)
  <2>1. IsFiniteSet(1..n) /\ Cardinality(1..n) = n
    BY <1>1, FS_Interval
  <2> QED BY <1>3, <2>1, FS_Injection
<1>5. \A k \in 1..n : \E i \in places : Rank(list, wanted, i) = k
  <2> HIDE DEF places
  <2>1. \A k \in 1..n : \E i \in places : rank[i] = k
    BY <1>4 DEF Surjection
  <2> QED BY <2>1
<1>6. kept = [k \in 1..n |-> list[Nth(k)]]
  BY DEF Kept
<1>7. \A k \in 1..n : Nth(k) \in places /\ Rank(list, wanted, Nth(k)) = k
  <2> HIDE DEF places
  <2> QED BY <1>5
<1>8. \A i \in places : Nth(Rank(list, wanted, i)) = i
  BY <1>1, <1>2, <1>7
<1> HIDE DEF places, Nth, kept
<1>9. \A i \in 1..Len(list) : list[i] \in S
  BY ElementOfSeq
<1>10. /\ kept \in [1..n -> S] /\ n \in Nat
       /\ \A k \in 1..n : kept[k] = list[Nth(k)]
  BY <1>1, <1>6, <1>7, <1>9
<1>11. kept \in Seq(S) /\ Len(kept) = n
  <2>1. kept \in Seq(S)
    BY <1>10, SeqDef
  <2>2. DOMAIN kept = 1..n /\ DOMAIN kept = 1..Len(kept) /\ Len(kept) \in Nat
    BY <2>1, <1>10, LenProperties
  <2> QED BY <2>1, <2>2, <1>10
<1>12. kept = Kept(list, wanted) /\ places = Places(list, wanted)
  BY DEF kept, places
<1> QED BY <1>1, <1>7, <1>8, <1>10, <1>11, <1>12

\* What a quotient is, and that multiples grow.
LEMMA Quotient ==
    ASSUME NEW n \in Nat, NEW b \in Nat \ {0}
    PROVE  /\ n \div b \in Nat
           /\ (n \div b) * b <= n /\ n < (n \div b) * b + b
  OBVIOUS

LEMMA Times ==
    ASSUME NEW a \in Int, NEW c \in Int, NEW b \in Nat, a <= c
    PROVE  a * b \in Int /\ c * b \in Int /\ a * b <= c * b /\ (a + 1) * b = a * b + b
  OBVIOUS

LEMMA QuotientGrows ==
    ASSUME NEW m \in Nat, NEW n \in Nat, m <= n, NEW b \in Nat \ {0}
    PROVE  m \div b <= n \div b
<1>1. /\ m \div b \in Nat /\ (m \div b) * b <= m
      /\ n \div b \in Nat /\ n < (n \div b) * b + b
  BY Quotient
<1> SUFFICES ASSUME n \div b + 1 <= m \div b PROVE FALSE
  BY <1>1
<1>2. (n \div b + 1) * b <= (m \div b) * b /\ (n \div b + 1) * b = (n \div b) * b + b
  BY <1>1, Times
<1> QED BY <1>1, <1>2, Times

\* Up to the last page of n items, at b a page, every page is full but that one.
LEMMA LastPage ==
    ASSUME NEW n \in Nat, NEW p \in Int, NEW b \in Nat \ {0}
    PROVE  LET last == (n + b - 1) \div b IN
           /\ last \in Nat /\ last <= n \div b + 1
           /\ p >= last => p * b >= n
           /\ p < last => p * b < n
<1> DEFINE last == (n + b - 1) \div b
<1>1. last \in Nat /\ last * b <= n + b - 1 /\ n - 1 < last * b
  BY Quotient
<1>2. n \div b \in Nat /\ n < (n \div b) * b + b
  BY Quotient
<1> HIDE DEF last
<1>3. p >= last => p * b >= n
  BY <1>1, Times
<1>4. p < last => p * b < n
  <2>1. p < last => (p + 1) * b <= last * b
    BY <1>1, Times
  <2> QED BY <2>1, <1>1, Times
<1>5. last <= n \div b + 1
  <2> SUFFICES ASSUME n \div b + 2 <= last PROVE FALSE
    BY <1>1, <1>2
  <2>1. (n \div b + 2) * b <= last * b
    BY <1>1, <1>2, Times
  <2>2. (n \div b + 2) * b = (n \div b) * b + b + b
    BY <1>2
  <2>3. (n \div b) * b \in Int /\ last * b \in Int
    BY <1>1, <1>2
  <2> QED BY <2>1, <2>2, <2>3, <1>1, <1>2
<1> QED BY <1>1, <1>3, <1>4, <1>5 DEF last

\* Of a list without repetitions, what is kept has none.
LEMMA KeptInjective ==
    ASSUME NEW S, NEW list \in Seq(S), NEW wanted, IsInjective(list)
    PROVE  /\ IsInjective(Kept(list, wanted))
           /\ Len(Kept(list, wanted)) <= Len(list)
<1> DEFINE places == Places(list, wanted)
           kept == Kept(list, wanted)
<1>1. /\ Len(kept) = Cardinality(places) /\ kept \in Seq(S)
      /\ \A k \in 1..Len(kept) :
            \E i \in places : Rank(list, wanted, i) = k /\ kept[k] = list[i]
  BY KeptByRank
<1>2. places \subseteq DOMAIN list /\ Cardinality(places) <= Len(list)
  <2>1. /\ places \in SUBSET (1..Len(list)) /\ Len(list) \in Nat
        /\ Cardinality(places) \in 0..Len(list)
    BY RankGrows
  <2>2. DOMAIN list = 1..Len(list)
    BY LenProperties
  <2> HIDE DEF places
  <2> QED BY <2>1, <2>2
<1>3. DOMAIN kept = 1..Len(kept)
  BY <1>1, LenProperties
<1> HIDE DEF kept, places
<1>4. ASSUME NEW a \in DOMAIN kept, NEW b \in DOMAIN kept, kept[a] = kept[b] PROVE a = b
  <2>1. PICK i \in places : Rank(list, wanted, i) = a /\ kept[a] = list[i]
    BY <1>1, <1>3
  <2>2. PICK j \in places : Rank(list, wanted, j) = b /\ kept[b] = list[j]
    BY <1>1, <1>3
  <2>3. i = j
    BY <2>1, <2>2, <1>2, <1>4 DEF IsInjective
  <2> QED BY <2>1, <2>2, <2>3
<1>5. IsInjective(kept) /\ Len(kept) <= Len(list)
  BY <1>1, <1>2, <1>4 DEF IsInjective
<1> QED BY <1>5 DEF kept

\* A list of tasks without repetitions has no more than there are tasks.
LEMMA ListIsShort ==
    ASSUME NEW list \in Seq(Tasks), IsInjective(list)
    PROVE  Len(list) <= Cardinality(Tasks) /\ Len(list) \in Nat /\ Cardinality(Tasks) \in Nat
<1>1. IsFiniteSet(Tasks) /\ Cardinality(Tasks) \in Nat
  BY SensorsAssumption, FS_CardinalityType
<1>2. list \in [1..Len(list) -> Tasks] /\ Len(list) \in Nat /\ DOMAIN list = 1..Len(list)
  BY LenProperties
<1>3. list \in Injection(1..Len(list), Tasks)
  BY <1>2, Fun_IsInj DEF IsInjective
<1>4. Cardinality(1..Len(list)) <= Cardinality(Tasks)
  BY <1>1, <1>3, FS_Injection
<1>5. Cardinality(1..Len(list)) = Len(list)
  <2>1. 1 \in Int /\ Len(list) \in Int
    BY <1>2
  <2>2. Cardinality(1..Len(list)) = IF 1 > Len(list) THEN 0 ELSE Len(list) - 1 + 1
    BY <2>1, FS_Interval
  <2> QED BY <1>2, <2>2
<1> QED BY <1>1, <1>2, <1>4, <1>5

\* A page has the items that follow those of the pages before it.
LEMMA PageHas ==
    ASSUME NEW S, NEW list \in Seq(S), NEW page \in Nat \ {0},
           PER_PAGE_MAX \in Nat \ {0}, (page - 1) * PER_PAGE_MAX <= Len(list)
    PROVE  LET before == (page - 1) * PER_PAGE_MAX
               end == IF page * PER_PAGE_MAX < Len(list) THEN page * PER_PAGE_MAX
                      ELSE Len(list)
               items == PageOf(list, page).items
               last == PageOf(list, page).last_page
           IN  /\ before \in Nat /\ end \in Nat /\ before <= end /\ end <= Len(list)
               /\ page * PER_PAGE_MAX = before + PER_PAGE_MAX
               /\ items \in Seq(S) /\ Len(items) = end - before
               /\ \A i \in 1..Len(items) : items[i] = list[before + i]
               /\ last \in Nat /\ last <= Len(list) \div PER_PAGE_MAX + 1
               /\ page >= last => end = Len(list)
               /\ page < last => end = page * PER_PAGE_MAX
<1> DEFINE before == (page - 1) * PER_PAGE_MAX
           end == IF page * PER_PAGE_MAX < Len(list) THEN page * PER_PAGE_MAX ELSE Len(list)
           items == PageOf(list, page).items
           last == PageOf(list, page).last_page
<1>1. Len(list) \in Nat
  BY LenProperties
<1>2. /\ page - 1 \in Int /\ PER_PAGE_MAX \in Nat /\ before \in Int
      /\ page * PER_PAGE_MAX = before + PER_PAGE_MAX
  <2>1. page - 1 \in Int /\ PER_PAGE_MAX \in Nat /\ page - 1 <= page - 1
    OBVIOUS
  <2>2. (page - 1) * PER_PAGE_MAX \in Int
        /\ ((page - 1) + 1) * PER_PAGE_MAX = (page - 1) * PER_PAGE_MAX + PER_PAGE_MAX
    BY <2>1, Times
  <2>3. (page - 1) + 1 = page
    OBVIOUS
  <2> QED BY <2>1, <2>2, <2>3
<1>3. before \in Nat
  <2>1. 0 * PER_PAGE_MAX <= (page - 1) * PER_PAGE_MAX
    BY <1>2, Times
  <2> QED BY <1>2, <2>1
<1>4. end \in Nat /\ before <= end /\ end <= Len(list)
  <2> HIDE DEF before
  <2> QED BY <1>1, <1>2, <1>3 DEF before
<1>5. items = SubSeq(list, before + 1, end)
  BY DEF PageOf
<1> HIDE DEF before, end, items
<1>6. /\ items \in Seq(S) /\ Len(items) = end - before
      /\ \A i \in 1..Len(items) : items[i] = list[before + i]
  <2>1. \A i \in before + 1 .. end : list[i] \in S
    BY <1>1, <1>3, <1>4, ElementOfSeq
  <2>2. before + 1 \in Int /\ end \in Int
    BY <1>3, <1>4
  <2>3. /\ items \in Seq(S)
        /\ Len(items) = IF before + 1 <= end THEN end - (before + 1) + 1 ELSE 0
        /\ \A i \in 1..(end - (before + 1) + 1) : items[i] = list[(before + 1) + i - 1]
    BY <1>5, <2>1, <2>2, SubSeqProperties
  <2> QED BY <1>3, <1>4, <2>3
<1>7. /\ last \in Nat /\ last <= Len(list) \div PER_PAGE_MAX + 1
      /\ page >= last => page * PER_PAGE_MAX >= Len(list)
      /\ page < last => page * PER_PAGE_MAX < Len(list)
  <2>1. CASE list = << >>
    <3>1. last = 1 /\ Len(list) = 0
      BY <2>1, EmptySeq DEF PageOf
    <3>2. 0 \div PER_PAGE_MAX \in Nat
      BY Quotient
    <3> QED BY <1>2, <1>3, <3>1, <3>2
  <2>2. CASE list # << >>
    <3>1. last = (Len(list) + PER_PAGE_MAX - 1) \div PER_PAGE_MAX
      BY <2>2 DEF PageOf
    <3>2. page \in Int
      OBVIOUS
    <3> HIDE DEF last
    <3> QED BY <1>1, <3>1, <3>2, LastPage
  <2> QED BY <2>1, <2>2
<1>8. /\ page >= last => end = Len(list)
      /\ page < last => end = page * PER_PAGE_MAX
  BY <1>1, <1>2, <1>3, <1>7 DEF end
<1>9. items = PageOf(list, page).items
  BY DEF items
<1> QED BY <1>2, <1>3, <1>4, <1>6, <1>7, <1>8, <1>9 DEF before, end

\* A function on 1..n is a sequence of n elements.
LEMMA FunctionIsSeq ==
    ASSUME NEW R, NEW n \in Nat, NEW f \in [1..n -> R]
    PROVE  f \in Seq(R) /\ Len(f) = n
<1>1. f \in Seq(R)
  BY SeqDef
<1>2. DOMAIN f = 1..n /\ DOMAIN f = 1..Len(f) /\ Len(f) \in Nat
  BY <1>1, LenProperties
<1> QED BY <1>1, <1>2

\* What was parsed of the pages so far, with one page more.
LEMMA ParsedPages ==
    ASSUME NEW list \in Seq(Tasks), NEW tables, NEW before \in Nat, NEW items \in Seq(Tasks),
           before + Len(items) <= Len(list),
           \A i \in 1..Len(items) : items[i] = list[before + i]
    PROVE  FirstParsed(list, tables, before) \o Parsed(items, tables)
             = FirstParsed(list, tables, before + Len(items))
<1> DEFINE got == FirstParsed(list, tables, before)
           new == Parsed(items, tables)
           R == {HospitableTask(t, tables) : t \in Tasks}
           n == Len(items)
           all == FirstParsed(list, tables, before + n)
<1>1. /\ n \in Nat /\ DOMAIN items = 1..n
      /\ Len(list) \in Nat
      /\ \A i \in 1..n : items[i] \in Tasks
      /\ \A i \in 1..Len(list) : list[i] \in Tasks
  BY LenProperties, ElementOfSeq
<1>3. \A t \in Tasks : HospitableTask(t, tables) \in R
  OBVIOUS
<1> HIDE DEF R
<1>4. got \in [1..before -> R] /\ new \in [1..n -> R] /\ all \in [1..(before + n) -> R]
  <2>1. \A i \in 1..before : list[i] \in Tasks
    BY <1>1
  <2>2. \A i \in 1..(before + n) : list[i] \in Tasks
    BY <1>1
  <2> QED BY <1>1, <1>3, <2>1, <2>2 DEF FirstParsed, Parsed
<1>5. /\ got \in Seq(R) /\ Len(got) = before
      /\ new \in Seq(R) /\ Len(new) = n
      /\ all \in Seq(R) /\ Len(all) = before + n
  <2>1. before + n \in Nat
    BY <1>1
  <2> HIDE DEF all, n, got, new
  <2> QED BY <1>1, <1>4, <2>1, FunctionIsSeq
<1>6. /\ got \o new \in Seq(R) /\ Len(got \o new) = before + n
      /\ \A i \in 1..(before + n) :
            (got \o new)[i] = IF i <= before THEN got[i] ELSE new[i - before]
  <2> HIDE DEF n, got, new, all
  <2>1. /\ got \o new \in Seq(R) /\ Len(got \o new) = Len(got) + Len(new)
        /\ \A i \in 1..(Len(got) + Len(new)) :
              (got \o new)[i] = IF i <= Len(got) THEN got[i] ELSE new[i - Len(got)]
    BY <1>5, ConcatProperties
  <2> QED BY <1>5, <2>1
<1>7. ASSUME NEW i \in 1..(before + n) PROVE (got \o new)[i] = all[i]
  <2>1. all[i] = HospitableTask(list[i], tables)
    BY DEF FirstParsed
  <2>2. CASE i <= before
    <3>1. got[i] = HospitableTask(list[i], tables)
      BY <1>1, <2>2 DEF FirstParsed
    <3> HIDE DEF all, got, new
    <3> QED BY <1>6, <2>1, <2>2, <3>1
  <2>3. CASE i > before
    <3>1. i - before \in 1..n /\ before + (i - before) = i /\ ~ (i <= before)
      BY <1>1, <2>3
    <3>2. new[i - before] = HospitableTask(items[i - before], tables)
      BY <1>1, <3>1 DEF FirstParsed, Parsed
    <3>3. items[i - before] = list[i]
      BY <3>1
    <3> HIDE DEF all, got, new
    <3> QED BY <1>6, <2>1, <3>1, <3>2, <3>3
  <2>4. i <= before \/ i > before
    BY <1>1
  <2> HIDE DEF all, got, new, n
  <2> QED BY <2>2, <2>3, <2>4
<1> HIDE DEF all, got, new
<1>8. got \o new = all
  BY <1>5, <1>6, <1>7, SeqEqual
<1> QED BY <1>8 DEF all, got, new

\* What upstream lists of a window is a list of tasks.
LEMMA ListedType ==
    ASSUME NEW list \in Seq(Tasks), IsInjective(list), NEW today
    PROVE  /\ Listed(list, today) \in Seq(Tasks)
           /\ Len(Listed(list, today)) \in Nat
           /\ Len(Listed(list, today)) <= Cardinality(Tasks)
<1> DEFINE wanted == {t \in Tasks : Start[t] = Unusable
                                    \/ Day(Start[t]) \in today..(today + WINDOW)}
<1>1. Listed(list, today) = Kept(list, wanted)
  BY DEF Listed
<1> HIDE DEF wanted
<1>2. Kept(list, wanted) \in Seq(Tasks) /\ IsInjective(Kept(list, wanted))
  BY KeptByRank, KeptInjective
<1> QED BY <1>1, <1>2, ListIsShort

\* What an answer has of the page that is due, whatever is wrong with it.
LEMMA AnswerHas ==
    ASSUME NEW deviation \in Deviations, NEW list, NEW page
    PROVE  LET answer == Deviating(PageOf(list, page), deviation)
               due == PageOf(list, page)
           IN  /\ answer.items = due.items
               /\ answer.last_page \in {Unreadable, due.last_page}
<1> DEFINE due == PageOf(list, page)
<1>1. /\ "items" \notin DOMAIN deviation
      /\ "last_page" \in DOMAIN deviation => deviation.last_page = Unreadable
  BY SensorsAssumption
<1>2. {"items", "last_page"} \subseteq DOMAIN due
  BY DEF PageOf, Proper
<1> HIDE DEF due
<1>3. /\ Deviating(due, deviation).items = due.items
      /\ Deviating(due, deviation).last_page \in {Unreadable, due.last_page}
  BY <1>1, <1>2 DEF Deviating
<1> QED BY <1>3 DEF due

\* How one turn of the loop leaves a read of the tasks.
LEMMA TurnOfTasks ==
    ASSUME NEW page \in Nat, NEW got, NEW answer, NEW items,
           answer.last_page \in Int \cup {Unreadable}
    PROVE  LET next == Turn(TasksReader(page, got), answer, {}, items) IN
           \/ Finished(next) /\ next.error # "none"
           \/ /\ Finished(next) /\ next.error = "none" /\ next.got = got \o items
              /\ answer.last_page # Unreadable => page >= answer.last_page
           \/ /\ ~Finished(next) /\ next = TasksReader(page + 1, got \o items)
              /\ answer.last_page # Unreadable /\ page < answer.last_page
<1> DEFINE reader == TasksReader(page, got)
           failure == PageFailure(reader, answer, {})
           next == Turn(reader, answer, {}, items)
<1> USE DEF TasksReader
<1>1. CASE failure # "none"
  <2>1. next = Raised(failure)
    BY <1>1 DEF Turn
  <2> HIDE DEF failure, next
  <2> QED BY <1>1, <2>1 DEF Raised, Reader, Finished, next
<1>2. CASE failure = "none"
  <2>1. next = Advance(reader, answer, items)
    BY <1>2 DEF Turn
  <2>2. ResolveLastPage(answer, page) = IF answer.last_page = Unreadable
                                           \/ answer.last_page < page
                                        THEN page ELSE answer.last_page
    BY DEF ResolveLastPage
  <2>3. CASE page >= ResolveLastPage(answer, page)
    <3>1. next = [reader EXCEPT !.batches = Tail(@), !.page = 1, !.got = got \o items]
      BY <2>1, <2>3 DEF Advance
    <3>2. Tail(<< <<"property">> >>) = << >>
      OBVIOUS
    <3>3. Finished(next) /\ next.error = "none" /\ next.got = got \o items
      BY <3>1, <3>2 DEF Finished
    <3>4. answer.last_page # Unreadable => page >= answer.last_page
      BY <2>2, <2>3, SensorsAssumption
    <3> QED BY <3>3, <3>4
  <2>4. CASE ~ (page >= ResolveLastPage(answer, page))
    <3>1. next = TasksReader(page + 1, got \o items)
      BY <2>1, <2>4 DEF Advance
    <3>2. next.batches = << <<"property">> >>
      BY <3>1
    <3>3. ~Finished(next)
      <4>1. Len(<< <<"property">> >>) = 1 /\ Len(<< >>) = 0
        BY EmptySeq
      <4> HIDE DEF next
      <4> QED BY <3>2, <4>1 DEF Finished
    <3>4. answer.last_page # Unreadable /\ page < answer.last_page
      BY <2>2, <2>4, SensorsAssumption
    <3> QED BY <3>1, <3>3, <3>4
  <2> QED BY <2>3, <2>4
<1> QED BY <1>1, <1>2

\* How many pages a list of tasks can have.
LEMMA PagesAreFew ==
    ASSUME NEW list \in Seq(Tasks), Len(list) <= Cardinality(Tasks), NEW page
    PROVE  /\ PageOf(list, page).last_page \in Nat
           /\ PageOf(list, page).last_page <= Cardinality(Tasks) \div PER_PAGE_MAX + 1
<1> DEFINE n == Len(list)
           c == Cardinality(Tasks)
           b == PER_PAGE_MAX
           last == (n + b - 1) \div b
<1>1. n \in Nat /\ c \in Nat /\ b \in Nat \ {0} /\ n <= c
  BY LenProperties, SensorsAssumption, FS_CardinalityType
<1>2. PageOf(list, page).last_page = IF list = << >> THEN 1 ELSE last
  BY DEF PageOf, Proper
<1> HIDE DEF n, c, b
<1>3. last \in Nat /\ last <= n \div b + 1
  BY <1>1, LastPage
<1>4. n \div b <= c \div b /\ n \div b \in Nat /\ c \div b \in Nat
  BY <1>1, Quotient, QuotientGrows
<1> HIDE DEF last
<1>5. PageOf(list, page).last_page \in Nat /\ PageOf(list, page).last_page <= c \div b + 1
  BY <1>2, <1>3, <1>4
<1> QED BY <1>5 DEF c, b

\* One page more: all of them at the last page, and as many as fit before it.
LEMMA PageParsed ==
    ASSUME NEW list \in Seq(Tasks), NEW tables, NEW page \in Nat \ {0},
           (page - 1) * PER_PAGE_MAX <= Len(list)
    PROVE  LET last == PageOf(list, page).last_page
               got == FirstParsed(list, tables, (page - 1) * PER_PAGE_MAX)
               new == Parsed(PageOf(list, page).items, tables)
           IN
           /\ page >= last => got \o new = Parsed(list, tables)
           /\ page < last => /\ page * PER_PAGE_MAX <= Len(list)
                             /\ got \o new = FirstParsed(list, tables, page * PER_PAGE_MAX)
<1> DEFINE last == PageOf(list, page).last_page
           items == PageOf(list, page).items
           before == (page - 1) * PER_PAGE_MAX
           got == FirstParsed(list, tables, before)
           new == Parsed(items, tables)
           end == IF page * PER_PAGE_MAX < Len(list) THEN page * PER_PAGE_MAX
                  ELSE Len(list)
<1>1. PER_PAGE_MAX \in Nat \ {0}
  BY SensorsAssumption
<1>2. /\ before \in Nat /\ end \in Nat /\ before <= end /\ end <= Len(list)
      /\ items \in Seq(Tasks) /\ Len(items) = end - before
      /\ \A i \in 1..Len(items) : items[i] = list[before + i]
      /\ page >= last => end = Len(list)
      /\ page < last => end = page * PER_PAGE_MAX
  BY <1>1, PageHas
<1> HIDE DEF before, end, last, items
<1>3. before + Len(items) = end /\ before + Len(items) <= Len(list)
  BY <1>2
<1>4. got \o new = FirstParsed(list, tables, before + Len(items))
  BY <1>2, <1>3, ParsedPages
<1>5. /\ page >= last => got \o new = Parsed(list, tables)
      /\ page < last => /\ page * PER_PAGE_MAX <= Len(list)
                        /\ got \o new = FirstParsed(list, tables, page * PER_PAGE_MAX)
  <2> HIDE DEF got, new
  <2> QED BY <1>2, <1>3, <1>4 DEF Parsed
<1> QED BY <1>5 DEF last, before, items

-----------------------------------------------------------------------------
(* The invariant holds at first and is kept by every action.               *)

LEMMA InitInv == Init => SensorsInv
<1> SUFFICES ASSUME Init PROVE SensorsInv
  OBVIOUS
<1>1. Numbers
  BY SensorsAssumption DEF Init, Numbers, Coordinators
<1>2. Upstream
  <2>1. IsFiniteSet(Tasks) /\ Cardinality(Tasks) \in Nat
        /\ ExistsBijection(1..Cardinality(Tasks), Tasks)
    BY SensorsAssumption, FS_CardinalityType
  <2>2. PICK f \in Bijection(1..Cardinality(Tasks), Tasks) : TRUE
    BY <2>1 DEF ExistsBijection
  <2>3. f \in [1..Cardinality(Tasks) -> Tasks] /\ IsInjective(f)
    BY <2>2 DEF Bijection, Injection, IsInjective
  <2>4. SetToSeq(Tasks) \in [1..Cardinality(Tasks) -> Tasks] /\ IsInjective(SetToSeq(Tasks))
    BY <2>3 DEF SetToSeq
  <2>5. SetToSeq(Tasks) \in Seq(Tasks)
    BY <2>1, <2>4, FunctionIsSeq
  <2> QED BY <2>4, <2>5 DEF Init, Upstream
<1>3. TasksCycle /\ CalendarCycle
  BY DEF Init, TasksCycle, CalendarCycle
<1>4. Held /\ Shown
  BY DEF Init, Held, Shown, Coordinators
<1> QED BY <1>1, <1>2, <1>3, <1>4 DEF SensorsInv

\* A read starts with nothing, at the first page.
LEMMA StartKeeps ==
    ASSUME SensorsInv, StartTasks
    PROVE  TasksCycle'
<1> DEFINE today == Day(now)
           list == Listed(upstream.list, today)
           source == [list |-> list, tables |-> upstream.tables]
<1>1. /\ tasks_cycle' = [stage |-> "reading", today |-> today,
                         reader |-> Reader(<< <<"property">> >>), source |-> source]
      /\ upstream' = upstream
  BY DEF StartTasks
<1>2. today \in Int
  BY SensorsAssumption DEF SensorsInv, Numbers, Day
<1>3. list \in Seq(Tasks) /\ Len(list) \in Nat /\ Cardinality(Tasks) \in Nat
  BY ListedType, SensorsAssumption, FS_CardinalityType DEF SensorsInv, Upstream
<1>4. 1 \in Pages
  <2>1. Cardinality(Tasks) \div PER_PAGE_MAX \in Nat
    BY <1>3, SensorsAssumption, Quotient
  <2> QED BY <2>1 DEF Pages
<1>5. (1 - 1) * PER_PAGE_MAX = 0
  BY SensorsAssumption
<1>6. tasks_cycle'.source = [list |-> Listed(upstream'.list, tasks_cycle'.today),
                             tables |-> upstream'.tables]
  BY <1>1
<1>7. tasks_cycle'.reader.page = 1 /\ tasks_cycle'.reader.got = << >>
  BY <1>1 DEF Reader
<1>8. Len(tasks_cycle'.source.list) >= 0
  BY <1>1, <1>3
<1>9. << >> = FirstParsed(tasks_cycle'.source.list, tasks_cycle'.source.tables, 0)
  BY DEF FirstParsed
<1>10. ReadSoFar(tasks_cycle)'
  BY <1>5, <1>6, <1>7, <1>8, <1>9 DEF ReadSoFar
<1> HIDE DEF today, source
<1>11. TasksReading(tasks_cycle)'
  BY <1>1, <1>2, <1>4, <1>10 DEF TasksReading, TasksReader, Reader
<1> QED BY <1>11 DEF TasksCycle

\* A page is added to those before it, an error ends the read without any, and
\* the last page ends it with all.
LEMMA AnswerKeeps ==
    ASSUME SensorsInv, NEW deviation \in Deviations, TasksAnswer(deviation)
    PROVE  TasksCycle'
<1> DEFINE page == tasks_cycle.reader.page
           got == tasks_cycle.reader.got
           list == Listed(upstream.list, tasks_cycle.today)
           due == PageOf(list, page)
           answer == Deviating(due, deviation)
           parsed == [t \in Tasks |-> HospitableTask(t, upstream.tables)]
           new == [i \in DOMAIN answer.items |-> parsed[answer.items[i]]]
           next == get_tasks(tasks_cycle.reader, answer, parsed)
           Made(n) == FirstParsed(list, upstream.tables, n)
<1>1. /\ tasks_cycle.stage = "reading" /\ upstream' = upstream
      /\ tasks_cycle' = [tasks_cycle EXCEPT
             !.reader = next, !.stage = IF Finished(next) THEN "read" ELSE "reading",
             !.source = IF answer.last_page = Unreadable THEN Disturbed ELSE @]
  BY DEF TasksAnswer
<1>2. TasksReading(tasks_cycle)
  BY <1>1 DEF SensorsInv, TasksCycle, Idle
<1>3. /\ tasks_cycle = [stage |-> "reading", today |-> tasks_cycle.today,
                        reader |-> tasks_cycle.reader, source |-> tasks_cycle.source]
      /\ tasks_cycle.today \in Int /\ tasks_cycle.reader = TasksReader(page, got)
      /\ page \in Nat \ {0} /\ PER_PAGE_MAX \in Nat \ {0}
  BY <1>2, SensorsAssumption DEF TasksReading, Pages
<1>4. /\ list \in Seq(Tasks) /\ Len(list) <= Cardinality(Tasks)
      /\ upstream.tables \in Vocabularies
  BY ListedType DEF SensorsInv, Upstream
<1>5. answer.items = due.items /\ answer.last_page \in {Unreadable, due.last_page}
  BY AnswerHas
<1>6. /\ due.last_page \in Nat
      /\ due.last_page <= Cardinality(Tasks) \div PER_PAGE_MAX + 1
      /\ Cardinality(Tasks) \div PER_PAGE_MAX \in Nat
  BY <1>4, PagesAreFew, SensorsAssumption, FS_CardinalityType, Quotient
<1>7. tasks_cycle.source # Disturbed =>
          /\ tasks_cycle.source = [list |-> list, tables |-> upstream.tables]
          /\ (page - 1) * PER_PAGE_MAX <= Len(list)
          /\ got = Made((page - 1) * PER_PAGE_MAX)
  <2> SUFFICES ASSUME tasks_cycle.source # Disturbed
               PROVE  /\ tasks_cycle.source = [list |-> list, tables |-> upstream.tables]
                      /\ (page - 1) * PER_PAGE_MAX <= Len(list)
                      /\ got = Made((page - 1) * PER_PAGE_MAX)
    OBVIOUS
  <2>1. ReadSoFar(tasks_cycle)
    BY <1>2 DEF TasksReading
  <2>2. tasks_cycle.source = [list |-> list, tables |-> upstream.tables]
    BY <2>1 DEF ReadSoFar
  <2>3. tasks_cycle.source.list = list /\ tasks_cycle.source.tables = upstream.tables
    BY <2>2
  <2> HIDE DEF list
  <2> QED BY <2>1, <2>2, <2>3 DEF ReadSoFar
<1>8. tasks_cycle.source # Disturbed => new = Parsed(due.items, upstream.tables)
  <2> SUFFICES ASSUME tasks_cycle.source # Disturbed
               PROVE  new = Parsed(due.items, upstream.tables)
    OBVIOUS
  <2>1. due.items \in Seq(Tasks)
    BY <1>3, <1>4, <1>7, PageHas
  <2>2. DOMAIN due.items = 1..Len(due.items) /\ \A i \in DOMAIN due.items : due.items[i] \in Tasks
    BY <2>1, LenProperties, ElementOfSeq
  <2> HIDE DEF due, answer
  <2> QED BY <1>5, <2>2 DEF Parsed, FirstParsed
<1>9. next = Turn(tasks_cycle.reader, answer, {}, new)
  BY DEF get_tasks
<1> HIDE DEF list
<1>11. tasks_cycle.source # Disturbed =>
          /\ page >= due.last_page => got \o new = Parsed(list, upstream.tables)
          /\ page < due.last_page =>
                /\ page * PER_PAGE_MAX <= Len(list)
                /\ got \o new = Made(page * PER_PAGE_MAX)
  <2> SUFFICES ASSUME tasks_cycle.source # Disturbed
               PROVE  /\ page >= due.last_page => got \o new = Parsed(list, upstream.tables)
                      /\ page < due.last_page =>
                            /\ page * PER_PAGE_MAX <= Len(list)
                            /\ got \o new = Made(page * PER_PAGE_MAX)
    OBVIOUS
  <2>1. /\ new = Parsed(due.items, upstream.tables)
        /\ got = FirstParsed(list, upstream.tables, (page - 1) * PER_PAGE_MAX)
        /\ (page - 1) * PER_PAGE_MAX <= Len(list)
    BY <1>7, <1>8
  <2> HIDE DEF new, got, page
  <2> QED BY <1>3, <1>4, <2>1, PageParsed
<1> HIDE DEF due, answer, new, next, got, page, Made
<1>12. \/ Finished(next) /\ next.error # "none"
       \/ /\ Finished(next) /\ next.error = "none" /\ next.got = got \o new
          /\ answer.last_page # Unreadable => page >= answer.last_page
       \/ /\ ~Finished(next) /\ next = TasksReader(page + 1, got \o new)
          /\ answer.last_page # Unreadable /\ page < answer.last_page
  <2>1. answer.last_page \in Int \cup {Unreadable}
    BY <1>5, <1>6
  <2>2. next = Turn(TasksReader(page, got), answer, {}, new)
    BY <1>3, <1>9
  <2> QED BY <1>3, <2>1, <2>2, TurnOfTasks
<1>13. tasks_cycle' = [stage |-> IF Finished(next) THEN "read" ELSE "reading",
                       today |-> tasks_cycle.today, reader |-> next,
                       source |-> IF answer.last_page = Unreadable THEN Disturbed
                                  ELSE tasks_cycle.source]
  BY <1>1, <1>3
<1>14. CASE Finished(next) /\ next.error # "none"
  BY <1>13, <1>14 DEF TasksCycle
<1>15. CASE /\ Finished(next) /\ next.error = "none" /\ next.got = got \o new
            /\ answer.last_page # Unreadable => page >= answer.last_page
  <2>1. ASSUME tasks_cycle'.source # Disturbed
        PROVE  /\ tasks_cycle'.source = [list |-> list, tables |-> upstream.tables]
               /\ tasks_cycle'.reader.got = Parsed(list, upstream.tables)
    <3>1. answer.last_page # Unreadable /\ tasks_cycle.source # Disturbed
          /\ tasks_cycle'.source = tasks_cycle.source
      BY <1>13, <2>1
    <3>2. got \o new = Parsed(list, upstream.tables)
      BY <1>5, <1>11, <1>15, <3>1
    <3> QED BY <1>7, <1>13, <1>15, <3>1, <3>2
  <2>2. Whole(tasks_cycle'.reader.got, tasks_cycle'.source)
    BY <1>4, <2>1 DEF Whole
  <2> QED BY <1>13, <1>15, <2>2 DEF TasksCycle
<1>16. CASE /\ ~Finished(next) /\ next = TasksReader(page + 1, got \o new)
            /\ answer.last_page # Unreadable /\ page < answer.last_page
  <2>1. next.page = page + 1 /\ next.got = got \o new
    BY <1>16 DEF TasksReader
  <2>2. page + 1 \in Pages
    BY <1>3, <1>5, <1>6, <1>16 DEF Pages
  <2>3. tasks_cycle' = [stage |-> "reading", today |-> tasks_cycle.today, reader |-> next,
                        source |-> tasks_cycle.source]
    BY <1>13, <1>16
  <2>4. ASSUME tasks_cycle.source # Disturbed PROVE ReadSoFar(tasks_cycle)'
    <3>1. /\ got \o new = Made(page * PER_PAGE_MAX)
          /\ page * PER_PAGE_MAX <= Len(list)
      BY <1>5, <1>11, <1>16, <2>4
    <3>2. (page + 1) - 1 = page
      BY <1>3
    <3>3. /\ tasks_cycle'.source = [list |-> list, tables |-> upstream.tables]
          /\ tasks_cycle'.reader.page = page + 1
          /\ tasks_cycle'.reader.got = Made(page * PER_PAGE_MAX)
          /\ tasks_cycle'.today = tasks_cycle.today
      BY <1>7, <2>1, <2>3, <2>4, <3>1
    <3>4. /\ tasks_cycle'.source = [list |-> Listed(upstream'.list, tasks_cycle'.today),
                                    tables |-> upstream'.tables]
          /\ tasks_cycle'.source.list = list /\ tasks_cycle'.source.tables = upstream.tables
      BY <1>1, <3>3 DEF list
    <3>5. (tasks_cycle'.reader.page - 1) * PER_PAGE_MAX = page * PER_PAGE_MAX
      BY <3>2, <3>3
    <3>6. tasks_cycle'.reader.got
            = FirstParsed(tasks_cycle'.source.list, tasks_cycle'.source.tables,
                          (tasks_cycle'.reader.page - 1) * PER_PAGE_MAX)
      BY <3>3, <3>4, <3>5 DEF Made
    <3> QED BY <3>1, <3>4, <3>5, <3>6 DEF ReadSoFar
  <2>5. TasksReading(tasks_cycle)'
    BY <1>3, <1>16, <2>1, <2>2, <2>3, <2>4 DEF TasksReading
  <2> QED BY <2>5 DEF TasksCycle
<1> QED BY <1>12, <1>14, <1>15, <1>16

\* A list that a task is added to or taken from still has no repetitions.
LEMMA ListChanges ==
    ASSUME NEW list \in Seq(Tasks), IsInjective(list), NEW t \in Tasks,
           NEW new, new = IF t \in ToSet(list) THEN Kept(list, Tasks \ {t}) ELSE Append(list, t)
    PROVE  new \in Seq(Tasks) /\ IsInjective(new)
<1>1. CASE t \in ToSet(list)
  BY <1>1, KeptByRank, KeptInjective
<1>2. CASE t \notin ToSet(list)
  <2>1. /\ DOMAIN list = 1..Len(list) /\ Len(list) \in Nat
        /\ \A i \in 1..Len(list) : list[i] # t
    BY <1>2, LenProperties DEF ToSet
  <2>2. /\ Append(list, t) \in Seq(Tasks) /\ Len(Append(list, t)) = Len(list) + 1
        /\ \A i \in 1..Len(list) : Append(list, t)[i] = list[i]
        /\ Append(list, t)[Len(list) + 1] = t
    BY AppendProperties
  <2>3. DOMAIN Append(list, t) = 1..(Len(list) + 1)
    BY <2>2, LenProperties
  <2>4. new = Append(list, t)
    BY <1>2
  <2>5. ASSUME NEW i \in 1..(Len(list) + 1), NEW j \in 1..(Len(list) + 1), new[i] = new[j]
        PROVE  i = j
    <3>1. /\ i \in 1..Len(list) \/ i = Len(list) + 1
          /\ j \in 1..Len(list) \/ j = Len(list) + 1
      BY <2>1
    <3> QED BY <2>1, <2>2, <2>4, <2>5, <3>1 DEF IsInjective
  <2> QED BY <2>2, <2>3, <2>4, <2>5 DEF IsInjective
<1> QED BY <1>1, <1>2

\* A change to the tasks disturbs the read of them that is under way, and no other.
LEMMA ChangeTasksKeeps ==
    ASSUME SensorsInv, NEW list, NEW tables, ChangeTasks(list, tables),
           list \in Seq(Tasks), IsInjective(list), tables \in Vocabularies
    PROVE  SensorsInv'
<1>1. /\ changes < MaxChanges /\ changes' = changes + 1
      /\ upstream' = [upstream EXCEPT !.list = list, !.tables = tables]
      /\ tasks_cycle' = IF tasks_cycle.stage = "reading"
                        THEN [tasks_cycle EXCEPT !.source = Disturbed] ELSE tasks_cycle
      /\ UNCHANGED <<now, calendar_cycle, held, failures, last_success, shown>>
  BY DEF ChangeTasks
<1>2. upstream' = [list |-> list, tables |-> tables, calendar |-> upstream.calendar]
  BY <1>1 DEF SensorsInv, Upstream
<1>3. Upstream'
  BY <1>2 DEF SensorsInv, Upstream
<1>4. Numbers'
  BY <1>1, SensorsAssumption DEF SensorsInv, Numbers
<1>5. TasksCycle'
  <2>1. CASE TasksReading(tasks_cycle)
    <3>1. tasks_cycle' = [stage |-> "reading", today |-> tasks_cycle.today,
                          reader |-> tasks_cycle.reader, source |-> Disturbed]
      BY <1>1, <2>1 DEF TasksReading
    <3>2. TasksReading(tasks_cycle)'
      BY <2>1, <3>1 DEF TasksReading
    <3> QED BY <3>2 DEF TasksCycle
  <2>2. CASE tasks_cycle = Idle
    BY <1>1, <2>2 DEF TasksCycle, Idle
  <2>3. CASE tasks_cycle.stage = "read"
    BY <1>1, <2>3 DEF SensorsInv, TasksCycle, Idle, TasksReading
  <2> QED BY <2>1, <2>2, <2>3 DEF SensorsInv, TasksCycle
<1>6. CalendarCycle' /\ Held'
  BY <1>1 DEF SensorsInv, CalendarCycle, Held
<1>7. Shown'
  BY <1>1 DEF SensorsInv, Shown, shown, Instants
<1> QED BY <1>3, <1>4, <1>5, <1>6, <1>7 DEF SensorsInv

\* A change to the calendar reaches no read that has been answered.
LEMMA ChangeCalendarKeeps ==
    ASSUME SensorsInv, NEW days \in Calendars, ChangeCalendar(days)
    PROVE  SensorsInv'
<1>1. /\ changes < MaxChanges /\ changes' = changes + 1
      /\ upstream' = [upstream EXCEPT !.calendar = days]
      /\ UNCHANGED <<now, cycles, held, failures, last_success, shown>>
  BY DEF ChangeCalendar, coordinatorVars
<1>2. upstream' = [list |-> upstream.list, tables |-> upstream.tables, calendar |-> days]
  BY <1>1 DEF SensorsInv, Upstream
<1>3. Upstream'
  BY <1>2 DEF SensorsInv, Upstream
<1>4. Numbers'
  BY <1>1, SensorsAssumption DEF SensorsInv, Numbers
<1>5. upstream'.list = upstream.list /\ upstream'.tables = upstream.tables
  BY <1>2
<1>6. TasksReading(tasks_cycle) => TasksReading(tasks_cycle)'
  BY <1>1, <1>5 DEF TasksReading, ReadSoFar, cycles
<1>7. TasksCycle'
  BY <1>1, <1>6 DEF SensorsInv, TasksCycle, cycles
<1>8. CalendarCycle' /\ Held'
  BY <1>1 DEF SensorsInv, CalendarCycle, Held, cycles
<1>9. Shown'
  BY <1>1 DEF SensorsInv, Shown, shown, Instants
<1> QED BY <1>3, <1>4, <1>7, <1>8, <1>9 DEF SensorsInv

\* What is written is made of what is held from now on.
LEMMA WriteKeeps ==
    ASSUME SensorsInv, NEW c, NEW data, NEW counts, Write(c, data, counts), held' = data,
           c = "tasks" => data.calendar = held.calendar,
           c # "tasks" => data.tasks = held.tasks
    PROVE  Shown' /\ now' \in 0..MaxNow
<1>1. /\ now \in 0..MaxNow /\ now' \in {now, now + 1} /\ now' <= MaxNow /\ MaxNow \in Nat
      /\ now \in Nat /\ now' \in Nat /\ now <= now'
  BY SensorsAssumption DEF SensorsInv, Numbers, Write, WriteTasks, WriteCalendar
<1>2. CASE c = "tasks"
  <2>1. /\ next_task' = NextTaskSensor(data, counts, now')
        /\ task_count' = TaskCountSensor(data, counts) /\ availability' = availability
    BY <1>2 DEF Write, WriteTasks
  <2>2. ASSUME next_task' # Unavailable
        PROVE  /\ Instants(next_task)' /\ held'.tasks # None
               /\ next_task' = NextTaskOf(held'.tasks.tasks, next_task'.written,
                                          next_task'.detailed)
               /\ task_count' = [state |-> Len(held'.tasks.tasks),
                      buckets |-> [b \in DOMAIN Statuses |-> Bucket(held'.tasks.tasks, b)]]
    <3>1. Available("tasks", data, counts)
      BY <2>1, <2>2 DEF NextTaskSensor
    <3>2. next_task' = NextTaskOf(data.tasks.tasks, now, now')
      BY <2>1, <3>1 DEF NextTaskSensor, NextTaskOf
    <3>3. next_task'.written = now /\ next_task'.detailed = now'
      BY <3>2 DEF NextTaskOf
    <3>4. Instants(next_task)'
      BY <1>1, <3>3 DEF Instants
    <3>5. data.tasks # None
      BY <3>1 DEF Available
    <3>6. task_count' = [state |-> Len(data.tasks.tasks),
              buckets |-> [b \in DOMAIN Statuses |-> Bucket(data.tasks.tasks, b)]]
      BY <2>1, <3>1 DEF TaskCountSensor
    <3> QED BY <3>2, <3>3, <3>4, <3>5, <3>6
  <2>3. ASSUME availability' # Unavailable
        PROVE  /\ Instants(availability)' /\ held'.calendar # None
               /\ availability' = AvailabilityOf(held'.calendar.days, availability'.written,
                                                 availability'.detailed)
    BY <1>1, <1>2, <2>1, <2>3 DEF SensorsInv, Shown, Instants
  <2> QED BY <1>1, <2>2, <2>3 DEF Shown
<1>3. CASE c # "tasks"
  <2>1. /\ availability' = AvailabilitySensor(data, counts, now')
        /\ UNCHANGED <<next_task, task_count>>
    BY <1>3 DEF Write, WriteCalendar
  <2>2. ASSUME availability' # Unavailable
        PROVE  /\ Instants(availability)' /\ held'.calendar # None
               /\ availability' = AvailabilityOf(held'.calendar.days, availability'.written,
                                                 availability'.detailed)
    <3>1. Available("calendar", data, counts)
      BY <2>1, <2>2 DEF AvailabilitySensor
    <3>2. availability' = AvailabilityOf(data.calendar.days, now, now')
      BY <2>1, <3>1 DEF AvailabilitySensor, AvailabilityOf
    <3>3. availability'.written = now /\ availability'.detailed = now'
      BY <3>2 DEF AvailabilityOf
    <3>4. Instants(availability)'
      BY <1>1, <3>3 DEF Instants
    <3> QED BY <3>1, <3>2, <3>3, <3>4 DEF Available
  <2>3. ASSUME next_task' # Unavailable
        PROVE  /\ Instants(next_task)' /\ held'.tasks # None
               /\ next_task' = NextTaskOf(held'.tasks.tasks, next_task'.written,
                                          next_task'.detailed)
               /\ task_count' = [state |-> Len(held'.tasks.tasks),
                      buckets |-> [b \in DOMAIN Statuses |-> Bucket(held'.tasks.tasks, b)]]
    BY <1>1, <1>3, <2>1, <2>3 DEF SensorsInv, Shown, Instants
  <2> QED BY <1>1, <2>2, <2>3 DEF Shown
<1> QED BY <1>2, <1>3

\* The end of a cycle.
LEMMA PublishKeeps ==
    ASSUME SensorsInv, NEW c \in Coordinators, NEW failed \in BOOLEAN, NEW data,
           Publish(c, failed, data),
           c = "tasks" /\ data # None => Whole(data.tasks, data.source),
           c = "calendar" /\ data # None => OfCalendar(data)
    PROVE  Numbers' /\ Upstream' /\ Held' /\ Shown'
<1>1. /\ held' = IF failed THEN held ELSE [held EXCEPT ![c] = data]
      /\ last_success' = [last_success EXCEPT ![c] = ~failed]
      /\ \/ failed /\ UNCHANGED <<now, shown>>
         \/ Write(c, held', failures)
      /\ UNCHANGED <<upstream, changes, polled, failures>>
  BY DEF Publish
<1>2. /\ held = [d \in Coordinators |-> held[d]] /\ changes \in 0..MaxChanges
      /\ failures \in [Coordinators -> 0..MAX_CONSECUTIVE_FAILURES]
      /\ last_success \in [Coordinators -> BOOLEAN] /\ now \in 0..MaxNow
      /\ Upstream /\ Held /\ Shown
  BY DEF SensorsInv, Numbers
<1>3. /\ {"tasks", "calendar"} = Coordinators
      /\ c = "tasks" \/ c = "calendar"
  BY DEF Coordinators
<1>4. /\ held' = [d \in Coordinators |-> held'[d]]
      /\ \A d \in Coordinators : held'[d] = IF d = c /\ ~failed THEN data ELSE held[d]
  BY <1>1, <1>2
<1>5. c = "tasks" => held'.calendar = held.calendar
  BY <1>3, <1>4
<1>6. c # "tasks" => held'.tasks = held.tasks
  BY <1>3, <1>4
<1>7. Held'
  <2>1. held'.tasks = held.tasks \/ (c = "tasks" /\ held'.tasks = data)
    BY <1>3, <1>4
  <2>2. held'.calendar = held.calendar \/ (c = "calendar" /\ held'.calendar = data)
    BY <1>3, <1>4
  <2> QED BY <1>2, <2>1, <2>2 DEF Held
<1>8. Shown' /\ now' \in 0..MaxNow
  <2>1. CASE failed /\ UNCHANGED <<now, shown>>
    <3>1. held' = held /\ UNCHANGED <<now, next_task, task_count, availability>>
      BY <1>1, <2>1 DEF shown
    <3> QED BY <1>2, <3>1 DEF Shown, Instants
  <2>2. CASE Write(c, held', failures)
    BY <1>5, <1>6, <2>2, WriteKeeps
  <2> QED BY <1>1, <2>1, <2>2
<1>9. Numbers'
  BY <1>1, <1>2, <1>4, <1>8 DEF Numbers
<1> QED BY <1>1, <1>2, <1>7, <1>8, <1>9 DEF Upstream

\* A calendar is read for the days from the one on which its fan-out started.
LEMMA CalendarAnswerKeeps ==
    ASSUME SensorsInv, NEW deviation \in Deviations, CalendarAnswer(deviation)
    PROVE  CalendarCycle'
<1> DEFINE answer == Deviating(Proper, deviation)
           ok == Failure(answer) = "none"
           read == [days |-> IF ok THEN CalendarDays(answer) ELSE << >>,
                    first |-> calendar_cycle.today, complete |-> answer.envelope,
                    source |-> upstream.calendar]
<1>1. /\ calendar_cycle.stage = "reading"
      /\ calendar_cycle' = [stage |-> "read", ok |-> ok, read |-> read]
  BY DEF CalendarAnswer
<1>2. /\ \E t \in 0..MaxNow : calendar_cycle.today = Day(t)
      /\ upstream.calendar \in Calendars
  BY <1>1 DEF SensorsInv, CalendarCycle, Upstream, Idle
<1>3. ok => OfCalendar(read)
  <2> SUFFICES ASSUME ok, answer.envelope PROVE OfCalendar(read)
    BY DEF OfCalendar
  <2> HIDE DEF answer
  <2>1. read.days = [d \in read.first..(read.first + LOOKAHEAD) |->
                        HospitableCalendarDay(read.source[d])]
    BY DEF CalendarDays
  <2> QED BY <1>2, <2>1 DEF OfCalendar
<1> HIDE DEF ok, read
<1> QED BY <1>1, <1>3 DEF CalendarCycle

\* What a cycle of the tasks ends with is one whole read, or what was held.
LEMMA EndTasksKeeps ==
    ASSUME SensorsInv, NEW others \in BOOLEAN, EndTasks(others)
    PROVE  SensorsInv'
<1> DEFINE failed == tasks_cycle.reader.error # "none" /\ ~others
           data == TasksRead(tasks_cycle)
<1>1. /\ tasks_cycle.stage = "read" /\ tasks_cycle' = Idle
      /\ calendar_cycle' = calendar_cycle /\ Publish("tasks", failed, data)
  BY DEF EndTasks
<1>2. tasks_cycle.reader.error = "none" => Whole(tasks_cycle.reader.got, tasks_cycle.source)
  BY <1>1 DEF SensorsInv, TasksCycle, Idle, TasksReading
<1>3. data # None => Whole(data.tasks, data.source)
  BY <1>2 DEF TasksRead, SensorsInv, Held
<1>4. "tasks" \in Coordinators /\ failed \in BOOLEAN
  BY DEF Coordinators
<1> HIDE DEF failed, data
<1>5. Numbers' /\ Upstream' /\ Held' /\ Shown'
  BY <1>1, <1>3, <1>4, PublishKeeps
<1>6. TasksCycle' /\ CalendarCycle'
  BY <1>1 DEF TasksCycle, CalendarCycle, SensorsInv
<1> QED BY <1>5, <1>6 DEF SensorsInv

\* The same for a cycle of the calendar.
LEMMA EndCalendarKeeps ==
    ASSUME SensorsInv, NEW others \in BOOLEAN, EndCalendar(others)
    PROVE  SensorsInv'
<1> DEFINE failed == ~calendar_cycle.ok /\ ~others
           data == IF calendar_cycle.ok THEN calendar_cycle.read ELSE held.calendar
<1>1. /\ calendar_cycle.stage = "read" /\ calendar_cycle' = Idle
      /\ tasks_cycle' = tasks_cycle /\ Publish("calendar", failed, data)
  BY DEF EndCalendar
<1>2. calendar_cycle.ok => OfCalendar(calendar_cycle.read)
  BY <1>1 DEF SensorsInv, CalendarCycle, Idle
<1>3. data # None => OfCalendar(data)
  BY <1>2 DEF SensorsInv, Held
<1>4. "calendar" \in Coordinators /\ failed \in BOOLEAN
  BY DEF Coordinators
<1> HIDE DEF failed, data
<1>5. Numbers' /\ Upstream' /\ Held' /\ Shown'
  BY <1>1, <1>3, <1>4, PublishKeeps
<1>6. upstream' = upstream
  BY <1>1 DEF Publish
<1>7. TasksReading(tasks_cycle) => TasksReading(tasks_cycle)'
  BY <1>1, <1>6 DEF TasksReading, ReadSoFar
<1>8. TasksCycle' /\ CalendarCycle'
  BY <1>1, <1>7 DEF TasksCycle, CalendarCycle, SensorsInv
<1> QED BY <1>5, <1>8 DEF SensorsInv

\* A step that leaves the fan-outs and upstream alone leaves the reads as they are.
LEMMA ReadsStay ==
    ASSUME SensorsInv, UNCHANGED <<upstream, tasks_cycle>>
    PROVE  Upstream' /\ TasksCycle'
<1>1. TasksReading(tasks_cycle) => TasksReading(tasks_cycle)'
  BY DEF TasksReading, ReadSoFar
<1> QED BY <1>1 DEF SensorsInv, Upstream, TasksCycle

\* The invariant is inductive.
LEMMA NextInv == SensorsInv /\ [Next]_vars => SensorsInv'
<1> SUFFICES ASSUME SensorsInv, [Next]_vars PROVE SensorsInv'
  OBVIOUS
<1> USE DEF SensorsInv
<1>0. Counted("tasks", TRUE) \in [Coordinators -> 0..MAX_CONSECUTIVE_FAILURES]
      /\ \A c \in Coordinators : \A ok \in BOOLEAN :
            Counted(c, ok) \in [Coordinators -> 0..MAX_CONSECUTIVE_FAILURES]
  <2>1. MAX_CONSECUTIVE_FAILURES \in Nat
        /\ \A n \in 0..MAX_CONSECUTIVE_FAILURES : Strike(n) \in 0..MAX_CONSECUTIVE_FAILURES
    BY SensorsAssumption DEF Strike
  <2> QED BY <2>1 DEF Numbers, Counted, Coordinators
<1>1. CASE Tick
  <2>1. /\ now' \in 0..MaxNow /\ now <= now' /\ now \in Nat /\ now' \in Nat
        /\ UNCHANGED <<upstream, changes, cycles, held, failures, last_success, shown>>
    BY <1>1, SensorsAssumption DEF Tick, Numbers, coordinatorVars
  <2>2. Upstream' /\ TasksCycle'
    BY <2>1, ReadsStay DEF cycles
  <2>3. Shown'
    BY <2>1 DEF Shown, shown, Instants
  <2> QED BY <2>1, <2>2, <2>3 DEF Numbers, CalendarCycle, Held, cycles
<1>2. CASE PropertiesRefreshed
  <2>1. PICK c \in polled : Write(c, held, failures)
    BY <1>2 DEF PropertiesRefreshed
  <2>2. UNCHANGED <<upstream, changes, cycles, held, failures, last_success>>
    BY <1>2 DEF PropertiesRefreshed, coordinatorVars
  <2>3. Shown' /\ now' \in 0..MaxNow
    BY <2>1, <2>2, WriteKeeps
  <2>4. Upstream' /\ TasksCycle'
    BY <2>2, ReadsStay DEF cycles
  <2> QED BY <2>2, <2>3, <2>4 DEF Numbers, CalendarCycle, Held, cycles
<1>3. CASE StartTasks
  <2>1. UNCHANGED <<now, upstream, changes, calendar_cycle, held, failures, last_success, shown>>
    BY <1>3 DEF StartTasks
  <2>2. TasksCycle'
    BY <1>3, StartKeeps
  <2> QED BY <2>1, <2>2 DEF Numbers, Upstream, CalendarCycle, Held, Shown, shown, Instants
<1>4. CASE StartCalendar
  <2>1. /\ UNCHANGED <<now, upstream, changes, tasks_cycle, held, failures, last_success, shown>>
        /\ calendar_cycle' = [stage |-> "reading", today |-> Day(now)]
    BY <1>4 DEF StartCalendar
  <2>2. Upstream' /\ TasksCycle'
    BY <2>1, ReadsStay
  <2>3. CalendarCycle'
    BY <2>1 DEF CalendarCycle, Numbers
  <2> QED BY <2>1, <2>2, <2>3 DEF Numbers, Held, Shown, shown, Instants
<1>5. ASSUME NEW t \in Tasks,
             ChangeTasks(IF t \in ToSet(upstream.list) THEN Kept(upstream.list, Tasks \ {t})
                         ELSE Append(upstream.list, t), upstream.tables)
      PROVE  SensorsInv'
  <2> DEFINE new == IF t \in ToSet(upstream.list) THEN Kept(upstream.list, Tasks \ {t})
                    ELSE Append(upstream.list, t)
  <2>1. new \in Seq(Tasks) /\ IsInjective(new)
    BY ListChanges DEF Upstream
  <2> HIDE DEF new, SensorsInv
  <2>2. ChangeTasks(new, upstream.tables) /\ upstream.tables \in Vocabularies
    BY <1>5 DEF new, SensorsInv, Upstream
  <2> QED BY <2>1, <2>2, ChangeTasksKeeps
<1>6. ASSUME NEW tables \in Vocabularies, ChangeTasks(upstream.list, tables)
      PROVE  SensorsInv'
  <2>1. upstream.list \in Seq(Tasks) /\ IsInjective(upstream.list)
    BY DEF Upstream
  <2> HIDE DEF SensorsInv
  <2> QED BY <1>6, <2>1, ChangeTasksKeeps
<1>7. ASSUME NEW days \in Calendars, ChangeCalendar(days)
      PROVE  SensorsInv'
  <2> HIDE DEF SensorsInv
  <2> QED BY <1>7, ChangeCalendarKeeps
<1>8. ASSUME NEW d \in Deviations, TasksAnswer(d)
      PROVE  SensorsInv'
  <2>1. /\ UNCHANGED <<now, upstream, changes, calendar_cycle, held, last_success, shown>>
        /\ \/ failures' = failures
           \/ \E ok \in BOOLEAN : failures' = Counted("tasks", ok)
    BY <1>8 DEF TasksAnswer
  <2>2. TasksCycle'
    BY <1>8, AnswerKeeps
  <2>3. failures' \in [Coordinators -> 0..MAX_CONSECUTIVE_FAILURES]
    BY <1>0, <2>1 DEF Numbers, Coordinators
  <2> QED BY <2>1, <2>2, <2>3
      DEF Numbers, Upstream, CalendarCycle, Held, Shown, shown, Instants
<1>9. ASSUME NEW d \in Deviations, CalendarAnswer(d)
      PROVE  SensorsInv'
  <2>1. /\ UNCHANGED <<now, upstream, changes, tasks_cycle, held, last_success, shown>>
        /\ \E ok \in BOOLEAN : failures' = Counted("calendar", ok)
    BY <1>9 DEF CalendarAnswer
  <2>2. CalendarCycle'
    BY <1>9, CalendarAnswerKeeps
  <2>3. Upstream' /\ TasksCycle'
    BY <2>1, ReadsStay
  <2>4. failures' \in [Coordinators -> 0..MAX_CONSECUTIVE_FAILURES]
    BY <1>0, <2>1 DEF Coordinators
  <2> QED BY <2>1, <2>2, <2>3, <2>4 DEF Numbers, Held, Shown, shown, Instants
<1>10. ASSUME NEW others \in BOOLEAN, EndTasks(others) \/ EndCalendar(others)
       PROVE  SensorsInv'
  <2> HIDE DEF SensorsInv
  <2> QED BY <1>10, EndTasksKeeps, EndCalendarKeeps
<1>11. CASE UNCHANGED vars
  <2>1. UNCHANGED <<now, upstream, changes, tasks_cycle, calendar_cycle, held, failures,
                    last_success, next_task, task_count, availability>>
    BY <1>11 DEF vars, coordinatorVars, cycles, shown
  <2>2. Upstream' /\ TasksCycle'
    BY <2>1, ReadsStay
  <2> QED BY <2>1, <2>2 DEF Numbers, CalendarCycle, Held, Shown, Instants
<1> HIDE DEF SensorsInv
<1> QED BY <1>1, <1>2, <1>3, <1>4, <1>5, <1>6, <1>7, <1>8, <1>9, <1>10, <1>11 DEF Next

LEMMA Invariant == Spec => []SensorsInv
BY InitInv, NextInv, PTL DEF Spec

-----------------------------------------------------------------------------
(* The properties                                                          *)

\* Types; no page is asked for beyond the last that upstream may have, and no
\* entity shows attributes that are older than its state: the reads go page by
\* page and stop at the last, and the clock is read anew for the attributes.
THEOREM Types == Spec => []TypeOK
<1>1. SensorsInv => TypeOK
  <2> SUFFICES ASSUME SensorsInv PROVE TypeOK
    OBVIOUS
  <2>1. /\ tasks_cycle.stage \in {"idle", "reading", "read"}
        /\ calendar_cycle.stage \in {"idle", "reading", "read"}
    BY DEF SensorsInv, TasksCycle, CalendarCycle, TasksReading, Idle
  <2>2. tasks_cycle.stage = "reading" => tasks_cycle.reader.page \in Pages
    BY DEF SensorsInv, TasksCycle, TasksReading, Idle
  <2>3. ToSet(upstream.list) \subseteq Tasks
    BY LenProperties, ElementOfSeq DEF SensorsInv, Upstream, ToSet
  <2>4. \A s \in {next_task, availability} :
           s # Unavailable => s.written <= s.detailed /\ s.detailed <= now
    BY DEF SensorsInv, Shown, Instants
  <2> QED BY <2>1, <2>2, <2>3, <2>4 DEF SensorsInv, Numbers, Upstream, Pages, TypeOK
<1> QED BY <1>1, Invariant, PTL

\* What the availability sensor says it says of the day on which it was written:
\* the calendar that is held is one answer, from the day on which its fan-out
\* started, and each of its days is looked up by the date that the clock shows.
THEOREM DayByDay == Spec => []AvailabilityIsOfItsDay
<1>1. SensorsInv => AvailabilityIsOfItsDay
  <2> SUFFICES ASSUME SensorsInv, availability # Unavailable, held.calendar.complete
               PROVE  AvailabilityIsOfItsDay
    BY DEF AvailabilityIsOfItsDay
  <2> DEFINE read == held.calendar
             written == availability.written
             detailed == availability.detailed
             fetched == read.first..(read.first + LOOKAHEAD)
  <2>1. /\ written \in Int /\ detailed \in Int /\ written <= detailed
        /\ read # None /\ availability = AvailabilityOf(read.days, written, detailed)
    BY SensorsAssumption DEF SensorsInv, Shown, Instants
  <2>2. /\ read.source \in Calendars
        /\ \E t \in 0..MaxNow : read.first = Day(t)
        /\ read.days = [d \in fetched |-> HospitableCalendarDay(read.source[d])]
    BY <2>1 DEF SensorsInv, Held, OfCalendar
  <2>3. ASSUME NEW d \in fetched PROVE HospitableCalendarDay(read.source[d]) # None
    <3>1. PICK t \in 0..MaxNow : read.first = Day(t)
      BY <2>2
    <3>2. Day(t) \in Int /\ LOOKAHEAD \in Nat
      BY SensorsAssumption DEF Day
    <3>3. d - Day(t) \in 0..LOOKAHEAD /\ Day(t) + (d - Day(t)) = d
      BY <3>1, <3>2
    <3> QED BY <2>2, <3>3, SensorsAssumption
  <2> HIDE DEF fetched
  <2>4. ASSUME NEW m
        PROVE  Today(read.days, m) = IF Day(m) \in fetched
                                     THEN HospitableCalendarDay(read.source[Day(m)]) ELSE None
    BY <2>2 DEF Today
  <2>5. /\ availability.state
             = (IF Day(written) \in fetched
                THEN MapAvailability(read.source[Day(written)]) ELSE None)
        /\ availability.nightly_rate
             = (IF Day(detailed) \in fetched
                THEN MinorUnits(read.source[Day(detailed)].price,
                                read.source[Day(detailed)].currency) ELSE None)
    <3>1. /\ availability.state = (IF Today(read.days, written) = None THEN None
                                   ELSE Today(read.days, written).availability)
          /\ availability.nightly_rate
               = (IF Today(read.days, detailed) = None THEN None
                  ELSE MinorUnits(Today(read.days, detailed).price,
                                  Today(read.days, detailed).currency))
      BY <2>1 DEF AvailabilityOf
    <3>2. \A day : /\ HospitableCalendarDay(day).availability = MapAvailability(day)
                   /\ HospitableCalendarDay(day).price = day.price
                   /\ HospitableCalendarDay(day).currency = day.currency
      BY DEF HospitableCalendarDay
    <3> QED BY <2>3, <2>4, <3>1, <3>2
  <2>6. \A day : /\ MapAvailability(day) # None
                 /\ MapAvailability(day) = "booked" =>
                       day.available = "false" /\ day.reason = "RESERVED"
                 /\ MapAvailability(day) = "available" => day.available = "true"
    BY SensorsAssumption DEF MapAvailability
  <2>7. \A price, currency : MinorUnits(price, currency) # None =>
           MinorUnits(price, currency).amount = price
    BY DEF MinorUnits
  <2>8. Day(detailed) = Day(written) \/ written < detailed
    BY <2>1
  <2>9. None # "booked" /\ None # "available"
    BY SensorsAssumption
  <2> QED BY <2>5, <2>6, <2>7, <2>8, <2>9 DEF AvailabilityIsOfItsDay, fetched
<1> QED BY <1>1, Invariant, PTL

\* A set of natural numbers has a least element.
LEMMA LeastNumber ==
    ASSUME NEW T \in SUBSET Nat, T # {}
    PROVE  \E n \in T : \A m \in T : n <= m
<1> DEFINE Below == {0..n : n \in T}
<1>1. IsWellFoundedOn(StrictSubsetOrdering(Nat), FiniteSubsetsOf(Nat))
  BY FS_StrictSubsetOrderingWellFounded
<1>2. Below \subseteq FiniteSubsetsOf(Nat) /\ Below # {}
  <2>1. \A n \in T : IsFiniteSet(0..n) /\ 0..n \in SUBSET Nat
    BY FS_Interval
  <2>2. \A n \in T : 0..n \in FiniteSubsetsOf(Nat)
    BY <2>1 DEF FiniteSubsetsOf
  <2> QED BY <2>2
<1>3. PICK x \in Below : \A y \in Below : ~ (<<y, x>> \in StrictSubsetOrdering(Nat))
  <2> HIDE DEF Below
  <2> QED BY <1>1, <1>2, WFMin
<1>4. PICK n \in T : x = 0..n
  BY <1>3
<1>5. ASSUME NEW m \in T, m < n PROVE FALSE
  <2>1. 0..m \in Below /\ 0..m \subseteq 0..n /\ 0..m # 0..n /\ 0..n \subseteq Nat
    BY <1>5
  <2> QED BY <2>1, <1>3, <1>4 DEF StrictSubsetOrdering
<1> QED BY <1>5, <1>4

\* The tasks of a list that are due first at a moment, as in Due.
DueOf(list, moment) ==
    {t \in ToSet(list) :
        /\ Upcoming(t, moment)
        /\ \A u \in ToSet(list) : Upcoming(u, moment) => Start[t] <= Start[u]}

\* The first place of the tasks that are due first.
IsFirst(list, moment, i) ==
    /\ i \in 1..Len(list) /\ list[i] \in DueOf(list, moment)
    /\ \A j \in 1..Len(list) : list[j] \in DueOf(list, moment) => i <= j

\* The next task is the first of those that are due first; there is one unless
\* no task is due any more.
LEMMA NextTaskIsFirst ==
    ASSUME NEW list \in Seq(Tasks), NEW tables, NEW moment \in Nat
    PROVE  LET task == NextTask(Parsed(list, tables), moment) IN
           \/ DueOf(list, moment) = {} /\ task = None
           \/ /\ DueOf(list, moment) # {}
              /\ \E i \in 1..Len(list) :
                    IsFirst(list, moment, i) /\ task = HospitableTask(list[i], tables)
<1> DEFINE tasks == Parsed(list, tables)
           task == NextTask(tasks, moment)
           upcoming == {i \in 1..Len(list) : Upcoming(list[i], moment)}
           Soonest(i) == \A j \in upcoming :
                             /\ Start[list[i]] <= Start[list[j]]
                             /\ Start[list[i]] = Start[list[j]] => i <= j
<1>1. /\ Len(list) \in Nat /\ DOMAIN list = 1..Len(list)
      /\ \A i \in 1..Len(list) : list[i] \in Tasks
      /\ ToSet(list) = {list[i] : i \in 1..Len(list)}
  BY LenProperties, ElementOfSeq DEF ToSet
<1>2. /\ DOMAIN tasks = 1..Len(list)
      /\ \A i \in 1..Len(list) : /\ tasks[i] = HospitableTask(list[i], tables)
                                 /\ tasks[i].task_id = list[i]
  BY DEF Parsed, FirstParsed, HospitableTask
<1>4. ASSUME NEW i \in upcoming PROVE Start[list[i]] \in Nat /\ i \in Nat
  <2>1. Start[list[i]] \in Int \cup {Unusable} /\ Start[list[i]] # Unusable
        /\ Start[list[i]] >= moment /\ i \in Nat
    BY <1>1, SensorsAssumption DEF Upcoming
  <2> QED BY <2>1
<1>5. ASSUME upcoming # {} PROVE \E i \in upcoming : Soonest(i)
  <2> DEFINE starts == {Start[list[i]] : i \in upcoming}
  <2> HIDE DEF upcoming
  <2>1. starts \in SUBSET Nat /\ starts # {}
    BY <1>4, <1>5
  <2>2. PICK s \in starts : \A u \in starts : s <= u
    <3> HIDE DEF starts
    <3> QED BY <2>1, LeastNumber
  <2> DEFINE soon == {i \in upcoming : Start[list[i]] = s}
  <2>3. soon \in SUBSET Nat /\ soon # {}
    BY <1>4, <2>2
  <2>4. PICK i \in soon : \A j \in soon : i <= j
    <3> HIDE DEF soon
    <3> QED BY <2>3, LeastNumber
  <2>5. Soonest(i)
    BY <2>2, <2>4
  <2> QED BY <2>4, <2>5
<1> DEFINE found == {i \in DOMAIN tasks : Upcoming(tasks[i].task_id, moment)}
           Sooner(i) == \A j \in found :
               /\ Start[tasks[i].task_id] <= Start[tasks[j].task_id]
               /\ Start[tasks[i].task_id] = Start[tasks[j].task_id] => i <= j
<1>3. /\ task = IF found = {} THEN None ELSE tasks[CHOOSE i \in found : Sooner(i)]
      /\ found = upcoming /\ \A i \in found : Sooner(i) <=> Soonest(i)
  <2>1. task = IF found = {} THEN None ELSE tasks[CHOOSE i \in found : Sooner(i)]
    <3> HIDE DEF tasks
    <3> QED BY DEF NextTask
  <2>2. found = upcoming
    <3> HIDE DEF tasks
    <3> QED BY <1>2
  <2>3. \A i \in upcoming : tasks[i].task_id = list[i]
    BY <1>2
  <2>4. \A i \in found : Sooner(i) <=> Soonest(i)
    <3> HIDE DEF tasks, upcoming, found
    <3> QED BY <2>2, <2>3
  <2> HIDE DEF tasks, upcoming, found, task, Soonest, Sooner
  <2> QED BY <2>1, <2>2, <2>4
<1>6. CASE upcoming = {}
  <2>1. task = None
    <3> HIDE DEF task, found, upcoming
    <3> QED BY <1>3, <1>6
  <2>2. \A t \in ToSet(list) : ~Upcoming(t, moment)
    BY <1>1, <1>6
  <2>3. DueOf(list, moment) = {}
    BY <2>2 DEF DueOf
  <2> HIDE DEF task
  <2> QED BY <2>1, <2>3 DEF task
<1>7. CASE upcoming # {}
  <2>1. PICK i \in upcoming : Soonest(i) /\ task = tasks[i]
    <3> HIDE DEF upcoming, Soonest, task, found, Sooner, tasks
    <3>1. \E i \in found : Sooner(i)
      BY <1>3, <1>5, <1>7
    <3> QED BY <1>3, <1>7, <3>1
  <2>2. i \in 1..Len(list) /\ Upcoming(list[i], moment) /\ list[i] \in ToSet(list)
    BY <1>1
  <2>3. \A j \in upcoming : Start[list[i]] <= Start[list[j]]
    BY <2>1
  <2>4. list[i] \in DueOf(list, moment)
    BY <1>1, <2>2, <2>3 DEF DueOf
  <2>5. ASSUME NEW j \in 1..Len(list), list[j] \in DueOf(list, moment) PROVE i <= j
    <3>1. j \in upcoming /\ Start[list[j]] <= Start[list[i]]
      BY <2>2, <2>5 DEF DueOf
    <3>2. Start[list[i]] = Start[list[j]]
      <4>1. Start[list[i]] \in Nat /\ Start[list[j]] \in Nat /\ Start[list[i]] <= Start[list[j]]
        BY <1>4, <2>3, <3>1
      <4> QED BY <3>1, <4>1
    <3> QED BY <2>1, <3>1, <3>2
  <2> HIDE DEF upcoming, Soonest, task, tasks
  <2>6. IsFirst(list, moment, i)
    BY <2>2, <2>4, <2>5 DEF IsFirst
  <2>7. task = HospitableTask(list[i], tables)
    BY <1>2, <2>1, <2>2
  <2> QED BY <2>2, <2>4, <2>6, <2>7 DEF task, tasks
<1> QED BY <1>6, <1>7

\* The buckets of a read add up to the tasks whose status is known.
LEMMA BucketsAddUp ==
    ASSUME NEW list \in Seq(Tasks), NEW tables
    PROVE  LET tasks == Parsed(list, tables)
               known == UNION {Statuses[b] : b \in DOMAIN Statuses}
           IN  Bucket(tasks, "pending") + Bucket(tasks, "in_progress")
                  + Bucket(tasks, "completed") + Bucket(tasks, "cancelled")
                  = Cardinality({i \in DOMAIN list : Progress[list[i]] \in known})
<1> DEFINE tasks == Parsed(list, tables)
           In(s) == {i \in DOMAIN list : Progress[list[i]] \in s}
<1>1. DOMAIN list = 1..Len(list) /\ Len(list) \in Nat
  BY LenProperties
<1>2. \A b : Bucket(tasks, b) = Cardinality(In(Statuses[b]))
  <2>1. DOMAIN tasks = DOMAIN list /\ \A i \in DOMAIN list : tasks[i].task_id = list[i]
    BY <1>1 DEF Parsed, FirstParsed, HospitableTask
  <2> HIDE DEF tasks
  <2> QED BY <2>1 DEF Bucket
<1>3. \A s : IsFiniteSet(In(s)) /\ Cardinality(In(s)) \in Nat
  <2>1. IsFiniteSet(1..Len(list))
    BY <1>1, FS_Interval
  <2>2. \A s : In(s) \in SUBSET (1..Len(list))
    BY <1>1
  <2> HIDE DEF In
  <2> QED BY <2>1, <2>2, FS_Subset, FS_CardinalityType
<1>4. ASSUME NEW s, NEW t, s \cap t = {}
      PROVE  Cardinality(In(s)) + Cardinality(In(t)) = Cardinality(In(s \cup t))
  <2>1. In(s) \cup In(t) = In(s \cup t) /\ In(s) \cap In(t) = {}
    BY <1>4
  <2>2. Cardinality(In(s) \cup In(t))
          = Cardinality(In(s)) + Cardinality(In(t)) - Cardinality(In(s) \cap In(t))
    <3> HIDE DEF In
    <3> QED BY <1>3, FS_Union
  <2>3. Cardinality({}) = 0
    BY FS_EmptySet
  <2>4. Cardinality(In(s)) \in Nat /\ Cardinality(In(t)) \in Nat
    BY <1>3
  <2> HIDE DEF In
  <2>5. Cardinality(In(s \cup t)) = Cardinality(In(s)) + Cardinality(In(t)) - 0
    BY <2>1, <2>2, <2>3
  <2> QED BY <2>4, <2>5
<1> DEFINE pending == {"not_started", None}
           progress == {"on_the_way", "arrived", "in_progress"}
<1>5. /\ Statuses["pending"] = pending /\ Statuses["in_progress"] = progress
      /\ Statuses["completed"] = {"completed"} /\ Statuses["cancelled"] = {"cancelled"}
      /\ UNION {Statuses[b] : b \in DOMAIN Statuses}
            = (pending \cup progress) \cup ({"completed"} \cup {"cancelled"})
  <2>1. DOMAIN Statuses = {"pending", "in_progress", "completed", "cancelled"}
    BY DEF Statuses
  <2>2. /\ Statuses["pending"] = pending /\ Statuses["in_progress"] = progress
        /\ Statuses["completed"] = {"completed"} /\ Statuses["cancelled"] = {"cancelled"}
    BY DEF Statuses
  <2> HIDE DEF pending, progress
  <2> QED BY <2>1, <2>2
<1>6. /\ pending \cap progress = {} /\ {"completed"} \cap {"cancelled"} = {}
      /\ (pending \cup progress) \cap ({"completed"} \cup {"cancelled"}) = {}
  BY SensorsAssumption
<1> HIDE DEF pending, progress, In
<1>7. Cardinality(In(pending)) + Cardinality(In(progress)) = Cardinality(In(pending \cup progress))
  BY <1>4, <1>6
<1>8. Cardinality(In({"completed"})) + Cardinality(In({"cancelled"}))
        = Cardinality(In({"completed"} \cup {"cancelled"}))
  BY <1>4, <1>6
<1>9. Cardinality(In(pending \cup progress)) + Cardinality(In({"completed"} \cup {"cancelled"}))
        = Cardinality(In((pending \cup progress) \cup ({"completed"} \cup {"cancelled"})))
  BY <1>4, <1>6
<1> HIDE DEF tasks
<1>10. Bucket(tasks, "pending") + Bucket(tasks, "in_progress")
         + Bucket(tasks, "completed") + Bucket(tasks, "cancelled")
         = Cardinality(In((pending \cup progress) \cup ({"completed"} \cup {"cancelled"})))
  <2>1. /\ Bucket(tasks, "pending") = Cardinality(In(pending))
        /\ Bucket(tasks, "in_progress") = Cardinality(In(progress))
        /\ Bucket(tasks, "completed") = Cardinality(In({"completed"}))
        /\ Bucket(tasks, "cancelled") = Cardinality(In({"cancelled"}))
    BY <1>2, <1>5
  <2>2. /\ Cardinality(In(pending)) \in Nat /\ Cardinality(In(progress)) \in Nat
        /\ Cardinality(In({"completed"})) \in Nat /\ Cardinality(In({"cancelled"})) \in Nat
    BY <1>3
  <2> QED BY <1>7, <1>8, <1>9, <2>1, <2>2
<1> QED BY <1>5, <1>10 DEF tasks, In

\* The task sensors show the last read of the property's tasks that came to its
\* end, whole: pages gather in the reader of one fan-out and reach the entities
\* only when it has got to the end of what upstream lists, and state and
\* attributes are made of the first of the tasks that are due first.
THEOREM OneReadShown == Spec => []TaskSensorsShowOneRead
<1>1. SensorsInv => TaskSensorsShowOneRead
  <2> SUFFICES ASSUME SensorsInv, next_task # Unavailable, held.tasks.source # Disturbed
               PROVE  TaskSensorsShowOneRead
    BY DEF TaskSensorsShowOneRead
  <2> DEFINE source == held.tasks.source
             list == source.list
             tasks == held.tasks.tasks
             written == next_task.written
             detailed == next_task.detailed
             At(m) == NextTask(tasks, m)
  <2>1. /\ written \in Nat /\ detailed \in Nat
        /\ held.tasks # None /\ next_task = NextTaskOf(tasks, written, detailed)
        /\ task_count = [state |-> Len(tasks),
                         buckets |-> [b \in DOMAIN Statuses |-> Bucket(tasks, b)]]
    BY SensorsAssumption DEF SensorsInv, Shown, Instants
  <2>2. list \in Seq(Tasks) /\ source.tables \in Vocabularies
        /\ tasks = Parsed(list, source.tables)
    BY <2>1 DEF SensorsInv, Held, Whole
  <2>3. \A m : Due(m) = DueOf(list, m)
    BY DEF Due, DueOf, Upcoming
  <2>4. ASSUME NEW m \in Nat
        PROVE  \/ Due(m) = {} /\ At(m) = None
               \/ /\ Due(m) # {}
                  /\ \E i \in 1..Len(list) :
                        IsFirst(list, m, i) /\ At(m) = HospitableTask(list[i], source.tables)
    <3> HIDE DEF list, source, tasks
    <3>1. \/ DueOf(list, m) = {} /\ NextTask(Parsed(list, source.tables), m) = None
          \/ /\ DueOf(list, m) # {}
             /\ \E i \in 1..Len(list) :
                   /\ IsFirst(list, m, i)
                   /\ NextTask(Parsed(list, source.tables), m)
                        = HospitableTask(list[i], source.tables)
      BY <2>2, NextTaskIsFirst
    <3> QED BY <2>2, <2>3, <3>1
  <2>5. \A i \in 1..Len(list) :
           LET task == HospitableTask(list[i], source.tables) IN
           /\ task # None /\ task.task_id = list[i]
           /\ task.task_type_label = TaskTypeLabel(source.tables, TaskType[list[i]])
    <3>1. \A i \in 1..Len(list) : list[i] \in Tasks
      BY <2>2, ElementOfSeq
    <3> QED BY <2>2, <3>1, SensorsAssumption DEF HospitableTask
  <2>6. /\ next_task.state = (IF At(written) = None THEN None
                              ELSE At(written).task_type_label)
        /\ next_task.task_id = (IF At(detailed) = None THEN None ELSE At(detailed).task_id)
    BY <2>1 DEF NextTaskOf
  <2>7. /\ task_count.state = Len(list)
        /\ LET buckets == task_count.buckets
               known == UNION {Statuses[b] : b \in DOMAIN Statuses}
           IN  buckets.pending + buckets.in_progress + buckets.completed + buckets.cancelled
                  = Cardinality({i \in DOMAIN list : Progress[list[i]] \in known})
    <3>1. Len(tasks) = Len(list)
      <4> DEFINE R == {HospitableTask(list[i], source.tables) : i \in 1..Len(list)}
      <4> HIDE DEF tasks, list, source
      <4>1. tasks \in [1..Len(list) -> R] /\ Len(list) \in Nat
        BY <2>2, LenProperties DEF Parsed, FirstParsed
      <4> HIDE DEF R
      <4> QED BY <4>1, FunctionIsSeq
    <3>2. /\ task_count.buckets.pending = Bucket(tasks, "pending")
          /\ task_count.buckets.in_progress = Bucket(tasks, "in_progress")
          /\ task_count.buckets.completed = Bucket(tasks, "completed")
          /\ task_count.buckets.cancelled = Bucket(tasks, "cancelled")
      <4>1. {"pending", "in_progress", "completed", "cancelled"} = DOMAIN Statuses
        BY DEF Statuses
      <4> HIDE DEF tasks
      <4> QED BY <2>1, <4>1
    <3>3. task_count.state = Len(tasks)
      BY <2>1
    <3> HIDE DEF tasks, list, source
    <3> QED BY <2>2, <3>1, <3>2, <3>3, BucketsAddUp
  <2> HIDE DEF At, tasks, list, source
  <2>8. CASE Due(written) = {}
    <3>1. next_task.state = None
      BY <2>1, <2>4, <2>6, <2>8
    <3>2. IF Due(detailed) = {} THEN next_task.task_id = None
          ELSE next_task.task_id \in Due(detailed)
      BY <2>1, <2>3, <2>4, <2>5, <2>6 DEF IsFirst
    <3> QED BY <2>7, <2>8, <3>1, <3>2 DEF TaskSensorsShowOneRead, source, list
  <2>9. CASE Due(written) # {}
    <3>1. PICK i \in 1..Len(list) :
             IsFirst(list, written, i) /\ At(written) = HospitableTask(list[i], source.tables)
      BY <2>1, <2>4, <2>9
    <3>2. list[i] \in Due(written)
      BY <2>3, <3>1 DEF IsFirst
    <3>3. next_task.state = TaskTypeLabel(source.tables, TaskType[list[i]])
      BY <2>5, <2>6, <3>1
    <3>4. IF Due(detailed) = {} THEN next_task.task_id = None
          ELSE next_task.task_id \in Due(detailed)
      BY <2>1, <2>3, <2>4, <2>5, <2>6 DEF IsFirst
    <3>5. ASSUME Due(detailed) = Due(written) PROVE next_task.task_id = list[i]
      <4>1. PICK j \in 1..Len(list) :
               IsFirst(list, detailed, j) /\ At(detailed) = HospitableTask(list[j], source.tables)
        BY <2>1, <2>4, <2>9, <3>5
      <4>2. i <= j /\ j <= i
        BY <2>3, <3>1, <3>5, <4>1 DEF IsFirst
      <4>3. i = j
        BY <4>2
      <4> QED BY <2>5, <2>6, <4>1, <4>3
    <3> QED BY <2>7, <2>9, <3>2, <3>3, <3>4, <3>5
        DEF TaskSensorsShowOneRead, TaskTypeLabel, source, list
  <2> QED BY <2>8, <2>9
<1> QED BY <1>1, Invariant, PTL

=============================================================================
