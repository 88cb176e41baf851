---------------------------- MODULE LookupsProofs ----------------------------
(***************************************************************************)
(* Whatever the registries and the fields of a call: what it resolves to   *)
(* is what it names, in the account it was made for.  However upstream     *)
(* changes between the pages of a read: what the read has got in the end.  *)
(* And whenever the guest-contact option changes: what a response shows.   *)
(***************************************************************************)
EXTENDS Lookups, TLAPS, FiniteSetTheorems, SequenceTheorems, FunctionTheorems

-----------------------------------------------------------------------------
(* The inductive invariant                                                 *)

OnProperties == {"properties", "get_property_info"}
PagedKinds == ListServices \cup Polls

\* The item is still to come in a list of which so many have been read.
ToCome(list, read, item) == \E i \in DOMAIN list : i > read /\ list[i] = item

\* The reservations of the batches after the one that is being read.
Later(batches) ==
    {r \in Reservations : \E b \in 2..Len(batches) : PropertyOf[r] \in ToSet(batches[b])}

Before(reader) == (reader.page - 1) * PER_PAGE_MAX

UpstreamOf(entry) == ToSet(upstream[entry].properties) \cup ToSet(upstream[entry].reservations)

\* The batches to go share no property, and are of what the read was asked for.
Batches(read) ==
    LET batches == read.reader.batches IN
    /\ batches \in Seq(Seq(Properties)) /\ batches # << >>
    /\ \A a, b \in 1..Len(batches) :
          a # b => ToSet(batches[a]) \cap ToSet(batches[b]) = {}
    /\ read.kind \notin {"reservations", "get_reservations"} => Len(batches) = 1
    /\ read.kind = "get_reservations" => \A b \in 1..Len(batches) : ToSet(batches[b]) \subseteq {read.target}
    /\ read.kind = "reservations" =>
          \A b \in 1..Len(batches) : ToSet(batches[b]) \subseteq selected[read.entry]

\* What the reader has got was there and was asked for.
Got(read) ==
    \A item \in ToSet(read.reader.got) : item \in read.ever /\ AskedFor(read, item)

\* Nothing that was there all along has been passed over, unless something was
\* removed or the last page could not be told.
NothingMissed(read) ==
    ~read.removed /\ ~read.cut =>
        \A item \in {x \in read.always : AskedFor(read, x)} :
            \/ item \in ToSet(read.reader.got)
            \/ ToCome(Listed(read), Before(read.reader), item)
            \/ item \in Later(read.reader.batches)

\* Nothing that the reader has got will come again, unless something was added.
NothingTwice(read) ==
    ~read.added =>
        /\ IsInjective(read.reader.got)
        /\ \A item \in ToSet(read.reader.got) :
              /\ ~ToCome(Listed(read), Before(read.reader), item)
              /\ item \notin Later(read.reader.batches)

Fields(read) ==
    /\ read = [stage |-> read.stage, kind |-> read.kind, entry |-> read.entry,
               target |-> read.target, reader |-> read.reader,
               guest_contact |-> read.guest_contact, always |-> read.always,
               ever |-> read.ever, added |-> read.added, removed |-> read.removed,
               cut |-> read.cut, consented |-> read.consented, outcome |-> read.outcome]
    /\ read.reader = [batches |-> read.reader.batches, page |-> read.reader.page,
                      got |-> read.reader.got, error |-> read.reader.error]

Typed(read) ==
    /\ read.kind \in Services \cup Polls /\ read.entry \in Entries
    /\ read.kind \in Polls => read.entry \in loaded
    /\ read.target \in Items \cup {Unset}
    /\ read.kind = "get_property_info" => read.target \in Properties
    /\ read.kind = "find_reservation" => read.target \in Reservations
    /\ read.reader.got \in Seq(Items) /\ read.reader.page \in 1..LastPage
    /\ read.always \subseteq read.ever /\ read.ever \subseteq Items
    /\ {read.guest_contact, read.consented} \subseteq BOOLEAN
    /\ {read.added, read.removed, read.cut} \subseteq BOOLEAN

Reading(read) ==
    /\ read.stage = "reading" /\ read.kind # "list_properties"
    /\ Fields(read) /\ Typed(read) /\ read.reader.error = "none"
    /\ read.always \subseteq UpstreamOf(read.entry)
    /\ UpstreamOf(read.entry) \subseteq read.ever
    /\ Batches(read) /\ Got(read) /\ NothingMissed(read) /\ NothingTwice(read)

\* ReadsMirrorUpstream of a read that has ended.
Mirrors(read) ==
    LET got == read.reader.got
        asked == {item \in read.always : AskedFor(read, item)}
    IN  /\ ~read.removed /\ ~read.cut => asked \subseteq ToSet(got)
        /\ ~read.added => IsInjective(got)
        /\ \A item \in ToSet(got) : item \in read.ever /\ AskedFor(read, item)

\* NotFoundOnlyIfAbsent, of a call that has been answered with not_found.
Absent(read) ==
    /\ read.kind \in {"find_reservation", "get_property_info", "get_reservations"}
    /\ read.kind = "find_reservation" => read.target \notin read.always
    /\ read.kind = "get_property_info" =>
          read.target \notin read.always \/ read.removed \/ read.cut
    /\ read.kind = "get_reservations" => read.reader.got = << >>

Ended(read) ==
    /\ read.stage = "answered" /\ Fields(read) /\ Typed(read)
    /\ read.reader.batches = << >> /\ read.reader.error = "none" => Mirrors(read)
    /\ read.kind \in Services /\ read.outcome = "not_found" => Absent(read)

Upstream ==
    /\ upstream \in [Entries -> [properties : Seq(Properties), reservations : Seq(Reservations)]]
    /\ \A e \in Entries : IsInjective(upstream[e].properties) /\ IsInjective(upstream[e].reservations)

Runtime ==
    /\ changes \in 0..MaxChanges /\ contact \in [Entries -> BOOLEAN]
    /\ loaded \subseteq Entries
    /\ {devices, selected, known} \subseteq [Entries -> SUBSET Properties]
    /\ reports \in [DOMAIN EntityRegistry -> Reservations \cup {Unset}]

CallIs == call = NoCall \/ Reading(call) \/ Ended(call)

LookupsInv == Upstream /\ Runtime /\ CallIs

LEMMA EntriesLoaded == Spec => [](loaded \subseteq Entries)
<1>1. Init => loaded \subseteq Entries
  BY DEF Init
<1>2. loaded \subseteq Entries /\ [Next]_vars => (loaded \subseteq Entries)'
  <2> SUFFICES ASSUME loaded \subseteq Entries, [Next]_vars
               PROVE  loaded' \subseteq Entries
    OBVIOUS
  <2>1. CASE UNCHANGED vars
    BY <2>1 DEF vars
  <2>2. ASSUME NEW e \in Entries, Load(e) \/ Unload(e) PROVE loaded' \subseteq Entries
    BY <2>2 DEF Load, Unload
  <2>3. ASSUME NEW e \in Busy, EntryNext(e) PROVE loaded' = loaded
    BY <2>3 DEF EntryNext, Add, Withdraw, Change, SetContact, StartPoll
  <2>4. ASSUME NEW c \in Calls, Ask(c.service, c) PROVE loaded' = loaded
    BY <2>4 DEF Ask
  <2>5. ASSUME NEW deviation \in Deviations, TakeAnswer(deviation) PROVE loaded' = loaded
    BY <2>5 DEF TakeAnswer
  <2>6. CASE Return
    BY <2>6 DEF Return
  <2> QED BY <2>1, <2>2, <2>3, <2>4, <2>5, <2>6 DEF Next
<1> QED BY <1>1, <1>2, PTL DEF Spec

\* The entry of a call is one that is loaded.
LEMMA EntryIsLoaded ==
    ASSUME loaded \subseteq Entries, NEW id, resolve_config_entry(loaded, id) # Invalid
    PROVE  resolve_config_entry(loaded, id) \in Entries
<1>1. CASE id # Unset
  BY <1>1 DEF resolve_config_entry
<1>2. CASE id = Unset /\ \E entry \in Entries : loaded = {entry}
  <2>1. resolve_config_entry(loaded, id) = CHOOSE entry \in Entries : loaded = {entry}
    BY <1>2 DEF resolve_config_entry
  <2> QED BY <1>2, <2>1
<1>3. CASE id = Unset /\ ~\E entry \in Entries : loaded = {entry}
  BY <1>3 DEF resolve_config_entry
<1> QED BY <1>1, <1>2, <1>3

\* A device resolves to one of its properties, and that is one of the account.
LEMMA DeviceOfAccount ==
    ASSUME NEW entry \in Entries, NEW device, ResolveDevice(entry, device) # Invalid
    PROVE  /\ AccountOf[ResolveDevice(entry, device)] = entry
           /\ ResolveDevice(entry, device) # Unset
<1>1. /\ device \in DOMAIN DeviceRegistry /\ PropertiesOf(entry, device) # {}
      /\ ResolveDevice(entry, device) = CHOOSE p \in PropertiesOf(entry, device) : TRUE
  BY DEF ResolveDevice
<1>2. ResolveDevice(entry, device) \in PropertiesOf(entry, device)
  BY <1>1
<1>3. PICK identifier \in DeviceRegistry[device].identifiers :
         /\ identifier[1] = Namespace[entry]
         /\ identifier[2] = ResolveDevice(entry, device)
  BY <1>2 DEF PropertiesOf
<1>4. device \in DOMAIN DeviceRegistry
  BY <1>1
<1>5. AccountOf[identifier[2]] = entry
  BY <1>3, <1>4, LookupsAssumption
<1>6. identifier[2] # Unset
  BY <1>3, <1>4, ResolutionAssumption
<1> QED BY <1>3, <1>5, <1>6

LEMMA TargetOfAccount ==
    ASSUME NEW entry \in Entries, NEW target,
           ResolveTarget(entry, target) \notin {Unset, Invalid}
    PROVE  AccountOf[ResolveTarget(entry, target)] = entry
<1>1. CASE target.entity_id # << >>
  <2>1. ResolveTarget(entry, target) = ResolveEntity(entry, Head(target.entity_id))
    BY <1>1 DEF ResolveTarget
  <2>2. ResolveTarget(entry, target) =
           ResolveDevice(entry, EntityRegistry[Head(target.entity_id)].device_id)
    BY <2>1 DEF ResolveEntity
  <2> QED BY <2>2, DeviceOfAccount
<1>2. CASE target.entity_id = << >> /\ target.device_id # << >>
  <2>1. ResolveTarget(entry, target) = ResolveDevice(entry, Head(target.device_id))
    BY <1>2 DEF ResolveTarget
  <2> QED BY <2>1, DeviceOfAccount
<1>3. CASE target.entity_id = << >> /\ target.device_id = << >>
  BY <1>3 DEF ResolveTarget
<1> QED BY <1>1, <1>2, <1>3

\* A property that is given and one that is targeted are the same, or the call
\* is refused.
LEMMA PropertyAgrees ==
    ASSUME NEW entry \in Entries, NEW id, NEW target,
           resolve_property_id(entry, id, target) # Invalid
    PROVE  LET property == resolve_property_id(entry, id, target) IN
           /\ id \in {Unset, property}
           /\ \/ ResolveTarget(entry, target) = Unset
              \/ ResolveTarget(entry, target) = property /\ AccountOf[property] = entry
<1> DEFINE targeted == ResolveTarget(entry, target)
           property == resolve_property_id(entry, id, target)
<1>1. CASE targeted = Unset
  BY <1>1 DEF resolve_property_id
<1>2. CASE targeted # Unset /\ id \in {Unset, targeted}
  <2>1. property = targeted
    BY <1>2 DEF resolve_property_id
  <2> QED BY <1>2, <2>1, TargetOfAccount
<1>3. CASE targeted # Unset /\ id \notin {Unset, targeted}
  BY <1>3 DEF resolve_property_id
<1> QED BY <1>1, <1>2, <1>3

\* helpers.py: no field of a call is ignored in favour of another one that names
\* something else, and no entity or device of an account makes a call act on
\* another account.
THEOREM CallsResolve == Spec => []CallsActOnWhatTheyName
<1>1. ASSUME loaded \subseteq Entries PROVE CallsActOnWhatTheyName
  <2> SUFFICES ASSUME NEW c \in Calls, resolve_config_entry(loaded, c.config_entry_id) # Invalid
               PROVE  LET entry == resolve_config_entry(loaded, c.config_entry_id) IN
                      /\ (/\ resolve_reservation_uuid(entry, c.reservation_uuid, c.entity_id,
                                                      reports) # Invalid
                          /\ c.entity_id # Unset) => c.entity_id \in EntitiesOf(entry)
                      /\ LET property == resolve_property_id(entry, c.property_id, c.target) IN
                         property # Invalid =>
                             /\ c.property_id \in {Unset, property}
                             /\ \/ ResolveTarget(entry, c.target) = Unset
                                \/ ResolveTarget(entry, c.target) = property
                                   /\ AccountOf[property] = entry
    BY DEF CallsActOnWhatTheyName
  <2> DEFINE entry == resolve_config_entry(loaded, c.config_entry_id)
  <2>1. entry \in Entries
    BY <1>1, EntryIsLoaded
  <2>2. ASSUME resolve_reservation_uuid(entry, c.reservation_uuid, c.entity_id, reports) # Invalid,
               c.entity_id # Unset
        PROVE  c.entity_id \in EntitiesOf(entry)
    BY <2>2 DEF resolve_reservation_uuid, EntitiesOf, OwnEntity
  <2> QED BY <2>1, <2>2, PropertyAgrees
<1> QED BY <1>1, EntriesLoaded, PTL

-----------------------------------------------------------------------------
(* Lists and pages                                                         *)

\* The places are finitely many, and ranks grow from one to the next.
LEMMA RankGrows ==
    ASSUME NEW S, NEW list \in Seq(S), NEW wanted
    PROVE  LET places == Places(list, wanted) IN
           /\ places \in SUBSET (1..Len(list)) /\ Len(list) \in Nat
           /\ IsFiniteSet(places)
           /\ Cardinality(places) \in 0..Len(list)
           /\ \A i \in places : Rank(list, wanted, i) \in 1..Cardinality(places)
           /\ \A i, j \in places : i < j => Rank(list, wanted, i) < Rank(list, wanted, j)
<1> DEFINE places == Places(list, wanted)
           UpTo(i) == {j \in places : j <= i}
<1>1. places \in SUBSET (1..Len(list)) /\ Len(list) \in Nat
  BY LenProperties DEF Places
<1>2. IsFiniteSet(1..Len(list)) /\ Cardinality(1..Len(list)) = Len(list)
  <2>1. 1 \in Int /\ Len(list) \in Int
    BY <1>1
  <2>2. Cardinality(1..Len(list)) = IF 1 > Len(list) THEN 0 ELSE Len(list) - 1 + 1
    BY <2>1, FS_Interval
  <2> QED BY <1>1, <2>1, <2>2, FS_Interval
<1>3. IsFiniteSet(places) /\ Cardinality(places) <= Len(list)
  BY <1>1, <1>2, FS_Subset
<1>4. Cardinality(places) \in Nat
  BY <1>3, FS_CardinalityType
<1>5. ASSUME NEW i PROVE IsFiniteSet(UpTo(i)) /\ Cardinality(UpTo(i)) \in Nat
                         /\ Cardinality(UpTo(i)) <= Cardinality(places)
  <2>1. UpTo(i) \in SUBSET places
    OBVIOUS
  <2> QED BY <1>3, <2>1, FS_Subset, FS_CardinalityType
<1>6. ASSUME NEW i \in places, NEW j \in places, i < j
      PROVE  Cardinality(UpTo(i)) < Cardinality(UpTo(j))
  <2>1. UpTo(i) \in SUBSET UpTo(j) /\ UpTo(j) # UpTo(i)
    <3>1. i \in Int /\ j \in Int
      BY <1>1
    <3>2. \A k \in places : k \in Int
      BY <1>1
    <3>3. j \in UpTo(j) /\ j \notin UpTo(i)
      BY <1>6, <3>1
    <3>4. ASSUME NEW k \in UpTo(i) PROVE k \in UpTo(j)
      <4>1. k \in places /\ k <= i /\ k \in Int
        BY <3>2
      <4> QED BY <4>1, <1>6, <3>1
    <3> QED BY <3>3, <3>4
  <2>2. Cardinality(UpTo(i)) <= Cardinality(UpTo(j)) /\ Cardinality(UpTo(i)) # Cardinality(UpTo(j))
    <3> HIDE DEF UpTo
    <3> QED BY <2>1, <1>5, FS_Subset
  <2> HIDE DEF UpTo
  <2> QED BY <2>2, <1>5
<1>7. ASSUME NEW i \in places PROVE Cardinality(UpTo(i)) >= 1
  <2>1. i \in UpTo(i)
    BY <1>1
  <2>2. Cardinality(UpTo(i)) # 0
    <3> HIDE DEF UpTo
    <3> QED BY <2>1, <1>5, FS_EmptySet
  <2> HIDE DEF UpTo
  <2> QED BY <2>2, <1>5
<1>8. \A i : Rank(list, wanted, i) = Cardinality(UpTo(i))
  BY DEF Rank
<1> HIDE DEF UpTo
<1> QED BY <1>1, <1>3, <1>4, <1>5, <1>6, <1>7, <1>8

\* Kept has each of the items that are wanted, at the rank of its place.
LEMMA KeptByRank ==
    ASSUME NEW S, NEW list \in Seq(S), NEW wanted
    PROVE  LET places == Places(list, wanted)
               kept == Kept(list, wanted)
           IN  /\ Len(kept) = Cardinality(places)
               /\ kept \in Seq(S)
               /\ \A i \in places : /\ Rank(list, wanted, i) \in 1..Len(kept)
                                    /\ kept[Rank(list, wanted, i)] = list[i]
               /\ \A k \in 1..Len(kept) :
                     \E i \in places : Rank(list, wanted, i) = k /\ kept[k] = list[i]
<1> DEFINE places == Places(list, wanted)
           kept == Kept(list, wanted)
           n == Cardinality(places)
           rank == [i \in places |-> Rank(list, wanted, i)]
           Nth(k) == CHOOSE i \in places : Rank(list, wanted, i) = k
<1>1. /\ places \in SUBSET (1..Len(list)) /\ Len(list) \in Nat
      /\ IsFiniteSet(places) /\ n \in Nat
      /\ \A i \in places : Rank(list, wanted, i) \in 1..n
      /\ \A i, j \in places : i < j => Rank(list, wanted, i) < Rank(list, wanted, j)
  BY RankGrows
<1>2. \A i, j \in places : Rank(list, wanted, i) = Rank(list, wanted, j) => i = j
  <2> SUFFICES ASSUME NEW i \in places, NEW j \in places, i # j
               PROVE  Rank(list, wanted, i) # Rank(list, wanted, j)
    OBVIOUS
  <2>1. i \in Int /\ j \in Int
    BY <1>1
  <2>2. i < j \/ j < i
    BY <2>1
  <2>3. Rank(list, wanted, i) \in Int /\ Rank(list, wanted, j) \in Int
    BY <1>1
  <2> QED BY <1>1, <2>2, <2>3
<1>3. rank \in Injection(places, 1..n)
  <2> HIDE DEF places
  <2>1. rank \in [places -> 1..n]
    BY <1>1
  <2>2. \A i, j \in places : rank[i] = rank[j] => i = j
    BY <1>2
  <2> QED BY <2>1, <2>2, Fun_IsInj
<1>4. rank \in Surjection(places, 1..n)
  <2>1. IsFiniteSet(1..n) /\ Cardinality(1..n) = n
    BY <1>1, FS_Interval
  <2> QED BY <1>3, <2>1, FS_Injection
<1>5. \A k \in 1..n : \E i \in places : Rank(list, wanted, i) = k
  <2> HIDE DEF places
  <2>1. \A k \in 1..n : \E i \in places : rank[i] = k
    BY <1>4 DEF Surjection
  <2> QED BY <2>1
<1>6. kept = [k \in 1..n |-> list[Nth(k)]]
  BY DEF Kept
<1>7. \A k \in 1..n : Nth(k) \in places /\ Rank(list, wanted, Nth(k)) = k
  <2> HIDE DEF places
  <2> QED BY <1>5
<1>8. \A i \in places : Nth(Rank(list, wanted, i)) = i
  BY <1>1, <1>2, <1>7
<1> HIDE DEF places, Nth, kept
<1>9. \A i \in 1..Len(list) : list[i] \in S
  BY ElementOfSeq
<1>10. /\ kept \in [1..n -> S] /\ n \in Nat
       /\ \A k \in 1..n : kept[k] = list[Nth(k)]
  BY <1>1, <1>6, <1>7, <1>9
<1>11. kept \in Seq(S) /\ Len(kept) = n
  <2>1. kept \in Seq(S)
    BY <1>10, SeqDef
  <2>2. DOMAIN kept = 1..n /\ DOMAIN kept = 1..Len(kept) /\ Len(kept) \in Nat
    BY <2>1, <1>10, LenProperties
  <2> QED BY <2>1, <2>2, <1>10
<1>12. kept = Kept(list, wanted) /\ places = Places(list, wanted)
  BY DEF kept, places
<1> QED BY <1>1, <1>7, <1>8, <1>10, <1>11, <1>12

\* What a quotient is, and that multiples grow.
LEMMA Quotient ==
    ASSUME NEW n \in Nat, NEW b \in Nat \ {0}
    PROVE  /\ n \div b \in Nat
           /\ (n \div b) * b <= n /\ n < (n \div b) * b + b
  OBVIOUS

LEMMA Times ==
    ASSUME NEW a \in Int, NEW c \in Int, NEW b \in Nat, a <= c
    PROVE  a * b \in Int /\ c * b \in Int /\ a * b <= c * b /\ (a + 1) * b = a * b + b
  OBVIOUS

\* A function on 1..n is a sequence of n elements.
LEMMA FunctionIsSeq ==
    ASSUME NEW R, NEW n \in Nat, NEW f \in [1..n -> R]
    PROVE  f \in Seq(R) /\ Len(f) = n
<1>1. f \in Seq(R)
  BY SeqDef
<1>2. DOMAIN f = 1..n /\ DOMAIN f = 1..Len(f) /\ Len(f) \in Nat
  BY <1>1, LenProperties
<1> QED BY <1>1, <1>2

\* Of a list without repetitions, what is kept has none; it has what is wanted.
LEMMA KeptHas ==
    ASSUME NEW S, NEW list \in Seq(S), NEW wanted
    PROVE  /\ Kept(list, wanted) \in Seq(S)
           /\ \A x : x \in ToSet(Kept(list, wanted)) <=> x \in ToSet(list) /\ x \in wanted
           /\ IsInjective(list) => IsInjective(Kept(list, wanted))
<1> DEFINE places == Places(list, wanted)
           kept == Kept(list, wanted)
<1>1. /\ Len(kept) = Cardinality(places) /\ kept \in Seq(S)
      /\ \A i \in places : /\ Rank(list, wanted, i) \in 1..Len(kept)
                           /\ kept[Rank(list, wanted, i)] = list[i]
      /\ \A k \in 1..Len(kept) :
            \E i \in places : Rank(list, wanted, i) = k /\ kept[k] = list[i]
  BY KeptByRank
<1>2. \A i : i \in places <=> i \in DOMAIN list /\ list[i] \in wanted
  BY DEF Places
<1>3. DOMAIN kept = 1..Len(kept)
  BY <1>1, LenProperties
<1> HIDE DEF kept, places
<1>4. ASSUME NEW a \in DOMAIN kept, NEW b \in DOMAIN kept, kept[a] = kept[b],
             IsInjective(list)
      PROVE  a = b
  <2>1. PICK i \in places : Rank(list, wanted, i) = a /\ kept[a] = list[i]
    BY <1>1, <1>3
  <2>2. PICK j \in places : Rank(list, wanted, j) = b /\ kept[b] = list[j]
    BY <1>1, <1>3
  <2>3. i = j
    BY <2>1, <2>2, <1>2, <1>4 DEF IsInjective
  <2> QED BY <2>1, <2>2, <2>3
<1>5. \A x : x \in ToSet(kept) <=> x \in ToSet(list) /\ x \in wanted
  <2>1. ASSUME NEW x \in ToSet(kept) PROVE x \in ToSet(list) /\ x \in wanted
    <3>1. PICK k \in 1..Len(kept) : kept[k] = x
      BY <1>3 DEF ToSet
    <3>2. PICK i \in places : kept[k] = list[i]
      BY <1>1
    <3> QED BY <1>2, <3>1, <3>2 DEF ToSet
  <2>2. ASSUME NEW x \in ToSet(list), x \in wanted PROVE x \in ToSet(kept)
    <3>1. PICK i \in places : list[i] = x
      BY <1>2, <2>2 DEF ToSet
    <3> QED BY <1>1, <1>3, <3>1 DEF ToSet
  <2> QED BY <2>1, <2>2
<1>6. IsInjective(list) => IsInjective(kept)
  BY <1>4 DEF IsInjective
<1> QED BY <1>1, <1>5, <1>6 DEF kept

\* One list is within another, none of its items at a place before its own; and
\* each item of one list stands as far in the other, or further.
Embeds(list, other) ==
    \E f \in [DOMAIN list -> DOMAIN other] : \A i \in DOMAIN list :
        /\ other[f[i]] = list[i] /\ f[i] >= i
        /\ \A j \in DOMAIN list : i < j => f[i] < f[j]

Further(list, other) ==
    \A i \in DOMAIN list : \E j \in DOMAIN other : j >= i /\ other[j] = list[i]

LEMMA EmbeddedFurther ==
    ASSUME NEW list, NEW other, Embeds(list, other)
    PROVE  Further(list, other)
BY DEF Embeds, Further

\* What is kept of a list stands as far in what is kept of one that it is within.
LEMMA KeptFurther ==
    ASSUME NEW S, NEW list \in Seq(S), NEW other \in Seq(S), Embeds(list, other), NEW wanted
    PROVE  Further(Kept(list, wanted), Kept(other, wanted))
<1> DEFINE kept == Kept(list, wanted)
           more == Kept(other, wanted)
           UpTo(l, i) == {j \in Places(l, wanted) : j <= i}
<1>1. PICK f \in [DOMAIN list -> DOMAIN other] : \A i \in DOMAIN list :
         /\ other[f[i]] = list[i] /\ f[i] >= i
         /\ \A j \in DOMAIN list : i < j => f[i] < f[j]
  BY DEF Embeds
<1>2. /\ DOMAIN list = 1..Len(list) /\ DOMAIN other = 1..Len(other)
      /\ Len(list) \in Nat /\ Len(other) \in Nat
  BY LenProperties
<1>3. /\ kept \in Seq(S) /\ more \in Seq(S)
      /\ DOMAIN kept = 1..Len(kept) /\ DOMAIN more = 1..Len(more)
      /\ Len(kept) \in Nat /\ Len(more) \in Nat
      /\ \A k \in 1..Len(kept) :
            \E i \in Places(list, wanted) : Rank(list, wanted, i) = k /\ kept[k] = list[i]
      /\ \A i \in Places(other, wanted) : /\ Rank(other, wanted, i) \in 1..Len(more)
                                         /\ more[Rank(other, wanted, i)] = other[i]
  <2>1. kept \in Seq(S) /\ more \in Seq(S)
    BY KeptByRank
  <2> QED BY <2>1, KeptByRank, LenProperties
<1> HIDE DEF kept, more
<1> SUFFICES ASSUME NEW k \in 1..Len(kept)
             PROVE  \E m \in 1..Len(more) : m >= k /\ more[m] = kept[k]
  BY <1>3 DEF Further, kept, more
<1>4. PICK i \in Places(list, wanted) : Rank(list, wanted, i) = k /\ kept[k] = list[i]
  BY <1>3
<1>5. /\ i \in 1..Len(list) /\ f[i] \in 1..Len(other)
      /\ f[i] \in Places(other, wanted) /\ other[f[i]] = list[i]
  BY <1>1, <1>2, <1>4 DEF Places
<1> DEFINE from == UpTo(list, i)
           to == UpTo(other, f[i])
           g == [j \in from |-> f[j]]
<1>6. \A j \in from : j \in 1..Len(list) /\ j <= i /\ list[j] \in wanted
  BY <1>2 DEF Places
<1>7. \A j \in from : f[j] \in to
  <2> SUFFICES ASSUME NEW j \in from PROVE f[j] \in to
    OBVIOUS
  <2>1. j \in 1..Len(list) /\ j <= i /\ list[j] \in wanted
    BY <1>6
  <2>2. f[j] \in 1..Len(other) /\ other[f[j]] \in wanted
    BY <1>1, <1>2, <2>1
  <2>3. f[j] <= f[i]
    <3>1. j = i \/ j < i
      BY <1>5, <2>1
    <3>2. f[j] \in Int /\ f[i] \in Int
      BY <1>5, <2>2
    <3>3. j < i => f[j] < f[i]
      BY <1>1, <1>2, <1>5, <2>1
    <3> HIDE DEF from, to, g
    <3> QED BY <3>1, <3>2, <3>3
  <2> QED BY <1>2, <2>2, <2>3 DEF Places
<1>8. \A a, b \in from : f[a] = f[b] => a = b
  <2> SUFFICES ASSUME NEW a \in from, NEW b \in from, a # b PROVE f[a] # f[b]
    OBVIOUS
  <2>1. a \in 1..Len(list) /\ b \in 1..Len(list)
    BY <1>6
  <2>2. a < b \/ b < a
    BY <1>2, <2>1
  <2>3. f[a] \in Int /\ f[b] \in Int
    BY <1>1, <1>2, <2>1
  <2> QED BY <1>1, <1>2, <2>1, <2>2, <2>3
<1>9. IsFiniteSet(to)
  <2>1. IsFiniteSet(Places(other, wanted)) /\ to \in SUBSET Places(other, wanted)
    BY RankGrows
  <2> QED BY <2>1, FS_Subset
<1> HIDE DEF from, to
<1>10. g \in Injection(from, to)
  BY <1>7, <1>8, Fun_IsInj
<1>11. Cardinality(from) <= Cardinality(to)
  BY <1>9, <1>10, FS_Injection
<1>12. Cardinality(from) = k /\ Cardinality(to) = Rank(other, wanted, f[i])
  BY <1>4 DEF Rank, from, to
<1>13. /\ Rank(other, wanted, f[i]) \in 1..Len(more)
       /\ more[Rank(other, wanted, f[i])] = list[i]
  BY <1>3, <1>5
<1> QED BY <1>3, <1>4, <1>11, <1>12, <1>13

\* An item that is put into a list moves those behind it one place further.
LEMMA Inserted ==
    ASSUME NEW S, NEW list \in Seq(S), NEW x \in S, NEW n \in 1..(Len(list) + 1)
    PROVE  LET new == InsertAt(list, n, x) IN
           /\ new \in Seq(S) /\ Embeds(list, new)
           /\ ToSet(new) = ToSet(list) \cup {x}
           /\ IsInjective(list) /\ x \notin ToSet(list) => IsInjective(new)
<1> DEFINE new == InsertAt(list, n, x)
           front == SubSeq(list, 1, n - 1)
           back == SubSeq(list, n, Len(list))
           end == Len(list)
<1>1. /\ end \in Nat /\ DOMAIN list = 1..end /\ n \in Int
      /\ \A i \in 1..end : list[i] \in S
  BY LenProperties, ElementOfSeq
<1>2. /\ front \in Seq(S) /\ Len(front) = n - 1
      /\ \A i \in 1..(n - 1) : front[i] = list[i]
  <2>1. \A i \in 1..(n - 1) : list[i] \in S
    BY <1>1
  <2>2. 1 \in Int /\ n - 1 \in Int
    BY <1>1
  <2>3. /\ front \in Seq(S) /\ Len(front) = IF 1 <= n - 1 THEN (n - 1) - 1 + 1 ELSE 0
        /\ \A i \in 1..((n - 1) - 1 + 1) : front[i] = list[1 + i - 1]
    BY <2>1, <2>2, SubSeqProperties
  <2> HIDE DEF front
  <2> QED BY <1>1, <2>3
<1>3. /\ back \in Seq(S) /\ Len(back) = end - n + 1
      /\ \A i \in 1..(end - n + 1) : back[i] = list[n + i - 1]
  <2>1. \A i \in n..end : list[i] \in S
    BY <1>1
  <2>2. /\ back \in Seq(S) /\ Len(back) = IF n <= end THEN end - n + 1 ELSE 0
        /\ \A i \in 1..(end - n + 1) : back[i] = list[n + i - 1]
    BY <1>1, <2>1, SubSeqProperties
  <2> HIDE DEF back
  <2> QED BY <1>1, <2>2
<1>4. <<x>> \in Seq(S) /\ Len(<<x>>) = 1 /\ <<x>>[1] = x
  OBVIOUS
<1> DEFINE head == front \o <<x>>
<1>5. /\ head \in Seq(S) /\ Len(head) = n
      /\ \A i \in 1..n : head[i] = IF i < n THEN list[i] ELSE x
  <2> HIDE DEF front
  <2>1. /\ head \in Seq(S) /\ Len(head) = Len(front) + Len(<<x>>)
        /\ \A i \in 1..(Len(front) + Len(<<x>>)) :
              head[i] = IF i <= Len(front) THEN front[i] ELSE <<x>>[i - Len(front)]
    BY <1>2, <1>4, ConcatProperties
  <2> HIDE DEF head
  <2>2. Len(head) = n /\ \A i \in 1..n : head[i] = IF i <= n - 1 THEN front[i]
                                                  ELSE <<x>>[i - (n - 1)]
    <3>1. Len(front) + Len(<<x>>) = n /\ Len(front) = n - 1
      BY <1>1, <1>2, <1>4
    <3> QED BY <2>1, <3>1
  <2>3. ASSUME NEW i \in 1..n PROVE head[i] = IF i < n THEN list[i] ELSE x
    <3>1. CASE i < n
      BY <1>1, <1>2, <2>2, <3>1
    <3>2. CASE i = n
      <4>1. i - (n - 1) = 1 /\ ~ (i <= n - 1)
        BY <1>1, <3>2
      <4> QED BY <1>4, <2>2, <3>2, <4>1
    <3> QED BY <1>1, <3>1, <3>2
  <2> QED BY <2>1, <2>2, <2>3
<1>6. new = head \o back
  BY DEF InsertAt
<1>7. /\ new \in Seq(S) /\ Len(new) = end + 1
      /\ \A i \in 1..(end + 1) : new[i] = IF i < n THEN list[i]
                                          ELSE IF i = n THEN x ELSE list[i - 1]
  <2> HIDE DEF head, back, end, front
  <2>1. /\ head \o back \in Seq(S) /\ Len(head \o back) = Len(head) + Len(back)
        /\ \A i \in 1..(Len(head) + Len(back)) :
              (head \o back)[i] = IF i <= Len(head) THEN head[i] ELSE back[i - Len(head)]
    BY <1>3, <1>5, ConcatProperties
  <2> HIDE DEF new
  <2>2. Len(head) + Len(back) = end + 1
    BY <1>1, <1>3, <1>5
  <2>3. ASSUME NEW i \in 1..(end + 1)
        PROVE  new[i] = IF i < n THEN list[i] ELSE IF i = n THEN x ELSE list[i - 1]
    <3>1. CASE i <= n
      BY <1>1, <1>5, <1>6, <2>1, <2>2, <3>1
    <3>2. CASE i > n
      <4>1. i - n \in 1..(end - n + 1) /\ n + (i - n) - 1 = i - 1 /\ ~ (i <= n)
        BY <1>1, <3>2
      <4>2. new[i] = back[i - n]
        BY <1>5, <1>6, <2>1, <2>2, <4>1
      <4>3. back[i - n] = list[i - 1]
        BY <1>3, <4>1
      <4> QED BY <1>1, <3>2, <4>2, <4>3
    <3> QED BY <1>1, <3>1, <3>2
  <2> QED BY <1>6, <2>1, <2>2, <2>3
<1>8. DOMAIN new = 1..(end + 1)
  BY <1>7, LenProperties
<1> HIDE DEF new, end
<1>9. Embeds(list, new)
  <2> DEFINE f == [i \in 1..end |-> IF i < n THEN i ELSE i + 1]
  <2>1. f \in [DOMAIN list -> DOMAIN new]
    BY <1>1, <1>8
  <2>2. ASSUME NEW i \in DOMAIN list
        PROVE  /\ new[f[i]] = list[i] /\ f[i] >= i
               /\ \A j \in DOMAIN list : i < j => f[i] < f[j]
    <3>1. f[i] = IF i < n THEN i ELSE i + 1
      BY <1>1
    <3>2. new[f[i]] = list[i]
      BY <1>1, <1>7, <3>1
    <3> QED BY <1>1, <3>2
  <2> HIDE DEF f
  <2> QED BY <2>1, <2>2 DEF Embeds
<1>10. ToSet(new) = ToSet(list) \cup {x}
  <2>1. ASSUME NEW i \in 1..end PROVE list[i] \in ToSet(new)
    <3>1. list[i] = new[i] \/ list[i] = new[i + 1]
      <4>1. CASE i < n
        BY <1>1, <1>7, <4>1
      <4>2. CASE i >= n
        <5>1. i + 1 \in 1..(end + 1) /\ ~ (i + 1 < n) /\ i + 1 # n /\ (i + 1) - 1 = i
          BY <1>1, <4>2
        <5> QED BY <1>7, <5>1
      <4> QED BY <1>1, <4>1, <4>2
    <3>2. i \in DOMAIN new /\ i + 1 \in DOMAIN new
      BY <1>1, <1>8
    <3> QED BY <3>1, <3>2 DEF ToSet
  <2>2. x \in ToSet(new)
    BY <1>1, <1>7, <1>8 DEF ToSet
  <2>3. ASSUME NEW i \in 1..(end + 1) PROVE new[i] \in ToSet(list) \cup {x}
    <3>1. CASE i = n
      BY <1>1, <1>7, <3>1
    <3>2. CASE i < n
      BY <1>1, <1>7, <3>2 DEF ToSet
    <3>3. CASE i > n
      <4>1. i - 1 \in 1..end /\ new[i] = list[i - 1]
        BY <1>1, <1>7, <3>3
      <4> QED BY <1>1, <4>1 DEF ToSet
    <3> QED BY <1>1, <3>1, <3>2, <3>3
  <2> QED BY <1>1, <1>8, <2>1, <2>2, <2>3 DEF ToSet
<1>11. ASSUME IsInjective(list), x \notin ToSet(list) PROVE IsInjective(new)
  <2>1. \A i, j \in 1..end : list[i] = list[j] => i = j
    BY <1>1, <1>11 DEF IsInjective
  <2>2. \A i \in 1..end : list[i] # x
    BY <1>1, <1>11 DEF ToSet
  <2>3. ASSUME NEW i \in 1..(end + 1), NEW j \in 1..(end + 1), i < j PROVE new[i] # new[j]
    <3>1. CASE j < n
      BY <1>1, <1>7, <2>1, <2>3, <3>1
    <3>2. CASE j = n
      BY <1>1, <1>7, <2>2, <2>3, <3>2
    <3>3. CASE j > n
      <4>1. j - 1 \in 1..end /\ new[j] = list[j - 1]
        BY <1>1, <1>7, <3>3
      <4>2. CASE i < n
        BY <1>1, <1>7, <2>1, <2>3, <3>3, <4>1, <4>2
      <4>3. CASE i = n
        BY <1>1, <1>7, <2>2, <4>1, <4>3
      <4>4. CASE i > n
        <5>1. i - 1 \in 1..end /\ new[i] = list[i - 1] /\ i - 1 # j - 1
          BY <1>1, <1>7, <2>3, <4>4
        <5> QED BY <2>1, <4>1, <5>1
      <4> QED BY <1>1, <4>2, <4>3, <4>4
    <3> QED BY <1>1, <3>1, <3>2, <3>3
  <2>4. ASSUME NEW i \in 1..(end + 1), NEW j \in 1..(end + 1), new[i] = new[j] PROVE i = j
    <3>1. i < j \/ j < i \/ i = j
      BY <1>1
    <3> QED BY <2>3, <2>4, <3>1
  <2> QED BY <1>8, <2>4 DEF IsInjective
<1> QED BY <1>7, <1>9, <1>10, <1>11 DEF new

\* An item that is taken from a list moves those behind it one place back.
LEMMA WithoutOne ==
    ASSUME NEW S, NEW list \in Seq(S), NEW n \in DOMAIN list
    PROVE  LET new == RemoveAt(list, n) IN
           /\ new \in Seq(S) /\ Embeds(new, list)
           /\ ToSet(new) \subseteq ToSet(list)
           /\ \A x \in ToSet(list) : x # list[n] => x \in ToSet(new)
           /\ IsInjective(list) => IsInjective(new)
<1> DEFINE new == RemoveAt(list, n)
           front == SubSeq(list, 1, n - 1)
           back == SubSeq(list, n + 1, Len(list))
           end == Len(list)
<1>1. /\ end \in Nat /\ DOMAIN list = 1..end /\ n \in 1..end
      /\ \A i \in 1..end : list[i] \in S
  BY LenProperties, ElementOfSeq
<1>2. /\ front \in Seq(S) /\ Len(front) = n - 1
      /\ \A i \in 1..(n - 1) : front[i] = list[i]
  <2>1. \A i \in 1..(n - 1) : list[i] \in S
    BY <1>1
  <2>2. 1 \in Int /\ n - 1 \in Int
    BY <1>1
  <2>3. /\ front \in Seq(S) /\ Len(front) = IF 1 <= n - 1 THEN (n - 1) - 1 + 1 ELSE 0
        /\ \A i \in 1..((n - 1) - 1 + 1) : front[i] = list[1 + i - 1]
    BY <2>1, <2>2, SubSeqProperties
  <2> HIDE DEF front, end
  <2> QED BY <1>1, <2>3
<1>3. /\ back \in Seq(S) /\ Len(back) = end - n
      /\ \A i \in 1..(end - n) : back[i] = list[n + i]
  <2>1. \A i \in (n + 1)..end : list[i] \in S
    BY <1>1
  <2>2. n + 1 \in Int /\ end \in Int
    BY <1>1
  <2>3. /\ back \in Seq(S) /\ Len(back) = IF n + 1 <= end THEN end - (n + 1) + 1 ELSE 0
        /\ \A i \in 1..(end - (n + 1) + 1) : back[i] = list[(n + 1) + i - 1]
    BY <2>1, <2>2, SubSeqProperties
  <2> HIDE DEF back, end
  <2>4. end - (n + 1) + 1 = end - n /\ \A i \in 1..(end - n) : (n + 1) + i - 1 = n + i
    BY <1>1
  <2> QED BY <1>1, <2>3, <2>4
<1>4. new = front \o back
  BY DEF RemoveAt
<1>5. /\ new \in Seq(S) /\ Len(new) = end - 1
      /\ \A i \in 1..(end - 1) : new[i] = IF i < n THEN list[i] ELSE list[i + 1]
  <2> HIDE DEF back, end, front, new
  <2>1. /\ front \o back \in Seq(S) /\ Len(front \o back) = Len(front) + Len(back)
        /\ \A i \in 1..(Len(front) + Len(back)) :
              (front \o back)[i] = IF i <= Len(front) THEN front[i] ELSE back[i - Len(front)]
    BY <1>2, <1>3, ConcatProperties
  <2>2. Len(front) + Len(back) = end - 1
    BY <1>1, <1>2, <1>3
  <2>3. ASSUME NEW i \in 1..(end - 1)
        PROVE  new[i] = IF i < n THEN list[i] ELSE list[i + 1]
    <3>1. CASE i < n
      BY <1>1, <1>2, <1>4, <2>1, <2>2, <3>1
    <3>2. CASE i >= n
      <4>1. i - (n - 1) \in 1..(end - n) /\ n + (i - (n - 1)) = i + 1 /\ ~ (i <= n - 1)
        BY <1>1, <3>2
      <4>2. new[i] = back[i - (n - 1)]
        BY <1>2, <1>4, <2>1, <2>2, <4>1
      <4>3. back[i - (n - 1)] = list[i + 1]
        BY <1>3, <4>1
      <4> QED BY <1>1, <3>2, <4>2, <4>3
    <3> QED BY <1>1, <3>1, <3>2
  <2> QED BY <1>4, <2>1, <2>2, <2>3
<1>6. DOMAIN new = 1..(end - 1)
  BY <1>5, LenProperties
<1> HIDE DEF new, end
<1> DEFINE f == [i \in 1..(end - 1) |-> IF i < n THEN i ELSE i + 1]
<1>7. /\ f \in [DOMAIN new -> DOMAIN list]
      /\ \A i \in DOMAIN new : /\ list[f[i]] = new[i] /\ f[i] >= i /\ f[i] # n
                               /\ \A j \in DOMAIN new : i < j => f[i] < f[j]
  <2>1. f \in [DOMAIN new -> DOMAIN list]
    BY <1>1, <1>6
  <2>2. ASSUME NEW i \in DOMAIN new
        PROVE  /\ list[f[i]] = new[i] /\ f[i] >= i /\ f[i] # n
               /\ \A j \in DOMAIN new : i < j => f[i] < f[j]
    <3>1. f[i] = IF i < n THEN i ELSE i + 1
      BY <1>6
    <3>2. list[f[i]] = new[i]
      BY <1>1, <1>5, <1>6, <3>1
    <3> QED BY <1>1, <1>6, <3>1, <3>2
  <2> QED BY <2>1, <2>2
<1>8. ASSUME NEW x \in ToSet(list), x # list[n] PROVE x \in ToSet(new)
  <2>1. PICK i \in 1..end : list[i] = x
    BY <1>1 DEF ToSet
  <2>2. i # n
    BY <1>8, <2>1
  <2>3. CASE i < n
    <3>1. i \in 1..(end - 1) /\ new[i] = x
      BY <1>1, <1>5, <2>1, <2>3
    <3> QED BY <1>6, <3>1 DEF ToSet
  <2>4. CASE i > n
    <3>1. i - 1 \in 1..(end - 1) /\ ~ (i - 1 < n) /\ (i - 1) + 1 = i
      BY <1>1, <2>4
    <3>2. new[i - 1] = x
      BY <1>5, <2>1, <3>1
    <3> QED BY <1>6, <3>1, <3>2 DEF ToSet
  <2> QED BY <1>1, <2>2, <2>3, <2>4
<1> HIDE DEF f
<1>9. Embeds(new, list)
  BY <1>7 DEF Embeds
<1>10. ToSet(new) \subseteq ToSet(list)
  BY <1>7 DEF ToSet
<1>11. ASSUME IsInjective(list) PROVE IsInjective(new)
  <2>1. ASSUME NEW i \in DOMAIN new, NEW j \in DOMAIN new, i < j PROVE new[i] # new[j]
    <3>1. f[i] \in 1..end /\ f[j] \in 1..end /\ f[i] < f[j] /\ list[f[i]] = new[i] /\ list[f[j]] = new[j]
      BY <1>1, <1>7, <2>1
    <3>2. f[i] # f[j]
      BY <3>1
    <3> QED BY <1>1, <1>11, <3>1, <3>2 DEF IsInjective
  <2>2. ASSUME NEW i \in DOMAIN new, NEW j \in DOMAIN new, new[i] = new[j] PROVE i = j
    <3>1. i < j \/ j < i \/ i = j
      BY <1>1, <1>6
    <3> QED BY <2>1, <2>2, <3>1
  <2> QED BY <2>2 DEF IsInjective
<1> QED BY <1>5, <1>8, <1>9, <1>10, <1>11 DEF new

\* Up to the last page of n items, at b a page, every page is full but that one.
LEMMA LastPageOf ==
    ASSUME NEW n \in Nat, NEW p \in Int, NEW b \in Nat \ {0}
    PROVE  LET last == (n + b - 1) \div b IN
           /\ last \in Nat
           /\ p >= last => p * b >= n
           /\ p < last => p * b < n
           /\ \A m \in Nat \ {0} : n <= m => last <= (m - 1) \div b + 1
<1> DEFINE last == (n + b - 1) \div b
<1>1. last \in Nat /\ last * b <= n + b - 1 /\ n - 1 < last * b
  BY Quotient
<1> HIDE DEF last
<1>2. p >= last => p * b >= n
  BY <1>1, Times
<1>3. p < last => p * b < n
  <2>1. p < last => (p + 1) * b <= last * b
    BY <1>1, Times
  <2> QED BY <2>1, <1>1, Times
<1>4. ASSUME NEW m \in Nat \ {0}, n <= m PROVE last <= (m - 1) \div b + 1
  <2> DEFINE q == (m - 1) \div b
  <2>1. q \in Nat /\ m - 1 < q * b + b
    BY Quotient
  <2> HIDE DEF q
  <2> SUFFICES ASSUME q + 2 <= last PROVE FALSE
    BY <1>1, <2>1 DEF q
  <2>2. (q + 2) * b <= last * b
    BY <1>1, <2>1, Times
  <2>3. (q + 2) * b = q * b + b + b /\ q * b \in Int /\ last * b \in Int
    BY <1>1, <2>1
  <2> QED BY <1>1, <1>4, <2>1, <2>2, <2>3
<1> QED BY <1>1, <1>2, <1>3, <1>4 DEF last

\* A page has the items that follow those of the pages before it, if there are any;
\* what is not on it is still to come, and at the last page nothing is.
LEMMA PageHas ==
    ASSUME NEW S, NEW list \in Seq(S), IsInjective(list), NEW page \in Nat \ {0}
    PROVE  LET due == PageOf(list, page)
               before == (page - 1) * PER_PAGE_MAX
               after == page * PER_PAGE_MAX
           IN
           /\ due.items \in Seq(S) /\ IsInjective(due.items)
           /\ \A x \in ToSet(due.items) : /\ ToCome(list, before, x) /\ ~ToCome(list, after, x)
                                          /\ x \in ToSet(list)
           /\ \A x : ToCome(list, before, x) => x \in ToSet(due.items) \/ ToCome(list, after, x)
           /\ \A x : ToCome(list, after, x) => ToCome(list, before, x)
           /\ due.last_page \in Nat
           /\ page >= due.last_page => \A x : ~ToCome(list, after, x)
           /\ \A m \in Nat \ {0} :
                 Len(list) <= m => due.last_page <= (m - 1) \div PER_PAGE_MAX + 1
<1> DEFINE due == PageOf(list, page)
           b == PER_PAGE_MAX
           before == (page - 1) * b
           after == page * b
           items == due.items
           last == due.last_page
           n == Len(list)
           end == IF after < n THEN after ELSE n
<1>1. /\ n \in Nat /\ DOMAIN list = 1..n /\ b \in Nat \ {0}
      /\ \A i \in 1..n : list[i] \in S
      /\ \A i, j \in 1..n : list[i] = list[j] => i = j
  BY LenProperties, ElementOfSeq, ReadsAssumption DEF IsInjective
<1>2. before \in Nat /\ after \in Nat /\ after = before + b
  <2>1. b \in Nat
    BY <1>1
  <2> HIDE DEF b
  <2>2. page - 1 \in Nat /\ page - 1 \in Int /\ (page - 1) + 1 = page
    OBVIOUS
  <2>3. ((page - 1) + 1) * b = (page - 1) * b + b /\ (page - 1) * b \in Int
    BY <2>1, <2>2, Times
  <2>4. 0 * b <= (page - 1) * b /\ 0 * b = 0
    BY <2>1, <2>2, Times
  <2> QED BY <2>1, <2>2, <2>3, <2>4
<1>3. /\ items = SubSeq(list, before + 1, end)
      /\ last = IF list = << >> THEN 1 ELSE (n + b - 1) \div b
  BY DEF PageOf, Proper
<1> HIDE DEF due, items, last, before, after, b, n
<1>4. end \in Nat /\ end <= n /\ (after < n => end = after) /\ (n <= after => end = n)
  BY <1>1, <1>2
<1> HIDE DEF end
<1>5. /\ items \in Seq(S) /\ Len(items) = IF before < end THEN end - before ELSE 0
      /\ \A i \in 1..Len(items) : items[i] = list[before + i]
  <2>1. \A i \in (before + 1)..end : list[i] \in S
    BY <1>1, <1>2, <1>4
  <2>2. before + 1 \in Int /\ end \in Int
    BY <1>2, <1>4
  <2>3. /\ SubSeq(list, before + 1, end) \in Seq(S)
        /\ Len(SubSeq(list, before + 1, end))
             = IF before + 1 <= end THEN end - (before + 1) + 1 ELSE 0
        /\ \A i \in 1..(end - (before + 1) + 1) :
              SubSeq(list, before + 1, end)[i] = list[(before + 1) + i - 1]
    BY <2>1, <2>2, SubSeqProperties
  <2>4. \A i \in Int : (before + 1) + i - 1 = before + i
    BY <1>2
  <2>5. /\ end - (before + 1) + 1 = end - before
        /\ before + 1 <= end <=> before < end
    BY <1>2, <1>4
  <2>6. Len(items) = IF before < end THEN end - before ELSE 0
    BY <1>3, <2>3, <2>5
  <2>7. \A i \in 1..Len(items) : i \in Int /\ i \in 1..(end - (before + 1) + 1)
    BY <1>2, <1>4, <2>5, <2>6
  <2> QED BY <1>3, <2>3, <2>4, <2>6, <2>7
<1>6. DOMAIN items = 1..Len(items) /\ Len(items) \in Nat
  BY <1>5, LenProperties
<1>7. \A i \in 1..Len(items) : before + i \in 1..n /\ before + i > before /\ before + i <= after
  <2>1. end <= after
    BY <1>1, <1>2, <1>4
  <2> QED BY <1>1, <1>2, <1>4, <1>5, <1>6, <2>1
<1>8. IsInjective(items)
  <2>1. ASSUME NEW i \in 1..Len(items), NEW j \in 1..Len(items), items[i] = items[j]
        PROVE  i = j
    <3>1. before + i = before + j
      BY <1>1, <1>5, <1>7, <2>1
    <3> QED BY <1>2, <1>6, <3>1
  <2> QED BY <1>6, <2>1 DEF IsInjective
<1>9. ASSUME NEW x \in ToSet(items)
      PROVE  ToCome(list, before, x) /\ ~ToCome(list, after, x) /\ x \in ToSet(list)
  <2>1. PICK i \in 1..Len(items) : items[i] = x
    BY <1>6 DEF ToSet
  <2>2. before + i \in 1..n /\ list[before + i] = x /\ before + i > before /\ before + i <= after
    BY <1>5, <1>7, <2>1
  <2>3. \A j \in 1..n : list[j] = x => ~ (j > after)
    BY <1>1, <1>2, <2>2
  <2> QED BY <1>1, <2>2, <2>3 DEF ToCome, ToSet
<1>10. ASSUME NEW x, ToCome(list, before, x), ~ToCome(list, after, x)
       PROVE  x \in ToSet(items)
  <2>1. PICK i \in 1..n : i > before /\ list[i] = x /\ ~ (i > after)
    BY <1>1, <1>10 DEF ToCome
  <2>2. i <= end /\ before < end /\ i - before \in 1..(end - before) /\ before + (i - before) = i
    BY <1>1, <1>2, <1>4, <2>1
  <2>3. i - before \in 1..Len(items)
    BY <1>5, <2>2
  <2> QED BY <1>5, <1>6, <2>1, <2>2, <2>3 DEF ToSet
<1>11. ASSUME NEW x, ToCome(list, after, x) PROVE ToCome(list, before, x)
  <2>1. PICK i \in 1..n : i > after /\ list[i] = x
    BY <1>1, <1>11 DEF ToCome
  <2>2. i > before
    BY <1>1, <1>2, <2>1
  <2> QED BY <1>1, <2>1, <2>2 DEF ToCome
<1>12. /\ last \in Nat
       /\ page >= last => after >= n
       /\ \A m \in Nat \ {0} : n <= m => last <= (m - 1) \div b + 1
  <2>1. CASE list = << >>
    <3>1. n = 0 /\ last = 1
      BY <1>3, <2>1, EmptySeq DEF n
    <3>2. \A m \in Nat \ {0} : (m - 1) \div b \in Nat
      BY <1>1, Quotient
    <3> QED BY <1>2, <3>1, <3>2
  <2>2. CASE list # << >>
    <3>1. last = (n + b - 1) \div b
      BY <1>3, <2>2
    <3>2. page \in Int
      OBVIOUS
    <3>3. /\ (n + b - 1) \div b \in Nat
          /\ page >= (n + b - 1) \div b => page * b >= n
          /\ \A m \in Nat \ {0} : n <= m => (n + b - 1) \div b <= (m - 1) \div b + 1
      BY <1>1, <3>2, LastPageOf
    <3> QED BY <3>1, <3>3 DEF after
  <2> QED BY <2>1, <2>2
<1>13. ASSUME page >= last PROVE \A x : ~ToCome(list, after, x)
  BY <1>1, <1>2, <1>12, <1>13 DEF ToCome
<1> QED BY <1>5, <1>8, <1>9, <1>10, <1>11, <1>12, <1>13 DEF due, items, last, before, after, b, n

\* The batches of a list of properties share none and have all of them.
LEMMA ChunksHave ==
    ASSUME NEW ids \in Seq(Properties), IsInjective(ids)
    PROVE  LET batches == ChunkPropertyIds(ids) IN
           /\ batches \in Seq(Seq(Properties))
           /\ \A c \in 1..Len(batches) : ToSet(batches[c]) \subseteq ToSet(ids)
           /\ \A c, d \in 1..Len(batches) :
                 c # d => ToSet(batches[c]) \cap ToSet(batches[d]) = {}
           /\ \A x \in ToSet(ids) : \E c \in 1..Len(batches) : x \in ToSet(batches[c])
<1> DEFINE b == PROPERTY_BATCH_MAX
           n == Len(ids)
           chunks == (n + b - 1) \div b
           End(c) == IF c = chunks THEN n ELSE c * b
           batches == ChunkPropertyIds(ids)
<1>1. /\ n \in Nat /\ DOMAIN ids = 1..n /\ b \in Nat \ {0} /\ b \in Nat
      /\ \A i \in 1..n : ids[i] \in Properties
      /\ \A i, j \in 1..n : ids[i] = ids[j] => i = j
  BY LenProperties, ElementOfSeq, ReadsAssumption DEF IsInjective
<1>2. batches = [c \in 1..chunks |-> SubSeq(ids, (c - 1) * b + 1, End(c))]
  BY DEF ChunkPropertyIds
<1> HIDE DEF b, n
<1>3. chunks \in Nat
  BY <1>1, LastPageOf
<1>4. \A c \in Int : (c >= chunks => c * b >= n) /\ (c < chunks => c * b < n)
  <2> HIDE DEF chunks
  <2> QED BY <1>1, LastPageOf DEF chunks
<1> HIDE DEF chunks, batches
<1>5. ASSUME NEW c \in 1..chunks
      PROVE  /\ (c - 1) * b \in Nat /\ End(c) \in Nat /\ (c - 1) * b < End(c) /\ End(c) <= n
             /\ End(c) <= c * b /\ c * b \in Int
             /\ c < chunks => End(c) = c * b
  <2>1. c - 1 \in Nat /\ c \in Int /\ c - 1 \in Int /\ (c - 1) + 1 = c
    BY <1>3
  <2>2. (c - 1) * b \in Int /\ c * b \in Int /\ c * b = (c - 1) * b + b
    <3>1. ((c - 1) + 1) * b = (c - 1) * b + b /\ (c - 1) * b \in Int /\ c * b \in Int
      BY <1>1, <2>1, Times
    <3> QED BY <2>1, <3>1
  <2>3. 0 * b <= (c - 1) * b /\ 0 * b = 0
    BY <1>1, <2>1, Times
  <2>4. (c - 1) * b < n /\ (c < chunks => c * b < n) /\ (c >= chunks => c * b >= n)
    BY <1>3, <1>4, <2>1
  <2> QED BY <1>1, <1>3, <2>1, <2>2, <2>3, <2>4
<1>6. ASSUME NEW c \in 1..chunks
      PROVE  /\ batches[c] \in Seq(Properties)
             /\ \A x : x \in ToSet(batches[c]) <=>
                          \E i \in 1..n : (c - 1) * b < i /\ i <= End(c) /\ ids[i] = x
  <2> DEFINE low == (c - 1) * b
             high == End(c)
             chunk == batches[c]
  <2>1. low \in Nat /\ high \in Nat /\ low < high /\ high <= n
    BY <1>5
  <2>2. chunk = SubSeq(ids, low + 1, high)
    BY <1>2
  <2> HIDE DEF low, high, chunk
  <2>3. \A i \in (low + 1)..high : ids[i] \in Properties
    BY <1>1, <2>1
  <2>4. low + 1 \in Int /\ high \in Int
    BY <2>1
  <2>5. /\ SubSeq(ids, low + 1, high) \in Seq(Properties)
        /\ Len(SubSeq(ids, low + 1, high))
             = IF low + 1 <= high THEN high - (low + 1) + 1 ELSE 0
        /\ \A i \in 1..(high - (low + 1) + 1) :
              SubSeq(ids, low + 1, high)[i] = ids[(low + 1) + i - 1]
    BY <2>3, <2>4, SubSeqProperties
  <2>6. /\ high - (low + 1) + 1 = high - low /\ low + 1 <= high
        /\ \A i \in Int : (low + 1) + i - 1 = low + i
    BY <2>1
  <2>7. /\ chunk \in Seq(Properties) /\ Len(chunk) = high - low
        /\ \A i \in 1..(high - low) : i \in Int /\ chunk[i] = ids[low + i]
    <3>1. chunk \in Seq(Properties) /\ Len(chunk) = high - low
      BY <2>2, <2>5, <2>6
    <3>2. \A i \in 1..(high - low) : chunk[i] = ids[(low + 1) + i - 1]
      BY <2>2, <2>5, <2>6
    <3>3. \A i \in 1..(high - low) : i \in Int
      BY <2>1
    <3>4. \A i \in 1..(high - low) : ids[(low + 1) + i - 1] = ids[low + i]
      BY <2>6, <3>3
    <3> QED BY <3>1, <3>2, <3>3, <3>4
  <2>8. DOMAIN chunk = 1..(high - low)
    BY <2>7, LenProperties
  <2>9. ASSUME NEW x \in ToSet(chunk)
        PROVE  \E i \in 1..n : low < i /\ i <= high /\ ids[i] = x
    <3>1. PICK k \in 1..(high - low) : chunk[k] = x
      BY <2>8 DEF ToSet
    <3>2. low + k \in 1..n /\ low < low + k /\ low + k <= high
      BY <1>1, <2>1
    <3> QED BY <2>7, <3>1, <3>2
  <2>10. ASSUME NEW i \in 1..n, low < i, i <= high PROVE ids[i] \in ToSet(chunk)
    <3>1. i - low \in 1..(high - low) /\ low + (i - low) = i
      BY <1>1, <2>1, <2>10
    <3> QED BY <2>7, <2>8, <3>1 DEF ToSet
  <2> QED BY <2>7, <2>9, <2>10 DEF low, high, chunk
<1>7. batches \in Seq(Seq(Properties)) /\ Len(batches) = chunks
  <2>1. batches \in [1..chunks -> Seq(Properties)]
    BY <1>2, <1>6
  <2> QED BY <1>3, <2>1, FunctionIsSeq
<1> HIDE DEF End
<1>8. \A c \in 1..chunks : ToSet(batches[c]) \subseteq ToSet(ids)
  BY <1>1, <1>6 DEF ToSet
<1>9. ASSUME NEW c \in 1..chunks, NEW d \in 1..chunks, c < d
      PROVE  ToSet(batches[c]) \cap ToSet(batches[d]) = {}
  <2> SUFFICES ASSUME NEW x, x \in ToSet(batches[c]), x \in ToSet(batches[d]) PROVE FALSE
    OBVIOUS
  <2>1. PICK i \in 1..n : (c - 1) * b < i /\ i <= End(c) /\ ids[i] = x
    BY <1>6
  <2>2. PICK j \in 1..n : (d - 1) * b < j /\ j <= End(d) /\ ids[j] = x
    BY <1>6
  <2>3. i = j
    BY <1>1, <2>1, <2>2
  <2>4. c <= d - 1 /\ c \in Int /\ d - 1 \in Int
    BY <1>3, <1>9
  <2>5. c * b <= (d - 1) * b /\ (d - 1) * b \in Int /\ c * b \in Int
    BY <1>1, <2>4, Times
  <2>6. End(c) <= c * b /\ End(c) \in Nat
    BY <1>5
  <2> QED BY <1>1, <2>1, <2>2, <2>3, <2>5, <2>6
<1>10. ASSUME NEW i \in 1..n PROVE \E c \in 1..chunks : ids[i] \in ToSet(batches[c])
  <2> DEFINE q == (i - 1) \div b
  <2>1. q \in Nat /\ q * b <= i - 1 /\ i - 1 < q * b + b
    <3>1. i - 1 \in Nat
      BY <1>1
    <3> QED BY <1>1, <3>1, Quotient
  <2> HIDE DEF q
  <2>2. q * b \in Int /\ (q + 1) * b = q * b + b
    BY <1>1, <2>1, Times
  <2>3. q < chunks
    <3>1. ~ (q * b >= n)
      BY <1>1, <2>1, <2>2
    <3> QED BY <1>3, <1>4, <2>1, <3>1
  <2>4. q + 1 \in 1..chunks /\ (q + 1) - 1 = q
    BY <1>3, <2>1, <2>3
  <2>5. q * b < i /\ i <= End(q + 1)
    <3>1. q * b < i /\ i <= (q + 1) * b
      BY <1>1, <2>1, <2>2
    <3>2. CASE q + 1 = chunks
      BY <1>1, <3>1, <3>2 DEF End
    <3>3. CASE q + 1 < chunks
      BY <1>1, <1>5, <2>4, <3>1, <3>3
    <3> QED BY <1>3, <2>4, <3>1, <3>2, <3>3
  <2>6. ids[i] \in ToSet(batches[q + 1])
    BY <1>6, <2>4, <2>5
  <2> QED BY <2>4, <2>6
<1>11. \A c, d \in 1..chunks : c # d => ToSet(batches[c]) \cap ToSet(batches[d]) = {}
  <2> SUFFICES ASSUME NEW c \in 1..chunks, NEW d \in 1..chunks, c # d
               PROVE  ToSet(batches[c]) \cap ToSet(batches[d]) = {}
    OBVIOUS
  <2>1. c < d \/ d < c
    BY <1>3
  <2> QED BY <1>9, <2>1
<1>12. \A x \in ToSet(ids) : \E c \in 1..chunks : x \in ToSet(batches[c])
  BY <1>1, <1>10 DEF ToSet
<1> QED BY <1>7, <1>8, <1>11, <1>12 DEF batches

-----------------------------------------------------------------------------
(* One page of a read                                                      *)

\* A list with another one behind it.
LEMMA ConcatHas ==
    ASSUME NEW S, NEW s \in Seq(S), NEW t \in Seq(S)
    PROVE  /\ s \o t \in Seq(S)
           /\ ToSet(s \o t) = ToSet(s) \cup ToSet(t)
           /\ IsInjective(s) /\ IsInjective(t) /\ ToSet(s) \cap ToSet(t) = {} => IsInjective(s \o t)
<1> DEFINE m == Len(s)
           n == Len(t)
           new == s \o t
<1>1. /\ m \in Nat /\ n \in Nat /\ DOMAIN s = 1..m /\ DOMAIN t = 1..n
  BY LenProperties
<1>2. /\ new \in Seq(S) /\ Len(new) = m + n
      /\ \A i \in 1..(m + n) : new[i] = IF i <= m THEN s[i] ELSE t[i - m]
  BY ConcatProperties
<1>3. DOMAIN new = 1..(m + n)
  BY <1>2, LenProperties
<1> HIDE DEF m, n, new
<1>4. \A i \in 1..(m + n) :
         \/ i \in 1..m /\ new[i] = s[i]
         \/ i - m \in 1..n /\ new[i] = t[i - m] /\ i > m
  BY <1>1, <1>2
<1>5. \A i \in 1..m : i \in 1..(m + n) /\ new[i] = s[i]
  BY <1>1, <1>2
<1>6. \A i \in 1..n : m + i \in 1..(m + n) /\ new[m + i] = t[i]
  <2> SUFFICES ASSUME NEW i \in 1..n PROVE m + i \in 1..(m + n) /\ new[m + i] = t[i]
    OBVIOUS
  <2>1. m + i \in 1..(m + n) /\ ~ (m + i <= m) /\ (m + i) - m = i
    BY <1>1
  <2> QED BY <1>2, <2>1
<1>7. ToSet(new) = ToSet(s) \cup ToSet(t)
  <2>1. \A x \in ToSet(new) : x \in ToSet(s) \cup ToSet(t)
    BY <1>1, <1>3, <1>4 DEF ToSet
  <2>2. \A x \in ToSet(s) : x \in ToSet(new)
    BY <1>1, <1>3, <1>5 DEF ToSet
  <2>3. \A x \in ToSet(t) : x \in ToSet(new)
    BY <1>1, <1>3, <1>6 DEF ToSet
  <2> QED BY <2>1, <2>2, <2>3
<1>8. ASSUME IsInjective(s), IsInjective(t), ToSet(s) \cap ToSet(t) = {}
      PROVE  IsInjective(new)
  <2>1. \A i \in 1..m, j \in 1..n : s[i] # t[j]
    BY <1>1, <1>8 DEF ToSet
  <2>2. ASSUME NEW i \in 1..(m + n), NEW j \in 1..(m + n), new[i] = new[j] PROVE i = j
    <3>1. CASE i \in 1..m /\ new[i] = s[i] /\ j \in 1..m /\ new[j] = s[j]
      BY <1>1, <1>8, <2>2, <3>1 DEF IsInjective
    <3>2. CASE i - m \in 1..n /\ new[i] = t[i - m] /\ j - m \in 1..n /\ new[j] = t[j - m]
      <4>1. i - m = j - m
        BY <1>1, <1>8, <2>2, <3>2 DEF IsInjective
      <4> QED BY <1>1, <4>1
    <3>3. ~ (i \in 1..m /\ new[i] = s[i] /\ j - m \in 1..n /\ new[j] = t[j - m])
      BY <2>1, <2>2
    <3>4. ~ (j \in 1..m /\ new[j] = s[j] /\ i - m \in 1..n /\ new[i] = t[i - m])
      BY <2>1, <2>2
    <3> QED BY <1>4, <3>1, <3>2, <3>3, <3>4
  <2> QED BY <1>3, <2>2 DEF IsInjective
<1> QED BY <1>2, <1>7, <1>8 DEF new

\* What an answer has of the page that is due, whatever is wrong with it.
LEMMA AnswerHas ==
    ASSUME NEW deviation \in Deviations, NEW list, NEW page
    PROVE  LET answer == Deviating(PageOf(list, page), deviation)
               due == PageOf(list, page)
           IN  /\ answer.items = due.items
               /\ \/ answer.last_page = due.last_page
                  \/ answer.last_page = Unreadable /\ "last_page" \in DOMAIN deviation
<1> DEFINE due == PageOf(list, page)
<1>1. /\ "items" \notin DOMAIN deviation
      /\ "last_page" \in DOMAIN deviation => deviation.last_page = Unreadable
  BY ReadsAssumption
<1>2. {"items", "last_page"} \subseteq DOMAIN due
  BY DEF PageOf, Proper
<1> HIDE DEF due
<1>3. /\ Deviating(due, deviation).items = due.items
      /\ \/ Deviating(due, deviation).last_page = due.last_page
         \/ /\ Deviating(due, deviation).last_page = Unreadable
            /\ "last_page" \in DOMAIN deviation
  BY <1>1, <1>2 DEF Deviating
<1> QED BY <1>3 DEF due

\* How the reader is left by a page of which it takes these items.
NextReader(reader, answer, items, next) ==
    \/ \E f : f # "none" /\ next = Raised(f)
    \/ /\ reader.page >= ResolveLastPage(answer, reader.page)
       /\ next = [batches |-> Tail(reader.batches), page |-> 1, got |-> reader.got \o items,
                  error |-> reader.error]
    \/ /\ ~ (reader.page >= ResolveLastPage(answer, reader.page))
       /\ next = [batches |-> reader.batches, page |-> reader.page + 1,
                  got |-> reader.got \o items, error |-> reader.error]

LEMMA TurnHas ==
    ASSUME NEW reader, NEW answer, NEW keys, NEW items,
           reader = [batches |-> reader.batches, page |-> reader.page,
                     got |-> reader.got, error |-> reader.error]
    PROVE  NextReader(reader, answer, items, Turn(reader, answer, keys, items))
<1> DEFINE failure == PageFailure(reader, answer, keys)
<1>1. CASE failure # "none"
  BY <1>1 DEF Turn, NextReader
<1>2. CASE failure = "none"
  <2>1. Turn(reader, answer, keys, items) = Advance(reader, answer, items)
    BY <1>2 DEF Turn
  <2> HIDE DEF failure
  <2>2. CASE reader.page >= ResolveLastPage(answer, reader.page)
    BY <2>1, <2>2 DEF Advance, NextReader
  <2>3. CASE ~ (reader.page >= ResolveLastPage(answer, reader.page))
    BY <2>1, <2>3 DEF Advance, NextReader
  <2> QED BY <2>2, <2>3
<1> QED BY <1>1, <1>2

\* The items of a page that a read keeps.
Wanted(read) == {r \in InWindow : PropertyOf[r] \in ToSet(Head(read.reader.batches))}
Taken(read, items) == IF read.kind = "reservations" THEN Kept(items, Wanted(read)) ELSE items

LEMMA ReadOnHas ==
    ASSUME Fields(call), call.kind \in PagedKinds, NEW answer, answer.items \in Seq(Items)
    PROVE  NextReader(call.reader, answer, Taken(call, answer.items), ReadOn(answer))
<1> DEFINE reader == call.reader
<1>1. reader = [batches |-> reader.batches, page |-> reader.page,
                got |-> reader.got, error |-> reader.error]
  BY DEF Fields
<1>2. CASE call.kind = "get_property_info"
  <2>1. ReadOn(answer) = Turn(reader, answer, {"listings"}, answer.items)
    BY <1>2 DEF ReadOn, get_property_payloads
  <2> HIDE DEF reader
  <2>2. NextReader(reader, answer, answer.items, ReadOn(answer))
    BY <1>1, <2>1, TurnHas
  <2> QED BY <1>2, <2>2 DEF Taken, reader
<1>3. CASE call.kind = "get_reservations"
  <2>1. ReadOn(answer) = Turn(reader, answer, {"guest", "properties"}, answer.items)
    BY <1>3 DEF ReadOn, get_reservation_payloads
  <2> HIDE DEF reader
  <2>2. NextReader(reader, answer, answer.items, ReadOn(answer))
    BY <1>1, <2>1, TurnHas
  <2> QED BY <1>3, <2>2 DEF Taken, reader
<1>4. CASE call.kind = "properties"
  <2>1. ReadOn(answer) = Turn(reader, answer, {"listings"}, answer.items)
    BY <1>4 DEF ReadOn, get_properties
  <2> HIDE DEF reader
  <2>2. NextReader(reader, answer, answer.items, ReadOn(answer))
    BY <1>1, <2>1, TurnHas
  <2> QED BY <1>4, <2>2 DEF Taken, reader
<1>5. CASE call.kind = "reservations"
  <2> DEFINE parsed == [i \in DOMAIN answer.items |-> FromApi(Flaws[answer.items[i]])]
             flaws == Kept(parsed, {"value", "response"})
  <2>1. \/ ReadOn(answer) = Raised(Head(flaws)) /\ flaws # << >>
        \/ ReadOn(answer) = Turn(reader, answer, {"guest", "properties"},
                                 Kept(answer.items, Wanted(call)))
    BY <1>5 DEF ReadOn, get_reservations, Wanted
  <2>2. flaws # << >> => Head(flaws) # "none"
    <3> DEFINE n == Len(answer.items)
               R == {FromApi(Flaws[answer.items[i]]) : i \in 1..n}
    <3>1. n \in Nat /\ DOMAIN answer.items = 1..n
      BY LenProperties
    <3>2. parsed \in [1..n -> R]
      BY <3>1
    <3> HIDE DEF n, R, parsed
    <3>3. parsed \in Seq(R)
      BY <3>1, <3>2, FunctionIsSeq
    <3>4. /\ flaws \in Seq(R)
          /\ \A x \in ToSet(flaws) : x \in {"value", "response"}
      BY <3>3, KeptHas
    <3> HIDE DEF flaws
    <3> SUFFICES ASSUME flaws # << >> PROVE Head(flaws) # "none"
      OBVIOUS
    <3>5. 1 \in DOMAIN flaws /\ Head(flaws) = flaws[1]
      BY <3>4, LenProperties, EmptySeq
    <3>6. Head(flaws) \in ToSet(flaws)
      BY <3>5 DEF ToSet
    <3> QED BY <3>4, <3>6
  <2>3. Taken(call, answer.items) = Kept(answer.items, Wanted(call))
    BY <1>5 DEF Taken
  <2> HIDE DEF flaws, reader
  <2>4. CASE ReadOn(answer) = Raised(Head(flaws)) /\ flaws # << >>
    BY <2>2, <2>4 DEF NextReader
  <2>5. CASE ReadOn(answer) = Turn(reader, answer, {"guest", "properties"},
                                   Kept(answer.items, Wanted(call)))
    <3>1. NextReader(reader, answer, Kept(answer.items, Wanted(call)), ReadOn(answer))
      BY <1>1, <2>5, TurnHas
    <3> QED BY <2>3, <3>1 DEF reader
  <2> QED BY <2>1, <2>4, <2>5
<1> QED BY <1>2, <1>3, <1>4, <1>5 DEF PagedKinds, ListServices, Polls

\* A list of items without repetitions is no longer than LastPage allows for.
LEMMA Longest ==
    \E m \in Nat \ {0} :
        /\ LastPage = (m - 1) \div PER_PAGE_MAX + 1 /\ LastPage \in Nat \ {0}
        /\ \A list \in Seq(Properties) : IsInjective(list) => Len(list) <= m
        /\ \A list \in Seq(Reservations) : IsInjective(list) => Len(list) <= m
<1> DEFINE p == Cardinality(Properties)
           r == Cardinality(Reservations)
           m == Max({1, p, r})
<1>1. /\ IsFiniteSet(Properties) /\ p \in Nat /\ IsFiniteSet(Reservations) /\ r \in Nat
  BY ReadsAssumption, FS_CardinalityType
<1>2. ASSUME NEW S, IsFiniteSet(S), NEW list \in Seq(S), IsInjective(list)
      PROVE  Len(list) <= Cardinality(S)
  <2>1. list \in [1..Len(list) -> S] /\ Len(list) \in Nat /\ DOMAIN list = 1..Len(list)
    BY LenProperties
  <2>2. list \in Injection(1..Len(list), S)
    BY <1>2, <2>1, Fun_IsInj DEF IsInjective
  <2>3. Cardinality(1..Len(list)) <= Cardinality(S)
    BY <1>2, <2>2, FS_Injection
  <2>4. Cardinality(1..Len(list)) = Len(list)
    <3>1. 1 \in Int /\ Len(list) \in Int
      BY <2>1
    <3>2. Cardinality(1..Len(list)) = IF 1 > Len(list) THEN 0 ELSE Len(list) - 1 + 1
      BY <3>1, FS_Interval
    <3> QED BY <2>1, <3>2
  <2> QED BY <2>3, <2>4
<1> HIDE DEF p, r
<1>3. m \in {1, p, r} /\ \A n \in {1, p, r} : m >= n
  <2>1. \E x \in {1, p, r} : \A n \in {1, p, r} : x >= n
    <3>1. \/ 1 >= p /\ 1 >= r
          \/ p >= 1 /\ p >= r
          \/ r >= 1 /\ r >= p
      BY <1>1
    <3> QED BY <1>1, <3>1
  <2> QED BY <2>1 DEF Max
<1> HIDE DEF m
<1>4. m \in Nat \ {0} /\ p <= m /\ r <= m
  BY <1>1, <1>3
<1>5. LastPage = (m - 1) \div PER_PAGE_MAX + 1
  BY DEF LastPage, m, p, r
<1>6. (m - 1) \div PER_PAGE_MAX \in Nat
  BY <1>4, ReadsAssumption, Quotient
<1>7. \A list \in Seq(Properties) : IsInjective(list) => Len(list) <= m
  <2>1. ASSUME NEW list \in Seq(Properties), IsInjective(list) PROVE Len(list) <= m
    <3>1. Len(list) <= p /\ Len(list) \in Nat
      BY <1>1, <1>2, <2>1, LenProperties DEF p
    <3> QED BY <1>1, <1>4, <3>1
  <2> QED BY <2>1
<1>8. \A list \in Seq(Reservations) : IsInjective(list) => Len(list) <= m
  <2>1. ASSUME NEW list \in Seq(Reservations), IsInjective(list) PROVE Len(list) <= m
    <3>1. Len(list) <= r /\ Len(list) \in Nat
      BY <1>1, <1>2, <2>1, LenProperties DEF r
    <3> QED BY <1>1, <1>4, <3>1
  <2> QED BY <2>1
<1> QED BY <1>4, <1>5, <1>6, <1>7, <1>8

\* What a request is a page of, of all that an account holds.
ListIn(held, kind, batch) ==
    IF kind \in OnProperties THEN held.properties
    ELSE Kept(held.reservations, {r \in Reservations : PropertyOf[r] \in batch})

LEMMA ListedIn ==
    ASSUME NEW read
    PROVE  Listed(read) = ListIn(upstream[read.entry], read.kind, ToSet(Head(read.reader.batches)))
  BY DEF Listed, ListIn, OnProperties

Holding == [properties : Seq(Properties), reservations : Seq(Reservations)]

LEMMA ListHas ==
    ASSUME NEW held \in Holding, IsInjective(held.properties), IsInjective(held.reservations),
           NEW kind, NEW batch
    PROVE  LET list == ListIn(held, kind, batch) IN
           /\ list \in Seq(IF kind \in OnProperties THEN Properties ELSE Reservations)
           /\ list \in Seq(Items) /\ IsInjective(list)
           /\ \A x : x \in ToSet(list) <=>
                 IF kind \in OnProperties THEN x \in ToSet(held.properties)
                 ELSE x \in ToSet(held.reservations) /\ x \in Reservations /\ PropertyOf[x] \in batch
<1> DEFINE list == ListIn(held, kind, batch)
           wanted == {r \in Reservations : PropertyOf[r] \in batch}
<1>1. held.properties \in Seq(Properties) /\ held.reservations \in Seq(Reservations)
  BY DEF Holding
<1>2. CASE kind \in OnProperties
  <2>1. list = held.properties
    BY <1>2 DEF ListIn
  <2>2. list \in Seq(Items)
    <3>1. Properties \subseteq Items
      BY DEF Items
    <3>2. \A i \in 1..Len(list) : list[i] \in Properties
      BY <1>1, <2>1, ElementOfSeq
    <3>3. list \in [1..Len(list) -> Items] /\ Len(list) \in Nat
      BY <1>1, <2>1, <3>1, <3>2, LenProperties
    <3> QED BY <3>3, SeqDef
  <2> QED BY <1>1, <1>2, <2>1, <2>2
<1>3. CASE kind \notin OnProperties
  <2>1. list = Kept(held.reservations, wanted)
    BY <1>3 DEF ListIn
  <2>2. /\ list \in Seq(Reservations)
        /\ \A x : x \in ToSet(list) <=> x \in ToSet(held.reservations) /\ x \in wanted
        /\ IsInjective(list)
    BY <1>1, <2>1, KeptHas
  <2>3. list \in Seq(Items)
    <3>1. Reservations \subseteq Items
      BY DEF Items
    <3>2. \A i \in 1..Len(list) : list[i] \in Reservations
      BY <2>2, ElementOfSeq
    <3>3. list \in [1..Len(list) -> Items] /\ Len(list) \in Nat
      BY <2>2, <3>1, <3>2, LenProperties
    <3> QED BY <3>3, SeqDef
  <2>4. \A x : x \in wanted <=> x \in Reservations /\ PropertyOf[x] \in batch
    OBVIOUS
  <2> HIDE DEF wanted, list
  <2> QED BY <1>3, <2>2, <2>3, <2>4 DEF list
<1> QED BY <1>2, <1>3

\* Of a page, what is taken is what was asked for.
LEMMA TakenHas ==
    ASSUME Reading(call), call.kind \in PagedKinds, NEW items \in Seq(Items), IsInjective(items),
           \A x \in ToSet(items) :
              IF call.kind \in OnProperties THEN x \in Properties
              ELSE x \in Reservations /\ PropertyOf[x] \in ToSet(Head(call.reader.batches))
    PROVE  LET taken == Taken(call, items) IN
           /\ taken \in Seq(Items) /\ IsInjective(taken)
           /\ \A x : x \in ToSet(taken) <=> x \in ToSet(items) /\ AskedFor(call, x)
<1>1. /\ call.reader.batches # << >> /\ call.reader.batches \in Seq(Seq(Properties))
      /\ call.kind = "get_reservations" =>
            \A b \in 1..Len(call.reader.batches) : ToSet(call.reader.batches[b]) \subseteq {call.target}
      /\ call.kind = "reservations" =>
          \A b \in 1..Len(call.reader.batches) : ToSet(call.reader.batches[b]) \subseteq selected[call.entry]
  BY DEF Reading, Batches
<1>2. Head(call.reader.batches) = call.reader.batches[1] /\ 1 \in 1..Len(call.reader.batches)
  BY <1>1, LenProperties, EmptySeq
<1>3. CASE call.kind = "reservations"
  <2>1. Taken(call, items) = Kept(items, Wanted(call))
    BY <1>3 DEF Taken
  <2>2. \A x : AskedFor(call, x) <=> x \in InWindow /\ PropertyOf[x] \in selected[call.entry]
    BY <1>3 DEF AskedFor
  <2>3. \A x : x \in Wanted(call) <=> x \in InWindow /\ PropertyOf[x] \in ToSet(Head(call.reader.batches))
    BY DEF Wanted
  <2>4. ToSet(Head(call.reader.batches)) \subseteq selected[call.entry]
    BY <1>1, <1>2, <1>3
  <2>5. \A x \in ToSet(items) : PropertyOf[x] \in ToSet(Head(call.reader.batches))
    BY <1>3 DEF OnProperties
  <2> QED BY <2>1, <2>2, <2>3, <2>4, <2>5, KeptHas
<1>4. CASE call.kind # "reservations"
  <2>1. Taken(call, items) = items
    BY <1>4 DEF Taken
  <2>2. ASSUME NEW x \in ToSet(items) PROVE AskedFor(call, x)
    <3>1. CASE call.kind \in OnProperties
      BY <2>2, <3>1 DEF AskedFor, OnProperties
    <3>2. CASE call.kind \notin OnProperties
      <4>1. call.kind = "get_reservations"
        BY <1>4, <3>2 DEF OnProperties, PagedKinds, ListServices, Polls
      <4>2. x \in Reservations /\ PropertyOf[x] = call.target
        BY <1>1, <1>2, <2>2, <3>2, <4>1
      <4> QED BY <4>1, <4>2 DEF AskedFor
    <3> QED BY <3>1, <3>2
  <2> QED BY <2>1, <2>2
<1> QED BY <1>3, <1>4

\* What the reader will have got with the page that it is at.
GotBy(read) ==
    read.reader.got \o Taken(read, PageOf(Listed(read), read.reader.page).items)

\* With a page of a list, nothing is missed that is not behind it or in a later
\* batch, and nothing is got that is.
LEMMA PageTaken ==
    ASSUME Upstream, Reading(call), call.kind \in PagedKinds
    PROVE  LET due == PageOf(Listed(call), call.reader.page)
               got == GotBy(call)
               after == call.reader.page * PER_PAGE_MAX
               later == Later(call.reader.batches)
           IN  /\ due.items \in Seq(Items)
               /\ got \in Seq(Items)
               /\ \A x \in ToSet(got) : x \in call.ever /\ AskedFor(call, x)
               /\ ~call.removed /\ ~call.cut =>
                     \A x \in {y \in call.always : AskedFor(call, y)} :
                        x \in ToSet(got) \/ ToCome(Listed(call), after, x) \/ x \in later
               /\ ~call.added =>
                     /\ IsInjective(got)
                     /\ \A x \in ToSet(got) : ~ToCome(Listed(call), after, x) /\ x \notin later
               /\ call.reader.page >= due.last_page => \A x : ~ToCome(Listed(call), after, x)
               /\ due.last_page \in Nat /\ due.last_page <= LastPage
<1> DEFINE list == Listed(call)
           reader == call.reader
           batch == ToSet(Head(reader.batches))
           due == PageOf(list, reader.page)
           taken == Taken(call, due.items)
           got == GotBy(call)
           before == Before(reader)
           after == reader.page * PER_PAGE_MAX
           later == Later(reader.batches)
           held == upstream[call.entry]
           S == IF call.kind \in OnProperties THEN Properties ELSE Reservations
<1>1. /\ call.entry \in Entries /\ reader.got \in Seq(Items) /\ reader.page \in 1..LastPage
      /\ UpstreamOf(call.entry) \subseteq call.ever
      /\ reader.batches \in Seq(Seq(Properties)) /\ reader.batches # << >>
      /\ \A a, b \in 1..Len(reader.batches) :
            a # b => ToSet(reader.batches[a]) \cap ToSet(reader.batches[b]) = {}
      /\ call.kind \notin {"reservations", "get_reservations"} => Len(reader.batches) = 1
  BY DEF Reading, Typed, Batches
<1>2. /\ held \in Holding /\ IsInjective(held.properties) /\ IsInjective(held.reservations)
  BY <1>1 DEF Upstream, Holding
<1>3. PICK m \in Nat \ {0} :
        /\ LastPage = (m - 1) \div PER_PAGE_MAX + 1 /\ LastPage \in Nat \ {0}
        /\ \A l \in Seq(Properties) : IsInjective(l) => Len(l) <= m
        /\ \A l \in Seq(Reservations) : IsInjective(l) => Len(l) <= m
  BY Longest
<1>4. list = ListIn(held, call.kind, batch)
  BY ListedIn
<1>5. /\ list \in Seq(S)
      /\ list \in Seq(Items) /\ IsInjective(list)
      /\ \A x : x \in ToSet(list) <=>
            IF call.kind \in OnProperties THEN x \in ToSet(held.properties)
            ELSE x \in ToSet(held.reservations) /\ x \in Reservations /\ PropertyOf[x] \in batch
  <2> HIDE DEF held, batch, list
  <2> QED BY <1>2, <1>4, ListHas
<1>6. Len(list) <= m
  BY <1>3, <1>5
<1>7. reader.page \in Nat \ {0}
  BY <1>1, <1>3
<1>8. /\ due.items \in Seq(Items) /\ IsInjective(due.items)
      /\ \A x \in ToSet(due.items) : /\ ToCome(list, before, x) /\ ~ToCome(list, after, x)
                                     /\ x \in ToSet(list)
      /\ \A x : ToCome(list, before, x) => x \in ToSet(due.items) \/ ToCome(list, after, x)
      /\ \A x : ToCome(list, after, x) => ToCome(list, before, x)
      /\ due.last_page \in Nat
      /\ reader.page >= due.last_page => \A x : ~ToCome(list, after, x)
      /\ \A k \in Nat \ {0} :
            Len(list) <= k => due.last_page <= (k - 1) \div PER_PAGE_MAX + 1
  <2> HIDE DEF list, reader
  <2> QED BY <1>5, <1>7, PageHas DEF Before
<1>9. due.last_page <= LastPage
  BY <1>3, <1>6, <1>8
<1>10. \A x \in ToSet(list) : IF call.kind \in OnProperties THEN x \in Properties
              ELSE x \in Reservations /\ PropertyOf[x] \in batch
  <2>1. CASE call.kind \in OnProperties
    BY <1>5, <2>1, ElementOfSeq, LenProperties DEF ToSet
  <2>2. CASE call.kind \notin OnProperties
    BY <1>5, <2>2
  <2> QED BY <2>1, <2>2
<1>11. /\ taken \in Seq(Items) /\ IsInjective(taken)
       /\ \A x : x \in ToSet(taken) <=> x \in ToSet(due.items) /\ AskedFor(call, x)
  <2>1. \A x \in ToSet(due.items) : IF call.kind \in OnProperties THEN x \in Properties
              ELSE x \in Reservations /\ PropertyOf[x] \in batch
    BY <1>8, <1>10
  <2> HIDE DEF due, list
  <2> QED BY <1>8, <2>1, TakenHas
<1>12. got = reader.got \o taken
  BY DEF GotBy
<1>13. /\ Got(call)
       /\ ~call.removed /\ ~call.cut =>
            \A x \in {y \in call.always : AskedFor(call, y)} :
                x \in ToSet(reader.got) \/ ToCome(list, before, x) \/ x \in later
       /\ ~call.added =>
            /\ IsInjective(reader.got)
            /\ \A x \in ToSet(reader.got) : ~ToCome(list, before, x) /\ x \notin later
  BY DEF Reading, NothingMissed, NothingTwice
<1>14. \A x \in ToSet(list) : x \in call.ever
  <2>1. \A x \in ToSet(list) : x \in ToSet(held.properties) \/ x \in ToSet(held.reservations)
    BY <1>5
  <2> QED BY <1>1, <2>1 DEF UpstreamOf
<1>15. \A x \in ToSet(list) : x \notin later
  <2> SUFFICES ASSUME NEW x \in ToSet(list), x \in later PROVE FALSE
    OBVIOUS
  <2>1. PICK b \in 2..Len(reader.batches) : x \in Reservations /\ PropertyOf[x] \in ToSet(reader.batches[b])
    BY DEF Later
  <2>2. Len(reader.batches) \in Nat /\ Head(reader.batches) = reader.batches[1]
    BY <1>1, LenProperties
  <2>3. call.kind \in {"reservations", "get_reservations"}
    BY <1>1, <2>1, <2>2
  <2>4. PropertyOf[x] \in batch
    BY <1>10, <2>3 DEF OnProperties
  <2>5. ToSet(reader.batches[1]) \cap ToSet(reader.batches[b]) = {}
    <3>1. b \in 1..Len(reader.batches) /\ 1 \in 1..Len(reader.batches) /\ 1 # b
      BY <2>1, <2>2
    <3>2. \A c, d \in 1..Len(reader.batches) :
            c # d => ToSet(reader.batches[c]) \cap ToSet(reader.batches[d]) = {}
      BY <1>1
    <3> HIDE DEF reader
    <3> QED BY <3>1, <3>2
  <2> QED BY <2>1, <2>2, <2>4, <2>5
<1> HIDE DEF list, reader, batch, due, taken, before, after, later, held, S, GotBy
<1>16. /\ got \in Seq(Items) /\ ToSet(got) = ToSet(reader.got) \cup ToSet(taken)
       /\ IsInjective(reader.got) /\ ToSet(reader.got) \cap ToSet(taken) = {} => IsInjective(got)
  BY <1>1, <1>11, <1>12, ConcatHas
<1>17. \A x \in ToSet(got) : x \in call.ever /\ AskedFor(call, x)
  <2>1. \A x \in ToSet(reader.got) : x \in call.ever /\ AskedFor(call, x)
    BY <1>13 DEF Got, reader
  <2> QED BY <1>8, <1>11, <1>14, <1>16, <2>1
<1>18. ASSUME ~call.removed, ~call.cut, NEW x \in {y \in call.always : AskedFor(call, y)}
       PROVE  x \in ToSet(got) \/ ToCome(list, after, x) \/ x \in later
  BY <1>8, <1>11, <1>13, <1>16, <1>18
<1>19. ASSUME ~call.added
       PROVE  /\ IsInjective(got)
              /\ \A x \in ToSet(got) : ~ToCome(list, after, x) /\ x \notin later
  BY <1>8, <1>11, <1>13, <1>15, <1>16, <1>19
<1> QED BY <1>8, <1>9, <1>16, <1>17, <1>18, <1>19
        DEF list, reader, due, after, later, got

-----------------------------------------------------------------------------
(* What steps do to a read                                                 *)

\* A read is as far as it was, when nothing that it looks at has changed; one
\* that has ended does not look upstream.
LEMMA SameWorld ==
    ASSUME NEW read, call' = read,
           read.kind \in Polls => /\ selected'[read.entry] = selected[read.entry]
                                  /\ read.entry \in loaded => read.entry \in loaded'
    PROVE  /\ Reading(read) /\ upstream'[read.entry] = upstream[read.entry] => Reading(call)'
           /\ Ended(read) => Ended(call)'
<1>1. /\ Fields(read) => Fields(call)'
      /\ Typed(read) => Typed(call)'
  BY DEF Fields, Typed
<1>2. Batches(read) => Batches(call)'
  BY DEF Batches, Polls
<1>3. \A item : AskedFor(call, item)' <=> AskedFor(read, item)
  BY DEF AskedFor, Polls
<1>6. Got(read) => Got(call)'
  BY <1>3 DEF Got
<1>9. Mirrors(read) => Mirrors(call)'
  BY <1>3 DEF Mirrors
<1>10. Absent(read) => Absent(call)'
  BY DEF Absent
<1>11. ASSUME Reading(read), upstream'[read.entry] = upstream[read.entry] PROVE Reading(call)'
  <2>1. Listed(call)' = Listed(read)
    BY <1>11 DEF Listed
  <2>2. UpstreamOf(call.entry)' = UpstreamOf(read.entry)
    BY <1>11 DEF UpstreamOf
  <2>3. NothingMissed(read) => NothingMissed(call)'
    BY <1>3, <2>1 DEF NothingMissed
  <2>4. NothingTwice(read) => NothingTwice(call)'
    BY <2>1 DEF NothingTwice
  <2> QED BY <1>1, <1>2, <1>6, <1>11, <2>2, <2>3, <2>4 DEF Reading
<1>12. ASSUME Ended(read) PROVE Ended(call)'
  BY <1>1, <1>9, <1>10, <1>12 DEF Ended
<1> QED BY <1>11, <1>12

\* A read that goes on from an answer, and one that ends with it.
Going(read, next, cut) ==
    [stage |-> read.stage, kind |-> read.kind, entry |-> read.entry, target |-> read.target,
     reader |-> next, guest_contact |-> read.guest_contact, always |-> read.always,
     ever |-> read.ever, added |-> read.added, removed |-> read.removed, cut |-> cut,
     consented |-> read.consented, outcome |-> read.outcome]

Ending(read, next, cut, with) ==
    [stage |-> "answered", kind |-> read.kind, entry |-> read.entry, target |-> read.target,
     reader |-> next, guest_contact |-> with, always |-> read.always,
     ever |-> read.ever, added |-> read.added, removed |-> read.removed, cut |-> cut,
     consented |-> read.consented, outcome |-> Outcome(read.kind, next, read.target)]

LEMMA LeftAs ==
    ASSUME Fields(call), NEW next, NEW cut
    PROVE  /\ [call EXCEPT !.reader = next, !.cut = cut] = Going(call, next, cut)
           /\ [Served(next) EXCEPT !.cut = cut] = Ending(call, next, cut, ContactWhenServed)
<1> DEFINE names == {"stage", "kind", "entry", "target", "reader", "guest_contact", "always",
                     "ever", "added", "removed", "cut", "consented", "outcome"}
           goes == [call EXCEPT !.reader = next, !.cut = cut]
           ends == [Served(next) EXCEPT !.cut = cut]
           going == Going(call, next, cut)
           ending == Ending(call, next, cut, ContactWhenServed)
<1>1. DOMAIN call = names
  BY DEF Fields
<1>2. /\ goes = [field \in names |-> goes[field]] /\ ends = [field \in names |-> ends[field]]
  BY <1>1 DEF Served, Answered
<1>3. going = [field \in names |-> going[field]] /\ ending = [field \in names |-> ending[field]]
  BY DEF Going, Ending
<1>4. \A field \in names : goes[field] = going[field]
  <2>1. /\ goes.stage = call.stage /\ goes.kind = call.kind /\ goes.entry = call.entry
        /\ goes.target = call.target /\ goes.reader = next
        /\ goes.guest_contact = call.guest_contact /\ goes.always = call.always
        /\ goes.ever = call.ever /\ goes.added = call.added /\ goes.removed = call.removed
        /\ goes.cut = cut /\ goes.consented = call.consented /\ goes.outcome = call.outcome
    BY <1>1
  <2>2. /\ going.stage = call.stage /\ going.kind = call.kind /\ going.entry = call.entry
        /\ going.target = call.target /\ going.reader = next
        /\ going.guest_contact = call.guest_contact /\ going.always = call.always
        /\ going.ever = call.ever /\ going.added = call.added /\ going.removed = call.removed
        /\ going.cut = cut /\ going.consented = call.consented
        /\ going.outcome = call.outcome
    BY DEF Going
  <2> HIDE DEF goes, going
  <2> QED BY <2>1, <2>2
<1>5. \A field \in names : ends[field] = ending[field]
  <2>1. /\ ends.stage = "answered" /\ ends.kind = call.kind /\ ends.entry = call.entry
        /\ ends.target = call.target /\ ends.reader = next
        /\ ends.guest_contact = ContactWhenServed /\ ends.always = call.always
        /\ ends.ever = call.ever /\ ends.added = call.added /\ ends.removed = call.removed
        /\ ends.cut = cut /\ ends.consented = call.consented
        /\ ends.outcome = Outcome(call.kind, next, call.target)
    BY <1>1 DEF Served, Answered
  <2>2. /\ ending.stage = "answered" /\ ending.kind = call.kind /\ ending.entry = call.entry
        /\ ending.target = call.target /\ ending.reader = next
        /\ ending.guest_contact = ContactWhenServed /\ ending.always = call.always
        /\ ending.ever = call.ever /\ ending.added = call.added
        /\ ending.removed = call.removed /\ ending.cut = cut
        /\ ending.consented = call.consented
        /\ ending.outcome = Outcome(call.kind, next, call.target)
    BY DEF Ending
  <2> HIDE DEF ends, ending
  <2> QED BY <2>1, <2>2
<1> HIDE DEF names, goes, ends, going, ending
<1>6. goes = going
  BY <1>2, <1>3, <1>4
<1>7. ends = ending
  BY <1>2, <1>3, <1>5
<1> QED BY <1>6, <1>7 DEF goes, ends, going, ending

\* What a read ends with: an error, or all that was to come.
LEMMA ReadEnds ==
    ASSUME Upstream, Reading(call), call.kind \in PagedKinds,
           NEW next, NEW cut \in BOOLEAN, NEW with \in BOOLEAN, call.cut => cut,
           \/ \E f : f # "none" /\ next = Raised(f)
           \/ /\ ~cut => \A x : ~ToCome(Listed(call), call.reader.page * PER_PAGE_MAX, x)
              /\ Tail(call.reader.batches) = << >>
              /\ next = [batches |-> << >>, page |-> 1, got |-> GotBy(call), error |-> "none"]
    PROVE  Ended(Ending(call, next, cut, with))
<1> DEFINE read == Ending(call, next, cut, with)
           after == call.reader.page * PER_PAGE_MAX
<1>1. /\ read.stage = "answered" /\ read.kind = call.kind /\ read.entry = call.entry
      /\ read.target = call.target /\ read.reader = next /\ read.guest_contact = with
      /\ read.always = call.always /\ read.ever = call.ever /\ read.added = call.added
      /\ read.removed = call.removed /\ read.cut = cut /\ read.consented = call.consented
      /\ read.outcome = Outcome(call.kind, next, call.target)
      /\ read = [stage |-> read.stage, kind |-> read.kind, entry |-> read.entry,
               target |-> read.target, reader |-> read.reader,
               guest_contact |-> read.guest_contact, always |-> read.always,
               ever |-> read.ever, added |-> read.added, removed |-> read.removed,
               cut |-> read.cut, consented |-> read.consented, outcome |-> read.outcome]
  BY DEF Ending
<1> HIDE DEF read
<1>2. \A x : AskedFor(read, x) <=> AskedFor(call, x)
  BY <1>1 DEF AskedFor
<1>3. Typed(call) /\ LastPage \in Nat \ {0}
  BY Longest DEF Reading
<1>4. call.kind \in {"get_reservations", "get_property_info", "properties", "reservations"}
  BY DEF PagedKinds, ListServices, Polls
<1>5. ASSUME NEW f, f # "none", next = Raised(f) PROVE Ended(read)
  <2>1. next = [batches |-> << >>, page |-> 1, got |-> << >>, error |-> f]
    BY <1>5 DEF Raised, Reader
  <2>2. Outcome(call.kind, next, call.target) = "raised"
    BY <1>4, <1>5, <2>1 DEF Outcome
  <2>3. Typed(read)
    <3>1. << >> \in Seq(Items)
      OBVIOUS
    <3> QED BY <1>1, <1>3, <2>1, <3>1 DEF Typed
  <2>4. Fields(read)
    BY <1>1, <2>1 DEF Fields
  <2> QED BY <1>1, <1>5, <2>1, <2>2, <2>3, <2>4 DEF Ended
<1>6. CASE /\ ~cut => \A x : ~ToCome(Listed(call), after, x)
           /\ Tail(call.reader.batches) = << >>
           /\ next = [batches |-> << >>, page |-> 1, got |-> GotBy(call), error |-> "none"]
  <2>1. /\ GotBy(call) \in Seq(Items)
        /\ \A x \in ToSet(GotBy(call)) : x \in call.ever /\ AskedFor(call, x)
        /\ ~call.removed /\ ~call.cut =>
              \A x \in {y \in call.always : AskedFor(call, y)} :
                  \/ x \in ToSet(GotBy(call)) \/ ToCome(Listed(call), after, x)
                  \/ x \in Later(call.reader.batches)
        /\ ~call.added => IsInjective(GotBy(call))
    BY PageTaken
  <2>2. Later(call.reader.batches) = {}
    <3>1. call.reader.batches \in Seq(Seq(Properties)) /\ call.reader.batches # << >>
      BY DEF Reading, Batches
    <3>2. Len(call.reader.batches) = 1
      <4>1. Len(call.reader.batches) \in Nat /\ Len(call.reader.batches) # 0
        BY <3>1, EmptySeq, LenProperties
      <4>2. Len(Tail(call.reader.batches)) = Len(call.reader.batches) - 1
        BY <3>1, HeadTailProperties
      <4>3. Len(Tail(call.reader.batches)) = 0
        BY <1>6, EmptySeq
      <4> QED BY <4>1, <4>2, <4>3
    <3>3. 2..Len(call.reader.batches) = {}
      BY <3>2
    <3> QED BY <3>3 DEF Later
  <2>3. Mirrors(read)
    <3>1. ASSUME ~cut, ~call.removed, NEW x \in call.always, AskedFor(call, x)
          PROVE  x \in ToSet(GotBy(call))
      BY <1>6, <2>1, <2>2, <3>1
    <3> QED BY <1>1, <1>2, <1>6, <2>1, <3>1 DEF Mirrors
  <2>4. read.kind \in Services /\ read.outcome = "not_found" => Absent(read)
    <3> SUFFICES ASSUME read.outcome = "not_found" PROVE Absent(read)
      OBVIOUS
    <3>1. read.kind = "get_property_info" /\ read.target \notin ToSet(next.got)
      BY <1>1, <1>4, <1>6 DEF Outcome
    <3>2. read.target \in Properties
      BY <1>1, <1>3, <3>1 DEF Typed
    <3>3. AskedFor(read, read.target)
      BY <3>1, <3>2 DEF AskedFor
    <3>4. read.target \notin read.always \/ read.removed \/ read.cut
      BY <1>1, <2>3, <3>1, <3>3 DEF Mirrors
    <3> QED BY <3>1, <3>4 DEF Absent
  <2>5. Typed(read)
    BY <1>1, <1>3, <1>6, <2>1 DEF Typed
  <2>6. Fields(read)
    BY <1>1, <1>6 DEF Fields
  <2>7. Ended(read)
    BY <1>1, <2>3, <2>4, <2>5, <2>6 DEF Ended
  <2> QED BY <2>7 DEF read
<1> QED BY <1>5, <1>6 DEF read

\* A read that goes on has missed nothing and will not meet anything again.
LEMMA ReadGoesOn ==
    ASSUME Upstream, Reading(call), call.kind \in PagedKinds,
           Properties \cap Reservations = {},
           NEW next, NEW cut \in BOOLEAN, call.cut => cut,
           \/ /\ ~cut => \A x : ~ToCome(Listed(call), call.reader.page * PER_PAGE_MAX, x)
              /\ Tail(call.reader.batches) # << >>
              /\ next = [batches |-> Tail(call.reader.batches), page |-> 1,
                         got |-> GotBy(call), error |-> "none"]
           \/ /\ call.reader.page < PageOf(Listed(call), call.reader.page).last_page
              /\ next = [batches |-> call.reader.batches, page |-> call.reader.page + 1,
                         got |-> GotBy(call), error |-> "none"]
    PROVE  Reading(Going(call, next, cut))
<1> DEFINE read == Going(call, next, cut)
           list == Listed(call)
           page == call.reader.page
           batches == call.reader.batches
           got == GotBy(call)
           after == page * PER_PAGE_MAX
           later == Later(batches)
<1>1. /\ read.stage = call.stage /\ read.kind = call.kind /\ read.entry = call.entry
      /\ read.target = call.target /\ read.reader = next
      /\ read.guest_contact = call.guest_contact
      /\ read.always = call.always /\ read.ever = call.ever /\ read.added = call.added
      /\ read.removed = call.removed /\ read.cut = cut /\ read.consented = call.consented
      /\ read.outcome = call.outcome
      /\ read = [stage |-> read.stage, kind |-> read.kind, entry |-> read.entry,
               target |-> read.target, reader |-> read.reader,
               guest_contact |-> read.guest_contact, always |-> read.always,
               ever |-> read.ever, added |-> read.added, removed |-> read.removed,
               cut |-> read.cut, consented |-> read.consented, outcome |-> read.outcome]
  BY DEF Going
<1>2. /\ got \in Seq(Items)
      /\ \A x \in ToSet(got) : x \in call.ever /\ AskedFor(call, x)
      /\ ~call.removed /\ ~call.cut =>
            \A x \in {y \in call.always : AskedFor(call, y)} :
                x \in ToSet(got) \/ ToCome(list, after, x) \/ x \in later
      /\ ~call.added => /\ IsInjective(got)
                        /\ \A x \in ToSet(got) : ~ToCome(list, after, x) /\ x \notin later
      /\ PageOf(list, page).last_page \in Nat /\ PageOf(list, page).last_page <= LastPage
  BY PageTaken
<1>3. Typed(call) /\ Batches(call) /\ LastPage \in Nat \ {0} /\ page \in Nat \ {0}
  BY Longest DEF Reading, Typed
<1>4. /\ call.stage = "reading" /\ call.kind # "list_properties"
      /\ call.always \subseteq UpstreamOf(call.entry) /\ UpstreamOf(call.entry) \subseteq call.ever
  BY DEF Reading
<1>5. \A x : AskedFor(read, x) <=> AskedFor(call, x)
  BY <1>1 DEF AskedFor
<1>6. \A x \in call.always : AskedFor(call, x) => AskedFor(read, x)
  BY <1>5
<1> HIDE DEF read, got, list
<1>7. ASSUME page < PageOf(list, page).last_page,
             next = [batches |-> batches, page |-> page + 1, got |-> got, error |-> "none"]
      PROVE  Reading(read)
  <2>1. page + 1 \in 1..LastPage
    BY <1>2, <1>3, <1>7
  <2>2. Typed(read) /\ Fields(read) /\ read.reader.error = "none"
    BY <1>1, <1>2, <1>3, <1>7, <2>1 DEF Typed, Fields
  <2>3. Batches(read)
    <3>1. /\ read.reader.batches = call.reader.batches /\ read.kind = call.kind
          /\ read.target = call.target /\ read.entry = call.entry /\ Batches(call)
      BY <1>1, <1>3, <1>7
    <3> QED BY <3>1 DEF Batches
  <2>4. Listed(read) = list
    BY <1>1, <1>7 DEF Listed, list
  <2>5. Before(read.reader) = after
    BY <1>1, <1>3, <1>7 DEF Before
  <2>6. read.reader.got = got /\ read.reader.batches = batches
    BY <1>1, <1>7
  <2> HIDE DEF after, later, batches
  <2>7. Got(read)
    BY <1>1, <1>2, <1>5, <2>6 DEF Got
  <2>8. NothingMissed(read)
    BY <1>1, <1>2, <1>5, <2>4, <2>5, <2>6 DEF NothingMissed, later
  <2>9. NothingTwice(read)
    BY <1>1, <1>2, <2>4, <2>5, <2>6 DEF NothingTwice, later
  <2> QED BY <1>1, <1>4, <2>2, <2>3, <2>7, <2>8, <2>9 DEF Reading
<1>8. ASSUME ~cut => \A x : ~ToCome(list, after, x),
             Tail(batches) # << >>,
             next = [batches |-> Tail(batches), page |-> 1, got |-> got, error |-> "none"]
      PROVE  Reading(read)
  <2> DEFINE rest == Tail(batches)
  <2>1. /\ batches \in Seq(Seq(Properties)) /\ batches # << >>
        /\ \A a, b \in 1..Len(batches) :
              a # b => ToSet(batches[a]) \cap ToSet(batches[b]) = {}
        /\ call.kind \notin {"reservations", "get_reservations"} => Len(batches) = 1
        /\ call.kind = "get_reservations" =>
              \A b \in 1..Len(batches) : ToSet(batches[b]) \subseteq {call.target}
        /\ call.kind = "reservations" =>
              \A b \in 1..Len(batches) : ToSet(batches[b]) \subseteq selected[call.entry]
    BY <1>3 DEF Batches
  <2>2. /\ rest \in Seq(Seq(Properties)) /\ Len(rest) = Len(batches) - 1
        /\ Len(batches) \in Nat /\ Len(rest) \in Nat \ {0}
        /\ \A b \in 1..Len(rest) : rest[b] = batches[b + 1]
    <3>1. /\ rest \in Seq(Seq(Properties)) /\ Len(rest) = Len(batches) - 1
          /\ \A b \in 1..Len(rest) : rest[b] = batches[b + 1]
      BY <2>1, HeadTailProperties
    <3>2. Len(batches) \in Nat /\ Len(rest) \in Nat
      BY <2>1, <3>1, LenProperties
    <3>3. Len(rest) # 0
      BY <1>8, <3>1, EmptySeq
    <3> QED BY <3>1, <3>2, <3>3
  <2>3. call.kind \in {"reservations", "get_reservations"}
    BY <2>1, <2>2
  <2>4. read.reader.got = got /\ read.reader.batches = rest /\ read.reader.page = 1
    BY <1>1, <1>8
  <2> HIDE DEF rest, batches
  <2>5. Typed(read) /\ Fields(read) /\ read.reader.error = "none"
    <3>1. read.reader = [batches |-> read.reader.batches, page |-> read.reader.page,
                         got |-> read.reader.got, error |-> read.reader.error]
          /\ read.reader.error = "none"
      BY <1>1, <1>8
    <3>2. Typed(read)
      BY <1>1, <1>2, <1>3, <2>4 DEF Typed
    <3> QED BY <1>1, <3>1, <3>2 DEF Fields
  <2>6. Batches(read)
    <3>1. \A b \in 1..Len(rest) : b + 1 \in 1..Len(batches)
      BY <2>2
    <3>2. \A a, b \in 1..Len(rest) : a # b => ToSet(rest[a]) \cap ToSet(rest[b]) = {}
      <4> SUFFICES ASSUME NEW a \in 1..Len(rest), NEW b \in 1..Len(rest), a # b
                   PROVE  ToSet(rest[a]) \cap ToSet(rest[b]) = {}
        OBVIOUS
      <4>1. a + 1 # b + 1
        BY <2>2
      <4> QED BY <2>1, <2>2, <3>1, <4>1
    <3>3. rest # << >>
      BY <2>2, EmptySeq
    <3>4. call.kind = "get_reservations" =>
              \A b \in 1..Len(rest) : ToSet(rest[b]) \subseteq {call.target}
      BY <2>1, <2>2, <3>1
    <3>5. call.kind = "reservations" =>
              \A b \in 1..Len(rest) : ToSet(rest[b]) \subseteq selected[call.entry]
      BY <2>1, <2>2, <3>1
    <3> QED BY <1>1, <2>2, <2>3, <2>4, <3>2, <3>3, <3>4, <3>5 DEF Batches
  <2>7. Got(read)
    BY <1>1, <1>2, <1>5, <2>4 DEF Got
  <2> DEFINE held == upstream[call.entry]
             batch == ToSet(Head(rest))
             new == Listed(read)
  <2>8. batch = ToSet(batches[2])
    <3>1. 1 \in 1..Len(rest) /\ 1 + 1 = 2
      BY <2>2
    <3>2. rest[1] = batches[2]
      BY <2>2, <3>1
    <3>3. Head(rest) = rest[1]
      BY <2>2, HeadTailProperties, EmptySeq
    <3> QED BY <3>2, <3>3
  <2>9. /\ new \in Seq(Items)
        /\ \A x : x \in ToSet(new) <=>
              x \in ToSet(held.reservations) /\ x \in Reservations /\ PropertyOf[x] \in batch
    <3>1. held \in Holding /\ IsInjective(held.properties) /\ IsInjective(held.reservations)
      BY <1>3 DEF Typed, Upstream, Holding
    <3>2. new = ListIn(held, call.kind, batch)
      BY <1>1, <2>4, ListedIn
    <3>3. call.kind \notin OnProperties
      BY <2>3 DEF OnProperties
    <3> HIDE DEF held, batch, new
    <3> QED BY <3>1, <3>2, <3>3, ListHas
  <2>10. Before(read.reader) = 0
    BY <2>4, ReadsAssumption DEF Before
  <2>11. \A x : ToCome(new, 0, x) <=> x \in ToSet(new)
    BY <2>9, LenProperties DEF ToCome, ToSet
  <2>12. \A x : x \in Later(rest) => x \in later
    <3> SUFFICES ASSUME NEW x \in Later(rest) PROVE x \in later
      OBVIOUS
    <3>1. PICK b \in 2..Len(rest) : x \in Reservations /\ PropertyOf[x] \in ToSet(rest[b])
      BY DEF Later
    <3>2. b + 1 \in 2..Len(batches) /\ rest[b] = batches[b + 1]
      BY <2>2
    <3> QED BY <3>1, <3>2 DEF Later
  <2>13. \A x : x \in ToSet(new) => x \in later
    BY <2>2, <2>8, <2>9 DEF Later
  <2>14. \A x \in later : x \in Reservations /\ (PropertyOf[x] \in batch \/ x \in Later(rest))
    <3> SUFFICES ASSUME NEW x \in later
                 PROVE  x \in Reservations /\ (PropertyOf[x] \in batch \/ x \in Later(rest))
      OBVIOUS
    <3>1. PICK b \in 2..Len(batches) : x \in Reservations /\ PropertyOf[x] \in ToSet(batches[b])
      BY DEF Later
    <3>2. CASE b = 2
      BY <2>8, <3>1, <3>2
    <3>3. CASE b # 2
      <4>1. b - 1 \in 2..Len(rest) /\ b - 1 \in 1..Len(rest) /\ (b - 1) + 1 = b
        BY <2>2, <3>3
      <4>2. rest[b - 1] = batches[b]
        BY <2>2, <4>1
      <4> QED BY <3>1, <4>1, <4>2 DEF Later
    <3> QED BY <3>2, <3>3
  <2>15. \A x \in call.always : x \in Reservations => x \in ToSet(held.reservations)
    <3>1. \A x \in call.always : x \in ToSet(held.properties) \/ x \in ToSet(held.reservations)
      BY <1>4 DEF UpstreamOf
    <3>2. \A x \in ToSet(held.properties) : x \in Properties
      <4>1. held.properties \in Seq(Properties)
        BY <1>3 DEF Typed, Upstream
      <4> QED BY <4>1, ElementOfSeq, LenProperties DEF ToSet
    <3> QED BY <3>1, <3>2
  <2> HIDE DEF held, batch, new, after, later
  <2>16. NothingMissed(read)
    <3> SUFFICES ASSUME ~call.removed, ~cut, NEW x \in call.always, AskedFor(call, x)
                 PROVE  x \in ToSet(got) \/ ToCome(new, 0, x) \/ x \in Later(rest)
      BY <1>1, <1>5, <2>4, <2>10 DEF NothingMissed, new
    <3>1. x \in ToSet(got) \/ x \in later
      BY <1>2, <1>8
    <3> QED BY <2>9, <2>11, <2>14, <2>15, <3>1
  <2>17. NothingTwice(read)
    <3> SUFFICES ASSUME ~call.added
                 PROVE  /\ IsInjective(got)
                        /\ \A x \in ToSet(got) : ~ToCome(new, 0, x) /\ x \notin Later(rest)
      BY <1>1, <2>4, <2>10 DEF NothingTwice, new
    <3> QED BY <1>2, <2>11, <2>12, <2>13
  <2> QED BY <1>1, <1>4, <2>5, <2>6, <2>7, <2>16, <2>17 DEF Reading
<1> QED BY <1>7, <1>8 DEF read, got, list

\* Upstream denies a reservation when it does not hold it, and only then.
LEMMA DenialHas ==
    ASSUME Upstream, Reading(call), call.kind = "find_reservation",
           Properties \cap Reservations = {},
           NEW deviation \in Deviations,
           "status" \in DOMAIN deviation => deviation.status # 404,
           NEW next, next = ReadOn(Deviating(AnswerDue(call), deviation)),
           NEW cut \in BOOLEAN, NEW with \in BOOLEAN
    PROVE  next.batches = << >> /\ Ended(Ending(call, next, cut, with))
<1> DEFINE read == Ending(call, next, cut, with)
           due == AnswerDue(call)
           answer == Deviating(due, deviation)
           error == GetReservation(answer, {"guest"})
           held == upstream[call.entry]
<1>1. next = [batches |-> << >>, page |-> 1, got |-> << >>, error |-> error]
  BY DEF ReadOn, Raised, Reader
<1>2. /\ read.stage = "answered" /\ read.kind = call.kind /\ read.entry = call.entry
      /\ read.target = call.target /\ read.reader = next /\ read.guest_contact = with
      /\ read.always = call.always /\ read.ever = call.ever /\ read.added = call.added
      /\ read.removed = call.removed /\ read.cut = cut /\ read.consented = call.consented
      /\ read.outcome = Outcome(call.kind, next, call.target)
      /\ read = [stage |-> read.stage, kind |-> read.kind, entry |-> read.entry,
               target |-> read.target, reader |-> read.reader,
               guest_contact |-> read.guest_contact, always |-> read.always,
               ever |-> read.ever, added |-> read.added, removed |-> read.removed,
               cut |-> read.cut, consented |-> read.consented, outcome |-> read.outcome]
  BY DEF Ending
<1>3. Typed(call) /\ LastPage \in Nat \ {0} /\ call.always \subseteq UpstreamOf(call.entry)
  BY Longest DEF Reading
<1>4. ASSUME error = "not_found" PROVE call.target \notin call.always
  <2>1. answer.status = 404
    BY <1>4 DEF GetReservation, Failure, RaiseForStatus, classify_403
  <2>2. due.status = 404
    <3>1. DOMAIN due = {"status", "says", "json", "envelope", "items", "current_page",
                        "last_page", "includes"}
      BY DEF AnswerDue, Proper, PageOf
    <3>2. answer.status = IF "status" \in DOMAIN deviation THEN deviation.status ELSE due.status
      BY <3>1 DEF Deviating
    <3> QED BY <2>1, <3>2
  <2>3. call.target \notin ToSet(held.reservations)
    BY <2>2 DEF AnswerDue, Proper
  <2>4. call.target \in Reservations
    BY <1>3 DEF Typed
  <2>5. \A x \in ToSet(held.properties) : x \in Properties
    <3>1. held.properties \in Seq(Properties)
      BY <1>3 DEF Typed, Upstream
    <3> QED BY <3>1, ElementOfSeq, LenProperties DEF ToSet
  <2> QED BY <1>3, <2>3, <2>4, <2>5 DEF UpstreamOf
<1> HIDE DEF read, error
<1>5. ASSUME read.outcome = "not_found" PROVE error = "not_found"
  BY <1>1, <1>2, <1>5 DEF Outcome, Catches
<1>6. Typed(read)
  <2>1. << >> \in Seq(Items)
    OBVIOUS
  <2> QED BY <1>1, <1>2, <1>3, <2>1 DEF Typed
<1>7. Fields(read)
  BY <1>1, <1>2 DEF Fields
<1>8. Mirrors(read)
  <2>1. \A x : ~AskedFor(read, x)
    BY <1>2 DEF AskedFor
  <2>2. IsInjective(<< >>) /\ ToSet(<< >>) = {}
    BY DEF IsInjective, ToSet
  <2> QED BY <1>1, <1>2, <2>1, <2>2 DEF Mirrors
<1>9. ASSUME read.outcome = "not_found" PROVE Absent(read)
  BY <1>2, <1>4, <1>5, <1>9 DEF Absent
<1>10. Ended(read)
  BY <1>2, <1>6, <1>7, <1>8, <1>9 DEF Ended
<1> QED BY <1>1, <1>10 DEF read

\* Whatever the answer is, the read has what it should have.
LEMMA AnswerKeeps ==
    ASSUME LookupsInv, NEW deviation \in Deviations, TakeAnswer(deviation)
    PROVE  CallIs'
<1> DEFINE due == AnswerDue(call)
           answer == Deviating(due, deviation)
           next == ReadOn(answer)
           cut == call.cut \/ ("last_page" \in DOMAIN deviation /\ due.last_page > call.reader.page)
<1>1. /\ call.stage = "reading"
      /\ call.kind = "find_reservation" /\ "status" \in DOMAIN deviation => deviation.status # 404
      /\ Finished(next) => call' = [Served(next) EXCEPT !.cut = cut]
      /\ ~Finished(next) => call' = [call EXCEPT !.reader = next, !.cut = cut]
      /\ UNCHANGED <<upstream, selected, loaded>>
  BY DEF TakeAnswer
<1>2. Reading(call) /\ Fields(call) /\ Typed(call) /\ Upstream /\ Properties \cap Reservations = {}
  BY <1>1, ReadsAssumption DEF LookupsInv, CallIs, NoCall, Ended, Reading
<1>3. cut \in BOOLEAN /\ (call.cut => cut) /\ ContactWhenServed \in BOOLEAN
  BY <1>2 DEF Typed, ContactWhenServed, LookupsInv, Runtime
<1> HIDE DEF cut
<1>4. /\ [call EXCEPT !.reader = next, !.cut = cut] = Going(call, next, cut)
      /\ [Served(next) EXCEPT !.cut = cut] = Ending(call, next, cut, ContactWhenServed)
  BY <1>2, LeftAs
<1>5. CASE call.kind = "find_reservation"
  <2>1. next.batches = << >> /\ Ended(Ending(call, next, cut, ContactWhenServed))
    BY <1>1, <1>2, <1>3, <1>5, DenialHas
  <2>2. call' = Ending(call, next, cut, ContactWhenServed)
    BY <1>1, <1>4, <2>1 DEF Finished
  <2> HIDE DEF next
  <2>3. Ended(call)'
    BY <1>1, <2>1, <2>2, SameWorld
  <2> QED BY <2>3 DEF CallIs
<1>6. CASE call.kind # "find_reservation"
  <2> DEFINE list == Listed(call)
             page == call.reader.page
             batches == call.reader.batches
             later == Later(batches)
             after == page * PER_PAGE_MAX
  <2>1. call.kind \in PagedKinds
    BY <1>2, <1>6 DEF Typed, Reading, PagedKinds, Services
  <2>2. due = PageOf(list, page)
    BY <1>6 DEF AnswerDue
  <2>3. /\ due.items \in Seq(Items)
        /\ page >= due.last_page => \A x : ~ToCome(list, after, x)
        /\ due.last_page \in Nat
    BY <1>2, <2>1, <2>2, PageTaken
  <2>4. /\ answer.items = due.items
        /\ \/ answer.last_page = due.last_page
           \/ answer.last_page = Unreadable /\ "last_page" \in DOMAIN deviation
    <3> HIDE DEF list, page
    <3> QED BY <2>2, AnswerHas
  <2>5. page \in Nat /\ Unreadable \notin Int
    BY <1>2, Longest, ReadsAssumption DEF Typed
  <2>6. page >= ResolveLastPage(answer, page) /\ ~cut => page >= due.last_page
    BY <2>3, <2>4, <2>5 DEF ResolveLastPage, cut
  <2>7. ~(page >= ResolveLastPage(answer, page)) => page < due.last_page
    BY <2>3, <2>4, <2>5 DEF ResolveLastPage
  <2>8. GotBy(call) = call.reader.got \o Taken(call, answer.items)
    BY <2>2, <2>4 DEF GotBy
  <2>9. call.reader.error = "none" /\ batches # << >>
    BY <1>2 DEF Reading, Batches
  <2>10. NextReader(call.reader, answer, Taken(call, answer.items), next)
    <3>1. answer.items \in Seq(Items)
      BY <2>3, <2>4
    <3> HIDE DEF answer
    <3> QED BY <1>2, <2>1, <3>1, ReadOnHas
  <2> HIDE DEF answer, due, next
  <2>11. \/ \E f : f # "none" /\ next = Raised(f)
         \/ /\ page >= ResolveLastPage(answer, page)
            /\ next = [batches |-> Tail(batches), page |-> 1, got |-> GotBy(call),
                       error |-> "none"]
         \/ /\ page < due.last_page
            /\ next = [batches |-> batches, page |-> page + 1, got |-> GotBy(call),
                       error |-> "none"]
    BY <2>7, <2>8, <2>9, <2>10 DEF NextReader
  <2>12. ASSUME \/ \E f : f # "none" /\ next = Raised(f)
                \/ /\ ~cut => \A x : ~ToCome(list, after, x)
                   /\ Tail(batches) = << >>
                   /\ next = [batches |-> << >>, page |-> 1, got |-> GotBy(call),
                              error |-> "none"]
         PROVE  CallIs'
    <3>1. Ended(Ending(call, next, cut, ContactWhenServed))
      BY <1>2, <1>3, <2>1, <2>12, ReadEnds
    <3>2. Finished(next)
      BY <2>12 DEF Finished, Raised, Reader
    <3>3. call' = Ending(call, next, cut, ContactWhenServed)
      BY <1>1, <1>4, <3>2
    <3>4. Ended(call)'
      BY <1>1, <3>1, <3>3, SameWorld
    <3> QED BY <3>4 DEF CallIs
  <2>13. ASSUME \/ /\ ~cut => \A x : ~ToCome(list, after, x)
                   /\ Tail(batches) # << >>
                   /\ next = [batches |-> Tail(batches), page |-> 1, got |-> GotBy(call),
                              error |-> "none"]
                \/ /\ page < due.last_page
                   /\ next = [batches |-> batches, page |-> page + 1, got |-> GotBy(call),
                              error |-> "none"]
         PROVE  CallIs'
    <3>1. Reading(Going(call, next, cut))
      BY <1>2, <1>3, <2>1, <2>2, <2>13, ReadGoesOn
    <3>2. ~Finished(next)
      BY <2>9, <2>13 DEF Finished
    <3>3. call' = Going(call, next, cut)
      BY <1>1, <1>4, <3>2
    <3>4. Reading(call)'
      BY <1>1, <3>1, <3>3, SameWorld
    <3> QED BY <3>4 DEF CallIs
  <2>14. CASE /\ page >= ResolveLastPage(answer, page)
              /\ next = [batches |-> Tail(batches), page |-> 1, got |-> GotBy(call),
                         error |-> "none"]
    <3>1. ~cut => \A x : ~ToCome(list, after, x)
      BY <2>3, <2>6, <2>14
    <3>2. CASE Tail(batches) = << >>
      BY <2>12, <2>14, <3>1, <3>2
    <3>3. CASE Tail(batches) # << >>
      BY <2>13, <2>14, <3>1, <3>3
    <3> QED BY <3>2, <3>3
  <2> QED BY <2>11, <2>12, <2>13, <2>14
<1> QED BY <1>5, <1>6

\* The sensors of an entry report reservations, if they report anything.
LEMMA ReportedTyped ==
    ASSUME NEW S, NEW held \in Seq(S), NEW entry,
           reports \in [DOMAIN EntityRegistry -> Reservations \cup {Unset}]
    PROVE  Reported(entry, held) \in [DOMAIN EntityRegistry -> Reservations \cup {Unset}]
<1> DEFINE Own(id) == Kept(held, {r \in Reservations : PropertyOf[r] = ResolveEntity(entry, id)})
           Shown(id) == CASE id \notin EntitiesOf(entry) -> reports[id]
                          [] id \in EntitiesOf(entry) /\ Own(id) # << >> -> Head(Own(id))
                          [] OTHER -> Unset
<1>1. Reported(entry, held) = [id \in DOMAIN EntityRegistry |-> Shown(id)]
  BY DEF Reported
<1>2. ASSUME NEW id, Own(id) # << >> PROVE Head(Own(id)) \in Reservations
  <2> DEFINE wanted == {r \in Reservations : PropertyOf[r] = ResolveEntity(entry, id)}
             own == Kept(held, wanted)
  <2>1. own \in Seq(S) /\ \A x : x \in ToSet(own) <=> x \in ToSet(held) /\ x \in wanted
    BY KeptHas
  <2> HIDE DEF wanted
  <2>2. own # << >>
    BY <1>2 DEF wanted
  <2> HIDE DEF own
  <2>3. Head(own) = own[1] /\ 1 \in DOMAIN own
    BY <2>1, <2>2, EmptySeq, LenProperties
  <2>4. Head(own) \in ToSet(own)
    BY <2>3 DEF ToSet
  <2>5. Head(own) \in wanted
    BY <2>1, <2>4
  <2> QED BY <2>5 DEF own, wanted
<1>3. \A id \in DOMAIN EntityRegistry : Shown(id) \in Reservations \cup {Unset}
  <2> SUFFICES ASSUME NEW id \in DOMAIN EntityRegistry PROVE Shown(id) \in Reservations \cup {Unset}
    OBVIOUS
  <2>1. Own(id) # << >> => Head(Own(id)) \in Reservations
    BY <1>2
  <2> HIDE DEF Own
  <2> QED BY <2>1
<1> HIDE DEF Shown
<1> QED BY <1>1, <1>3

-----------------------------------------------------------------------------
(* Upstream changes                                                        *)

LEMMA EmbedsItself == ASSUME NEW S, NEW list \in Seq(S) PROVE Embeds(list, list)
<1> DEFINE f == [i \in DOMAIN list |-> i]
<1>1. f \in [DOMAIN list -> DOMAIN list] /\ DOMAIN list \subseteq Nat
  BY LenProperties
<1>2. \A i \in DOMAIN list : /\ list[f[i]] = list[i] /\ f[i] >= i
                             /\ \A j \in DOMAIN list : i < j => f[i] < f[j]
  BY <1>1
<1> QED BY <1>1, <1>2 DEF Embeds

\* What is still to come of a list is still to come of one that it stands further in.
LEMMA FurtherToCome ==
    ASSUME NEW S, NEW list \in Seq(S), NEW T, NEW other \in Seq(T), Further(list, other),
           NEW read \in Int, NEW x, ToCome(list, read, x)
    PROVE  ToCome(other, read, x)
<1>1. PICK i \in DOMAIN list : i > read /\ list[i] = x
  BY DEF ToCome
<1>2. PICK j \in DOMAIN other : j >= i /\ other[j] = list[i]
  BY DEF Further
<1>3. i \in Nat /\ j \in Nat
  BY LenProperties
<1> QED BY <1>1, <1>2, <1>3 DEF ToCome

LEMMA ListFurther ==
    ASSUME NEW held \in Holding, NEW other \in Holding, NEW kind, NEW batch,
           Embeds(held.properties, other.properties),
           Embeds(held.reservations, other.reservations)
    PROVE  Further(ListIn(held, kind, batch), ListIn(other, kind, batch))
<1> DEFINE wanted == {r \in Reservations : PropertyOf[r] \in batch}
<1>1. held.reservations \in Seq(Reservations) /\ other.reservations \in Seq(Reservations)
  BY DEF Holding
<1>2. CASE kind \in OnProperties
  <2>1. Further(held.properties, other.properties)
    BY EmbeddedFurther
  <2> QED BY <1>2, <2>1 DEF ListIn
<1>3. CASE kind \notin OnProperties
  <2>1. Further(Kept(held.reservations, wanted), Kept(other.reservations, wanted))
    <3> HIDE DEF wanted
    <3> QED BY <1>1, KeptFurther
  <2> QED BY <1>3, <2>1 DEF ListIn
<1> QED BY <1>2, <1>3

Of(which) == IF which = "properties" THEN Properties ELSE Reservations
Lists == {"properties", "reservations"}
Replaced(entry, which, list) == upstream' = [upstream EXCEPT ![entry][which] = list]

\* What upstream is after a change to one of the two lists of one account.
LEMMA ChangeHas ==
    ASSUME Upstream, NEW entry \in Entries, NEW which \in Lists,
           NEW list \in Seq(Of(which)), IsInjective(list),
           Replaced(entry, which, list)
    PROVE  /\ Upstream'
           /\ upstream[entry] \in Holding /\ upstream'[entry] \in Holding
           /\ upstream'[entry][which] = list
           /\ \A other \in Lists : other # which => upstream'[entry][other] = upstream[entry][other]
           /\ \A e \in Entries : e # entry => upstream'[e] = upstream[e]
<1>1. upstream \in [Entries -> Holding]
  BY DEF Upstream, Holding
<1>2. upstream' = [upstream EXCEPT ![entry] = [upstream[entry] EXCEPT ![which] = list]]
  BY <1>1 DEF Replaced
<1>3. /\ [upstream[entry] EXCEPT ![which] = list] \in Holding
      /\ [upstream[entry] EXCEPT ![which] = list][which] = list
      /\ \A other \in Lists :
            other # which => [upstream[entry] EXCEPT ![which] = list][other] = upstream[entry][other]
  <2>1. CASE which = "properties"
    BY <1>1, <2>1 DEF Holding, Of, Lists
  <2>2. CASE which = "reservations"
    BY <1>1, <2>2 DEF Holding, Of, Lists
  <2> QED BY <2>1, <2>2 DEF Lists
<1>4. /\ upstream'[entry] \in Holding /\ upstream'[entry][which] = list
      /\ \A other \in Lists : other # which => upstream'[entry][other] = upstream[entry][other]
      /\ \A e \in Entries : e # entry => upstream'[e] = upstream[e]
      /\ upstream' \in [Entries -> Holding]
  BY <1>1, <1>2, <1>3
<1>5. \A e \in Entries : /\ IsInjective(upstream'[e].properties)
                         /\ IsInjective(upstream'[e].reservations)
  <2> SUFFICES ASSUME NEW e \in Entries
               PROVE  IsInjective(upstream'[e].properties) /\ IsInjective(upstream'[e].reservations)
    OBVIOUS
  <2>1. IsInjective(upstream[e].properties) /\ IsInjective(upstream[e].reservations)
    BY DEF Upstream
  <2>2. CASE e # entry
    BY <1>4, <2>1, <2>2
  <2>3. CASE e = entry /\ which = "properties"
    BY <1>4, <2>1, <2>3 DEF Lists
  <2>4. CASE e = entry /\ which = "reservations"
    BY <1>4, <2>1, <2>4 DEF Lists
  <2> QED BY <2>2, <2>3, <2>4 DEF Lists
<1>6. Upstream'
  BY <1>4, <1>5 DEF Upstream, Holding
<1> QED BY <1>1, <1>4, <1>6

CallFields == {"stage", "kind", "entry", "target", "reader", "guest_contact", "always",
               "ever", "added", "removed", "cut", "consented", "outcome"}

LEMMA FieldsOf ==
    ASSUME NEW read, DOMAIN read = CallFields, read = [field \in CallFields |-> read[field]],
           read.reader = call.reader, Fields(call)
    PROVE  Fields(read)
<1> DEFINE made == [stage |-> read.stage, kind |-> read.kind, entry |-> read.entry,
               target |-> read.target, reader |-> read.reader,
               guest_contact |-> read.guest_contact, always |-> read.always,
               ever |-> read.ever, added |-> read.added, removed |-> read.removed,
               cut |-> read.cut, consented |-> read.consented, outcome |-> read.outcome]
<1>1. made = [field \in CallFields |-> made[field]]
  BY DEF CallFields
<1>2. \A field \in CallFields : made[field] = read[field]
  BY DEF CallFields
<1> HIDE DEF made
<1>3. made = read
  BY <1>1, <1>2
<1> QED BY <1>3 DEF Fields, made

\* What a read remembers of upstream, as it is changed.
LEMMA Witnessed ==
    ASSUME Fields(call), NEW item, NEW b
    PROVE  LET more == [call EXCEPT !.ever = @ \cup {item}, !.added = TRUE]
               less == [call EXCEPT !.always = @ \ {item}, !.removed = TRUE]
               seen == [call EXCEPT !.consented = b]
           IN  /\ Fields(more) /\ Fields(less) /\ Fields(seen)
               /\ \A field \in CallFields \ {"ever", "added"} : more[field] = call[field]
               /\ more.ever = call.ever \cup {item} /\ more.added = TRUE
               /\ \A field \in CallFields \ {"always", "removed"} : less[field] = call[field]
               /\ less.always = call.always \ {item} /\ less.removed = TRUE
               /\ \A field \in CallFields \ {"consented"} : seen[field] = call[field]
               /\ seen.consented = b
<1> DEFINE more == [call EXCEPT !.ever = @ \cup {item}, !.added = TRUE]
           less == [call EXCEPT !.always = @ \ {item}, !.removed = TRUE]
           seen == [call EXCEPT !.consented = b]
<1>1. DOMAIN call = CallFields
  BY DEF Fields, CallFields
<1>2. /\ DOMAIN more = CallFields /\ DOMAIN less = CallFields /\ DOMAIN seen = CallFields
      /\ more = [field \in CallFields |-> more[field]]
      /\ less = [field \in CallFields |-> less[field]]
      /\ seen = [field \in CallFields |-> seen[field]]
  BY <1>1
<1>3. /\ \A field \in CallFields \ {"ever", "added"} : more[field] = call[field]
      /\ more.ever = call.ever \cup {item} /\ more.added = TRUE
  BY <1>1 DEF CallFields
<1>4. /\ \A field \in CallFields \ {"always", "removed"} : less[field] = call[field]
      /\ less.always = call.always \ {item} /\ less.removed = TRUE
  BY <1>1 DEF CallFields
<1>5. /\ \A field \in CallFields \ {"consented"} : seen[field] = call[field]
      /\ seen.consented = b
  BY <1>1 DEF CallFields
<1> HIDE DEF more, less, seen
<1>6. more.reader = call.reader /\ less.reader = call.reader /\ seen.reader = call.reader
  BY <1>3, <1>4, <1>5 DEF CallFields
<1>7. Fields(more) /\ Fields(less) /\ Fields(seen)
  BY <1>2, <1>6, FieldsOf
<1> QED BY <1>3, <1>4, <1>5, <1>7 DEF more, less, seen

\* A call that does not read from the account does not see its changes.
LEMMA NotSeen ==
    ASSUME CallIs, NEW entry \in Entries,
           \A e \in Entries : e # entry => upstream'[e] = upstream[e],
           UNCHANGED <<selected, loaded>>,
           call.stage # "reading" \/ call.entry # entry, call' = call
    PROVE  CallIs'
<1>1. CASE call = NoCall
  BY <1>1 DEF CallIs, NoCall
<1>2. CASE Reading(call)
  <2>1. upstream'[call.entry] = upstream[call.entry]
    BY <1>2 DEF Reading, Typed
  <2>2. Reading(call)'
    BY <1>2, <2>1, SameWorld
  <2> QED BY <2>2 DEF CallIs
<1>3. CASE Ended(call)
  <2>1. Ended(call)'
    BY <1>3, SameWorld
  <2> QED BY <2>1 DEF CallIs
<1> QED BY <1>1, <1>2, <1>3 DEF CallIs

\* What a read sees of a list that it is reading, as the list changes.
LEMMA ListChanges ==
    ASSUME Upstream, NEW read, NEW entry \in Entries, NEW which \in Lists,
           NEW list \in Seq(Of(which)), IsInjective(list),
           Replaced(entry, which, list),
           read.entry = entry, call'.entry = entry, call'.kind = read.kind,
           call'.reader = read.reader
    PROVE  /\ Upstream'
           /\ Listed(read) \in Seq(Items) /\ Listed(call)' \in Seq(Items)
           /\ Embeds(upstream[entry][which], list) => Further(Listed(read), Listed(call)')
           /\ Embeds(list, upstream[entry][which]) => Further(Listed(call)', Listed(read))
<1> DEFINE held == upstream[entry]
           new == upstream'[entry]
           batch == ToSet(Head(read.reader.batches))
<1>1. /\ Upstream' /\ held \in Holding /\ new \in Holding
      /\ new[which] = list
      /\ \A other \in Lists : other # which => new[other] = held[other]
  <2>1. /\ Upstream' /\ upstream[entry] \in Holding /\ upstream'[entry] \in Holding
        /\ upstream'[entry][which] = list
        /\ \A other \in Lists : other # which => upstream'[entry][other] = upstream[entry][other]
    BY ChangeHas
  <2> QED BY <2>1
<1>2. /\ IsInjective(held.properties) /\ IsInjective(held.reservations)
      /\ IsInjective(new.properties) /\ IsInjective(new.reservations)
  BY <1>1 DEF Upstream
<1>3. Listed(read) = ListIn(held, read.kind, batch)
  BY ListedIn
<1>4. Listed(call)' = ListIn(new, read.kind, batch)
  BY DEF Listed, ListIn, OnProperties
<1>5. /\ Embeds(held.properties, held.properties)
      /\ Embeds(held.reservations, held.reservations)
  BY <1>1, EmbedsItself DEF Holding
<1> HIDE DEF held, new, batch
<1>6. Embeds(held[which], list) =>
         Embeds(held.properties, new.properties) /\ Embeds(held.reservations, new.reservations)
  <2>1. CASE which = "properties"
    BY <1>1, <1>5, <2>1 DEF Lists
  <2>2. CASE which = "reservations"
    BY <1>1, <1>5, <2>2 DEF Lists
  <2> QED BY <2>1, <2>2 DEF Lists
<1>7. Embeds(list, held[which]) =>
         Embeds(new.properties, held.properties) /\ Embeds(new.reservations, held.reservations)
  <2>1. CASE which = "properties"
    BY <1>1, <1>5, <2>1 DEF Lists
  <2>2. CASE which = "reservations"
    BY <1>1, <1>5, <2>2 DEF Lists
  <2> QED BY <2>1, <2>2 DEF Lists
<1>8. /\ Embeds(held[which], list) => Further(Listed(read), Listed(call)')
      /\ Embeds(list, held[which]) => Further(Listed(call)', Listed(read))
  BY <1>1, <1>3, <1>4, <1>6, <1>7, ListFurther
<1>9. Listed(read) \in Seq(Items) /\ Listed(call)' \in Seq(Items)
  BY <1>1, <1>2, <1>3, <1>4, ListHas
<1> QED BY <1>1, <1>8, <1>9 DEF held

\* What an account holds, with the one list of it that changes and the other.
LEMMA HeldAre ==
    ASSUME Upstream, NEW entry \in Entries, NEW which \in Lists
    PROVE  /\ upstream[entry][which] \in Seq(Of(which)) /\ IsInjective(upstream[entry][which])
           /\ Of(which) \subseteq Items
           /\ UpstreamOf(entry) = UNION {ToSet(upstream[entry][other]) : other \in Lists}
<1>1. /\ upstream[entry].properties \in Seq(Properties)
      /\ upstream[entry].reservations \in Seq(Reservations)
      /\ IsInjective(upstream[entry].properties) /\ IsInjective(upstream[entry].reservations)
  BY DEF Upstream
<1>2. UpstreamOf(entry) = UNION {ToSet(upstream[entry][other]) : other \in Lists}
  BY DEF UpstreamOf, Lists
<1>3. CASE which = "properties"
  BY <1>1, <1>2, <1>3 DEF Of, Items
<1>4. CASE which = "reservations"
  BY <1>1, <1>2, <1>4 DEF Of, Items
<1> QED BY <1>3, <1>4 DEF Lists

\* A read from the account remembers an item that is added, and that one was.
LEMMA AddedSeen ==
    ASSUME Upstream, Reading(call), NEW which \in Lists, NEW item \in Of(which),
           NEW list \in Seq(Of(which)), IsInjective(list),
           Embeds(upstream[call.entry][which], list),
           ToSet(list) = ToSet(upstream[call.entry][which]) \cup {item},
           Replaced(call.entry, which, list), UNCHANGED <<selected, loaded>>,
           call' = [call EXCEPT !.ever = @ \cup {item}, !.added = TRUE]
    PROVE  Reading(call)'
<1> DEFINE entry == call.entry
<1>1. /\ Fields(call)' /\ call'.stage = call.stage /\ call'.kind = call.kind
      /\ call'.entry = entry /\ call'.target = call.target /\ call'.reader = call.reader
      /\ call'.guest_contact = call.guest_contact /\ call'.always = call.always
      /\ call'.ever = call.ever \cup {item} /\ call'.added = TRUE
      /\ call'.removed = call.removed /\ call'.cut = call.cut
      /\ call'.consented = call.consented
  <2> DEFINE more == [call EXCEPT !.ever = @ \cup {item}, !.added = TRUE]
  <2>1. /\ Fields(more)
        /\ \A field \in CallFields \ {"ever", "added"} : more[field] = call[field]
        /\ more.ever = call.ever \cup {item} /\ more.added = TRUE
    BY Witnessed DEF Reading
  <2>2. call' = more
    OBVIOUS
  <2> HIDE DEF more
  <2>3. Fields(call)'
    BY <2>1, <2>2 DEF Fields
  <2> QED BY <2>1, <2>2, <2>3 DEF CallFields
<1>2. /\ Typed(call) /\ Batches(call) /\ Got(call) /\ NothingMissed(call)
      /\ call.always \subseteq UpstreamOf(entry) /\ UpstreamOf(entry) \subseteq call.ever
      /\ call.stage = "reading" /\ call.kind # "list_properties" /\ call.reader.error = "none"
      /\ entry \in Entries /\ call.reader.page \in Nat \ {0}
  BY Longest DEF Reading, Typed
<1>3. \A x : AskedFor(call, x)' <=> AskedFor(call, x)
  BY <1>1 DEF AskedFor
<1>4. /\ Listed(call) \in Seq(Items) /\ Listed(call)' \in Seq(Items)
      /\ Further(Listed(call), Listed(call)')
      /\ Upstream'
  BY <1>1, <1>2, ListChanges
<1>5. UpstreamOf(entry)' = UpstreamOf(entry) \cup {item}
  <2>1. /\ UpstreamOf(entry) = UNION {ToSet(upstream[entry][other]) : other \in Lists}
        /\ \A other \in Lists : other # which => upstream'[entry][other] = upstream[entry][other]
        /\ upstream'[entry][which] = list
    BY <1>2, HeldAre, ChangeHas
  <2>2. UpstreamOf(entry)' = UNION {ToSet(upstream'[entry][other]) : other \in Lists}
    BY <1>1 DEF UpstreamOf, Lists
  <2>3. \A other \in Lists : ToSet(upstream'[entry][other]) =
            IF other = which THEN ToSet(upstream[entry][other]) \cup {item}
            ELSE ToSet(upstream[entry][other])
    BY <2>1
  <2> QED BY <2>1, <2>2, <2>3
<1>6. item \in Items
  BY <1>2, HeldAre
<1> HIDE DEF entry
<1>7. Typed(call)'
  BY <1>1, <1>2, <1>6 DEF Typed
<1>8. Batches(call)'
  BY <1>1, <1>2 DEF Batches, entry
<1>9. Got(call)'
  BY <1>1, <1>2, <1>3 DEF Got
<1>10. NothingTwice(call)'
  BY <1>1 DEF NothingTwice
<1>11. NothingMissed(call)'
  <2>1. \A x : ToCome(Listed(call), Before(call.reader), x)
                 => ToCome(Listed(call)', Before(call.reader), x)
    <3>1. Before(call.reader) \in Int
      BY <1>2, ReadsAssumption DEF Before
    <3> QED BY <1>4, <3>1, FurtherToCome
  <2>2. ASSUME ~call.removed, ~call.cut, NEW x \in call.always, AskedFor(call, x)
        PROVE  \/ x \in ToSet(call.reader.got)
               \/ ToCome(Listed(call)', Before(call.reader), x)
               \/ x \in Later(call.reader.batches)
    BY <1>2, <2>1, <2>2 DEF NothingMissed
  <2> QED BY <1>1, <1>3, <2>2 DEF NothingMissed
<1>12. call'.always \subseteq UpstreamOf(call.entry)' /\ UpstreamOf(call.entry)' \subseteq call'.ever
  <2>1. UpstreamOf(call.entry)' = UpstreamOf(entry) \cup {item}
    BY <1>5 DEF entry
  <2> QED BY <1>1, <1>2, <2>1
<1> QED BY <1>1, <1>2, <1>7, <1>8, <1>9, <1>10, <1>11, <1>12 DEF Reading

\* A read from the account no longer expects an item that is withdrawn.
LEMMA WithdrawnSeen ==
    ASSUME Upstream, Reading(call), NEW which \in Lists, NEW item,
           NEW list \in Seq(Of(which)), IsInjective(list),
           Embeds(list, upstream[call.entry][which]),
           ToSet(list) \subseteq ToSet(upstream[call.entry][which]),
           \A x \in ToSet(upstream[call.entry][which]) : x # item => x \in ToSet(list),
           Replaced(call.entry, which, list), UNCHANGED <<selected, loaded>>,
           call' = [call EXCEPT !.always = @ \ {item}, !.removed = TRUE]
    PROVE  Reading(call)'
<1> DEFINE entry == call.entry
<1>1. /\ Fields(call)' /\ call'.stage = call.stage /\ call'.kind = call.kind
      /\ call'.entry = entry /\ call'.target = call.target /\ call'.reader = call.reader
      /\ call'.guest_contact = call.guest_contact /\ call'.always = call.always \ {item}
      /\ call'.ever = call.ever /\ call'.added = call.added
      /\ call'.removed = TRUE /\ call'.cut = call.cut
      /\ call'.consented = call.consented
  <2> DEFINE less == [call EXCEPT !.always = @ \ {item}, !.removed = TRUE]
  <2>1. /\ Fields(less)
        /\ \A field \in CallFields \ {"always", "removed"} : less[field] = call[field]
        /\ less.always = call.always \ {item} /\ less.removed = TRUE
    BY Witnessed DEF Reading
  <2>2. call' = less
    OBVIOUS
  <2> HIDE DEF less
  <2>3. Fields(call)'
    BY <2>1, <2>2 DEF Fields
  <2> QED BY <2>1, <2>2, <2>3 DEF CallFields
<1>2. /\ Typed(call) /\ Batches(call) /\ Got(call) /\ NothingTwice(call)
      /\ call.always \subseteq UpstreamOf(entry) /\ UpstreamOf(entry) \subseteq call.ever
      /\ call.stage = "reading" /\ call.kind # "list_properties" /\ call.reader.error = "none"
      /\ entry \in Entries /\ call.reader.page \in Nat \ {0}
  BY Longest DEF Reading, Typed
<1>3. \A x : AskedFor(call, x)' <=> AskedFor(call, x)
  BY <1>1 DEF AskedFor
<1>4. /\ Listed(call) \in Seq(Items) /\ Listed(call)' \in Seq(Items)
      /\ Further(Listed(call)', Listed(call))
      /\ Upstream'
  BY <1>1, <1>2, ListChanges
<1>5. /\ UpstreamOf(entry)' \subseteq UpstreamOf(entry)
      /\ \A x \in UpstreamOf(entry) : x # item => x \in UpstreamOf(entry)'
  <2>1. /\ UpstreamOf(entry) = UNION {ToSet(upstream[entry][other]) : other \in Lists}
        /\ \A other \in Lists : other # which => upstream'[entry][other] = upstream[entry][other]
        /\ upstream'[entry][which] = list
    BY <1>2, HeldAre, ChangeHas
  <2>2. UpstreamOf(entry)' = UNION {ToSet(upstream'[entry][other]) : other \in Lists}
    BY <1>1 DEF UpstreamOf, Lists
  <2>3. \A other \in Lists :
           /\ ToSet(upstream'[entry][other]) \subseteq ToSet(upstream[entry][other])
           /\ \A x \in ToSet(upstream[entry][other]) :
                 x # item => x \in ToSet(upstream'[entry][other])
    BY <2>1
  <2> QED BY <2>1, <2>2, <2>3
<1> HIDE DEF entry
<1>6. Typed(call)'
  BY <1>1, <1>2 DEF Typed
<1>7. Batches(call)'
  BY <1>1, <1>2 DEF Batches, entry
<1>8. Got(call)'
  BY <1>1, <1>2, <1>3 DEF Got
<1>9. NothingMissed(call)'
  BY <1>1 DEF NothingMissed
<1>10. NothingTwice(call)'
  <2>1. \A x : ToCome(Listed(call)', Before(call.reader), x)
                 => ToCome(Listed(call), Before(call.reader), x)
    <3>1. Before(call.reader) \in Int
      BY <1>2, ReadsAssumption DEF Before
    <3> QED BY <1>4, <3>1, FurtherToCome
  <2>2. ASSUME ~call.added
        PROVE  /\ IsInjective(call.reader.got)
               /\ \A x \in ToSet(call.reader.got) :
                     /\ ~ToCome(Listed(call)', Before(call.reader), x)
                     /\ x \notin Later(call.reader.batches)
    BY <1>2, <2>1, <2>2 DEF NothingTwice
  <2> QED BY <1>1, <2>2 DEF NothingTwice
<1>11. call'.always \subseteq UpstreamOf(call.entry)' /\ UpstreamOf(call.entry)' \subseteq call'.ever
  <2>1. UpstreamOf(call.entry)' = UpstreamOf(entry)'
    BY DEF entry
  <2> QED BY <1>1, <1>2, <1>5, <2>1
<1> QED BY <1>1, <1>2, <1>6, <1>7, <1>8, <1>9, <1>10, <1>11 DEF Reading

LEMMA ChangesKeep ==
    ASSUME LookupsInv, NEW entry \in Entries, NEW which \in Lists, NEW item \in Of(which),
           Add(entry, which, item) \/ Withdraw(entry, which, item)
    PROVE  LookupsInv'
<1> DEFINE list == upstream[entry][which]
<1>1. /\ list \in Seq(Of(which)) /\ IsInjective(list)
  BY HeldAre DEF LookupsInv
<1>2. PICK new :
        /\ changes < MaxChanges /\ changes' = changes + 1 /\ Replaced(entry, which, new)
        /\ UNCHANGED <<contact, loaded, runtimeVars>>
        /\ \/ /\ item \notin ToSet(list)
              /\ \E i \in 1..(Len(list) + 1) : new = InsertAt(list, i, item)
              /\ call' = Witness(entry, item, TRUE)
           \/ /\ \E i \in DOMAIN list : list[i] = item /\ new = RemoveAt(list, i)
              /\ call' = Witness(entry, item, FALSE)
  <2>1. CASE Add(entry, which, item)
    BY <2>1 DEF Add, Change, Replaced
  <2>2. CASE Withdraw(entry, which, item)
    BY <2>2 DEF Withdraw, Change, Replaced
  <2> QED BY <2>1, <2>2
<1>3. Runtime'
  <2>1. changes' \in 0..MaxChanges
    BY <1>2, ReadsAssumption DEF LookupsInv, Runtime
  <2> QED BY <1>2, <2>1 DEF LookupsInv, Runtime, runtimeVars
<1>4. \/ /\ new \in Seq(Of(which)) /\ IsInjective(new) /\ Embeds(list, new)
         /\ ToSet(new) = ToSet(list) \cup {item} /\ call' = Witness(entry, item, TRUE)
      \/ /\ new \in Seq(Of(which)) /\ IsInjective(new) /\ Embeds(new, list)
         /\ ToSet(new) \subseteq ToSet(list) /\ \A x \in ToSet(list) : x # item => x \in ToSet(new)
         /\ call' = Witness(entry, item, FALSE)
  <2> HIDE DEF list
  <2>1. ASSUME item \notin ToSet(list), NEW i \in 1..(Len(list) + 1), new = InsertAt(list, i, item)
        PROVE  /\ new \in Seq(Of(which)) /\ IsInjective(new) /\ Embeds(list, new)
               /\ ToSet(new) = ToSet(list) \cup {item}
    BY <1>1, <2>1, Inserted
  <2>2. ASSUME NEW i \in DOMAIN list, list[i] = item, new = RemoveAt(list, i)
        PROVE  /\ new \in Seq(Of(which)) /\ IsInjective(new) /\ Embeds(new, list)
               /\ ToSet(new) \subseteq ToSet(list)
               /\ \A x \in ToSet(list) : x # item => x \in ToSet(new)
    BY <1>1, <2>2, WithoutOne
  <2> QED BY <1>2, <2>1, <2>2
<1>5. Upstream'
  BY <1>2, <1>4, ChangeHas DEF LookupsInv
<1>6. UNCHANGED <<selected, loaded>>
  BY <1>2 DEF runtimeVars
<1>7. CallIs'
  <2>1. CASE call.stage # "reading" \/ call.entry # entry
    <3>1. call' = call
      BY <1>4, <2>1 DEF Witness
    <3>2. \A e \in Entries : e # entry => upstream'[e] = upstream[e]
      BY <1>2, <1>4, ChangeHas DEF LookupsInv
    <3> QED BY <1>6, <2>1, <3>1, <3>2, NotSeen DEF LookupsInv
  <2>2. CASE call.stage = "reading" /\ call.entry = entry
    <3>1. Reading(call) /\ Upstream
      BY <2>2 DEF LookupsInv, CallIs, NoCall, Ended
    <3>2. CASE call' = Witness(entry, item, TRUE) /\ Embeds(list, new)
               /\ ToSet(new) = ToSet(list) \cup {item}
      <4>1. call' = [call EXCEPT !.ever = @ \cup {item}, !.added = TRUE]
        BY <2>2, <3>2 DEF Witness
      <4>2. /\ new \in Seq(Of(which)) /\ IsInjective(new) /\ Replaced(call.entry, which, new)
            /\ Embeds(upstream[call.entry][which], new)
            /\ ToSet(new) = ToSet(upstream[call.entry][which]) \cup {item}
        BY <1>2, <1>4, <2>2, <3>2
      <4>3. Reading(call)'
        BY <1>6, <3>1, <4>1, <4>2, AddedSeen
      <4> QED BY <4>3 DEF CallIs
    <3>3. CASE /\ call' = Witness(entry, item, FALSE) /\ Embeds(new, list)
               /\ ToSet(new) \subseteq ToSet(list)
               /\ \A x \in ToSet(list) : x # item => x \in ToSet(new)
      <4>1. call' = [call EXCEPT !.always = @ \ {item}, !.removed = TRUE]
        BY <2>2, <3>3 DEF Witness
      <4>2. /\ new \in Seq(Of(which)) /\ IsInjective(new) /\ Replaced(call.entry, which, new)
            /\ Embeds(new, upstream[call.entry][which])
            /\ ToSet(new) \subseteq ToSet(upstream[call.entry][which])
            /\ \A x \in ToSet(upstream[call.entry][which]) : x # item => x \in ToSet(new)
        BY <1>2, <1>4, <2>2, <3>3
      <4>3. Reading(call)'
        BY <1>6, <3>1, <4>1, <4>2, WithdrawnSeen
      <4> QED BY <4>3 DEF CallIs
    <3> QED BY <1>4, <3>2, <3>3
  <2> QED BY <2>1, <2>2
<1> QED BY <1>3, <1>5, <1>7 DEF LookupsInv

-----------------------------------------------------------------------------
(* A call begins                                                           *)

\* A finite set as a list has all of the set, each item once.
LEMMA SeqOfSet ==
    ASSUME NEW S, IsFiniteSet(S)
    PROVE  LET list == SetToSeq(S) IN
           list \in Seq(S) /\ IsInjective(list) /\ ToSet(list) = S
<1> DEFINE n == Cardinality(S)
           list == SetToSeq(S)
<1>1. n \in Nat /\ ExistsBijection(1..n, S)
  BY FS_CardinalityType
<1>2. PICK f \in Bijection(1..n, S) : TRUE
  BY <1>1 DEF ExistsBijection
<1>3. f \in [1..n -> S] /\ IsInjective(f)
  BY <1>2 DEF Bijection, Injection
<1>4. list \in [1..n -> S] /\ IsInjective(list)
  BY <1>3 DEF SetToSeq
<1>5. list \in Seq(S) /\ Len(list) = n
  BY <1>1, <1>4, FunctionIsSeq
<1>6. list \in Injection(1..n, S)
  BY <1>4 DEF Injection
<1>7. IsFiniteSet(1..n) /\ Cardinality(1..n) = n
  BY <1>1, FS_Interval
<1> HIDE DEF list
<1>8. list \in Surjection(1..n, S)
  BY <1>6, <1>7, FS_Injection
<1>9. ToSet(list) = S
  BY <1>4, <1>8 DEF Surjection, ToSet
<1> QED BY <1>4, <1>5, <1>9 DEF list

\* At its first await a read has got nothing, and all is still to come.
LEMMA BeganReads ==
    ASSUME Upstream, Runtime, NEW kind, NEW entry \in Entries, NEW target, NEW batches,
           kind \in PagedKinds \cup {"find_reservation"},
           kind \in Polls => entry \in loaded,
           target \in Items \cup {Unset},
           kind = "get_property_info" => target \in Properties,
           kind = "find_reservation" => target \in Reservations,
           Batches(Began(kind, entry, target, batches)),
           kind = "get_reservations" => batches = << <<target>> >>,
           kind = "reservations" =>
              \A p \in selected[entry] : \E c \in 1..Len(batches) : p \in ToSet(batches[c])
    PROVE  Reading(Began(kind, entry, target, batches))
<1> DEFINE read == Began(kind, entry, target, batches)
           held == upstream[entry]
           batch == ToSet(Head(batches))
           list == Listed(read)
<1>1. /\ read.stage = "reading" /\ read.kind = kind /\ read.entry = entry
      /\ read.target = target /\ read.guest_contact = contact[entry]
      /\ read.reader = [batches |-> batches, page |-> 1, got |-> << >>, error |-> "none"]
      /\ read.always = UpstreamOf(entry) /\ read.ever = UpstreamOf(entry)
      /\ read.added = FALSE /\ read.removed = FALSE /\ read.cut = FALSE
      /\ read.consented = contact[entry] /\ read.outcome = "none"
  BY DEF Began, Reader, UpstreamOf
<1>2. Fields(read)
  BY DEF Fields, Began, Reader
<1>3. /\ batches \in Seq(Seq(Properties)) /\ batches # << >> /\ Batches(read)
  <2>1. Batches(read)
    OBVIOUS
  <2>2. read.reader.batches = batches
    BY <1>1
  <2> HIDE DEF read
  <2> QED BY <2>1, <2>2 DEF Batches
<1>4. /\ held \in Holding /\ IsInjective(held.properties) /\ IsInjective(held.reservations)
      /\ held.properties \in Seq(Properties) /\ held.reservations \in Seq(Reservations)
  BY DEF Upstream, Holding
<1>5. /\ \A x \in ToSet(held.properties) : x \in Properties
      /\ \A x \in ToSet(held.reservations) : x \in Reservations
  BY <1>4, ElementOfSeq, LenProperties DEF ToSet
<1>6. UpstreamOf(entry) \subseteq Items
  BY <1>5 DEF UpstreamOf, Items
<1>7. kind \in Services \cup Polls /\ kind # "list_properties"
  BY DEF PagedKinds, Services, ListServices, Polls
<1> HIDE DEF read
<1>8. Typed(read)
  <2>1. contact[entry] \in BOOLEAN
    BY DEF Runtime
  <2>2. 1 \in 1..LastPage /\ << >> \in Seq(Items)
    BY Longest
  <2>3. read.reader.got = << >> /\ read.reader.page = 1
    BY <1>1
  <2>4. /\ read.kind \in Services \cup Polls /\ read.entry \in Entries
        /\ read.kind \in Polls => read.entry \in loaded
        /\ read.target \in Items \cup {Unset}
        /\ read.kind = "get_property_info" => read.target \in Properties
        /\ read.kind = "find_reservation" => read.target \in Reservations
    BY <1>1, <1>7
  <2>5. /\ read.always \subseteq read.ever /\ read.ever \subseteq Items
        /\ {read.guest_contact, read.consented} \subseteq BOOLEAN
        /\ {read.added, read.removed, read.cut} \subseteq BOOLEAN
    BY <1>1, <1>6, <2>1
  <2> QED BY <2>2, <2>3, <2>4, <2>5 DEF Typed
<1>9. ToSet(read.reader.got) = {} /\ IsInjective(read.reader.got)
  BY <1>1 DEF ToSet, IsInjective
<1>10. Got(read) /\ NothingTwice(read)
  BY <1>9 DEF Got, NothingTwice
<1>11. NothingMissed(read)
  <2> SUFFICES ASSUME NEW x \in UpstreamOf(entry), AskedFor(read, x)
               PROVE  ToCome(list, 0, x) \/ x \in Later(batches)
    <3>1. Before(read.reader) = 0
      BY <1>1, ReadsAssumption DEF Before
    <3> QED BY <1>1, <3>1 DEF NothingMissed
  <2>1. list = ListIn(held, kind, batch)
    BY <1>1, ListedIn
  <2> HIDE DEF list, held, batch
  <2>2. /\ list \in Seq(Items)
        /\ \A y : y \in ToSet(list) <=>
              IF kind \in OnProperties THEN y \in ToSet(held.properties)
              ELSE y \in ToSet(held.reservations) /\ y \in Reservations /\ PropertyOf[y] \in batch
    BY <1>4, <2>1, ListHas
  <2>3. x \in ToSet(list) => ToCome(list, 0, x)
    BY <2>2, LenProperties DEF ToCome, ToSet
  <2>4. x \in ToSet(held.properties) \/ x \in ToSet(held.reservations)
    BY DEF UpstreamOf, held
  <2>5. Properties \cap Reservations = {} /\ InWindow \subseteq Reservations
    BY ReadsAssumption
  <2>6. CASE kind \in OnProperties
    <3>1. x \in Properties
      BY <1>1, <2>6 DEF AskedFor, OnProperties
    <3> QED BY <1>5, <2>2, <2>3, <2>4, <2>5, <2>6, <3>1
  <2>7. CASE kind = "get_reservations"
    <3>1. x \in Reservations /\ PropertyOf[x] = target
      BY <1>1, <2>7 DEF AskedFor
    <3>2. target \in batch
      BY <2>7 DEF batch, ToSet
    <3>3. kind \notin OnProperties
      BY <2>7 DEF OnProperties
    <3> QED BY <1>5, <2>2, <2>3, <2>4, <2>5, <3>1, <3>2, <3>3
  <2>8. CASE kind = "reservations"
    <3>1. x \in InWindow /\ PropertyOf[x] \in selected[entry]
      BY <1>1, <2>8 DEF AskedFor
    <3>2. PICK c \in 1..Len(batches) : PropertyOf[x] \in ToSet(batches[c])
      BY <2>8, <3>1
    <3>3. kind \notin OnProperties
      BY <2>8 DEF OnProperties
    <3>4. CASE c = 1
      <4>1. Head(batches) = batches[1]
        BY <1>3
      <4>2. PropertyOf[x] \in batch
        BY <3>2, <3>4, <4>1 DEF batch
      <4> QED BY <1>5, <2>2, <2>3, <2>4, <2>5, <3>1, <3>3, <4>2
    <3>5. CASE c # 1
      <4>1. c \in 2..Len(batches)
        BY <1>3, <3>5, LenProperties
      <4> QED BY <2>5, <3>1, <3>2, <4>1 DEF Later
    <3> QED BY <3>4, <3>5
  <2>9. CASE kind = "find_reservation"
    BY <1>1, <2>9 DEF AskedFor
  <2> QED BY <2>6, <2>7, <2>8, <2>9 DEF PagedKinds, ListServices, Polls, OnProperties
<1> HIDE DEF list, held, batch
<1>12. Reading(read)
  BY <1>1, <1>2, <1>3, <1>7, <1>8, <1>10, <1>11 DEF Reading
<1> QED BY <1>12 DEF read

\* A call that is answered without an await.
LEMMA AnsweredAtOnce ==
    ASSUME Upstream, Runtime, NEW entry \in Entries, NEW target \in Items \cup {Unset},
           NEW kind, NEW batches, NEW outcome,
           \/ kind = "get_reservations" /\ batches # << >>
           \/ kind = "list_properties" /\ outcome = "found"
    PROVE  Ended(Answered(Began(kind, entry, target, batches), outcome))
<1> DEFINE began == Began(kind, entry, target, batches)
           read == Answered(began, outcome)
           made == [stage |-> "answered", kind |-> kind, entry |-> entry, target |-> target,
                    reader |-> [batches |-> batches, page |-> 1, got |-> << >>, error |-> "none"],
                    guest_contact |-> contact[entry], always |-> UpstreamOf(entry),
                    ever |-> UpstreamOf(entry), added |-> FALSE, removed |-> FALSE,
                    cut |-> FALSE, consented |-> contact[entry], outcome |-> outcome]
<1>1. read = made
  <2>1. /\ read = [field \in CallFields |-> read[field]]
        /\ made = [field \in CallFields |-> made[field]]
    BY DEF Answered, Began, CallFields
  <2>2. \A field \in CallFields : read[field] = made[field]
    <3>1. /\ began.kind = kind /\ began.entry = entry /\ began.target = target
          /\ began.reader = made.reader /\ began.guest_contact = contact[entry]
          /\ began.always = UpstreamOf(entry) /\ began.ever = UpstreamOf(entry)
          /\ began.added = FALSE /\ began.removed = FALSE /\ began.cut = FALSE
          /\ began.consented = contact[entry] /\ DOMAIN began = CallFields
      BY DEF Began, Reader, UpstreamOf, CallFields
    <3> HIDE DEF began
    <3>2. /\ read.stage = "answered" /\ read.outcome = outcome
          /\ \A field \in CallFields \ {"stage", "outcome"} : read[field] = began[field]
      BY <3>1 DEF Answered, CallFields
    <3>3. /\ made.stage = "answered" /\ made.outcome = outcome
          /\ \A field \in CallFields \ {"stage", "outcome"} : made[field] = began[field]
      <4>1. /\ made.stage = "answered" /\ made.outcome = outcome
            /\ made.kind = kind /\ made.entry = entry /\ made.target = target
            /\ made.guest_contact = contact[entry]
            /\ made.always = UpstreamOf(entry) /\ made.ever = UpstreamOf(entry)
            /\ made.added = FALSE /\ made.removed = FALSE /\ made.cut = FALSE
            /\ made.consented = contact[entry]
        OBVIOUS
      <4> HIDE DEF made
      <4> QED BY <3>1, <4>1 DEF CallFields
    <3> HIDE DEF made, read
    <3> QED BY <3>2, <3>3
  <2> HIDE DEF read, made
  <2> QED BY <2>1, <2>2
<1>2. /\ upstream[entry].properties \in Seq(Properties)
      /\ upstream[entry].reservations \in Seq(Reservations)
  BY DEF Upstream
<1>3. UpstreamOf(entry) \subseteq Items
  BY <1>2, ElementOfSeq, LenProperties DEF UpstreamOf, Items, ToSet
<1>4. Typed(made)
  <2>1. contact[entry] \in BOOLEAN
    BY DEF Runtime
  <2>2. 1 \in 1..LastPage /\ << >> \in Seq(Items)
    BY Longest
  <2>3. kind \in Services /\ kind \notin Polls
    BY DEF Services, ListServices, Polls
  <2> QED BY <1>3, <2>1, <2>2, <2>3 DEF Typed
<1>5. Fields(made)
  BY DEF Fields
<1>6. made.reader.batches = << >> => Mirrors(made)
  <2> SUFFICES ASSUME batches = << >> PROVE Mirrors(made)
    OBVIOUS
  <2>1. \A x : ~AskedFor(made, x)
    BY DEF AskedFor
  <2>2. ToSet(made.reader.got) = {} /\ IsInjective(made.reader.got)
    BY DEF ToSet, IsInjective
  <2> HIDE DEF made
  <2> QED BY <2>1, <2>2 DEF Mirrors
<1>7. outcome = "not_found" => Absent(made)
  BY DEF Absent
<1>8. made.stage = "answered" /\ made.outcome = outcome
  OBVIOUS
<1> HIDE DEF made, read
<1>9. Ended(made)
  BY <1>4, <1>5, <1>6, <1>7, <1>8 DEF Ended
<1> QED BY <1>1, <1>9 DEF read

LEMMA BatchesBegan ==
    ASSUME NEW kind, NEW entry, NEW target, NEW batches \in Seq(Seq(Properties)), batches # << >>,
           \A a, b \in 1..Len(batches) :
              a # b => ToSet(batches[a]) \cap ToSet(batches[b]) = {},
           kind \notin {"reservations", "get_reservations"} => Len(batches) = 1,
           kind = "get_reservations" => \A b \in 1..Len(batches) : ToSet(batches[b]) \subseteq {target},
           kind = "reservations" =>
              \A b \in 1..Len(batches) : ToSet(batches[b]) \subseteq selected[entry]
    PROVE  Batches(Began(kind, entry, target, batches))
<1> DEFINE read == Began(kind, entry, target, batches)
<1>1. read.kind = kind /\ read.entry = entry /\ read.target = target /\ read.reader.batches = batches
  BY DEF Began, Reader
<1> HIDE DEF read
<1>2. Batches(read)
  BY <1>1 DEF Batches
<1> QED BY <1>2 DEF read

\* One batch that names no property, or one.
LEMMA OneBatch ==
    /\ << << >> >> \in Seq(Seq(Properties)) /\ Len(<< << >> >>) = 1 /\ << << >> >> # << >>
    /\ \A p \in Properties : /\ << <<p>> >> \in Seq(Seq(Properties)) /\ Len(<< <<p>> >>) = 1
                             /\ << <<p>> >> # << >>
                             /\ \A b \in 1..1 : ToSet(<< <<p>> >>[b]) = {p}
<1>1. << << >> >> \in Seq(Seq(Properties)) /\ Len(<< << >> >>) = 1
  <2>1. << >> \in Seq(Properties)
    OBVIOUS
  <2> QED BY <2>1
<1>2. ASSUME NEW p \in Properties
      PROVE  /\ << <<p>> >> \in Seq(Seq(Properties)) /\ Len(<< <<p>> >>) = 1
             /\ \A b \in 1..1 : ToSet(<< <<p>> >>[b]) = {p}
  <2>1. <<p>> \in Seq(Properties)
    OBVIOUS
  <2>2. ToSet(<<p>>) = {p}
    BY DEF ToSet
  <2> QED BY <2>1, <2>2
<1>3. \A s : s = << >> => Len(s) = 0
  BY EmptySeq
<1> QED BY <1>1, <1>2, <1>3

LEMMA NoBatch ==
    ASSUME NEW kind, kind \notin {"reservations", "get_reservations"}, NEW entry, NEW target
    PROVE  Batches(Began(kind, entry, target, << << >> >>))
<1> DEFINE batches == << << >> >>
<1>1. batches \in Seq(Seq(Properties)) /\ Len(batches) = 1 /\ batches # << >>
  BY OneBatch
<1> HIDE DEF batches
<1>2. \A a, b \in 1..Len(batches) : a # b => ToSet(batches[a]) \cap ToSet(batches[b]) = {}
  BY <1>1
<1>3. Batches(Began(kind, entry, target, batches))
  BY <1>1, <1>2, BatchesBegan
<1> QED BY <1>3 DEF batches

LEMMA PollKeeps ==
    ASSUME LookupsInv, NEW entry \in Entries, NEW kind \in Polls, StartPoll(entry, kind)
    PROVE  LookupsInv'
<1> DEFINE ids == SetToSeq(selected[entry])
           batches == IF kind = "properties" THEN << << >> >> ELSE ChunkPropertyIds(ids)
<1>1. /\ call = NoCall /\ entry \in loaded
      /\ batches = << >> => reports' = Reported(entry, << >>) /\ call' = call
      /\ batches # << >> => call' = Began(kind, entry, Unset, batches) /\ reports' = reports
      /\ UNCHANGED <<upstream, changes, contact, loaded, devices, selected, known>>
  BY DEF StartPoll
<1>2. Upstream /\ Runtime /\ Upstream'
  BY <1>1 DEF LookupsInv, Upstream
<1>3. /\ ids \in Seq(Properties) /\ IsInjective(ids) /\ ToSet(ids) = selected[entry]
  <2>1. selected[entry] \subseteq Properties
    BY <1>2 DEF Runtime
  <2>2. IsFiniteSet(selected[entry])
    BY <2>1, ReadsAssumption, FS_Subset
  <2>3. ids \in Seq(selected[entry]) /\ IsInjective(ids) /\ ToSet(ids) = selected[entry]
    BY <2>2, SeqOfSet
  <2> HIDE DEF ids
  <2>4. \A i \in 1..Len(ids) : ids[i] \in Properties
    BY <2>1, <2>3, ElementOfSeq
  <2>5. ids \in [1..Len(ids) -> Properties] /\ Len(ids) \in Nat
    BY <2>3, <2>4, LenProperties
  <2> QED BY <2>3, <2>5, SeqDef
<1> HIDE DEF ids
<1>4. ASSUME kind = "reservations"
      PROVE  /\ batches \in Seq(Seq(Properties))
             /\ \A c \in 1..Len(batches) : ToSet(batches[c]) \subseteq selected[entry]
             /\ \A c, d \in 1..Len(batches) :
                   c # d => ToSet(batches[c]) \cap ToSet(batches[d]) = {}
             /\ \A x \in selected[entry] : \E c \in 1..Len(batches) : x \in ToSet(batches[c])
  <2>1. batches = ChunkPropertyIds(ids)
    BY <1>4
  <2> HIDE DEF batches
  <2> DEFINE chunks == ChunkPropertyIds(ids)
  <2>2. /\ chunks \in Seq(Seq(Properties))
        /\ \A c \in 1..Len(chunks) : ToSet(chunks[c]) \subseteq ToSet(ids)
        /\ \A c, d \in 1..Len(chunks) :
              c # d => ToSet(chunks[c]) \cap ToSet(chunks[d]) = {}
        /\ \A x \in ToSet(ids) : \E c \in 1..Len(chunks) : x \in ToSet(chunks[c])
    BY <1>3, ChunksHave
  <2>3. batches = chunks
    BY <2>1
  <2> HIDE DEF chunks
  <2>4. ToSet(ids) = selected[entry]
    BY <1>3
  <2>5. \A c \in 1..Len(chunks) : ToSet(chunks[c]) \subseteq selected[entry]
    BY <2>2, <2>4
  <2>6. \A x \in selected[entry] : \E c \in 1..Len(chunks) : x \in ToSet(chunks[c])
    BY <2>2, <2>4
  <2> QED BY <2>2, <2>3, <2>5, <2>6, Zenon
<1>5. kind = "properties" => batches = << << >> >>
  OBVIOUS
<1> HIDE DEF batches
<1>6. Runtime'
  <2>1. reports' \in [DOMAIN EntityRegistry -> Reservations \cup {Unset}]
    <3>1. << >> \in Seq(Items)
      OBVIOUS
    <3>2. reports \in [DOMAIN EntityRegistry -> Reservations \cup {Unset}]
      BY <1>2 DEF Runtime
    <3>3. Reported(entry, << >>) \in [DOMAIN EntityRegistry -> Reservations \cup {Unset}]
      BY <3>1, <3>2, ReportedTyped
    <3> QED BY <1>1, <3>2, <3>3
  <2> QED BY <1>1, <1>2, <2>1 DEF Runtime
<1>7. CallIs'
  <2>1. CASE batches = << >>
    BY <1>1, <2>1 DEF CallIs, NoCall
  <2>2. CASE batches # << >>
    <3>1. Batches(Began(kind, entry, Unset, batches))
      <4>1. CASE kind = "properties"
        BY <1>5, <4>1, NoBatch
      <4>2. CASE kind = "reservations"
        BY <1>4, <2>2, <4>2, BatchesBegan
      <4> QED BY <4>1, <4>2 DEF Polls
    <3>2. /\ kind \in PagedKinds \cup {"find_reservation"} /\ kind # "get_reservations"
          /\ kind # "get_property_info" /\ kind # "find_reservation"
      BY DEF Polls, PagedKinds
    <3>3. kind = "reservations" =>
              \A p \in selected[entry] : \E c \in 1..Len(batches) : p \in ToSet(batches[c])
      BY <1>4
    <3>4. Reading(Began(kind, entry, Unset, batches))
      BY <1>1, <1>2, <3>1, <3>2, <3>3, BeganReads
    <3>5. call' = Began(kind, entry, Unset, batches)
      BY <1>1, <2>2
    <3>6. Reading(call)'
      BY <1>1, <3>4, <3>5, SameWorld
    <3> QED BY <3>6 DEF CallIs
  <2> QED BY <2>1, <2>2
<1> QED BY <1>2, <1>6, <1>7 DEF LookupsInv

\* What the fields of a call resolve to is a property, or a reservation.
LEMMA ResolveTyped ==
    ASSUME NEW entry, NEW id, NEW target,
           reports \in [DOMAIN EntityRegistry -> Reservations \cup {Unset}]
    PROVE  /\ id \in Properties \cup {Unset} /\ resolve_property_id(entry, id, target) # Invalid
                => resolve_property_id(entry, id, target) \in Properties
           /\ id \in Reservations \cup {Unset}
                /\ resolve_reservation_uuid(entry, id, target, reports) # Invalid
                => resolve_reservation_uuid(entry, id, target, reports) \in Reservations
<1>1. ASSUME NEW device PROVE ResolveDevice(entry, device) \in Properties \cup {Invalid}
  <2>1. CASE device \in DOMAIN DeviceRegistry /\ PropertiesOf(entry, device) # {}
    <3>1. PropertiesOf(entry, device) \subseteq Properties
      BY <2>1, ReadsAssumption DEF PropertiesOf
    <3>2. (CHOOSE p \in PropertiesOf(entry, device) : TRUE) \in PropertiesOf(entry, device)
      BY <2>1
    <3> QED BY <3>1, <3>2 DEF ResolveDevice
  <2>2. CASE ~(device \in DOMAIN DeviceRegistry /\ PropertiesOf(entry, device) # {})
    BY <2>2 DEF ResolveDevice
  <2> QED BY <2>1, <2>2
<1>2. ResolveTarget(entry, target) \in Properties \cup {Invalid, Unset}
  <2>1. \A entity : ResolveEntity(entry, entity) \in Properties \cup {Invalid}
    BY <1>1 DEF ResolveEntity
  <2>2. CASE target.entity_id # << >>
    BY <2>1, <2>2 DEF ResolveTarget
  <2>3. CASE target.entity_id = << >> /\ target.device_id # << >>
    BY <1>1, <2>3 DEF ResolveTarget
  <2>4. CASE target.entity_id = << >> /\ target.device_id = << >>
    BY <2>4 DEF ResolveTarget
  <2> QED BY <2>2, <2>3, <2>4
<1>3. ASSUME id \in Properties \cup {Unset}, resolve_property_id(entry, id, target) # Invalid
      PROVE  resolve_property_id(entry, id, target) \in Properties
  <2> DEFINE targeted == ResolveTarget(entry, target)
  <2> HIDE DEF targeted
  <2>1. resolve_property_id(entry, id, target) =
            CASE targeted = Unset -> IF id = Unset THEN Invalid ELSE id
              [] targeted # Unset /\ id \in {Unset, targeted} -> targeted
              [] OTHER -> Invalid
    BY DEF resolve_property_id, targeted
  <2>2. targeted \in Properties \cup {Invalid, Unset}
    BY <1>2 DEF targeted
  <2>3. CASE targeted = Unset
    BY <1>3, <2>1, <2>3
  <2>4. CASE targeted # Unset
    BY <1>3, <2>1, <2>2, <2>4
  <2> QED BY <2>3, <2>4
<1>4. ASSUME id \in Reservations \cup {Unset},
             resolve_reservation_uuid(entry, id, target, reports) # Invalid
      PROVE  resolve_reservation_uuid(entry, id, target, reports) \in Reservations
  <2>1. CASE id # Unset /\ target = Unset
    BY <1>4, <2>1 DEF resolve_reservation_uuid
  <2>2. CASE id = Unset /\ target # Unset
    BY <1>4, <2>2 DEF resolve_reservation_uuid, OwnEntity
  <2>3. CASE (id = Unset) <=> (target = Unset)
    BY <1>4, <2>3 DEF resolve_reservation_uuid
  <2> QED BY <2>1, <2>2, <2>3
<1> QED BY <1>3, <1>4

LEMMA AskKeeps ==
    ASSUME LookupsInv, NEW c \in Calls, Ask(c.service, c)
    PROVE  LookupsInv'
<1> DEFINE entry == resolve_config_entry(loaded, c.config_entry_id)
<1>1. /\ call = NoCall /\ entry # Invalid
      /\ \/ c.service = "find_reservation" /\ AskFindReservation(entry, c)
         \/ c.service = "get_property_info" /\ AskGetPropertyInfo(entry, c)
         \/ c.service = "get_reservations" /\ AskGetReservations(entry, c)
         \/ c.service = "list_properties" /\ AskListProperties(entry)
      /\ UNCHANGED <<upstream, changes, contact, loaded, runtimeVars>>
  BY DEF Ask
<1>2. Upstream /\ Runtime /\ Upstream' /\ Runtime'
  BY <1>1 DEF LookupsInv, Upstream, Runtime, runtimeVars
<1>3. entry \in Entries
  BY <1>1, <1>2, EntryIsLoaded DEF Runtime
<1>4. /\ c.service = "find_reservation" => c.reservation_uuid \in Reservations \cup {Unset}
      /\ c.service \in ListServices => c.property_id \in Properties \cup {Unset}
  BY ReadsAssumption
<1>5. UNCHANGED <<upstream, selected, loaded>>
  BY <1>1 DEF runtimeVars
<1>6. reports \in [DOMAIN EntityRegistry -> Reservations \cup {Unset}]
  BY <1>2 DEF Runtime
<1> HIDE DEF entry
<1>7. ASSUME NEW read, call' = read, Reading(read) \/ Ended(read) PROVE CallIs'
  <2>1. Reading(call)' \/ Ended(call)'
    BY <1>5, <1>7, SameWorld
  <2> QED BY <2>1 DEF CallIs
<1>8. ASSUME c.service = "find_reservation", AskFindReservation(entry, c) PROVE CallIs'
  <2> DEFINE uuid == resolve_reservation_uuid(entry, c.reservation_uuid, c.entity_id, reports)
             read == Began("find_reservation", entry, uuid, << << >> >>)
  <2>1. uuid \in Reservations /\ call' = read
    <3>1. uuid # Invalid /\ call' = read
      BY <1>8 DEF AskFindReservation
    <3> QED BY <1>4, <1>6, <1>8, <3>1, ResolveTyped
  <2> HIDE DEF uuid
  <2>2. uuid \in Items
    BY <2>1 DEF Items
  <2>3. Batches(read)
    BY NoBatch
  <2>4. Reading(read)
    BY <1>2, <1>3, <2>1, <2>2, <2>3, BeganReads DEF Polls
  <2> QED BY <1>7, <2>1, <2>4
<1>9. ASSUME c.service = "get_property_info", AskGetPropertyInfo(entry, c) PROVE CallIs'
  <2> DEFINE property == resolve_property_id(entry, c.property_id, c.target)
             read == Began("get_property_info", entry, property, << << >> >>)
  <2>1. property \in Properties /\ call' = read
    <3>1. property # Invalid /\ call' = read
      BY <1>9 DEF AskGetPropertyInfo
    <3> QED BY <1>4, <1>6, <1>9, <3>1, ResolveTyped DEF ListServices
  <2> HIDE DEF property
  <2>2. property \in Items
    BY <2>1 DEF Items
  <2>3. Batches(read)
    BY NoBatch
  <2>4. Reading(read)
    BY <1>2, <1>3, <2>1, <2>2, <2>3, BeganReads DEF Polls, PagedKinds, ListServices
  <2> QED BY <1>7, <2>1, <2>4
<1>10. ASSUME c.service = "get_reservations", AskGetReservations(entry, c) PROVE CallIs'
  <2> DEFINE property == resolve_property_id(entry, c.property_id, c.target)
             batches == << <<property>> >>
             read == Began("get_reservations", entry, property, batches)
  <2>1. /\ property \in Properties
        /\ \/ call' = read
           \/ call' = Answered(read, "not_found")
    <3>1. property # Invalid /\ (call' = read \/ call' = Answered(read, "not_found"))
      BY <1>10 DEF AskGetReservations
    <3> QED BY <1>4, <1>6, <1>10, <3>1, ResolveTyped DEF ListServices
  <2> HIDE DEF property
  <2>2. property \in Items
    BY <2>1 DEF Items
  <2>3. /\ batches \in Seq(Seq(Properties)) /\ Len(batches) = 1 /\ batches # << >>
        /\ \A b \in 1..1 : ToSet(batches[b]) = {property}
    BY <2>1, OneBatch
  <2>4. batches = << <<property>> >>
    OBVIOUS
  <2> HIDE DEF batches
  <2>5. Batches(read)
    <3>1. \A a, b \in 1..Len(batches) : a # b => ToSet(batches[a]) \cap ToSet(batches[b]) = {}
      BY <2>3
    <3>2. \A b \in 1..Len(batches) : ToSet(batches[b]) \subseteq {property}
      BY <2>3
    <3> QED BY <2>3, <3>1, <3>2, BatchesBegan
  <2>6. Reading(read)
    BY <1>2, <1>3, <2>2, <2>4, <2>5, BeganReads DEF Polls, PagedKinds, ListServices
  <2>7. Ended(Answered(read, "not_found"))
    BY <1>2, <1>3, <2>2, <2>3, AnsweredAtOnce
  <2> HIDE DEF read
  <2> QED BY <1>7, <2>1, <2>6, <2>7
<1>11. ASSUME AskListProperties(entry) PROVE CallIs'
  <2> DEFINE read == Answered(Began("list_properties", entry, Unset, << >>), "found")
  <2>1. Ended(read)
    BY <1>2, <1>3, AnsweredAtOnce
  <2>2. call' = read
    BY <1>11 DEF AskListProperties
  <2> HIDE DEF read
  <2> QED BY <1>7, <2>1, <2>2
<1>12. CallIs'
  <2> HIDE DEF CallIs
  <2>1. \/ c.service = "find_reservation" /\ AskFindReservation(entry, c)
        \/ c.service = "get_property_info" /\ AskGetPropertyInfo(entry, c)
        \/ c.service = "get_reservations" /\ AskGetReservations(entry, c)
        \/ c.service = "list_properties" /\ AskListProperties(entry)
    BY <1>1 DEF entry
  <2> QED BY <2>1, <1>8, <1>9, <1>10, <1>11
<1> QED BY <1>2, <1>12 DEF LookupsInv

\* A read does not look at the option before it has its answer.
LEMMA ContactKeeps ==
    ASSUME LookupsInv, NEW entry \in Entries, SetContact(entry)
    PROVE  LookupsInv'
<1>1. /\ contact' = [contact EXCEPT ![entry] = ~@]
      /\ UNCHANGED <<upstream, changes, loaded, runtimeVars>>
  BY DEF SetContact
<1>2. Upstream' /\ Runtime' /\ contact'[entry] \in BOOLEAN
  <2>1. contact' \in [Entries -> BOOLEAN]
    BY <1>1 DEF LookupsInv, Runtime
  <2> QED BY <1>1, <2>1 DEF LookupsInv, Upstream, Runtime, runtimeVars
<1>3. UNCHANGED <<upstream, selected, loaded>>
  BY <1>1 DEF runtimeVars
<1>4. CASE ~(call.stage = "reading" /\ call.entry = entry)
  <2>1. call' = call
    BY <1>4 DEF SetContact
  <2>2. CallIs'
    BY <1>3, <1>4, <2>1, NotSeen DEF LookupsInv
  <2> QED BY <1>2, <2>2 DEF LookupsInv
<1>5. CASE call.stage = "reading" /\ call.entry = entry
  <2> DEFINE b == call.consented \/ contact'[entry]
             read == [call EXCEPT !.consented = b]
  <2>1. Reading(call)
    BY <1>5 DEF LookupsInv, CallIs, NoCall, Ended
  <2>2. call' = read
    BY <1>5 DEF SetContact
  <2>3. b \in BOOLEAN
    BY <1>2, <2>1 DEF Reading, Typed
  <2> HIDE DEF b
  <2>4. /\ Fields(read) /\ read.consented = b
        /\ \A field \in CallFields \ {"consented"} : read[field] = call[field]
    BY <2>1, Witnessed DEF Reading
  <2> HIDE DEF read
  <2>5. /\ read.stage = call.stage /\ read.kind = call.kind /\ read.entry = call.entry
        /\ read.target = call.target /\ read.reader = call.reader
        /\ read.guest_contact = call.guest_contact /\ read.always = call.always
        /\ read.ever = call.ever /\ read.added = call.added
        /\ read.removed = call.removed /\ read.cut = call.cut
    BY <2>4 DEF CallFields
  <2>6. \A x : AskedFor(read, x) <=> AskedFor(call, x)
    BY <2>5 DEF AskedFor
  <2>7. Listed(read) = Listed(call)
    BY <2>5 DEF Listed
  <2>8. Typed(read)
    BY <2>1, <2>3, <2>4, <2>5 DEF Reading, Typed
  <2>9. Batches(read)
    BY <2>1, <2>5 DEF Reading, Batches
  <2>10. Got(read)
    BY <2>1, <2>5, <2>6 DEF Reading, Got
  <2>11. NothingMissed(read)
    BY <2>1, <2>5, <2>6, <2>7 DEF Reading, NothingMissed
  <2>12. NothingTwice(read)
    BY <2>1, <2>5, <2>7 DEF Reading, NothingTwice
  <2>13. Reading(read)
    BY <2>1, <2>4, <2>5, <2>8, <2>9, <2>10, <2>11, <2>12 DEF Reading
  <2>14. Reading(call)'
    BY <1>3, <2>2, <2>13, SameWorld
  <2> QED BY <1>2, <2>14 DEF LookupsInv, CallIs
<1> QED BY <1>4, <1>5

\* A poll runs for a loaded entry only, so no poll sees what it selects change.
LEMMA LoadKeeps ==
    ASSUME LookupsInv, NEW entry \in Entries, Load(entry) \/ Unload(entry)
    PROVE  LookupsInv'
<1>1. Upstream /\ Runtime
  BY DEF LookupsInv
<1>2. upstream[entry].properties \in Seq(Properties) /\ upstream[entry].reservations \in Seq(Reservations)
  BY <1>1 DEF Upstream
<1>3. CASE Load(entry)
  <2> DEFINE listed == ToSet(upstream[entry].properties)
             chosen == IF SelectedProperties[entry] = {} THEN listed
                       ELSE SelectedProperties[entry]
             window == {r \in InWindow : PropertyOf[r] \in chosen}
             held == Kept(upstream[entry].reservations, window)
  <2>1. /\ entry \notin loaded /\ loaded' = loaded \cup {entry}
        /\ selected' = [selected EXCEPT ![entry] = chosen]
        /\ known' = [known EXCEPT ![entry] = KnownIds(entry, chosen)]
        /\ devices' = [devices EXCEPT ![entry] = KnownIds(entry, chosen)]
        /\ reports' = Reported(entry, held)
        /\ UNCHANGED <<upstream, changes, contact, call>>
    BY <1>3 DEF Load
  <2>2. chosen \subseteq Properties
    BY <1>2, ReadsAssumption, ElementOfSeq, LenProperties DEF ToSet
  <2>3. held \in Seq(Reservations)
    <3> HIDE DEF window
    <3> QED BY <1>2, KeptHas
  <2> HIDE DEF chosen, held
  <2>4. KnownIds(entry, chosen) \subseteq Properties
    BY <1>1, <2>2 DEF KnownIds, Runtime
  <2>5. reports' \in [DOMAIN EntityRegistry -> Reservations \cup {Unset}]
    BY <1>1, <2>1, <2>3, ReportedTyped DEF Runtime
  <2>6. Runtime'
    BY <1>1, <2>1, <2>2, <2>4, <2>5 DEF Runtime
  <2>7. Upstream'
    BY <1>1, <2>1 DEF Upstream
  <2>8. CallIs'
    <3>1. CASE call = NoCall
      BY <2>1, <3>1 DEF CallIs, NoCall
    <3>2. CASE Reading(call) \/ Ended(call)
      <4>1. call.entry \in Entries /\ (call.kind \in Polls => call.entry \in loaded)
        BY <3>2 DEF Reading, Ended, Typed
      <4>2. call.kind \in Polls => selected'[call.entry] = selected[call.entry]
                                  /\ call.entry \in loaded'
        BY <1>1, <2>1, <4>1 DEF Runtime
      <4>3. Reading(call)' \/ Ended(call)'
        BY <2>1, <3>2, <4>2, SameWorld
      <4> QED BY <4>3 DEF CallIs
    <3> QED BY <3>1, <3>2 DEF LookupsInv, CallIs
  <2> QED BY <2>6, <2>7, <2>8 DEF LookupsInv
<1>4. CASE Unload(entry)
  <2>1. /\ loaded' = loaded \ {entry}
        /\ selected' = [selected EXCEPT ![entry] = {}] /\ known' = [known EXCEPT ![entry] = {}]
        /\ reports' = Reported(entry, << >>)
        /\ call' = IF call.kind \in Polls /\ call.entry = entry THEN NoCall ELSE call
        /\ UNCHANGED <<upstream, changes, contact, devices>>
    BY <1>4 DEF Unload
  <2>2. reports' \in [DOMAIN EntityRegistry -> Reservations \cup {Unset}]
    <3>1. << >> \in Seq(Items)
      OBVIOUS
    <3>2. reports \in [DOMAIN EntityRegistry -> Reservations \cup {Unset}]
      BY <1>1 DEF Runtime
    <3>3. Reported(entry, << >>) \in [DOMAIN EntityRegistry -> Reservations \cup {Unset}]
      BY <3>1, <3>2, ReportedTyped
    <3> QED BY <2>1, <3>3
  <2>3. Runtime'
    BY <1>1, <2>1, <2>2 DEF Runtime
  <2>4. Upstream'
    BY <1>1, <2>1 DEF Upstream
  <2>5. CallIs'
    <3>1. CASE call = NoCall \/ (call.kind \in Polls /\ call.entry = entry)
      <4>1. call' = NoCall
        BY <2>1, <3>1
      <4> QED BY <4>1 DEF CallIs, NoCall
    <3>2. CASE /\ Reading(call) \/ Ended(call)
               /\ ~(call.kind \in Polls /\ call.entry = entry)
      <4>1. call.entry \in Entries /\ (call.kind \in Polls => call.entry \in loaded)
        BY <3>2 DEF Reading, Ended, Typed
      <4>2. call.kind \in Polls => selected'[call.entry] = selected[call.entry]
                                  /\ call.entry \in loaded'
        BY <1>1, <2>1, <3>2, <4>1 DEF Runtime
      <4>3. call' = call
        BY <2>1, <3>2
      <4>4. Reading(call)' \/ Ended(call)'
        BY <2>1, <3>2, <4>2, <4>3, SameWorld
      <4> QED BY <4>4 DEF CallIs
    <3> QED BY <3>1, <3>2 DEF LookupsInv, CallIs
  <2> QED BY <2>3, <2>4, <2>5 DEF LookupsInv
<1> QED BY <1>3, <1>4

\* What a poll stores are reservations.
LEMMA AnswerStored ==
    ASSUME LookupsInv, NEW deviation \in Deviations, TakeAnswer(deviation)
    PROVE  reports' \in [DOMAIN EntityRegistry -> Reservations \cup {Unset}]
<1> DEFINE next == ReadOn(Deviating(AnswerDue(call), deviation))
<1>1. call.stage = "reading" /\ Reading(call) /\ Upstream
  BY DEF TakeAnswer, LookupsInv, CallIs, NoCall, Ended
<1>2. reports \in [DOMAIN EntityRegistry -> Reservations \cup {Unset}]
  BY DEF LookupsInv, Runtime
<1>3. \/ reports' = reports
      \/ /\ reports' = Reported(call.entry, next.got)
         /\ call.kind = "reservations" /\ Finished(next)
  BY DEF TakeAnswer, Store
<1>4. ASSUME call.kind = "reservations", Finished(next) PROVE next.got \in Seq(Items)
  <2>1. call' = [Served(next) EXCEPT !.cut = call'.cut]
    BY <1>4 DEF TakeAnswer
  <2>2. CallIs'
    BY AnswerKeeps
  <2>3. call' = Ending(call, next, call'.cut, ContactWhenServed)
    BY <1>1, <2>1, LeftAs DEF Reading
  <2> HIDE DEF next
  <2>4. call'.stage = "answered" /\ call'.reader = next
    BY <2>3 DEF Ending
  <2>5. Ended(call)'
    BY <2>2, <2>4 DEF CallIs, NoCall, Reading
  <2> QED BY <2>4, <2>5 DEF Ended, Typed
<1> HIDE DEF next
<1>5. CASE reports' = reports
  BY <1>2, <1>5
<1>6. CASE reports' = Reported(call.entry, next.got) /\ next.got \in Seq(Items)
  BY <1>2, <1>6, ReportedTyped
<1> QED BY <1>3, <1>4, <1>5, <1>6

-----------------------------------------------------------------------------
(* The theorems                                                            *)

LEMMA LookupsInvariant == Spec => []LookupsInv
<1>1. Init => LookupsInv
  <2> SUFFICES ASSUME Init PROVE LookupsInv
    OBVIOUS
  <2>1. Upstream
    BY ReadsAssumption DEF Init, Upstream
  <2>2. Runtime
    BY ReadsAssumption DEF Init, Runtime
  <2> QED BY <2>1, <2>2 DEF Init, LookupsInv, CallIs
<1>2. LookupsInv /\ [Next]_vars => LookupsInv'
  <2> SUFFICES ASSUME LookupsInv, [Next]_vars PROVE LookupsInv'
    OBVIOUS
  <2>1. CASE UNCHANGED vars
    <3>1. UNCHANGED <<upstream, selected, loaded, call>>
      BY <2>1 DEF vars, runtimeVars
    <3>2. CASE call = NoCall
      BY <2>1, <3>2 DEF LookupsInv, Upstream, Runtime, CallIs, NoCall, vars, runtimeVars
    <3>3. CASE Reading(call) \/ Ended(call)
      <4>1. Reading(call)' \/ Ended(call)'
        BY <3>1, <3>3, SameWorld
      <4> QED BY <2>1, <4>1 DEF LookupsInv, Upstream, Runtime, CallIs, vars, runtimeVars
    <3> QED BY <3>2, <3>3 DEF LookupsInv, CallIs
  <2>2. ASSUME NEW e \in Entries, Load(e) \/ Unload(e) PROVE LookupsInv'
    BY <2>2, LoadKeeps
  <2>3. ASSUME NEW e \in Busy, EntryNext(e) PROVE LookupsInv'
    <3>1. e \in Entries
      BY ReadsAssumption
    <3>2. ASSUME NEW p \in Properties,
                 Add(e, "properties", p) \/ Withdraw(e, "properties", p)
          PROVE  LookupsInv'
      BY <3>1, <3>2, ChangesKeep DEF Lists, Of
    <3>3. ASSUME NEW r \in Reservations,
                 Add(e, "reservations", r) \/ Withdraw(e, "reservations", r)
          PROVE  LookupsInv'
      BY <3>1, <3>3, ChangesKeep DEF Lists, Of
    <3>4. CASE SetContact(e)
      BY <3>1, <3>4, ContactKeeps
    <3>5. ASSUME NEW kind \in Polls, StartPoll(e, kind) PROVE LookupsInv'
      BY <3>1, <3>5, PollKeeps
    <3> QED BY <2>3, <3>2, <3>3, <3>4, <3>5 DEF EntryNext
  <2>4. ASSUME NEW c \in Calls, Ask(c.service, c) PROVE LookupsInv'
    BY <2>4, AskKeeps
  <2>5. ASSUME NEW deviation \in Deviations, TakeAnswer(deviation) PROVE LookupsInv'
    <3>1. CallIs'
      BY <2>5, AnswerKeeps
    <3>2. Upstream'
      BY <2>5 DEF TakeAnswer, LookupsInv, Upstream
    <3>3. reports' \in [DOMAIN EntityRegistry -> Reservations \cup {Unset}]
      BY <2>5, AnswerStored
    <3>4. Runtime'
      BY <2>5, <3>3 DEF TakeAnswer, LookupsInv, Runtime
    <3> QED BY <3>1, <3>2, <3>4 DEF LookupsInv
  <2>6. CASE Return
    <3>1. Upstream' /\ Runtime' /\ call' = NoCall
      BY <2>6 DEF Return, LookupsInv, Upstream, Runtime, runtimeVars
    <3> QED BY <3>1 DEF LookupsInv, CallIs, NoCall
  <2> QED BY <2>1, <2>2, <2>3, <2>4, <2>5, <2>6 DEF Next
<1> QED BY <1>1, <1>2, PTL DEF Spec

\* Every page that is asked for is one that some list can have, and whatever is
\* reported or looked up is a property or a reservation.
THEOREM LookupTypes == Spec => []TypeOK
<1>1. LookupsInv => TypeOK
  <2> SUFFICES ASSUME LookupsInv PROVE TypeOK
    OBVIOUS
  <2>1. CallTypeOK
    <3>1. CASE call = NoCall
      BY <3>1 DEF CallTypeOK
    <3>2. CASE Reading(call) \/ Ended(call)
      <4>1. Typed(call) /\ call.stage \in {"reading", "answered"}
        BY <3>2 DEF Reading, Ended
      <4> QED BY <4>1 DEF CallTypeOK, Typed
    <3> QED BY <3>1, <3>2 DEF LookupsInv, CallIs
  <2> QED BY <2>1 DEF TypeOK, LookupsInv, Upstream, Runtime
<1> QED BY <1>1, LookupsInvariant, PTL

\* client.py: whatever is added to a list or withdrawn from it between two pages,
\* and however the answers deviate, a read that ends without an error has each
\* item once and misses none, as far as ReadsMirrorUpstream says.
THEOREM ReadsMirror == Spec => []ReadsMirrorUpstream
<1>1. LookupsInv => ReadsMirrorUpstream
  <2> SUFFICES ASSUME LookupsInv, call.stage = "answered",
                      call.reader.batches = << >>, call.reader.error = "none"
               PROVE  Mirrors(call)
    BY DEF ReadsMirrorUpstream, Mirrors
  <2>1. Ended(call)
    BY DEF LookupsInv, CallIs, NoCall, Reading
  <2> QED BY <2>1 DEF Ended
<1> QED BY <1>1, LookupsInvariant, PTL

\* actions: found: false is the answer to an absence, never to a failure.
THEOREM NotFoundIsAbsent == Spec => []NotFoundOnlyIfAbsent
<1>1. LookupsInv => NotFoundOnlyIfAbsent
  <2> SUFFICES ASSUME LookupsInv, call.stage = "answered", call.kind \in Services,
                      call.outcome = "not_found"
               PROVE  CASE call.kind = "find_reservation" -> call.target \notin call.always
                        [] call.kind = "get_property_info" ->
                              call.target \notin call.always \/ call.removed \/ call.cut
                        [] call.kind = "get_reservations" -> call.reader.got = << >>
    BY DEF NotFoundOnlyIfAbsent
  <2>1. Ended(call)
    BY DEF LookupsInv, CallIs, NoCall, Reading
  <2>2. Absent(call)
    BY <2>1 DEF Ended
  <2> QED BY <2>2 DEF Absent
<1> QED BY <1>1, LookupsInvariant, PTL

-----------------------------------------------------------------------------
(* What a response shows                                                    *)

Words ==
    {Item, "found", "reservation", "property", "properties", "reservations", "id", "name",
     "listings", "platform", "platform_id", "platform_email", "platform_picture", "co_hosts",
     "user_id", "channel_name", "status", "guest", "first_name", "last_name", "location",
     "language", "email", "phone_numbers", "sender", "profile_picture", "property_id",
     "public_name", "selected", "unknown", "version", "minor_version", "namespace_source",
     "options", "coordinators", "counts", "reservation_interval", "guest_contact_details",
     "last_update_success", "item_count", "items", "reservation_id", "status_category",
     "has_last_message_at", "guest_id"}

Private == {"profile_picture", "sender", "unknown"}

\* Of one path the filter makes what ResponsesAreFiltered asks of all of them.
WellJudged(path, guest_contact) ==
    /\ Keys(path) \cap Private # {} => ~Released(path, guest_contact)
    /\ Keys(path) \cap Private = {} /\ Keys(path) \cap Contact # {}
       /\ Released(path, guest_contact) => guest_contact
    /\ Keys(path) \cap Private = {} /\ Keys(path) \cap Contact = {}
       => Released(path, guest_contact)

\* Where nothing is said of a key, it makes no difference.
Plain(path) ==
    \A i \in 1..Len(path) : path[i] \notin ALWAYS_DROPPED \cup Private \cup Contact
                                          \cup {"guest", "co_hosts", "listings"}

LEMMA PlainPrefix ==
    ASSUME NEW prefix \in Seq(Words), Plain(prefix), NEW path \in Seq(Words),
           NEW gc, WellJudged(path, gc)
    PROVE  WellJudged(prefix \o path, gc)
<1> DEFINE n == Len(prefix)
           whole == prefix \o path
<1>1. /\ n \in Nat /\ Len(path) \in Nat /\ whole \in Seq(Words) /\ Len(whole) = n + Len(path)
      /\ \A i \in 1..n : whole[i] = prefix[i]
      /\ \A i \in 1..Len(path) : whole[n + i] = path[i]
  BY ConcatProperties, LenProperties
<1>2. /\ DOMAIN whole = 1..(n + Len(path)) /\ DOMAIN path = 1..Len(path)
  BY <1>1, LenProperties
<1> HIDE DEF n, whole
<1>3. \A i \in 1..n : whole[i] \notin ALWAYS_DROPPED \cup Private \cup Contact
                                      \cup {"guest", "co_hosts", "listings"}
  BY <1>1 DEF Plain, n
<1>4. \A i \in 1..n : /\ ~OfGuest(whole, i) /\ ~OfOne(whole, i, "co_hosts")
                      /\ ~Refused(whole, i, gc)
  BY <1>3 DEF OfGuest, OfOne, Refused
<1>5. ASSUME NEW i \in 1..Len(path)
      PROVE  /\ OfGuest(whole, n + i) <=> OfGuest(path, i)
             /\ OfOne(whole, n + i, "co_hosts") <=> OfOne(path, i, "co_hosts")
             /\ Refused(whole, n + i, gc) <=> Refused(path, i, gc)
  <2>1. /\ whole[n + i] = path[i]
        /\ \A k \in {1, 2} : /\ IsMapping(whole, n + i + k) <=> IsMapping(path, i + k)
                             /\ IsList(whole, n + i + k) <=> IsList(path, i + k)
                             /\ i + k <= Len(path) => whole[n + i + k] = path[i + k]
    <3>1. whole[n + i] = path[i]
      BY <1>1
    <3>2. ASSUME NEW k \in {1, 2}, i + k <= Len(path) PROVE whole[n + i + k] = path[i + k]
      <4>1. i + k \in 1..Len(path) /\ n + (i + k) = n + i + k
        BY <1>1, <3>2
      <4> QED BY <1>1, <4>1
    <3>3. \A k \in {1, 2} : n + i + k <= Len(whole) <=> i + k <= Len(path)
      BY <1>1
    <3> QED BY <3>1, <3>2, <3>3 DEF IsMapping, IsList
  <2> QED BY <2>1 DEF OfGuest, OfOne, Refused, IsMapping, IsList
<1>6. Released(whole, gc) <=> Released(path, gc)
  <2>1. ASSUME Released(whole, gc), NEW i \in 1..Len(path), Refused(path, i, gc)
        PROVE  \E j \in 1..(i - 1) : OfGuest(path, j) \/ OfOne(path, j, "co_hosts")
    <3>1. n + i \in DOMAIN whole /\ Refused(whole, n + i, gc)
      BY <1>1, <1>2, <1>5, <2>1
    <3>2. PICK j \in 1..((n + i) - 1) : OfGuest(whole, j) \/ OfOne(whole, j, "co_hosts")
      BY <2>1, <3>1, Zenon DEF Released
    <3>3. j \notin 1..n
      BY <1>4, <3>2
    <3>4. j - n \in 1..(i - 1) /\ j - n \in 1..Len(path) /\ n + (j - n) = j
      BY <1>1, <3>3
    <3> QED BY <1>5, <3>2, <3>4
  <2>2. ASSUME Released(path, gc), NEW i \in 1..(n + Len(path)), Refused(whole, i, gc)
        PROVE  \E j \in 1..(i - 1) : OfGuest(whole, j) \/ OfOne(whole, j, "co_hosts")
    <3>1. i \notin 1..n
      BY <1>4, <2>2
    <3>2. i - n \in 1..Len(path) /\ n + (i - n) = i
      BY <1>1, <3>1
    <3>3. Refused(path, i - n, gc)
      BY <1>5, <2>2, <3>2
    <3>4. PICK j \in 1..(i - n - 1) : OfGuest(path, j) \/ OfOne(path, j, "co_hosts")
      BY <1>2, <2>2, <3>2, <3>3 DEF Released
    <3>5. j \in 1..Len(path) /\ n + j \in 1..(i - 1)
      BY <1>1, <3>2
    <3> QED BY <1>5, <3>4, <3>5
  <2> QED BY <1>2, <2>1, <2>2 DEF Released
<1>7. \A S \in {Private, Contact} : Keys(whole) \cap S = {} <=> Keys(path) \cap S = {}
  <2>1. ASSUME NEW S \in {Private, Contact}, NEW key \in S
        PROVE  key \in Keys(whole) <=> key \in Keys(path)
    <3>1. ASSUME key \in Keys(path) PROVE key \in Keys(whole)
      <4>1. PICK i \in 1..Len(path) : key = path[i]
        BY <3>1 DEF Keys
      <4>2. n + i \in 1..Len(whole) /\ whole[n + i] = key
        BY <1>1, <4>1
      <4> QED BY <4>2 DEF Keys
    <3>2. ASSUME key \in Keys(whole) PROVE key \in Keys(path)
      <4>1. PICK i \in 1..Len(whole) : key = whole[i]
        BY <3>2 DEF Keys
      <4>2. i \notin 1..n
        BY <1>3, <2>1, <4>1
      <4>3. i - n \in 1..Len(path) /\ whole[n + (i - n)] = key
        BY <1>1, <4>1, <4>2
      <4>4. path[i - n] = key
        BY <1>1, <4>3
      <4> QED BY <4>3, <4>4 DEF Keys
    <3> QED BY <3>1, <3>2
  <2> QED BY <2>1
<1> QED BY <1>6, <1>7 DEF WellJudged, whole

LEMMA Tops ==
    ASSUME NEW path \in Seq(Words), Len(path) = 1, path[1] \notin Contact,
           path[1] # "unknown", NEW gc
    PROVE  WellJudged(path, gc)
<1>1. DOMAIN path = 1..1 /\ Keys(path) = {path[1]}
  BY DEF Keys
<1>2. Released(path, gc) <=> path[1] \notin ALWAYS_DROPPED
  BY <1>1 DEF Released, Refused, OfGuest, OfOne, IsMapping, IsList
<1> QED BY <1>1, <1>2 DEF WellJudged, Private, ALWAYS_DROPPED, Contact

LEMMA Guests ==
    ASSUME NEW path \in Seq(Words), Len(path) = 2, path[1] = "guest",
           path[2] \in {"first_name", "last_name", "location", "language", "email",
                        "phone_numbers", "profile_picture", "unknown"},
           NEW gc \in BOOLEAN
    PROVE  WellJudged(path, gc)
<1>1. DOMAIN path = 1..2 /\ Keys(path) = {"guest", path[2]}
  <2>1. 1..2 = {1, 2}
    OBVIOUS
  <2> QED BY <2>1 DEF Keys
<1>2. OfGuest(path, 1) /\ ~OfOne(path, 1, "co_hosts") /\ ~OfOne(path, 1, "listings")
  BY DEF OfGuest, OfOne, IsMapping, IsList, Item
<1>3. Refused(path, 1, gc) <=> path[2] \notin IdentityAllowed(gc)
  BY <1>2 DEF Refused, ALWAYS_DROPPED
<1>4. Released(path, gc) <=> ~Refused(path, 1, gc)
  BY <1>1, <1>2 DEF Released
<1> QED BY <1>1, <1>3, <1>4 DEF WellJudged, Private, Contact, IdentityAllowed

LEMMA Senders ==
    ASSUME NEW path \in Seq(Words), Len(path) = 2, path[1] = "sender", NEW gc
    PROVE  WellJudged(path, gc)
<1>1. 1 \in DOMAIN path /\ Refused(path, 1, gc)
  BY DEF Refused, ALWAYS_DROPPED
<1>2. ~Released(path, gc)
  BY <1>1 DEF Released
<1>3. "sender" \in Keys(path)
  BY DEF Keys
<1> QED BY <1>2, <1>3 DEF WellJudged, Private

LEMMA Listings ==
    ASSUME NEW path \in Seq(Words), Len(path) = 3, path[1] = "listings", path[2] = Item,
           path[3] \in {"platform", "platform_id", "platform_email", "platform_picture",
                        "unknown"},
           NEW gc \in BOOLEAN
    PROVE  WellJudged(path, gc)
<1>1. DOMAIN path = {1, 2, 3} /\ Keys(path) = {"listings", Item, path[3]}
  <2>1. 1..3 = {1, 2, 3}
    OBVIOUS
  <2> QED BY <2>1 DEF Keys
<1>2. \A i \in {1, 2, 3} : ~OfGuest(path, i) /\ ~OfOne(path, i, "co_hosts")
  BY DEF OfGuest, OfOne, Item
<1>3. /\ Refused(path, 1, gc) <=> path[3] \notin ListingAllowed(gc)
      /\ ~Refused(path, 2, gc) /\ ~Refused(path, 3, gc)
  BY <1>2 DEF Refused, OfOne, IsList, IsMapping, Item, ALWAYS_DROPPED
<1>4. Released(path, gc) <=> path[3] \in ListingAllowed(gc)
  BY <1>1, <1>3 DEF Released
<1> QED BY <1>1, <1>4 DEF WellJudged, Private, Contact, ListingAllowed, Item

LEMMA CoHosts ==
    ASSUME NEW path \in Seq(Words), Len(path) = 5, path[1] = "listings", path[2] = Item,
           path[3] = "co_hosts", path[4] = Item,
           path[5] \in {"user_id", "channel_name", "name", "email", "phone_numbers",
                        "unknown"},
           NEW gc \in BOOLEAN
    PROVE  WellJudged(path, gc)
<1>1. DOMAIN path = {1, 2, 3, 4, 5} /\ Keys(path) = {"listings", Item, "co_hosts", path[5]}
  <2>1. 1..5 = {1, 2, 3, 4, 5}
    OBVIOUS
  <2> QED BY <2>1 DEF Keys
<1>2. /\ \A i \in {1, 2, 3, 4, 5} : ~OfGuest(path, i)
      /\ \A i \in {1, 2, 4, 5} : ~OfOne(path, i, "co_hosts")
      /\ OfOne(path, 3, "co_hosts")
  BY DEF OfGuest, OfOne, IsList, IsMapping, Item
<1>3. /\ Refused(path, 3, gc) <=> path[5] \notin CoHostAllowed(gc)
      /\ \A i \in {1, 2, 4, 5} : ~Refused(path, i, gc)
  BY <1>2 DEF Refused, OfOne, IsList, IsMapping, Item, ALWAYS_DROPPED, ListingAllowed
<1>4. Released(path, gc) <=> path[5] \in CoHostAllowed(gc)
  BY <1>1, <1>2, <1>3 DEF Released
<1> QED BY <1>1, <1>4 DEF WellJudged, Private, Contact, CoHostAllowed, Item

\* A prefix and one key more.
LEMMA Appended ==
    ASSUME NEW prefix \in Seq(Words), NEW key \in Words
    PROVE  /\ Append(prefix, key) \in Seq(Words)
           /\ Len(Append(prefix, key)) = Len(prefix) + 1
           /\ \A i \in 1..Len(prefix) : Append(prefix, key)[i] = prefix[i]
           /\ Append(prefix, key)[Len(prefix) + 1] = key
BY AppendProperties

AllJudged(paths, guest_contact) ==
    \A path \in paths : path \in Seq(Words) /\ WellJudged(path, guest_contact)

LEMMA TopJudged ==
    ASSUME NEW key \in Words \ Contact, key # "unknown", NEW gc
    PROVE  AllJudged({Append(<< >>, key)}, gc)
<1> DEFINE top == << >>
<1>1. top \in Seq(Words) /\ Len(top) = 0
  OBVIOUS
<1> HIDE DEF top
<1> DEFINE path == Append(top, key)
<1>2. path \in Seq(Words) /\ Len(path) = 1 /\ path[1] = key
  BY <1>1, Appended
<1> HIDE DEF path
<1>3. WellJudged(path, gc)
  BY <1>2, Tops
<1> QED BY <1>2, <1>3 DEF AllJudged, top, path

LEMMA PropertyJudged ==
    ASSUME NEW gc \in BOOLEAN
    PROVE  AllJudged(RawProperty, gc) /\ AllJudged(CuratedProperty, gc)
<1>1. ASSUME NEW key \in {"id", "name", "property_id", "public_name", "selected"}
      PROVE  AllJudged({Append(<< >>, key)}, gc)
  BY TopJudged DEF Words, Contact
<1>2. ASSUME NEW key \in {"platform", "platform_id", "platform_email", "platform_picture",
                         "unknown"}
      PROVE  AllJudged({Append(<<"listings", Item>>, key)}, gc)
  <2> DEFINE prefix == <<"listings", Item>>
  <2>1. prefix \in Seq(Words) /\ Len(prefix) = 2 /\ prefix[1] = "listings" /\ prefix[2] = Item
    BY DEF Item, Words
  <2> HIDE DEF prefix
  <2>2. key \in Words
    BY DEF Words
  <2> DEFINE path == Append(prefix, key)
  <2>3. /\ path \in Seq(Words) /\ Len(path) = Len(prefix) + 1
        /\ \A i \in 1..Len(prefix) : path[i] = prefix[i]
        /\ path[Len(prefix) + 1] = key
    BY <2>1, <2>2, Appended, Zenon
  <2> HIDE DEF path
  <2>4. /\ path \in Seq(Words) /\ Len(path) = 3 /\ path[1] = prefix[1] /\ path[2] = prefix[2] /\ path[3] = key
    BY <2>1, <2>3
  <2>5. WellJudged(path, gc)
    BY <2>1, <2>4, Listings
  <2> QED BY <2>3, <2>5 DEF AllJudged, prefix, path
<1>3. ASSUME NEW key \in {"user_id", "channel_name", "name", "email", "phone_numbers",
                         "unknown"}
      PROVE  AllJudged({Append(<<"listings", Item, "co_hosts", Item>>, key)}, gc)
  <2> DEFINE prefix == <<"listings", Item, "co_hosts", Item>>
  <2>1. /\ prefix \in Seq(Words) /\ Len(prefix) = 4 /\ prefix[1] = "listings"
        /\ prefix[2] = Item /\ prefix[3] = "co_hosts" /\ prefix[4] = Item
    BY DEF Item, Words
  <2> HIDE DEF prefix
  <2>2. key \in Words
    BY DEF Words
  <2> DEFINE path == Append(prefix, key)
  <2>3. /\ path \in Seq(Words) /\ Len(path) = Len(prefix) + 1
        /\ \A i \in 1..Len(prefix) : path[i] = prefix[i]
        /\ path[Len(prefix) + 1] = key
    BY <2>1, <2>2, Appended, Zenon
  <2> HIDE DEF path
  <2>4. /\ path \in Seq(Words) /\ Len(path) = 5 /\ path[1] = prefix[1] /\ path[2] = prefix[2]
        /\ path[3] = prefix[3] /\ path[4] = prefix[4] /\ path[5] = key
    BY <2>1, <2>3
  <2>5. WellJudged(path, gc)
    BY <2>1, <2>4, CoHosts
  <2> QED BY <2>3, <2>5 DEF AllJudged, prefix, path
<1>4. AllJudged(Members(<< >>, {"id", "name"}), gc)
  BY <1>1 DEF AllJudged, Members
<1>5. AllJudged(Members(<< >>, {"property_id", "name", "public_name", "selected"}), gc)
  BY <1>1 DEF AllJudged, Members
<1>6. /\ AllJudged(Members(<<"listings", Item>>, {"platform", "platform_id", "platform_email",
                                   "platform_picture", "unknown"}), gc)
      /\ AllJudged(Members(<<"listings", Item>>, {"platform", "platform_id"}), gc)
  BY <1>2 DEF AllJudged, Members
<1>7. /\ AllJudged(Members(<<"listings", Item, "co_hosts", Item>>,
            {"user_id", "channel_name", "name", "email", "phone_numbers", "unknown"}), gc)
      /\ AllJudged(Members(<<"listings", Item, "co_hosts", Item>>,
            {"user_id", "channel_name", "name"}), gc)
  BY <1>3 DEF AllJudged, Members
<1> QED BY <1>4, <1>5, <1>6, <1>7, Zenon DEF AllJudged, RawProperty, CuratedProperty

LEMMA UnderPlain ==
    ASSUME NEW prefix \in Seq(Words), Plain(prefix), NEW gc, NEW paths,
           AllJudged(paths, gc)
    PROVE  AllJudged(Under(prefix, paths), gc)
<1> SUFFICES ASSUME NEW path \in paths
             PROVE  prefix \o path \in Seq(Words) /\ WellJudged(prefix \o path, gc)
  BY DEF AllJudged, Under
<1>1. path \in Seq(Words) /\ WellJudged(path, gc)
  BY DEF AllJudged
<1> QED BY <1>1, PlainPrefix, ConcatProperties

LEMMA Plains ==
    /\ <<"reservation">> \in Seq(Words) /\ Plain(<<"reservation">>)
    /\ <<"property">> \in Seq(Words) /\ Plain(<<"property">>)
    /\ <<"properties", Item>> \in Seq(Words) /\ Plain(<<"properties", Item>>)
    /\ <<"reservations", Item>> \in Seq(Words) /\ Plain(<<"reservations", Item>>)
BY DEF Plain, Item, Words, ALWAYS_DROPPED, Private, Contact

LEMMA ReservationJudged ==
    ASSUME NEW gc \in BOOLEAN
    PROVE  AllJudged(RawReservation, gc)
<1>1. ASSUME NEW key \in {"id", "status", "profile_picture"}
      PROVE  AllJudged({Append(<< >>, key)}, gc)
  BY TopJudged DEF Words, Contact
<1>2. ASSUME NEW key \in {"first_name", "last_name", "location", "language", "email",
                         "phone_numbers", "profile_picture", "unknown"}
      PROVE  AllJudged({Append(<<"guest">>, key)}, gc)
  <2> DEFINE prefix == <<"guest">>
  <2>1. prefix \in Seq(Words) /\ Len(prefix) = 1 /\ prefix[1] = "guest"
    BY DEF Words
  <2> HIDE DEF prefix
  <2>2. key \in Words
    BY DEF Words
  <2> DEFINE path == Append(prefix, key)
  <2>3. /\ path \in Seq(Words) /\ Len(path) = Len(prefix) + 1
        /\ \A i \in 1..Len(prefix) : path[i] = prefix[i]
        /\ path[Len(prefix) + 1] = key
    BY <2>1, <2>2, Appended, Zenon
  <2> HIDE DEF path
  <2>4. /\ path \in Seq(Words) /\ Len(path) = 2 /\ path[1] = prefix[1] /\ path[2] = key
    BY <2>1, <2>3
  <2>5. WellJudged(path, gc)
    BY <2>1, <2>4, Guests
  <2> QED BY <2>3, <2>5 DEF AllJudged, prefix, path
<1>3. ASSUME NEW key \in {"first_name", "email"}
      PROVE  AllJudged({Append(<<"sender">>, key)}, gc)
  <2> DEFINE prefix == <<"sender">>
  <2>1. prefix \in Seq(Words) /\ Len(prefix) = 1 /\ prefix[1] = "sender"
    BY DEF Words
  <2> HIDE DEF prefix
  <2>2. key \in Words
    BY DEF Words
  <2> DEFINE path == Append(prefix, key)
  <2>3. /\ path \in Seq(Words) /\ Len(path) = Len(prefix) + 1
        /\ \A i \in 1..Len(prefix) : path[i] = prefix[i]
        /\ path[Len(prefix) + 1] = key
    BY <2>1, <2>2, Appended, Zenon
  <2> HIDE DEF path
  <2>4. /\ path \in Seq(Words) /\ Len(path) = 2 /\ path[1] = prefix[1] /\ path[2] = key
    BY <2>1, <2>3
  <2>5. WellJudged(path, gc)
    BY <2>1, <2>4, Senders
  <2> QED BY <2>3, <2>5 DEF AllJudged, prefix, path
<1>4. AllJudged(Members(<< >>, {"id", "status", "profile_picture"}), gc)
  BY <1>1 DEF AllJudged, Members
<1>5. AllJudged(Members(<<"guest">>, {"first_name", "last_name", "location", "language", "email",
                          "phone_numbers", "profile_picture", "unknown"}), gc)
  BY <1>2 DEF AllJudged, Members
<1>6. AllJudged(Members(<<"sender">>, {"first_name", "email"}), gc)
  BY <1>3 DEF AllJudged, Members
<1>7. AllJudged(Under(<<"properties", Item>>, RawProperty), gc)
  BY Plains, PropertyJudged, UnderPlain
<1> QED BY <1>4, <1>5, <1>6, <1>7, Zenon DEF AllJudged, RawReservation

LEMMA ResponseJudged ==
    ASSUME NEW read, read.kind \in Services, NEW gc \in BOOLEAN
    PROVE  AllJudged(RawResponse(read), gc)
<1>1. AllJudged(Members(<< >>, {"found"}), gc) /\ AllJudged({}, gc)
  <2>1. AllJudged({Append(<< >>, "found")}, gc)
    BY TopJudged DEF Words, Contact
  <2> QED BY <2>1 DEF AllJudged, Members
<1>2. AllJudged(Under(<<"reservation">>, RawReservation), gc)
  BY Plains, ReservationJudged, UnderPlain
<1>3. AllJudged(Under(<<"property">>, RawProperty), gc)
  BY Plains, PropertyJudged, UnderPlain
<1>4. AllJudged(Under(<<"properties", Item>>, CuratedProperty), gc)
  BY Plains, PropertyJudged, UnderPlain
<1>5. AllJudged(Under(<<"reservations", Item>>, RawReservation), gc)
  BY Plains, ReservationJudged, UnderPlain
<1>6. \A S, T : AllJudged(S, gc) /\ AllJudged(T, gc) => AllJudged(S \cup T, gc)
  BY Zenon DEF AllJudged
<1> QED BY <1>1, <1>2, <1>3, <1>4, <1>5, <1>6
        DEF RawResponse, Services, ListServices

\* The option was on during a call if the call has it on or may yet read it on.
Consent ==
    \/ call = NoCall
    \/ /\ call.stage \in {"reading", "answered"}
       /\ {call.guest_contact, call.consented} \subseteq BOOLEAN
       /\ call.guest_contact => call.consented
       /\ call.stage = "reading" /\ contact[call.entry] => call.consented

\* Whatever a call is changed by, but for the option.
LEMMA ConsentStays ==
    ASSUME Consent, call # NoCall, call'.stage = call.stage, call'.entry = call.entry,
           call'.guest_contact = call.guest_contact, call'.consented = call.consented,
           contact' = contact
    PROVE  Consent'
BY DEF Consent, NoCall

LEMMA ConsentBegins ==
    ASSUME LookupsInv, NEW entry \in Entries, NEW kind, NEW target, NEW batches,
           NEW outcome, contact' = contact,
           \/ call' = Began(kind, entry, target, batches)
           \/ call' = Answered(Began(kind, entry, target, batches), outcome)
    PROVE  Consent'
<1>1. contact[entry] \in BOOLEAN
  BY DEF LookupsInv, Runtime
<1> DEFINE began == Began(kind, entry, target, batches)
<1>2. /\ began.stage = "reading" /\ began.entry = entry
      /\ began.guest_contact = contact[entry] /\ began.consented = contact[entry]
  BY DEF Began
<1>3. CASE call' = began
  BY <1>1, <1>2, <1>3 DEF Consent
<1>4. CASE call' = Answered(began, outcome)
  <2>1. /\ call'.stage = "answered" /\ call'.entry = entry
        /\ call'.guest_contact = contact[entry] /\ call'.consented = contact[entry]
    BY <1>4 DEF Answered, Began
  <2> QED BY <1>1, <2>1 DEF Consent
<1> QED BY <1>3, <1>4

LEMMA ConsentKept ==
    ASSUME LookupsInv, Consent, [Next]_vars
    PROVE  Consent'
<1>1. call # NoCall => Fields(call) /\ call.stage \in {"reading", "answered"}
  BY DEF LookupsInv, CallIs, Reading, Ended
<1>2. CASE UNCHANGED vars
  BY <1>2 DEF vars, Consent
<1>3. ASSUME NEW e \in Entries, Load(e) \/ Unload(e) PROVE Consent'
  <2>1. contact' = contact /\ (call' = call \/ call' = NoCall)
    BY <1>3 DEF Load, Unload
  <2> QED BY <2>1 DEF Consent
<1>4. ASSUME NEW e \in Busy, EntryNext(e) PROVE Consent'
  <2>1. CASE SetContact(e)
    <3>1. e \in Entries /\ contact \in [Entries -> BOOLEAN]
      BY ReadsAssumption DEF LookupsInv, Runtime
    <3>2. contact' = [contact EXCEPT ![e] = ~@] /\ contact'[e] \in BOOLEAN
      BY <2>1, <3>1 DEF SetContact
    <3>3. CASE call.stage = "reading" /\ call.entry = e
      <4>1. call # NoCall
        BY <3>3 DEF NoCall
      <4>2. call' = [call EXCEPT !.consented = call.consented \/ contact'[e]]
        BY <2>1, <3>3 DEF SetContact
      <4>3. /\ call'.stage = call.stage /\ call'.entry = call.entry
            /\ call'.guest_contact = call.guest_contact
            /\ call'.consented = (call.consented \/ contact'[e])
        BY <1>1, <4>1, <4>2 DEF Fields
      <4> QED BY <3>2, <3>3, <4>1, <4>3 DEF Consent
    <3>4. CASE ~(call.stage = "reading" /\ call.entry = e)
      <4>1. call' = call
        BY <2>1, <3>4 DEF SetContact
      <4>2. call.stage = "reading" => contact'[call.entry] = contact[call.entry]
        BY <3>2, <3>4, <3>1
      <4> QED BY <4>1, <4>2 DEF Consent
    <3> QED BY <3>3, <3>4
  <2>2. ASSUME NEW which, NEW x, Add(e, which, x) \/ Withdraw(e, which, x) PROVE Consent'
    <3>1. contact' = contact /\ \E b : call' = Witness(e, x, b)
      BY <2>2 DEF Add, Withdraw, Change
    <3>2. \/ call' = call
          \/ /\ call.stage = "reading"
             /\ \/ call' = [call EXCEPT !.ever = @ \cup {x}, !.added = TRUE]
                \/ call' = [call EXCEPT !.always = @ \ {x}, !.removed = TRUE]
      BY <3>1 DEF Witness
    <3>3. CASE call' = call
      BY <3>1, <3>3 DEF Consent
    <3>4. CASE call' # call
      <4>1. call # NoCall
        BY <3>2, <3>4 DEF NoCall
      <4>2. /\ call'.stage = call.stage /\ call'.entry = call.entry
            /\ call'.guest_contact = call.guest_contact
            /\ call'.consented = call.consented
        BY <1>1, <3>2, <3>4, <4>1 DEF Fields
      <4> QED BY <3>1, <4>1, <4>2, ConsentStays
    <3> QED BY <3>3, <3>4
  <2>3. ASSUME NEW kind \in Polls, StartPoll(e, kind) PROVE Consent'
    <3>1. e \in Entries
      BY ReadsAssumption
    <3>2. /\ contact' = contact
          /\ \/ call' = call
             \/ \E batches : call' = Began(kind, e, Unset, batches)
      BY <2>3 DEF StartPoll
    <3> QED BY <3>1, <3>2, ConsentBegins DEF Consent
  <2> QED BY <1>4, <2>1, <2>2, <2>3 DEF EntryNext
<1>5. ASSUME NEW c \in Calls, Ask(c.service, c) PROVE Consent'
  <2> DEFINE entry == resolve_config_entry(loaded, c.config_entry_id)
  <2>1. entry # Invalid /\ contact' = contact
    BY <1>5 DEF Ask
  <2>2. \E kind, target, batches, outcome :
            \/ call' = Began(kind, entry, target, batches)
            \/ call' = Answered(Began(kind, entry, target, batches), outcome)
    BY <1>5 DEF Ask, AskFindReservation, AskGetPropertyInfo, AskGetReservations,
                AskListProperties
  <2>3. entry \in Entries
    BY <2>1, EntryIsLoaded DEF LookupsInv, Runtime
  <2> HIDE DEF entry
  <2> QED BY <2>1, <2>2, <2>3, ConsentBegins
<1>6. ASSUME NEW deviation \in Deviations, TakeAnswer(deviation) PROVE Consent'
  <2> DEFINE next == ReadOn(Deviating(AnswerDue(call), deviation))
  <2>1. call.stage = "reading" /\ call # NoCall /\ contact' = contact
    BY <1>6 DEF TakeAnswer, NoCall
  <2>2. \E cut : \/ call' = [Served(next) EXCEPT !.cut = cut]
                \/ call' = [call EXCEPT !.reader = next, !.cut = cut]
    BY <1>6 DEF TakeAnswer
  <2> HIDE DEF next
  <2>3. \E cut : \/ call' = Ending(call, next, cut, ContactWhenServed)
                \/ call' = Going(call, next, cut)
    <3>1. \A cut : /\ [call EXCEPT !.reader = next, !.cut = cut] = Going(call, next, cut)
                   /\ [Served(next) EXCEPT !.cut = cut]
                         = Ending(call, next, cut, ContactWhenServed)
      BY <1>1, <2>1, LeftAs
    <3> QED BY <2>2, <3>1, Zenon
  <2>4. CASE \E cut : call' = Going(call, next, cut)
    <3>1. /\ call'.stage = call.stage /\ call'.entry = call.entry
          /\ call'.guest_contact = call.guest_contact
          /\ call'.consented = call.consented
      BY <2>1, <2>4 DEF Going
    <3> QED BY <2>1, <3>1, ConsentStays
  <2>5. CASE \E cut : call' = Ending(call, next, cut, ContactWhenServed)
    <3>1. /\ call'.stage = "answered" /\ call'.guest_contact = ContactWhenServed
          /\ call'.consented = call.consented
      BY <2>5 DEF Ending
    <3>2. contact[call.entry] \in BOOLEAN
      BY <1>1, <2>1 DEF LookupsInv, Runtime, CallIs, Reading, Ended, Typed
    <3>3. ContactWhenServed \in BOOLEAN /\ (ContactWhenServed => call.consented)
      BY <2>1, <3>2 DEF Consent, ContactWhenServed
    <3> QED BY <2>1, <3>1, <3>3 DEF Consent
  <2> QED BY <2>3, <2>4, <2>5
<1>7. CASE Return
  BY <1>7 DEF Return, Consent
<1> QED BY <1>2, <1>3, <1>4, <1>5, <1>6, <1>7 DEF Next

\* actions/response.py: no service shows anybody's contact details unless the option
\* was on during the call, or a picture, a sender or what nobody knows of at all,
\* and it withholds nothing else.
THEOREM ResponsesFiltered == Spec => []ResponsesAreFiltered
<1>1. Init => Consent
  BY DEF Init, Consent
<1>2. LookupsInv /\ Consent /\ [Next]_vars => Consent'
  BY ConsentKept
<1>3. LookupsInv /\ Consent => ResponsesAreFiltered
  <2> SUFFICES ASSUME LookupsInv, Consent, call.stage = "answered", call.kind \in Services
               PROVE  LET raw == RawResponse(call)
                          sent == serialize_response(raw, call.guest_contact)
                          private == {path \in raw : Keys(path) \cap
                                          {"profile_picture", "sender", "unknown"} # {}}
                          gated == {path \in raw \ private : Keys(path) \cap Contact # {}}
                      IN  /\ sent \cap private = {}
                          /\ sent \cap gated # {} => call.consented
                          /\ raw \ (private \cup gated) \subseteq sent
    BY DEF ResponsesAreFiltered
  <2>1. call.guest_contact \in BOOLEAN /\ (call.guest_contact => call.consented)
    BY DEF Consent, NoCall
  <2>2. AllJudged(RawResponse(call), call.guest_contact)
    BY <2>1, ResponseJudged
  <2> QED BY <2>1, <2>2, Zenon DEF AllJudged, WellJudged, Private, serialize_response
<1> QED BY <1>1, <1>2, <1>3, LookupsInvariant, PTL DEF Spec


-----------------------------------------------------------------------------
(* What the diagnostics show                                                *)

\* The dump makes of a path what DumpHidesGuests asks of all of them.
WellDumped(path) ==
    Fate(path) = IF "guest" \in Keys(Front(path)) THEN "redacted" ELSE "shown"

\* In a section without a guest, and of a guest.
Open(prefix, keys) ==
    /\ \A i \in 1..Len(prefix) : prefix[i] \notin GUEST_CONTAINER_KEYS \cup GuestAttributes
    /\ keys \cap (GuestAttributes \ NON_GUEST_PREFIXED_KEYS) = {}
Guarded(prefix, keys) ==
    /\ Len(prefix) > 1 /\ prefix[Len(prefix)] = "guest" /\ Item \notin keys
    /\ \A i \in 1..(Len(prefix) - 1) : prefix[i] \notin GUEST_CONTAINER_KEYS

LEMMA SectionDumped ==
    ASSUME NEW prefix \in Seq(Words), NEW keys \in SUBSET Words,
           IF prefix = << >> THEN keys \subseteq ALLOWED_TOP_LEVEL
                             ELSE prefix[1] \in ALLOWED_TOP_LEVEL,
           Open(prefix, keys) \/ Guarded(prefix, keys)
    PROVE  \A path \in Members(prefix, keys) : WellDumped(path)
<1> SUFFICES ASSUME NEW key \in keys PROVE WellDumped(Append(prefix, key))
  BY DEF Members
<1> DEFINE n == Len(prefix)
           path == Append(prefix, key)
<1>1. /\ n \in Nat /\ path \in Seq(Words) /\ Len(path) = n + 1
      /\ \A i \in 1..n : path[i] = prefix[i]
      /\ path[n + 1] = key
  <2>1. key \in Words
    OBVIOUS
  <2> QED BY <2>1, Appended, LenProperties, Zenon
<1>0. path[1] \in ALLOWED_TOP_LEVEL
  <2> HIDE DEF path
  <2>1. CASE prefix = << >>
    <3>1. n = 0
      BY <2>1
    <3> QED BY <1>1, <2>1, <3>1
  <2>2. CASE prefix # << >>
    <3>1. n > 0
      BY <2>2, EmptySeq
    <3> QED BY <1>1, <2>2, <3>1
  <2> QED BY <2>1, <2>2
<1> HIDE DEF path
<1>2. Keys(Front(path)) = {prefix[i] : i \in 1..n}
  <2>1. Front(path) = SubSeq(path, 1, n)
    BY <1>1 DEF Front
  <2>2. Len(SubSeq(path, 1, n)) = n /\ \A i \in 1..n : SubSeq(path, 1, n)[i] = path[i]
    BY <1>1, SubSeqProperties
  <2> HIDE DEF n
  <2> QED BY <1>1, <2>1, <2>2 DEF Keys
<1>3. ASSUME /\ \A i \in 1..n : prefix[i] \notin GUEST_CONTAINER_KEYS \cup GuestAttributes
             /\ key \notin GuestAttributes \ NON_GUEST_PREFIXED_KEYS
      PROVE  WellDumped(path)
  <2> HIDE DEF n
  <2>1. "guest" \notin Keys(Front(path))
    BY <1>2, <1>3 DEF GUEST_CONTAINER_KEYS
  <2>2. ASSUME NEW i \in 2..Len(path)
        PROVE  /\ ~(path[i] \in GUEST_CONTAINER_KEYS /\ IsMapping(path, i + 1))
               /\ path[i] \notin GuestAttributes \ NON_GUEST_PREFIXED_KEYS
    <3>1. CASE i = n + 1
      BY <1>1, <1>3, <3>1 DEF IsMapping
    <3>2. CASE i \in 1..n
      BY <1>1, <1>3, <3>2
    <3> QED BY <1>1, <3>1, <3>2
  <2>3. ~Redacted(path)
    BY <2>2 DEF Redacted
  <2> QED BY <1>0, <2>1, <2>3 DEF WellDumped, Fate
<1>4. ASSUME /\ n > 1 /\ prefix[n] = "guest" /\ key # Item
             /\ \A i \in 1..(n - 1) : prefix[i] \notin GUEST_CONTAINER_KEYS
      PROVE  WellDumped(path)
  <2> HIDE DEF n
  <2>1. "guest" \in Keys(Front(path))
    BY <1>1, <1>2, <1>4
  <2>2. n \in 2..Len(path) /\ path[n] = "guest" /\ IsMapping(path, n + 1)
    BY <1>1, <1>4 DEF IsMapping
  <2>3. \A i \in 2..(n - 1) : path[i] \notin GUEST_CONTAINER_KEYS
    BY <1>1, <1>4
  <2>4. Redacted(path)
    BY <2>2, <2>3 DEF Redacted, GUEST_CONTAINER_KEYS
  <2> QED BY <1>0, <2>1, <2>4 DEF WellDumped, Fate
<1> QED BY <1>3, <1>4 DEF Open, Guarded, path

\* The sections of the dump, one after the other.
LEMMA Sections ==
    /\ \A path \in Members(<< >>, {"version", "minor_version", "namespace_source"}) :
          WellDumped(path)
    /\ \A path \in Members(<<"options">>, {"reservation_interval", "guest_contact_details"}) :
          WellDumped(path)
    /\ \A path \in Members(<<"counts">>, {"properties", "reservations"}) : WellDumped(path)
    /\ \A path \in Members(<<"coordinators", "properties">>,
                            {"last_update_success", "item_count"}) : WellDumped(path)
    /\ \A path \in Members(<<"coordinators", "reservations", "items", Item>>,
             {"reservation_id", "status_category", "has_last_message_at", "guest"}) :
          WellDumped(path)
    /\ \A path \in Members(<<"coordinators", "reservations", "items", Item, "guest">>,
             {"guest_id", "first_name", "last_name", "email", "phone_numbers"}) :
          WellDumped(path)
<1>1. \A path \in Members(<< >>, {"version", "minor_version", "namespace_source"}) : WellDumped(path)
  <2> DEFINE prefix == << >>
             keys == {"version", "minor_version", "namespace_source"}
  <2>1. /\ prefix \in Seq(Words) /\ keys \subseteq Words
        /\ keys \subseteq ALLOWED_TOP_LEVEL /\ prefix = << >>
        /\ Open(prefix, keys)
    BY DEF Words, Open, ALLOWED_TOP_LEVEL, GUEST_CONTAINER_KEYS, GuestAttributes,
           NON_GUEST_PREFIXED_KEYS, Item
  <2> HIDE DEF prefix, keys
  <2>2. \A path \in Members(prefix, keys) : WellDumped(path)
    BY <2>1, SectionDumped
  <2> QED BY <2>2 DEF prefix, keys
<1>2. \A path \in Members(<<"options">>, {"reservation_interval", "guest_contact_details"}) : WellDumped(path)
  <2> DEFINE prefix == <<"options">>
             keys == {"reservation_interval", "guest_contact_details"}
  <2>1. /\ prefix \in Seq(Words) /\ keys \subseteq Words
        /\ prefix # << >> /\ prefix[1] \in ALLOWED_TOP_LEVEL
        /\ Open(prefix, keys)
    BY DEF Words, Open, ALLOWED_TOP_LEVEL, GUEST_CONTAINER_KEYS, GuestAttributes,
           NON_GUEST_PREFIXED_KEYS, Item
  <2> HIDE DEF prefix, keys
  <2>2. \A path \in Members(prefix, keys) : WellDumped(path)
    BY <2>1, SectionDumped
  <2> QED BY <2>2 DEF prefix, keys
<1>3. \A path \in Members(<<"counts">>, {"properties", "reservations"}) : WellDumped(path)
  <2> DEFINE prefix == <<"counts">>
             keys == {"properties", "reservations"}
  <2>1. /\ prefix \in Seq(Words) /\ keys \subseteq Words
        /\ prefix # << >> /\ prefix[1] \in ALLOWED_TOP_LEVEL
        /\ Open(prefix, keys)
    BY DEF Words, Open, ALLOWED_TOP_LEVEL, GUEST_CONTAINER_KEYS, GuestAttributes,
           NON_GUEST_PREFIXED_KEYS, Item
  <2> HIDE DEF prefix, keys
  <2>2. \A path \in Members(prefix, keys) : WellDumped(path)
    BY <2>1, SectionDumped
  <2> QED BY <2>2 DEF prefix, keys
<1>4. \A path \in Members(<<"coordinators", "properties">>, {"last_update_success", "item_count"}) : WellDumped(path)
  <2> DEFINE prefix == <<"coordinators", "properties">>
             keys == {"last_update_success", "item_count"}
  <2>1. /\ prefix \in Seq(Words) /\ keys \subseteq Words
        /\ prefix # << >> /\ prefix[1] \in ALLOWED_TOP_LEVEL
        /\ Open(prefix, keys)
    BY DEF Words, Open, ALLOWED_TOP_LEVEL, GUEST_CONTAINER_KEYS, GuestAttributes,
           NON_GUEST_PREFIXED_KEYS, Item
  <2> HIDE DEF prefix, keys
  <2>2. \A path \in Members(prefix, keys) : WellDumped(path)
    BY <2>1, SectionDumped
  <2> QED BY <2>2 DEF prefix, keys
<1>5. \A path \in Members(<<"coordinators", "reservations", "items", Item>>, {"reservation_id", "status_category", "has_last_message_at", "guest"}) : WellDumped(path)
  <2> DEFINE prefix == <<"coordinators", "reservations", "items", Item>>
             keys == {"reservation_id", "status_category", "has_last_message_at", "guest"}
  <2>1. /\ prefix \in Seq(Words) /\ keys \subseteq Words
        /\ prefix # << >> /\ prefix[1] \in ALLOWED_TOP_LEVEL
        /\ Open(prefix, keys)
    BY DEF Words, Open, ALLOWED_TOP_LEVEL, GUEST_CONTAINER_KEYS, GuestAttributes,
           NON_GUEST_PREFIXED_KEYS, Item
  <2> HIDE DEF prefix, keys
  <2>2. \A path \in Members(prefix, keys) : WellDumped(path)
    BY <2>1, SectionDumped
  <2> QED BY <2>2 DEF prefix, keys
<1>6. \A path \in Members(<<"coordinators", "reservations", "items", Item, "guest">>, {"guest_id", "first_name", "last_name", "email", "phone_numbers"}) : WellDumped(path)
  <2> DEFINE prefix == <<"coordinators", "reservations", "items", Item, "guest">>
             keys == {"guest_id", "first_name", "last_name", "email", "phone_numbers"}
  <2>1. /\ prefix \in Seq(Words) /\ keys \subseteq Words
        /\ prefix # << >> /\ prefix[1] \in ALLOWED_TOP_LEVEL
        /\ Guarded(prefix, keys)
    BY DEF Words, Guarded, ALLOWED_TOP_LEVEL, GUEST_CONTAINER_KEYS, GuestAttributes,
           NON_GUEST_PREFIXED_KEYS, Item
  <2> HIDE DEF prefix, keys
  <2>2. \A path \in Members(prefix, keys) : WellDumped(path)
    BY <2>1, SectionDumped
  <2> QED BY <2>2 DEF prefix, keys
<1> QED BY <1>1, <1>2, <1>3, <1>4, <1>5, <1>6

\* diagnostics.py: whatever entries are loaded, the dump blanks each field of a guest
\* and shows everything else.
THEOREM DumpHides == Spec => []DumpHidesGuests
<1>1. DumpHidesGuests
  <2> SUFFICES ASSUME NEW e \in Entries, NEW path \in Dump(e) PROVE WellDumped(path)
    BY DEF DumpHidesGuests, WellDumped
  <2> HIDE DEF WellDumped
  <2> QED BY Sections, Zenon DEF Dump
<1> QED BY <1>1, PTL

=============================================================================
