----------------------------- MODULE Occupancy -----------------------------
(***************************************************************************)
(* What a reservation means at an instant, and which of a property's       *)
(* reservations represents it: services/occupancy.py, services/selection.py *)
(* and services/status.py, all of them pure functions of the data and the  *)
(* time.                                                                   *)
(*                                                                         *)
(* A scheduled moment carries its own UTC offset, and a reservation's      *)
(* calendar day is taken in that offset.  What parse_scheduled_instant     *)
(* rejects (absent, unparsable, without an offset) is NoTime.              *)
(***************************************************************************)
EXTENDS Integers, FiniteSets

CONSTANTS
    TicksPerDay,   \* the clock's resolution
    Offsets,       \* the UTC offsets in use, in ticks
    Categories,    \* the status categories that upstream sends
    NoTime,        \* a scheduled time that cannot be used
    None           \* no value

Inactive == {"cancelled", "not accepted"}

Moments == [at : Int, offset : Offsets]

ASSUME OccupancyAssumption ==
    /\ TicksPerDay \in Nat \ {0}
    /\ Offsets \subseteq Int
    /\ Categories \subseteq STRING
    /\ NoTime \notin Moments
    /\ None \notin {"check_in", "check_out"}

\* The fields of HospitableReservation that matter here.  A departure does not
\* precede its arrival; everything else may, and any time may be missing.
Reservations ==
    {r \in [id : Nat, category : Categories, arrival : Int, departure : Int,
            checkin : Moments \cup {NoTime}, checkout : Moments \cup {NoTime}] :
       r.arrival <= r.departure}

-----------------------------------------------------------------------------
(* Occupancy                                                               *)

LocalDay(t, offset) == (t + offset) \div TicksPerDay

\* The reservation's own offset: its check-in's, else its check-out's, else UTC.
Zone(r) ==
    IF r.checkin # NoTime THEN r.checkin.offset
    ELSE IF r.checkout # NoTime THEN r.checkout.offset
    ELSE 0

Today(r, t) == LocalDay(t, Zone(r))

Ahead(t, moment) == moment # NoTime /\ t < moment.at
Reached(t, moment) == moment # NoTime /\ moment.at <= t

\* Variant: a missing check-in is taken to be midnight.
DegradedFieldMidnight(r, t) ==
    IF Today(r, t) = r.departure /\ r.checkout = NoTime THEN "check_out" ELSE None

\* Variant: the field is named as in the model, not as in _FIELD_MESSAGES.
DegradedFieldRaw(r, t) ==
    IF Today(r, t) \in {r.arrival, r.departure} /\ r.checkin = NoTime
    THEN "scheduled_checkin" ELSE None

\* The scheduled time that is missing on the day it is needed.
DegradedField(r, t) ==
    IF Today(r, t) = r.arrival
    THEN IF r.checkin = NoTime THEN "check_in" ELSE None
    ELSE IF Today(r, t) = r.departure /\ r.checkout = NoTime
         THEN "check_out" ELSE None

Awaited(r, t) ==
    \/ Today(r, t) < r.arrival
    \/ Today(r, t) \in {r.arrival, r.departure} /\ Ahead(t, r.checkin)

\* Variant: nothing but the check-out moment ends a stay.
LeftByMoment(r, t) ==
    Today(r, t) \in {r.arrival, r.departure} /\ Reached(t, r.checkout)

Left(r, t) ==
    \/ Today(r, t) > r.departure
    \/ Today(r, t) \in {r.arrival, r.departure} /\ Reached(t, r.checkout)

\* classify_occupancy.  The order of the last two tests depends on the day
\* only for a stay whose check-out precedes its check-in.
Occupancy(r, t) ==
    IF DegradedField(r, t) # None THEN "unknown"
    ELSE IF Awaited(r, t) /\ ~ (Today(r, t) # r.arrival /\ Left(r, t))
         THEN "awaiting_checkin"
    ELSE IF Left(r, t) THEN "checked_out"
    ELSE "occupied"

-----------------------------------------------------------------------------
(* Status                                                                  *)

Fixed == [c \in {"request", "cancelled", "not accepted", "unknown", "checkpoint"} |->
    CASE c = "request"      -> "pending_request"
      [] c = "not accepted" -> "not_accepted"
      [] OTHER              -> c]

Status(category, occupancy) ==
    IF category = "accepted" THEN occupancy
    ELSE IF category \in DOMAIN Fixed THEN Fixed[category]
    ELSE "unknown"

-----------------------------------------------------------------------------
(* Selection                                                               *)

IsActive(r) == r.category \notin Inactive

\* Variant: judged by the date even where the moment is known.
IsForthcomingByDate(r, t) == IsActive(r) /\ r.arrival > Today(r, t)

IsForthcoming(r, t) ==
    /\ IsActive(r)
    /\ IF r.checkin # NoTime THEN r.checkin.at > t ELSE r.arrival > Today(r, t)

Tier(r, t) ==
    IF Occupancy(r, t) = "occupied" THEN 0
    ELSE IF r.arrival >= Today(r, t) THEN 1
    ELSE 2

\* Variant: among past stays the earliest comes first.
DayRankEarliest(r, tier) == IF tier = 0 THEN 0 ELSE r.departure

\* The next arrival comes first, and the latest departure.
DayRank(r, tier) ==
    CASE tier = 0 -> 0 [] tier = 1 -> r.arrival [] OTHER -> - r.departure

\* A missing moment counts as infinitely late.
Dated(sign, moment) ==
    IF moment = NoTime THEN <<1, 0>> ELSE <<0, sign * moment.at>>

TimeRank(r, tier) ==
    CASE tier = 0 -> <<0, 0>>
      [] tier = 1 -> Dated(1, r.checkin)
      [] OTHER    -> Dated(-1, r.checkout)

SortKey(r, t) ==
    LET tier == Tier(r, t)
        time == TimeRank(r, tier)
    IN  <<IF IsActive(r) THEN 0 ELSE 1, tier, DayRank(r, tier), time[1], time[2], r.id>>

\* Python's order on tuples of one length.
LexLess(a, b) ==
    \E i \in DOMAIN a : a[i] < b[i] /\ \A j \in DOMAIN a : j < i => a[j] = b[j]

Precedes(r, s, t) == LexLess(SortKey(r, t), SortKey(s, t))

\* select_reservation: the first of the sorted reservations.
Selected(S, t) == CHOOSE r \in S : \A s \in S \ {r} : Precedes(r, s, t)

=============================================================================
