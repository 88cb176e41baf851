------------------------------- MODULE Stays -------------------------------
(***************************************************************************)
(* The reservations of one property on their way to its sensors: upstream  *)
(* keeps the bookings, a poll copies them into the coordinator, and the    *)
(* coordinator's listeners then write the property's entities one after    *)
(* the other, in the order in which they were added.  Each of them reads   *)
(* the clock for itself, the status sensor twice (state and attributes).   *)
(* Nothing but the clock can move during these writes, which do not await. *)
(***************************************************************************)
EXTENDS Occupancy, Sequences

CONSTANTS
    Bookable,    \* the reservations that may ever be made
    MaxEdits,    \* how often upstream's bookings change
    Interval,    \* the longest time from one status write to the next
    Horizon      \* the last instant of the model

ASSUME StaysAssumption ==
    /\ Bookable \subseteq Reservations /\ IsFiniteSet(Bookable)
    /\ MaxEdits \in Nat /\ Interval \in Nat \ {0} /\ Horizon \in Nat

VARIABLES
    now,         \* the clock
    bookings,    \* upstream's reservations of the property, as a poll lists them
    edits,       \* how often they have changed
    data,        \* what the coordinator holds of them
    done,        \* how many of the writes have been made since
    shown,       \* what the entities show
    warned,      \* _occupancy_warned
    stamp,       \* history: when the status was written, and of what stay
    logs         \* history: the warnings since the sensor was made

vars == <<now, bookings, edits, data, done, shown, warned, stamp, logs>>

Writes == <<"status", "attributes", "arrival", "departure", "count">>

\* The event loop is free again.
AllWritten == done = Len(Writes)

Blank == [status |-> "no_reservation", stay |-> None, upcoming |-> {},
          arrival |-> None, departure |-> None, count |-> 0]

Fields == {"check_in", "check_out"}

\* Each identifier belongs to one reservation.
Consistent(S) == \A r, s \in S : r.id = s.id => r = s

Init ==
    /\ now = 0 /\ edits = 0
    /\ bookings \in {S \in SUBSET Bookable : Consistent(S)}
    /\ data = bookings
    /\ done = 0
    /\ shown = Blank
    /\ warned = {}
    /\ stamp = [at |-> 0, stay |-> None]
    /\ logs = [k \in {r.id : r \in Bookable} \X Fields |-> 0]

-----------------------------------------------------------------------------
(* The entities                                                            *)

\* Variant: moments that have passed are not left out.
SoonestEver(moments) ==
    LET all == {m.at : m \in moments \ {NoTime}}
    IN  IF all = {} THEN None ELSE CHOOSE t \in all : \A u \in all : t <= u

\* The soonest of the active stays' moments that lies ahead.
SoonestAhead(moments) ==
    LET ahead == {m.at : m \in {n \in moments : Ahead(now, n)}}
    IN  IF ahead = {} THEN None ELSE CHOOSE t \in ahead : \A u \in ahead : t <= u

Active(S) == {r \in S : IsActive(r)}
Forthcoming(S) == {r \in S : IsForthcoming(r, now)}

\* Variant: every evaluation warns.
NewWarningsAlways(r) ==
    LET field == DegradedField(r, now)
    IN  IF field = None THEN {} ELSE {<<r.id, field>>}

\* derive_occupancy_once: the warning it adds for r, if there is one.
NewWarnings(r) ==
    LET field == DegradedField(r, now)
    IN  IF field = None THEN {} ELSE {<<r.id, field>>} \ warned

\* _compute_state
WriteStatus ==
    /\ done < Len(Writes) /\ Writes[done + 1] = "status"
    /\ IF data = {}
       THEN /\ shown' = [shown EXCEPT !.status = "no_reservation"]
            /\ stamp' = [at |-> now, stay |-> None]
            /\ UNCHANGED <<warned, logs>>
       ELSE LET r == Selected(data, now)
            IN  /\ shown' = [shown EXCEPT !.status =
                                Status(r.category, Occupancy(r, now))]
                /\ stamp' = [at |-> now, stay |-> r]
                /\ warned' = warned \cup NewWarnings(r)
                /\ logs' = [k \in DOMAIN logs |->
                              IF k \in NewWarnings(r) THEN logs[k] + 1 ELSE logs[k]]
    /\ done' = done + 1
    /\ UNCHANGED <<now, bookings, edits, data>>

\* What the other writes put on display.
Rendered(write) ==
    CASE write = "attributes" ->
            IF data = {} THEN [shown EXCEPT !.stay = None, !.upcoming = {}]
            ELSE LET r == Selected(data, now)
                 IN  [shown EXCEPT !.stay = r, !.upcoming = Forthcoming(data \ {r})]
      [] write = "arrival" ->
            [shown EXCEPT !.arrival = SoonestAhead({r.checkin : r \in Active(data)})]
      [] write = "departure" ->
            [shown EXCEPT !.departure = SoonestAhead({r.checkout : r \in Active(data)})]
      [] write = "count" ->
            [shown EXCEPT !.count = Cardinality(Forthcoming(data))]

WriteNext ==
    /\ done < Len(Writes) /\ Writes[done + 1] # "status"
    /\ shown' = Rendered(Writes[done + 1])
    /\ done' = done + 1
    /\ UNCHANGED <<now, bookings, edits, data, warned, stamp, logs>>

-----------------------------------------------------------------------------
(* Polls, and what goes on around them                                     *)

\* A poll that succeeds.
Poll ==
    /\ AllWritten
    /\ data' = bookings
    /\ done' = 0
    /\ UNCHANGED <<now, bookings, edits, shown, warned, stamp, logs>>

\* The listeners are notified without new data: by the properties
\* coordinator, by a retained list, or by the first of several failures.
Rewrite ==
    /\ AllWritten
    /\ done' = 0
    /\ UNCHANGED <<now, bookings, edits, data, shown, warned, stamp, logs>>

\* A reload makes new sensors, which forget their warnings.
Reload ==
    /\ AllWritten
    /\ data' = bookings
    /\ done' = 0
    /\ warned' = {}
    /\ logs' = [k \in DOMAIN logs |-> 0]
    /\ UNCHANGED <<now, bookings, edits, shown, stamp>>

\* A reservation is made, changed or taken out upstream, or comes into or
\* leaves the range of days that is polled.
Edit ==
    /\ edits < MaxEdits /\ AllWritten
    /\ edits' = edits + 1
    /\ \/ \E r \in bookings : bookings' = bookings \ {r}
       \/ \E r \in Bookable \ bookings :
             bookings' = {s \in bookings : s.id # r.id} \cup {r}
    /\ UNCHANGED <<now, data, done, shown, warned, stamp, logs>>

Tick ==
    /\ now < Horizon /\ now < stamp.at + Interval
    /\ now' = now + 1
    /\ UNCHANGED <<bookings, edits, data, done, shown, warned, stamp, logs>>

Next ==
    \/ WriteStatus \/ WriteNext
    \/ Poll \/ Rewrite \/ Reload
    \/ Edit \/ Tick

Spec == Init /\ [][Next]_vars

-----------------------------------------------------------------------------
(* Properties                                                              *)

TypeOK ==
    /\ now \in 0..Horizon /\ edits \in 0..MaxEdits
    /\ bookings \subseteq Bookable /\ Consistent(bookings)
    /\ data \subseteq Bookable /\ Consistent(data)
    /\ done \in 0..Len(Writes)
    /\ DOMAIN shown = DOMAIN Blank
    /\ shown.stay \in Bookable \cup {None}
    /\ shown.upcoming \subseteq Bookable
    /\ shown.arrival \in Int \cup {None} /\ shown.departure \in Int \cup {None}
    /\ shown.count \in 0..Cardinality(Bookable)
    /\ warned \subseteq DOMAIN logs
    /\ stamp.at \in 0..now /\ stamp.stay \in Bookable \cup {None}
    /\ logs \in [{r.id : r \in Bookable} \X Fields -> Nat]

\* A stay of at least a night, whose scheduled moments lie on its own days.
Regular(r) ==
    /\ r.arrival < r.departure
    /\ r.checkin # NoTime => Today(r, r.checkin.at) = r.arrival
    /\ r.checkout # NoTime => Today(r, r.checkout.at) = r.departure

\* FR-045, without its case distinctions: a stay is in progress from the
\* check-in moment to the check-out moment; where there is no such moment it
\* is known to be in progress between the two days only.
InProgress(r, t) ==
    /\ IF r.checkin # NoTime THEN r.checkin.at <= t ELSE r.arrival < Today(r, t)
    /\ IF r.checkout # NoTime THEN t < r.checkout.at ELSE Today(r, t) < r.departure

\* The status has been written since the last poll.
StatusWritten == done > 0

\* The property is shown as occupied exactly when, at the moment of the
\* write, an accepted stay was in progress (classify_occupancy, _sort_key and
\* StatusMapper together); two active stays at once would be a double booking.
StatusTellsOccupancy ==
    LET running == {r \in Active(data) : InProgress(r, stamp.at)}
    IN  /\ StatusWritten /\ Cardinality(running) <= 1
        /\ \A r \in data : Regular(r)
        => (shown.status = "occupied" <=> \E r \in running : r.category = "accepted")

\* Active stays that follow each other, as the nights of one property do.
Sequenced(S) ==
    /\ \A r \in S : Regular(r)
    /\ \A r, s \in Active(S) : r # s => r.departure <= s.arrival \/ s.departure <= r.arrival

\* How far a stay has come.
Stage(r, t) ==
    CASE Occupancy(r, t) = "awaiting_checkin" -> 0
      [] DegradedField(r, t) = "check_in"     -> 1
      [] Occupancy(r, t) = "occupied"         -> 2
      [] DegradedField(r, t) = "check_out"    -> 3
      [] OTHER                                -> 4

\* No stay is further along than an earlier one, each by its own offset.
InStep(S, t) == \A r, s \in Active(S) : r.arrival < s.arrival => Stage(s, t) <= Stage(r, t)

\* When the status sensor awaits a guest whose check-in moment is known, the
\* next_arrival sensor, which is written later and ranks moments instead of
\* reservations, shows that moment, unless it has come in the meantime.  (The
\* one ranks by day, the other by moment: with offsets so far apart that a later
\* day begins earlier they could not agree.)
AwaitedStayArrivesNext ==
    /\ AllWritten /\ Sequenced(data) /\ stamp.stay # None
    /\ \A r \in Active(data) : r.checkin # NoTime => InStep(data, r.checkin.at)
    /\ shown.status = "awaiting_checkin" /\ stamp.stay.checkin # NoTime
    => shown.arrival = stamp.stay.checkin.at \/ stamp.stay.checkin.at <= now

\* The entities that count, list and time the forthcoming stays fit together
\* although each reads the clock for itself: an arrival that still lies ahead
\* is counted, and at most the represented stay is counted but not listed.
ForthcomingAddsUp ==
    AllWritten =>
        /\ shown.arrival # None /\ shown.arrival > now => shown.count > 0
        /\ shown.count <= Cardinality(shown.upcoming) + 1

\* FR-045: an accepted stay shown as unknown has been warned of, and no
\* sensor warns of the same reservation and field twice (_occupancy_warned).
DegradationLoggedOnce ==
    /\ \A k \in DOMAIN logs : logs[k] <= 1
    /\ StatusWritten /\ stamp.stay # None /\ shown.status = "unknown"
       /\ stamp.stay.category = "accepted"
       => \E f \in Fields : logs[<<stamp.stay.id, f>>] = 1

\* As time passes the occupancy of a stay never goes back: no guest who has
\* left is awaited or present again, whatever times are missing.
OccupancyMovesForward ==
    [][\A r \in data : Regular(r) => Stage(r, now) <= Stage(r, now')]_vars

\* Between polls with the same data the representative moves on to later
\* stays only: the status does not flap between a past and a coming guest.
SelectionMovesForward ==
    [][/\ data' = data /\ Active(data) # {} /\ Sequenced(data)
       /\ InStep(data, now) /\ InStep(data, now')
       => Selected(data, now).arrival <= Selected(data, now').arrival]_vars

=============================================================================
