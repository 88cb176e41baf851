------------------------------ MODULE Sensors ------------------------------
(***************************************************************************)
(* The task and availability sensors of one property: two fan-outs fetch   *)
(* its tasks, page by page, and its calendar, while the clock and upstream *)
(* go on, and the entities read the clock for themselves whenever they are *)
(* written.  The other properties of a fan-out are here only as what they  *)
(* do to this one: they answer or fail, and a cycle publishes what it has  *)
(* only after the last of them.                                            *)
(*                                                                         *)
(* The rest of the availability policy is EntryPolling's.  Money is an     *)
(* amount in minor units with its exponent; a time is a number of ticks.   *)
(***************************************************************************)
EXTENDS ApiClient, FiniteSetsExt, TLC

CONSTANTS
    Tasks,
    Start,          \* [Tasks -> a time, or Unusable: absent, unparsable, naive]
    TaskType, ServiceId, Progress,     \* [Tasks -> the field, or None]
    Vocabularies,   \* the tables that the meta of an answer may hold
    Calendars,      \* the calendars upstream may have: [days -> raw days]
    DecimalPlaces,  \* [currencies -> decimal places of ISO 4217]
    Deviations,     \* ways in which an answer may differ from the one due
    TICKS,          \* in a day
    WINDOW, LOOKAHEAD,                 \* the windows of the polls, in days
    MAX_CONSECUTIVE_FAILURES,
    Unusable, None,
    Polled,             \* bound: which coordinators refresh in one behaviour
    MaxNow, MaxChanges  \* bounds: the clock; how often upstream may change

VARIABLES
    now, upstream, changes,
    polled,         \* an element of Polled; the coordinators share the clock only
    tasks_cycle,    \* the fan-out of the tasks coordinator
    calendar_cycle, \* that of the calendar coordinator
    held,           \* [Coordinators -> the property's part of data, or None]
    failures,       \* [Coordinators -> property_failure_count]
    last_success,   \* [Coordinators -> last_update_success]
    next_task, task_count, availability  \* the entities' last written states

Coordinators == {"tasks", "calendar"}
cycles == <<tasks_cycle, calendar_cycle>>
coordinatorVars == <<cycles, held, failures, last_success>>
shown == <<next_task, task_count, availability>>
vars == <<now, upstream, changes, polled, coordinatorVars, shown>>

Day(instant) == instant \div TICKS
Disturbed == [list |-> << >>, tables |-> None]
Unavailable == [state |-> "unavailable"]
Idle == [stage |-> "idle"]

-----------------------------------------------------------------------------
(* The payload models                                                      *)

\* Variant: the label is looked up in the table of services.
TaskTypeLabelOfService(tables, type) ==
    IF type \in DOMAIN tables.service_types THEN tables.service_types[type] ELSE None

TaskTypeLabel(tables, type) ==
    IF type \in DOMAIN tables.task_types THEN tables.task_types[type].label ELSE None

ServiceTypeLabel(tables, service) ==
    IF service \in DOMAIN tables.service_types THEN tables.service_types[service] ELSE None

HospitableTask(task, tables) ==
    [task_id |-> task,
     task_type_label |-> TaskTypeLabel(tables, TaskType[task]),
     service_type_label |-> ServiceTypeLabel(tables, ServiceId[task])]

MapAvailability(day) ==
    CASE day.available = "true" -> "available"
      [] day.available = "false" /\ day.reason = "RESERVED" -> "booked"
      [] OTHER -> "unknown"

HospitableCalendarDay(day) ==
    [availability |-> MapAvailability(day), price |-> day.price, currency |-> day.currency]

\* minor_units_to_float
MinorUnits(price, currency) ==
    IF price = None \/ currency = None THEN None
    ELSE [amount |-> price,
          exponent |-> IF currency \in DOMAIN DecimalPlaces
                       THEN DecimalPlaces[currency] ELSE 2]

-----------------------------------------------------------------------------
(* The entities                                                            *)

Available(c, data, counts) ==
    data[c] # None /\ counts[c] < MAX_CONSECUTIVE_FAILURES

Upcoming(task, moment) == Start[task] # Unusable /\ Start[task] >= moment

\* _next_task: the first of the soonest, or None.
NextTask(tasks, moment) ==
    LET upcoming == {i \in DOMAIN tasks : Upcoming(tasks[i].task_id, moment)}
        Soonest(i) == \A j \in upcoming :
            /\ Start[tasks[i].task_id] <= Start[tasks[j].task_id]
            /\ Start[tasks[i].task_id] = Start[tasks[j].task_id] => i <= j
    IN  IF upcoming = {} THEN None
        ELSE tasks[CHOOSE i \in upcoming : Soonest(i)]

\* An entity reads the clock for its state and again for its attributes, when
\* it may have moved on.
NextTaskSensor(data, counts, later) ==
    IF ~Available("tasks", data, counts) THEN Unavailable
    ELSE LET task == NextTask(data.tasks.tasks, now)
             detail == NextTask(data.tasks.tasks, later)
         IN  [state |-> IF task = None THEN None ELSE task.task_type_label,
              task_id |-> IF detail = None THEN None ELSE detail.task_id,
              service_type |-> IF detail = None THEN None ELSE detail.service_type_label,
              written |-> now, detailed |-> later]

\* The progress statuses by bucket; without one a task is pending.
Statuses ==
    [pending |-> {"not_started", None},
     in_progress |-> {"on_the_way", "arrived", "in_progress"},
     completed |-> {"completed"}, cancelled |-> {"cancelled"}]

Bucket(tasks, bucket) ==
    Cardinality({i \in DOMAIN tasks : Progress[tasks[i].task_id] \in Statuses[bucket]})

TaskCountSensor(data, counts) ==
    IF ~Available("tasks", data, counts) THEN Unavailable
    ELSE [state |-> Len(data.tasks.tasks),
          buckets |-> [b \in DOMAIN Statuses |-> Bucket(data.tasks.tasks, b)]]

\* Variant: today is the first day of what was fetched.
TodayAsFetched(days, moment) ==
    IF DOMAIN days = {} THEN None ELSE days[Min(DOMAIN days)]

Today(days, moment) ==
    IF Day(moment) \in DOMAIN days THEN days[Day(moment)] ELSE None

AvailabilitySensor(data, counts, later) ==
    IF ~Available("calendar", data, counts) THEN Unavailable
    ELSE LET day == Today(data.calendar.days, now)
             detail == Today(data.calendar.days, later)
         IN  [state |-> IF day = None THEN None ELSE day.availability,
              nightly_rate |-> IF detail = None THEN None
                               ELSE MinorUnits(detail.price, detail.currency),
              written |-> now, detailed |-> later]

\* Home Assistant writes the entities one after the other.
WriteTasks(data, counts) ==
    /\ now' \in {now, now + 1} /\ now' <= MaxNow
    /\ next_task' = NextTaskSensor(data, counts, now')
    /\ task_count' = TaskCountSensor(data, counts)
    /\ UNCHANGED availability

WriteCalendar(data, counts) ==
    /\ now' \in {now, now + 1} /\ now' <= MaxNow
    /\ availability' = AvailabilitySensor(data, counts, now')
    /\ UNCHANGED <<next_task, task_count>>

Write(c, data, counts) ==
    IF c = "tasks" THEN WriteTasks(data, counts) ELSE WriteCalendar(data, counts)

\* The properties coordinator, to which all entities listen, has refreshed.
PropertiesRefreshed ==
    /\ \E c \in polled : Write(c, held, failures)
    /\ UNCHANGED <<upstream, changes, polled, coordinatorVars>>

-----------------------------------------------------------------------------
(* Upstream and the clock                                                  *)

Tick ==
    /\ now < MaxNow /\ now' = now + 1
    /\ UNCHANGED <<upstream, changes, polled, coordinatorVars, shown>>

\* A read of the tasks is disturbed by a change to them before its last answer.
ChangeTasks(list, tables) ==
    /\ "tasks" \in polled /\ changes < MaxChanges /\ changes' = changes + 1
    /\ upstream' = [upstream EXCEPT !.list = list, !.tables = tables]
    /\ tasks_cycle' = IF tasks_cycle.stage = "reading"
                      THEN [tasks_cycle EXCEPT !.source = Disturbed] ELSE tasks_cycle
    /\ UNCHANGED <<now, polled, calendar_cycle, held, failures, last_success, shown>>

ChangeCalendar(days) ==
    /\ "calendar" \in polled /\ changes < MaxChanges /\ changes' = changes + 1
    /\ upstream' = [upstream EXCEPT !.calendar = days]
    /\ UNCHANGED <<now, polled, coordinatorVars, shown>>

\* Upstream lists a task without a usable start in any window.
Listed(list, today) ==
    Kept(list,
         {t \in Tasks : Start[t] = Unusable \/ Day(Start[t]) \in today..(today + WINDOW)})

-----------------------------------------------------------------------------
(* The fan-outs                                                            *)

StartTasks ==
    /\ "tasks" \in polled /\ tasks_cycle = Idle
    /\ tasks_cycle' = [stage |-> "reading", today |-> Day(now),
                       reader |-> Reader(<< <<"property">> >>),
                       source |-> [list |-> Listed(upstream.list, Day(now)), tables |-> upstream.tables]]
    /\ UNCHANGED <<now, upstream, changes, polled, calendar_cycle, held, failures,
                   last_success, shown>>

\* A counter is only compared with MAX_CONSECUTIVE_FAILURES, and stays there.
Strike(n) == IF n < MAX_CONSECUTIVE_FAILURES THEN n + 1 ELSE n

Counted(c, ok) == [failures EXCEPT ![c] = IF ok THEN 0 ELSE Strike(@)]

TasksAnswer(deviation) ==
    LET list == Listed(upstream.list, tasks_cycle.today)
        answer == Deviating(PageOf(list, tasks_cycle.reader.page), deviation)
        parsed == [t \in Tasks |-> HospitableTask(t, upstream.tables)]
        reader == get_tasks(tasks_cycle.reader, answer, parsed)
        cut == answer.last_page = Unreadable
    IN  /\ tasks_cycle.stage = "reading"
        /\ tasks_cycle' = [tasks_cycle EXCEPT
               !.reader = reader,
               !.stage = IF Finished(reader) THEN "read" ELSE "reading",
               !.source = IF cut THEN Disturbed ELSE @]
        /\ failures' = IF Finished(reader) THEN Counted("tasks", reader.error = "none")
                       ELSE failures
        /\ UNCHANGED <<now, upstream, changes, polled, calendar_cycle, held,
                       last_success, shown>>

\* A property that failed retains its last-known tasks.
TasksRead(cycle) ==
    IF cycle.reader.error # "none" THEN held.tasks
    ELSE [tasks |-> cycle.reader.got, source |-> cycle.source]

\* At the end of a cycle Home Assistant notifies the listeners, unless the
\* cycle failed and so did the one before.
Publish(c, failed, data) ==
    /\ held' = IF failed THEN held ELSE [held EXCEPT ![c] = data]
    /\ last_success' = [last_success EXCEPT ![c] = ~failed]
    /\ IF failed /\ ~last_success[c] THEN UNCHANGED <<now, shown>>
       ELSE Write(c, held', failures)
    /\ UNCHANGED <<upstream, changes, polled, failures>>

\* others: has any other property answered?
EndTasks(others) ==
    /\ tasks_cycle.stage = "read"
    /\ tasks_cycle' = Idle
    /\ Publish("tasks", tasks_cycle.reader.error # "none" /\ ~others,
               TasksRead(tasks_cycle))
    /\ UNCHANGED calendar_cycle

StartCalendar ==
    /\ "calendar" \in polled /\ calendar_cycle = Idle
    /\ calendar_cycle' = [stage |-> "reading", today |-> Day(now)]
    /\ UNCHANGED <<now, upstream, changes, polled, tasks_cycle, held, failures,
                   last_success, shown>>

\* get_calendar: a body without the data object is an empty calendar.
CalendarDays(answer) ==
    LET window == calendar_cycle.today..(calendar_cycle.today + LOOKAHEAD) IN
    IF answer.envelope
    THEN [d \in window |-> HospitableCalendarDay(upstream.calendar[d])]
    ELSE [d \in {} |-> None]

CalendarAnswer(deviation) ==
    LET answer == Deviating(Proper, deviation)
        ok == Failure(answer) = "none"
    IN  /\ calendar_cycle.stage = "reading"
        /\ calendar_cycle' = [stage |-> "read", ok |-> ok,
               read |-> [days |-> IF ok THEN CalendarDays(answer) ELSE << >>,
                         first |-> calendar_cycle.today, complete |-> answer.envelope,
                         source |-> upstream.calendar]]
        /\ failures' = Counted("calendar", ok)
        /\ UNCHANGED <<now, upstream, changes, polled, tasks_cycle, held,
                       last_success, shown>>

EndCalendar(others) ==
    /\ calendar_cycle.stage = "read"
    /\ calendar_cycle' = Idle
    /\ Publish("calendar", ~calendar_cycle.ok /\ ~others,
               IF calendar_cycle.ok THEN calendar_cycle.read ELSE held.calendar)
    /\ UNCHANGED tasks_cycle

-----------------------------------------------------------------------------
\* A deviation is in what is around the items of an answer, and the last page is
\* off only as a number that nobody can read; upstream has a calendar for
\* whatever may be polled; and None is none of the values that it stands beside.
ASSUME SensorsAssumption ==
    /\ {TICKS, PER_PAGE_MAX, MAX_CONSECUTIVE_FAILURES} \subseteq Nat \ {0}
    /\ {WINDOW, LOOKAHEAD, MaxNow, MaxChanges} \subseteq Nat
    /\ IsFiniteSet(Tasks) /\ \A t \in Tasks : Start[t] \in Int \cup {Unusable}
    /\ Unusable \notin Int /\ Unreadable \notin Int
    /\ \A d \in Deviations : /\ "items" \notin DOMAIN d
                             /\ "last_page" \in DOMAIN d => d.last_page = Unreadable
    /\ None \notin {"available", "booked", "unknown"}
    /\ None \notin {"on_the_way", "arrived", "in_progress", "completed", "cancelled"}
    /\ \A days \in Calendars : \A t \in 0..MaxNow : \A n \in 0..LOOKAHEAD :
          /\ Day(t) + n \in DOMAIN days
          /\ HospitableCalendarDay(days[Day(t) + n]) # None
    /\ \A t \in Tasks : \A tables \in Vocabularies : HospitableTask(t, tables) # None

Init ==
    /\ now = 0 /\ changes = 0 /\ polled \in Polled
    /\ \E tables \in Vocabularies, days \in Calendars :
          upstream = [list |-> SetToSeq(Tasks), tables |-> tables, calendar |-> days]
    /\ tasks_cycle = Idle /\ calendar_cycle = Idle
    /\ held = [c \in Coordinators |-> None]
    /\ failures = [c \in Coordinators |-> 0]
    /\ last_success = [c \in Coordinators |-> TRUE]
    /\ next_task = Unavailable /\ task_count = Unavailable /\ availability = Unavailable

Next ==
    \/ Tick \/ PropertiesRefreshed \/ StartTasks \/ StartCalendar
    \/ \E t \in Tasks :
          ChangeTasks(IF t \in ToSet(upstream.list)
                      THEN Kept(upstream.list, Tasks \ {t})
                      ELSE Append(upstream.list, t), upstream.tables)
    \/ \E tables \in Vocabularies \ {upstream.tables} : ChangeTasks(upstream.list, tables)
    \/ \E days \in Calendars \ {upstream.calendar} : ChangeCalendar(days)
    \/ \E d \in Deviations : TasksAnswer(d) \/ CalendarAnswer(d)
    \/ \E others \in BOOLEAN : EndTasks(others) \/ EndCalendar(others)

Spec == Init /\ [][Next]_vars

-----------------------------------------------------------------------------
(* Properties                                                              *)

\* Types; no page is asked for beyond the last that upstream may have, and no
\* entity shows attributes that are older than its state.
TypeOK ==
    /\ now \in 0..MaxNow /\ changes \in 0..MaxChanges
    /\ upstream.tables \in Vocabularies /\ upstream.calendar \in Calendars
    /\ ToSet(upstream.list) \subseteq Tasks
    /\ \A c \in {tasks_cycle, calendar_cycle} : c.stage \in {"idle", "reading", "read"}
    /\ tasks_cycle.stage = "reading" =>
          tasks_cycle.reader.page \in 1..(Cardinality(Tasks) \div PER_PAGE_MAX + 1)
    /\ DOMAIN held = Coordinators
    /\ failures \in [Coordinators -> 0..MAX_CONSECUTIVE_FAILURES]
    /\ last_success \in [Coordinators -> BOOLEAN]
    /\ \A s \in {next_task, availability} :
          s # Unavailable => s.written <= s.detailed /\ s.detailed <= now

\* The tasks that are due first among those of the last whole read.
Due(moment) ==
    {t \in ToSet(held.tasks.source.list) :
        /\ Start[t] # Unusable /\ moment <= Start[t]
        /\ \A u \in ToSet(held.tasks.source.list) :
              Start[u] # Unusable /\ moment <= Start[u] => Start[t] <= Start[u]}

\* The task sensors show the last read of the property's tasks that came to
\* its end, whole: never some pages of a read that failed, and no label from
\* another answer or from the table of services.  The state is the label of a
\* task that was due first when the entity was written; the attributes are of
\* one that was due first when they were read, and of the same task unless a
\* start has passed in between.  The buckets add up to the count but for the
\* tasks whose status nobody knows.  Reads during which the tasks changed
\* upstream, or whose last page could not be read, are left out.
TaskSensorsShowOneRead ==
    next_task # Unavailable /\ held.tasks.source # Disturbed =>
        LET source == held.tasks.source
            first == Due(next_task.written)
            detailed == Due(next_task.detailed)
            known == UNION {Statuses[b] : b \in DOMAIN Statuses}
            buckets == task_count.buckets
        IN  /\ first = {} => next_task.state = None
            /\ first # {} => \E t \in first :
                  /\ next_task.state = IF TaskType[t] \in DOMAIN source.tables.task_types
                                       THEN source.tables.task_types[TaskType[t]].label
                                       ELSE None
                  /\ detailed = first => next_task.task_id = t
            /\ IF detailed = {} THEN next_task.task_id = None
               ELSE next_task.task_id \in detailed
            /\ task_count.state = Len(source.list)
            /\ buckets.pending + buckets.in_progress + buckets.completed + buckets.cancelled
                  = Cardinality({i \in DOMAIN source.list : Progress[source.list[i]] \in known})

\* What the availability sensor says it says of the day on which it was written:
\* a booking only where upstream had confirmed a reservation, and nothing only
\* when that day is beyond what was fetched.  The rate is that day's too, unless
\* midnight has passed while the entity was written.  The day is the code's, that of
\* UTC (sensor/availability.py:86), where FR-074 wants the property's own.
AvailabilityIsOfItsDay ==
    availability # Unavailable /\ held.calendar.complete =>
        LET read == held.calendar
            day == Day(availability.written)
            fetched == read.first..(read.first + LOOKAHEAD)
            detail == Day(availability.detailed)
        IN  /\ availability.state = None <=> day \notin fetched
            /\ availability.state = "booked" =>
                  /\ read.source[day].available = "false"
                  /\ read.source[day].reason = "RESERVED"
            /\ availability.state = "available" => read.source[day].available = "true"
            /\ availability.nightly_rate # None =>
                  /\ detail \in fetched
                  /\ availability.nightly_rate.amount = read.source[detail].price
                  /\ detail = day \/ availability.written < availability.detailed

=============================================================================
