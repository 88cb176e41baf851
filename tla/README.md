# TLA+ models of the Hospitable integration for Home Assistant

This directory models the custom integration under
`src/custom_components/hospitable`: a client of the Hospitable REST API that
polls properties, reservations, calendars and tasks, shows them as sensors, and
offers services that look up reservations and send or read guest messages. Every
definition is translated from that source; `PROJECT.json` maps each to its lines.
Paths below are relative to `src/custom_components/hospitable`.

## The system

Everything runs as coroutines on Home Assistant's single event loop. A coroutine
runs undisturbed until it awaits; at each await (an HTTP request, the forwarding
of a platform, a lock) any other coroutine may run. So the hard behaviours are
what happens between a value's reading and its use when an await lies between,
and what a failure at one of the awaits leaves behind.

| Component | State | Operations | Interacts with |
|---|---|---|---|
| Write budgets, `rate_limit.py` | time stamps per token and per (token, reservation), server hints | `check`, `record`, `apply_headers` | one per process, shared by every entry's services and polls |
| Message services, `actions/send_message.py`, `actions/get_messages.py` | none of their own, one coroutine per call | resolve, check, optional channel lookup, request, charge | budgets, client, cached reservations |
| Awaiting-reply poll, `coordinator_messages.py` | presence, last attempt and block per reservation | `async_update` after each reservations poll | budgets, reservations coordinator |
| Coordinators, `coordinator*.py` | data, consecutive failures, strikes per property, warned set | refresh; the calendar and tasks coordinators fan out over the properties | client, issue registry, entities |
| Entities, `entity.py`, `sensor/` | none; what was last written is Home Assistant's | `available`, values | their coordinator and the properties coordinator |
| Set-up and unload, `__init__.py` | `runtime_data`, update listener, devices | `async_setup_entry`, `async_unload_entry`, `_async_update_options` | coordinators, platforms, services |
| Service registration, `actions/__init__.py` | the registered services, shared by all entries | `async_setup_services`, `async_unload_services` | states of all entries |
| REST client, `api/` | last trace id | requests, pagination, classification of answers | upstream |
| Selection and occupancy, `services/` | none | pure functions of reservations and time | sensors, poll |
| Reservation sensors, `sensor/reservation.py`, `sensor/property.py` | what was last written, the warned pairs | `native_value`, `extra_state_attributes`, one entity after the other | coordinator data, clock, selection and occupancy |
| Task and availability sensors, `sensor/tasks.py`, `sensor/availability.py` | what was last written | the same | tasks and calendar coordinators, clock |
| Lookups, `actions/` | none of their own, one coroutine per call | resolve entry, property or reservation; fetch page by page; filter | client, coordinators' data, registries |
| Response filter and diagnostics, `actions/response.py`, `diagnostics.py` | none | drop or redact members of a payload | lookups, coordinators' data |
| Flows, `config_flow.py`, `options_flow.py` | one per dialogue: token, account, form; in common the entries' data and options | forms, validation upstream, look-up of time zones | client, estimator, set-up |

What makes each correct: the budgets are never exceeded (by more than what the
overlap of calls explains); the poll respects its floor and its presence record
describes the stay the other sensors describe; the status tells whether a guest is
in, the entities of a property fit together, and no stay goes back to an earlier
stage as time passes; entities keep their last values
and become unavailable after three failed polls and not before; repair issues are
current conditions; a disappearance is warned of once; an entry recovers without
help; services exist exactly while an entry needs them; a loaded entry works with
its options; a read returns what upstream holds, or fails; a call acts on what it
names; no response and no dump holds details of guests that the user has not
released; an entry's token belongs to its account and what a form stores is usable;
a sensor describes one read and one day.

## Modules

**`RateLimitTracker`** is `rate_limit.py`: its three dictionaries and `check`,
`record`, `apply_headers`. None of them awaits, so each is atomic. `check` is a
state change (it trims and it drops stale hints) whether it passes or refuses.

**`MessageTraffic`** extends it with everything that talks to the messages
endpoint. A *task* is a service call (`Callers`) or the poll of the entry with a
token (`Pollers`); a task in flight is a `Request` whose `pc` says which await it
is at. `SendMessage` is the handler up to its first await, `AssertAirbnb` the
answer of the channel lookup, `SendReturns` the rest; `GetMessages`/`ReadReturns`
the same for reads. `StartCycle`, `SkipFetch`, `IssueFetch`, `PollReturns` and
`EndCycle` are the loop of `async_update`: while no fetch of it is awaited the
coroutine holds the event loop (`LoopFree`). `Serve` and the definitions before it
are upstream, modelled from the client's use: `RESERVATION_LIMIT` requests per
rolling window and reservation, with one bucket for reads and sends or one for each
(`shared`, because OQ-007 is open), and `TOKEN_LIMIT` per window and account, which is
documented only (`rate_limit.py:11`). `Accept` answers with truthful headers when there
are any, `Refuse` is a 429, and `Fail` any other error or a lost answer: the request may
have spent its buckets all the same, because it is the request that spends them, not a
200 (`actions/get_messages.py:85`). `uncharged` remembers when a send or a poll did
that, which the tracker is not told; `uncharged` and `polled` are history variables.

**`MessageBudget`** is the abstract promise of the tracker: no rolling window
holds more than `Limit` charged requests. `MessageTraffic` implements it with
`Limit = TOKEN_LIMIT + (tasks - 1)`.

**`EntryPolling`** is one entry: set-up as a queue of first refreshes
(`SetUpOrder`), the refreshes themselves, `Load`, `Reload`, the entities' last
written availability (`shown`) and the repair issues. `RefreshListing`,
`RefreshBookings`, `RetainData`, `FailRefresh`, `FailFirstRefresh` are refreshes
that await one answer; `StartFanOut`, `FetchProperty`, `EndFanOut` those that await
one per property. Home Assistant's coordinator is external and modelled from how
the code relies on it: it refreshes while it has listeners, stops after an
authentication failure, and notifies listeners unless this refresh and the one
before both failed (`tests/test_multi_entry_isolation.py:222`).
`streak`, `ailing`, `refused`, `missed` and `logs` are history variables: no action
reads them.

**`EntryLifecycle`** is several entries that share the services: the steps of
`async_setup_entry` between its awaits (each first refresh, then the platforms),
the unload, the options and the reload they cause. `applied[e]` lists the options
each coordinator was built with. `FailForward` is an exception from forwarding the
platforms, after the services and the listener were registered (`__init__.py:177`): both
stay behind (`leaked`). `unheard`, `abandoned` and `overtaken` are history variables.

**`Occupancy`** is the pure part of what a reservation means: `classify_occupancy`,
the status mapping, `_sort_key` with `select_reservation`, `is_active` and
`is_forthcoming`. Instants are integers; a day is an integer division in a moment's
own offset; what cannot be parsed is `NoTime`. A sort key is a tuple under Python's
order, with `inf` as a flag before the value.

**`Stays`** is one property's reservations on their way to its sensors. `Poll` copies
upstream's bookings, and the listeners then write the entities in the order in which
`sensor/__init__.py` adds them (`Writes`): `WriteStatus` is the state of the status
sensor with its warnings, `WriteNext` each of the others (`Rendered`). `Tick` may come
between any two, because each reads the clock for itself. `Rewrite` is a notification
without new data, `Reload` new sensors, `Edit` (external) the host, the guests, and
days moving out of the polled range. `stamp` and `logs` are history variables.
Availability is not in this module (`EntryPolling` has it): all writes are those of an
available entity.

**`ApiClient`** is `api/client.py` with the classification of answers: an answer is a
record of its status, what its body says, its envelope, its page numbers and the
expansions it honoured. `Failure`, `EnvelopeFailure`, `Honoured` and `PageFailure` are
its checks in the code's order; `Turn` is one turn of the loop that all paged reads
share, `Reader` that loop's variables. `get_reservations` also parses its items, and
one that cannot be parsed fails the read. A body is judged by what the code looks at,
never spelled out. `Kept` and `PageOf` are what upstream's lists and their pages are.

**`ResponsePrivacy`** is the response filter and the diagnostics redactor. A payload is
a set of paths, a path a sequence of keys and of `Item` for an element of a list, which
is all that either of them looks at. What the walks do to one path depends on no other
path, so `Released` and the redactor are predicates on a path, without recursion.

**`Resolution`** is `actions/helpers.py`: how a call's fields lead to an entry, a
reservation or a property, over the entity and the device registry as constants.

**`Lookups`** composes the three with the four lookup services and the polls of
properties and reservations. `call` is the coroutine in flight: `Ask` and `StartPoll`
are a handler up to its first await, `TakeAnswer` one answer and what follows it up to
the next await or the end, and `Return` follows the last answer with nothing between,
as in a coroutine that awaits no more. `Add` and `Withdraw` (external) change what upstream holds
between two pages, `Load`, `Unload` and `SetContact` the entries in the meantime.
`always`, `ever`, `added`, `removed`, `cut` and `consented` are history: no action reads
them.

**`Flows`** is the user flow, the reauthentication and the options flow, any number of
them at once (`FlowIds`). `stage` says which form is shown or which await the flow is
at: `SubmitToken`, `GotUser` and `GotProperties` are the two steps of validation
between their awaits, `Confirmed` is the reauthentication after its own,
`SubmitOptions` the whole submission of the options form up to the look-up of time
zones, `ZonesKnown` the rest. What the two coordinators hold (`Holdings`) is chosen anew
for every submission, because a form that is shown again is built from what they hold at
that moment, and from nothing when the entry has been unloaded; `CreateEntry`, `Confirmed` and `Stored` are the only
writers of entries. `Close` is the user leaving. The estimate on the form is an
operator on its numbers. `overtaken` is a history variable.

**`Sensors`** is one property's part of the two fan-outs, with its entities.
`StartTasks`, `TasksAnswer` and `EndTasks` are a cycle of the tasks coordinator, which
reads page by page with `ApiClient`; `StartCalendar`, `CalendarAnswer`, `EndCalendar` one
of the calendar. A cycle publishes at its end, and Home Assistant then writes the
entities (`Publish`, `Write`, external), each of which reads the clock for its state
and again for its attributes. `source` is a history field: what upstream held when
the read began.

The `MC` modules give the constants that a `.cfg` cannot. Definitions that a comment
calls a variant are the plausible mistakes listed under "mutants"; nothing else uses
them. The `Proofs` modules are described below.

## What TLC checks

| Run | Shows |
|---|---|
| `sequential` | `LetPassHasRoom`: without overlap upstream has room for all that the tracker lets pass, unless a failed send or poll spent it uncharged; `EffectiveFloor` with one property |
| `concurrent` | `TypeOK`, `TokenOverrunBounded`, `ImplementsBudget` with a call and the poll interleaved, failing requests, reloads |
| `polling` | `TypeOK`, `IssuesAreCurrent`, `Recovers` for all five kinds of failure |
| `isolation` | `ThreeStrikes`, `RetainsLastKnown`, `DisappearanceReported` with two properties, both selected or one |
| `lifecycle` | `TypeOK`, `NoServicesWithoutEntry`, `ServicesLostByOvertakingOnly`, `OptionsInEffect` for two entries |
| `stays` | `TypeOK`; `StatusTellsOccupancy`, `AwaitedStayArrivesNext`, `ForthcomingAddsUp`, `DegradationLoggedOnce`; `OccupancyMovesForward`, `SelectionMovesForward` |
| `lookups` | `TypeOK`, `ReadsMirrorUpstream`, `NotFoundOnlyIfAbsent`, `CallsActOnWhatTheyName`, `ResponsesAreFiltered`, `DumpHidesGuests` with pages changing under a read and every kind of deficient answer |
| `flows` | `TypeOK`, `TokenMatchesAccount`, `StoredOptionsAreUsable`, `EstimateIsWhatPollsCost`, `EntriesAreKept`, `OverridesAreRetained` for two flows over two accounts |
| `sensors` | `TypeOK`, `TaskSensorsShowOneRead`, `AvailabilityIsOfItsDay` across starts, midnights, changes and failures |
| `strikes` | violates `ShownWithinThreeStrikes`: nothing writes the third failure |
| `services` | violates `ServicesWhileLoaded`: an unload overtakes a set-up |
| `notheld` | violates `HeldIsFound`: a property that was never selected is reported as not found |

The violations are disagreements between the code and the document, comment or
test quoted under "findings".

### Known disagreements that no run keeps

The following were met with these models, or while writing them. The instances of
the first four differ from the runs above in their constants or their specification only.

- `LetPassHasRoom` fails as soon as two sends overlap: both pass `check` before either is
  charged. `TokenOverrunBounded` says by how much. The limits of `rate_limit.py` are
  those of upstream, so each such overlap may be throttled.
- `EffectiveFloor` fails with two properties: `now` is read once per cycle
  (`coordinator_messages.py:182`), so a slow first answer shortens the floor of the second.
- `PresenceDescribesSelectedStay` (`MessageTraffic`) fails when the representative stay
  changes and its fetch fails: the record of the former stay is kept
  (`coordinator_messages.py:293`).
- `DisappearanceReportedOnce` (`EntryPolling`) fails: pruning the warned set with the
  listing forgets exactly the properties that are still missing
  (`coordinator.py:384`), so the warning comes with every poll.
- A send or a poll that fails, or whose answer is lost, is not charged
  (`actions/send_message.py:106`, `coordinator_messages.py:281`), although
  `actions/get_messages.py:85` says that "the upstream bucket is spent by the request, not
  by a 200" and charges every read. So a failed send or poll may leave the tracker behind
  upstream, and the next request that `check` lets pass may be throttled, without any
  overlap. `LetPassHasRoom` exempts the window after it (`uncharged`) and fails without
  that exemption.
- A scope 403 answered to a fan-out three times in a row raises the issue of a persistent
  failure (`coordinator.py:246`); FR-065 of spec 001 says that it must not raise one.
  `IssuesOf` does as the code does, and `IssuesAreCurrent` compares issues with their
  condition only.
- Options that change while an entry is being set up, before it listens
  (`__init__.py:162`), are in effect in the coordinators built afterwards and in no other,
  until something else reloads the entry. `OptionsInEffect` exempts them (`unheard`).
- A set-up that raises while the platforms are forwarded leaves the services registered
  without an entry, until the next unload that finds no other one. `NoServicesWithoutEntry`
  exempts that (`abandoned`) and fails without the exemption.
- A target of a call may hold several entities and devices; the first is used and the
  rest are ignored (`Resolution`).
- Availability is looked up by the UTC day (`sensor/availability.py:86`), not by the
  property's own, as FR-074 wants it.
- The requests of the awaiting-reply poll are not part of the estimate.
- Of two options flows that overlap, the later one loses the overrides stored by the
  first; `OverridesAreRetained` therefore excludes flows that were `overtaken`.
- `get_reservations` applies the contact option as it was when the call began, the other
  services as it is when the answer has come; `ResponsesAreFiltered` asks only that the
  option was on at some time during the call.

### Bounds

- `MaxTime` bounds the clock of `MessageTraffic`. The windows are 2 and 3 ticks and the
  limits 2 per reservation and 2 or 3 per token, so that a window fills, expires and fills
  again within it and either limit may be met first.
  The real values (2 in 60 s, 50 in 300 s, a floor of 60 s) differ only in scale;
  what matters is kept: the token's window is longer than the reservation's, and
  the floor is as long as the reservation's window.
- One token, one or two reservations, at most two tasks at once: budgets of
  different tokens share no state, and two tasks suffice for every overlap of a
  check with a charge. `TokenOverrun` is proved for any number.
- `ResetIsSent`, `Reloads` and `Targets` are constants to keep runs small. `sequential` has
  resets, both readings of OQ-007 and every property booked; `concurrent` has reloads and
  stays that come and go. The first two only add behaviours to the other run: the proofs
  have both, and `LetPassHasRoom` does not depend on the fetcher that a reload replaces.
- `MAX_CONSECUTIVE_FAILURES` is 2 in the passing runs and 3, its value in the code,
  in `strikes`; counters stop there because they are only compared with it (`Strike`).
  The threshold of the persistent issue has the same value in the code.
- One fan-out coordinator stands for both: calendar and tasks share no state and
  their loops differ in logging only.
- `logs` counts to 2: enough to tell once from more often.
- Two entries and two options: an overtaking needs two entries, a mixed set-up two
  options.
- A day of `Stays` has three ticks, so that a moment can lie at, before and after a
  day's ends; `Horizon` is the end of the last stay. Three identifiers with three to
  four forms each give every case of the sort key and every missing time. One change
  upstream is enough, because a poll keeps nothing of the earlier data. `Interval`
  bounds the time between two writes of the status, as the update interval does.
- Reservations have `arrival <= departure`. `Regular` stays, of which the properties
  of occupancy speak, last a night at least and have their moments on their own days:
  a same-day stay without check-out is found occupied on its day for want of anything
  better, and a moment on another day contradicts the dates.
- `lookups`: pages of two items and batches of one property, so that four properties and
  three reservations give every case of a page boundary; the real values are 100 and 50.
  `MaxChanges` is 2: one change moves an item across a boundary, a second one hides that.
  One read is under way at a time: reads share no state but what a poll stores, and the
  account of `Busy` changes while the other one only answers.
- `flows`: two flows suffice for every overtaking; two accounts, one with two tokens, for
  every confusion of them. A number of the form is at its minimum, does not divide a day, or
  is zero. An entry holds its whole listing and two pages of reservations or, not loaded,
  nothing, at each submission anew; it may have selected fewer properties than are listed.
- `sensors`: a day has two ticks and the clock runs for two and a half days, over windows
  of two days; one change upstream, because a read is disturbed or not. `Polled` lets one of the
  two coordinators refresh in a behaviour: they share the clock only.
- `lookups` and `sensors` allow deadlock because their clocks and changes are bounded:
  at the bounds nothing may be left to do.
- The polling runs allow deadlock because an entry that was set up while the account
  had no property has no entity, hence no listener and no polling, until it is
  reloaded.

### Fairness

`FairSpec` is weakly fair to every coordinator's refresh, to the answers of a
fan-out and to `Load`: the scheduler calls a coordinator again while it has
listeners, set-up is retried, and an HTTP request ends by its timeout. `calm` is the
assumption of `Recovers`: from some point on upstream answers and the user leaves
the entry alone. Listings may still change. An authentication failure is excluded
(`stopped`) because it waits for new credentials. No other run uses fairness.

## What is proved

For every value of the constants, by TLAPS:

- `PromiseKept` (`MessageBudgetProofs`): the abstract budget keeps its promise.
  A charge adds one index to the counting ones and needs room for it; advancing the
  clock and forgetting only remove some.
- `TypeCorrect`, `TokenOverrun`, `TrafficImplementsBudget` (`MessageTrafficProofs`).
  The invariant is inductive together with `TypeOK` because a request enters flight
  only when the trimmed deque is below the limit: at that moment the deque plus
  the requests in flight are at most `TOKEN_LIMIT - 1` plus the tasks, each in flight
  once; recording moves a request from flight to the deque. The refinement maps
  `record` to `Charge`, a trimming `check` to `Forget`, `Tick` to `Advance`.
- `RoomForLetPass` (`MessageTrafficProofs`), from `SerialInv`, which relates what the tracker
  holds to what upstream does. Of a bucket the last uncharged failure (`Disturbed`) splits
  the past: what it served after that moment, or within its window when there is none
  (`Horizon`), is `Accounted`: each such request has a stamp of its own, no older, in the
  deque that the tracker keeps for the bucket (`Ledger`: the reservation's or the token's),
  except one that is answered and not yet charged (`Owes`). That is what `Covers` says, and
  trimming keeps it (`TrimmedCovers`); so a deque below the limit means room. `Hinted`: a
  hint allows one request at most, and only where the reservation's buckets have room or an
  answer is awaited that will replace it. `Awaited` (`RoomFor`): there is room for the
  request that is out. Errors and lost answers are included, and so are both readings of
  OQ-007. The only premise is that `RESERVATION_LIMIT` is at most 2; in the code it is 2
  (`rate_limit.py:33`). With a limit of 3, separate buckets and a limit per token to spare,
  TLC finds a request without room: the headers of a read raise the hint that the sends
  counted down.
- `FirstOnTime`, `FloorOfOne` (`MessageTrafficProofs`), from `FloorInv`: an update works through
  the order of the properties, and before the first of them no time has passed since it
  began (`WorksThrough`), so the attempt it notes is the moment of the request. For the properties
  after it `EffectiveFloor` fails, as said above. The premises are that no property comes
  twice in the order, which is that of a dictionary's keys, and that the entry is not
  reloaded, which forgets the attempts; calls may overlap and answers may be lost.
- `LifecycleTypeCorrect`, `NoOrphanedServices`, `OnlyOvertakingLosesServices`,
  `OptionsTakeEffect` (`EntryLifecycleProofs`). The last two need strengthening:
  `Overtaken` speaks of entries from the registration of their services on, not only
  of loaded ones; `Listening` says that an entry past its registration listens, and
  `InSync` compares the options read so far with the current ones during set-up.
  `NoOrphanedServices` covers a set-up that raises up to the point where `abandoned` says
  that the services are left behind.

- `RepresentativeExists` (`StaysProofs`): the sort key is a strict total order on
  reservations with distinct identifiers (`LexOrder`, `SortKeyType`), so a finite
  nonempty list has exactly one first. Finite induction comes from the library's
  well-founded order on finite subsets (`FirstExists`).
- `TypeCorrect`, `StatusTruthful`, `WarnedOnce`, `NoStayGoesBack` (`StaysProofs`). The
  first needs that `Selected` picks from the data. `StatusTruthful` rests on two facts
  about the operators: `OccupiedIsInProgress` (the distinctions by day agree with the
  moments, by monotonicity of days) and `GuestRepresentsProperty` (the only stay in
  progress sorts first); the inductive part, `StatusOfWrite`, says that what is shown
  is what was computed at the last write from the present data. `WarnedOnce` needs
  `LoggedAreWarned` too, `NoStayGoesBack` a normal form of the stages by day.
- `EntitiesAddUp`, `RepresentativeMovesOn`, `AwaitedArrives` (`StaysProofs`). The entities
  of a property are written one after the other with time passing between;
  `EntitiesOfWrite` says of each that it was computed at its write from the present data.
  What is forthcoming only shrinks with time (`ForthcomingShrinks`), so what is written
  later shows no more of it. The other two compare ranks at two moments; they need that the stays are in
  step (`InStep`: no stay is further along than an earlier one, each by its own offset),
  and `OneOffsetInStep` proves that all stays with the same offset are, whatever
  times are missing. So the premise excludes only a property whose stays carry different
  offsets.

- `TypeCorrect`, `IssuesCurrent`, `DisappearancesReported`, `ThreeStrikesKept`,
  `LastKnownRetained` (`EntryPollingProofs`), for any properties, fan-outs and number of
  strikes. Availability is computed from two counters that are reset at different moments
  of a fan-out, so `ThreeStrikes` is not inductive. `FanOutCounted` strengthens it: a
  property's strikes are its failed polls in a row, the coordinator's counter is never
  above those of a selected property, and once that property has been asked for in the
  present cycle not even after the strike the coordinator may get at the end of it.
  `SetUpShape` says that what is selected does not change during a fan-out, and
  `ShownHeld` that what is on display has data; a notification that removes something
  then contradicts `ThreeStrikes`, unless the property went or has struck out.
- `TokensMatch`, `EntriesKept`, `OptionsUsable`, `OverridesRetained` (`FlowsProofs`), from
  the invariant `FlowsInvariant`, for any number of flows and accounts. A flow stores what
  it checked two awaits ago; `Apart` says that no two flows which have validated a token
  are about one account, because Home Assistant keeps the unique ids in progress and the
  handler looks for one before its next await; so none of them finds its account
  configured (`IsNew`), and only an options flow of that very entry, as it ends, changes an
  entry's options. For the options what is pending is usable and retains what the form
  did not ask about, unless overtaken (`WillStoreUsable`, `WillRetain`).
- `Types`, `EstimateIsTheCost` (`FlowsProofs`), from `FlowsTyped` on top of it: what a form
  offers and asks about, what is pending and what is stored is of the flow's own account,
  although every form is built anew from what is held and stored at the time, and may ask
  about properties that it no longer offers. The estimate is
  then arithmetic: the polls of a day are counted by a bijection with the multiples of the
  interval, and no induction is needed.
- `CallsResolve` (`LookupsProofs`): whatever the registries hold and whichever entries are
  loaded, a call acts on what it names. The answer is about a device, an entity or an id;
  the proof is by cases of what the call names, and needs that no identifier of an entry
  names a property of another account (`LookupsAssumption`).
- `LookupTypes`, `ReadsMirror`, `NotFoundIsAbsent` (`LookupsProofs`), from `LookupsInv`. A
  read in progress is described by what is *still to come*: the items beyond the pages it
  has read, and those of the batches after the present one. `NothingMissed` says that
  whatever was there all along has been got or is still to come, `NothingTwice` that what
  was got will not come again, `Batches` that no two batches share a property. Adding an
  item moves others to later places and withdrawing one to earlier places: the old list
  is embedded in the new one, or the new in the old, in order. So additions can only
  repeat an item and removals only skip one, which is why the two halves of
  `ReadsMirrorUpstream` have different premises.
- `ResponsesFiltered`, `DumpHides` (`LookupsProofs`): what a response or a dump shows,
  path by path. The first needs `Consent` (an option that a call applies was on during
  it) and that what stands before a guest, a co-host or a listing makes no difference to
  how it is judged (`PlainPrefix`); the second that every section of the dump passes the
  same redactor.
- `Types`, `DayByDay`, `OneReadShown` (`SensorsProofs`), from `SensorsInv`: a read of tasks
  that nothing disturbed has got exactly the pages before the one it asks for
  (`ReadSoFar`), what is held is the whole of one answer (`Whole`), a complete calendar has
  one entry for each day of the window it was fetched for, and each entity is what it
  computed at its write from what is held.

The assumptions are those named in the modules (`LimitsAssumption`,
`HintAssumption`, `TrafficAssumption`, `NoRequestAssumption`, `PollingAssumption`,
`OccupancyAssumption`, `StaysAssumption`, `ResolutionAssumption`,
`LookupsAssumption`, `ReadsAssumption`, `FlowsAssumption`, `CountsAssumption`,
`SensorsAssumption`); TLC evaluates them. `ReadsAssumption` and
`SensorsAssumption` say that pages and batches are not empty, that upstream has finitely
many items, and that an answer may be deficient in what is around its items, never in
the items themselves; `CountsAssumption` that an account has finitely many properties and
the form makes integers of its numbers.

Only model-checked: `Recovers`, because liveness under fairness is out of the prover's
reach. `LetPassHasRoom` and `EffectiveFloor` are proved under the premises named above, which
the run `sequential` satisfies (for the floor they are weaker: calls may overlap).

## Not modelled, and the plan

Done: message budgets and traffic, polling, lifecycle, stays, lookups with client and
filter, flows, task and availability sensors. Next, in this order:

1. *Proofs*: an abstract specification of what the entities of a property promise (a value is
   shown until the data is replaced or struck out), implemented by `EntryPolling`; how far
   behind the floor the properties after the first can fall.
2. *Delivery*: what a guest receives when an answer is lost and the user sends again.
3. *The last-message timestamp* (`sensor/messages.py`) among the entities of `Stays`; the
   property info sensor and the guest attributes, projections of fields.

Left out, with the reason: payload parsing field by field (formats, which tests cover;
what decides something is in: a reservation that refuses to be parsed, the dates, the
status, the labels of tasks, the days of a calendar); `parse_error_envelope`, the token
provider and the redaction of paths in messages, which word errors; `services/window.py`,
called by no code but its test; wording, translations, log-once flags and logging; the
scripts of `scripts/`.
