---------------------------- MODULE EntryPolling ----------------------------
(***************************************************************************)
(* One config entry's polling: its coordinators, the entities that show    *)
(* what they hold, the repair issues they raise, and the entry's set-up    *)
(* and reload, which build all of that anew.                               *)
(*                                                                         *)
(* A refresh of a plain coordinator awaits one answer and then runs to its *)
(* end, so it is one step.  A fan-out coordinator (calendar, tasks) awaits *)
(* one answer per property; anything else may happen in between.  Home     *)
(* Assistant's DataUpdateCoordinator is external: it refreshes only while  *)
(* it has listeners, stops scheduling after an auth failure, and notifies  *)
(* the listeners after a refresh unless it and the one before both failed. *)
(***************************************************************************)
EXTENDS Integers, SequencesExt

CONSTANTS
    Properties,         \* every property that has, or may get, a device
    Sorted,             \* [sets of properties -> their sequence], as sorted() has it
    Selections,         \* what CONF_SELECTED_PROPERTIES may be set to
    Listing, Bookings,  \* the properties and the reservations coordinator
    FanOut,             \* the coordinators that fetch property by property
    SetUpOrder,         \* the order of the first refreshes
    FailureKinds,       \* the ways a request may fail here
    MAX_CONSECUTIVE_FAILURES,
    None                \* no data

Plain == {Listing, Bookings}
Coordinators == Plain \cup FanOut

\* <<c, p>>: the entities of property p that are fed by coordinator c.
Entities == Coordinators \X Properties

ASSUME PollingAssumption ==
    /\ Sorted \in [SUBSET Properties -> Seq(Properties)]
    /\ \A ids \in SUBSET Properties : ToSet(Sorted[ids]) = ids
    /\ Selections \subseteq SUBSET Properties
    /\ Listing # Bookings /\ Plain \cap FanOut = {}
    /\ \A ids \in SUBSET Properties : None # ids
    /\ SetUpOrder \in Seq(Coordinators) /\ ToSet(SetUpOrder) = Coordinators
    /\ \A i \in DOMAIN SetUpOrder : SetUpOrder[i] = Listing => i = 1
    /\ FailureKinds \subseteq {"auth", "forbidden", "throttled", "scope", "other"}
    /\ MAX_CONSECUTIVE_FAILURES \in Nat \ {0}

VARIABLES
    option,        \* the entry's selected properties; {} means all of them
    setup,         \* the first refreshes that set-up still has to make
    loaded,        \* are the platforms set up?
    selected,      \* the properties the coordinators were built for
    known,         \* the properties with a device, which outlives reloads
    monitored,     \* monitored_property_ids of the properties coordinator
    data,          \* [Coordinators -> None or the properties held]
    failures,      \* [Coordinators -> consecutive_failures]
    strikes,       \* [FanOut -> _property_failures]
    last_success,  \* [Coordinators -> last_update_success]
    stopped,       \* the coordinators an auth failure has unscheduled
    cycle,         \* [FanOut -> the fan-out in progress, or NoCycle]
    issues,        \* the repair issues the user sees
    warned,        \* _disappeared_warned
    shown,         \* the entities that last wrote they were available
    calm,          \* upstream has recovered and the user leaves it alone
    streak,        \* history: how many polls of a property failed in a row
    ailing,        \* history: coordinators whose last refresh failed
    refused,       \* history: those refused (403) since their last success
    missed, logs   \* history: properties found missing, warnings for each

entryVars == <<option, setup, loaded, selected, known, monitored>>
coordinatorVars == <<data, failures, last_success, stopped>>
fanOutVars == <<strikes, cycle>>
historyVars == <<streak, ailing, refused, missed, logs>>
vars == <<entryVars, coordinatorVars, fanOutVars, issues, warned, shown, calm,
          historyVars>>

Kinds == {"forbidden", "persistent"}
NoCycle == [todo |-> << >>, got |-> {}, error |-> "idle"]
Count == 0..MAX_CONSECUTIVE_FAILURES

\* A counter is only compared with MAX_CONSECUTIVE_FAILURES, and stays there.
Strike(n) == IF n < MAX_CONSECUTIVE_FAILURES THEN n + 1 ELSE n

NoStrikes == [p \in Properties |-> 0]

-----------------------------------------------------------------------------
(* Availability                                                            *)

PropertyActive(p) == data[Listing] # None /\ p \in data[Listing] \cap monitored

\* Variant: the stock policy of CoordinatorEntity.
AvailableStock(c, p) == data[c] # None /\ last_success[c] /\ PropertyActive(p)

\* The policy of entity.py, and what the calendar and task sensors add to it.
Available(c, p) ==
    /\ data[c] # None
    /\ failures[c] < MAX_CONSECUTIVE_FAILURES
    /\ PropertyActive(p)
    /\ c \in FanOut => p \in data[c] /\ strikes[c][p] < MAX_CONSECUTIVE_FAILURES

\* Every entity listens to its own coordinator and to the properties one.
Listens(d, c) == c \in {d, Listing}

\* The entities' state after a refresh of c that succeeded or failed.
Notify(c, succeeded) ==
    shown' = {e \in Entities :
                 IF loaded /\ Listens(e[1], c) /\ (succeeded \/ last_success[c])
                 THEN e[2] \in known /\ Available(e[1], e[2])'
                 ELSE e \in shown}

-----------------------------------------------------------------------------
(* What every refresh does at its end                                      *)

\* Variant: the issue is namespaced by the entry alone.
IssueIdOfEntry(kind, c) == <<kind, None>>

IssueId(kind, c) == <<kind, c>>

\* What _raise_for_api_error raises.  (A scope answer gets there from a
\* fan-out only, and is a failure like any other.)
IssuesOf(c, kind) ==
    CASE kind = "forbidden" -> {IssueId("forbidden", c)}
      [] /\ kind \in {"scope", "other"}
         /\ failures[c] + 1 >= MAX_CONSECUTIVE_FAILURES ->
            {IssueId("persistent", c)}
      [] OTHER -> {}

\* Variant: only the issue of a persistent failure is withdrawn.
IssuesClearedPersistent(c) == {IssueId("persistent", c)}

IssuesCleared(c) == {IssueId(kind, c) : kind \in Kinds}

Fail(c, kind) ==
    /\ failures' = [failures EXCEPT ![c] = Strike(@)]
    /\ issues' = issues \cup IssuesOf(c, kind)
    /\ stopped' = IF kind = "auth" THEN stopped \cup {c} ELSE stopped
    /\ last_success' = [last_success EXCEPT ![c] = FALSE]
    /\ ailing' = ailing \cup {c}
    /\ refused' = IF kind = "forbidden" THEN refused \cup {c} ELSE refused
    /\ UNCHANGED data

\* Variant: a success leaves consecutive_failures as it is.
FailuresKept(c) == failures

FailuresReset(c) == [failures EXCEPT ![c] = 0]

Succeed(c, held) ==
    /\ failures' = FailuresReset(c)
    /\ issues' = issues \ IssuesCleared(c)
    /\ last_success' = [last_success EXCEPT ![c] = TRUE]
    /\ data' = [data EXCEPT ![c] = held]
    /\ ailing' = ailing \ {c}
    /\ refused' = refused \ {c}
    /\ UNCHANGED stopped

Retained(c) == IF data[c] = None THEN {} ELSE data[c]

\* A coordinator polls while the entry is loaded and has entities to listen;
\* before that, set-up makes the first refreshes one after the other.
MayRefresh(c) ==
    /\ c \notin stopped
    /\ IF loaded THEN known # {} ELSE setup # << >> /\ Head(setup) = c

SetUpGoesOn == setup' = IF loaded THEN setup ELSE Tail(setup)

-----------------------------------------------------------------------------
(* The properties and the reservations coordinator                         *)

\* Variant: no reported disappearance is ever taken back.
StillWarnedAll(ids) == warned

\* _disappeared_warned &= current_ids
StillWarned(ids) == warned \cap ids

NewlyWarned(ids) == (monitored \ ids) \ StillWarned(ids)

\* What the other coordinators are built for, once set-up has the listing.
Chosen(ids) == IF option = {} THEN ids ELSE option

RefreshListing(ids) ==
    /\ MayRefresh(Listing)
    /\ Succeed(Listing, ids)
    /\ warned' = StillWarned(ids) \cup NewlyWarned(ids)
    /\ selected' = IF loaded THEN selected ELSE Chosen(ids)
    /\ missed' = monitored \ ids
    /\ logs' = [p \in Properties |->
                   CASE p \in ids -> 0
                     [] p \in NewlyWarned(ids) /\ logs[p] < 2 -> logs[p] + 1
                     [] OTHER -> logs[p]]
    /\ streak' = [streak EXCEPT ![Listing] = NoStrikes]
    /\ SetUpGoesOn
    /\ UNCHANGED <<option, loaded, known, monitored, fanOutVars, calm>>
    /\ Notify(Listing, TRUE)

\* Of the reservations only that there are some data matters here.
RefreshBookings ==
    /\ MayRefresh(Bookings)
    /\ Succeed(Bookings, {})
    /\ streak' = [streak EXCEPT ![Bookings] = NoStrikes]
    /\ SetUpGoesOn
    /\ UNCHANGED <<option, loaded, selected, known, monitored, fanOutVars, warned,
                   calm, missed, logs>>
    /\ Notify(Bookings, TRUE)

\* A scope answer, or reservations without the includes, is a success that
\* keeps what was held; disappearances are not looked for.
RetainData(c) ==
    /\ ~calm /\ "scope" \in FailureKinds
    /\ MayRefresh(c)
    /\ Succeed(c, Retained(c))
    /\ selected' = IF loaded \/ c # Listing THEN selected ELSE Chosen(Retained(c))
    /\ streak' = [streak EXCEPT ![c] = NoStrikes]
    /\ SetUpGoesOn
    /\ UNCHANGED <<option, loaded, known, monitored, fanOutVars, warned, calm,
                   missed, logs>>
    /\ Notify(c, TRUE)

\* New coordinators, none of which has refreshed; the issues stay.
BuildEntry ==
    /\ setup' = SetUpOrder /\ loaded' = FALSE
    /\ selected' = {} /\ monitored' = {} /\ warned' = {}
    /\ data' = [c \in Coordinators |-> None]
    /\ failures' = [c \in Coordinators |-> 0]
    /\ last_success' = [c \in Coordinators |-> TRUE]
    /\ strikes' = [c \in FanOut |-> NoStrikes]
    /\ cycle' = [c \in FanOut |-> NoCycle]
    /\ shown' = {}
    /\ streak' = [c \in Coordinators |-> NoStrikes]
    /\ missed' = {} /\ logs' = [p \in Properties |-> 0]

FailRefresh(c, kind) ==
    /\ loaded /\ MayRefresh(c)
    /\ Fail(c, kind)
    /\ streak' = [streak EXCEPT ![c] = [p \in Properties |-> Strike(@[p])]]
    /\ UNCHANGED <<entryVars, fanOutVars, warned, calm, missed, logs>>
    /\ Notify(c, FALSE)

\* The first refresh fails: set-up is retried from the start with coordinators
\* of its own, but after an auth failure only when the entry is reloaded.
FailFirstRefresh(c, kind) ==
    /\ ~loaded /\ MayRefresh(c)
    /\ BuildEntry
    /\ issues' = issues \cup IssuesOf(c, kind)
    /\ stopped' = IF kind = "auth" THEN Coordinators ELSE {}
    /\ ailing' = ailing \cup {c}
    /\ refused' = IF kind = "forbidden" THEN refused \cup {c} ELSE refused
    /\ UNCHANGED <<option, known, calm>>

-----------------------------------------------------------------------------
(* The calendar and the tasks coordinator                                  *)

StartFanOut(c) ==
    /\ MayRefresh(c) /\ cycle[c] = NoCycle
    /\ cycle' = [cycle EXCEPT ![c] =
                    [todo |-> Sorted[selected], got |-> {}, error |-> "none"]]
    /\ UNCHANGED <<entryVars, coordinatorVars, strikes, issues, warned, shown,
                   calm, historyVars>>

\* Variant: a success does not reset the property's strikes.
StrikesKept(c, p) == strikes

StrikesReset(c, p) == [strikes EXCEPT ![c][p] = 0]

\* One property's answer; its strikes change at once, the data at the end.
FetchProperty(c, outcome) ==
    /\ cycle[c].todo # << >>
    /\ LET p == Head(cycle[c].todo) IN
       IF outcome = "ok"
       THEN /\ strikes' = StrikesReset(c, p)
            /\ streak' = [streak EXCEPT ![c][p] = 0]
            /\ cycle' = [cycle EXCEPT ![c].todo = Tail(@), ![c].got = @ \cup {p}]
       ELSE /\ strikes' = [strikes EXCEPT ![c][p] = Strike(@)]
            /\ streak' = [streak EXCEPT ![c][p] = Strike(@)]
            /\ cycle' = [cycle EXCEPT ![c].todo = Tail(@), ![c].error = outcome]
    /\ UNCHANGED <<entryVars, coordinatorVars, issues, warned, shown, calm,
                   ailing, refused, missed, logs>>

\* The refresh fails only when every property did, with the last error.
EndFanOut(c) ==
    /\ cycle[c] # NoCycle /\ cycle[c].todo = << >>
    /\ IF cycle[c].got = {} /\ cycle[c].error # "none"
       THEN Fail(c, cycle[c].error)
       ELSE Succeed(c, Retained(c) \cup cycle[c].got)
    /\ cycle' = [cycle EXCEPT ![c] = NoCycle]
    /\ SetUpGoesOn
    /\ UNCHANGED <<option, loaded, selected, known, monitored, strikes, warned,
                   calm, streak, missed, logs>>
    /\ Notify(c, last_success'[c])

-----------------------------------------------------------------------------
(* Set-up and reload                                                       *)

\* The devices and the platform.  The entities' listeners schedule every
\* coordinator, also one that an auth failure had unscheduled.
Load ==
    /\ ~loaded /\ setup = << >>
    /\ loaded' = TRUE
    /\ known' = known \cup selected
    /\ monitored' = selected
    /\ stopped' = {}
    /\ UNCHANGED <<option, setup, selected, data, failures, last_success,
                   fanOutVars, issues, warned, calm, historyVars>>
    /\ shown' = {e \in Entities : e[2] \in known' /\ Available(e[1], e[2])'}

\* The options change, or the credentials do after an auth failure; a set-up
\* that has begun is not interrupted.
Reload(choice) ==
    /\ calm => stopped # {}
    /\ loaded \/ setup = SetUpOrder
    /\ \A c \in FanOut : cycle[c] = NoCycle
    /\ option' = choice
    /\ BuildEntry
    /\ stopped' = {}
    /\ UNCHANGED <<known, issues, calm, ailing, refused>>

BecomeCalm ==
    /\ ~calm /\ calm' = TRUE
    /\ UNCHANGED <<entryVars, coordinatorVars, fanOutVars, issues, warned, shown,
                   historyVars>>

Init ==
    /\ option \in Selections
    /\ setup = SetUpOrder /\ loaded = FALSE
    /\ selected = {} /\ known = {} /\ monitored = {}
    /\ data = [c \in Coordinators |-> None]
    /\ failures = [c \in Coordinators |-> 0]
    /\ strikes = [c \in FanOut |-> NoStrikes]
    /\ last_success = [c \in Coordinators |-> TRUE]
    /\ stopped = {}
    /\ cycle = [c \in FanOut |-> NoCycle]
    /\ issues = {} /\ warned = {}
    /\ shown = {}
    /\ calm = FALSE
    /\ streak = [c \in Coordinators |-> NoStrikes]
    /\ ailing = {} /\ refused = {} /\ missed = {}
    /\ logs = [p \in Properties |-> 0]

Failure == IF calm THEN {} ELSE FailureKinds

RefreshPlain(c) ==
    \/ c = Listing /\ \E ids \in SUBSET Properties : RefreshListing(ids)
    \/ c = Bookings /\ RefreshBookings
    \/ RetainData(c)
    \/ \E kind \in Failure \ {"scope"} : FailRefresh(c, kind) \/ FailFirstRefresh(c, kind)

RefreshFanOut(c) ==
    \/ StartFanOut(c)
    \/ \E outcome \in {"ok"} \cup Failure : FetchProperty(c, outcome)
    \/ EndFanOut(c)

Next ==
    \/ \E c \in Plain : RefreshPlain(c)
    \/ \E c \in FanOut : RefreshFanOut(c)
    \/ Load
    \/ \E choice \in Selections : Reload(choice)
    \/ BecomeCalm

Spec == Init /\ [][Next]_vars

\* Home Assistant's scheduler refreshes every coordinator that it schedules,
\* retries a set-up and lets every answer be taken up.
FairSpec ==
    /\ Spec /\ WF_vars(Load)
    /\ \A c \in Plain : WF_vars(RefreshPlain(c))
    /\ \A c \in FanOut : WF_vars(RefreshFanOut(c))

-----------------------------------------------------------------------------
(* Properties                                                              *)

Cycle == [todo : Seq(Properties), got : SUBSET Properties,
          error : FailureKinds \cup {"none", "idle"}]

TypeOK ==
    /\ {option, selected, known, monitored, warned, missed} \subseteq SUBSET Properties
    /\ setup \in Seq(Coordinators)
    /\ {loaded, calm} \subseteq BOOLEAN
    /\ data \in [Coordinators -> (SUBSET Properties) \cup {None}]
    /\ failures \in [Coordinators -> Count]
    /\ strikes \in [FanOut -> [Properties -> Count]]
    /\ last_success \in [Coordinators -> BOOLEAN]
    /\ {stopped, ailing, refused} \subseteq SUBSET Coordinators
    /\ cycle \in [FanOut -> Cycle]
    /\ issues \subseteq Kinds \X Coordinators
    /\ shown \subseteq Entities
    /\ streak \in [Coordinators -> [Properties -> Count]]
    /\ logs \in [Properties -> 0..2]

Settled(c) == c \in FanOut => cycle[c] = NoCycle

\* FR-057, as computed: between refreshes an entity whose property is present
\* and monitored, and which has data, is available exactly when fewer than
\* MAX_CONSECUTIVE_FAILURES polls of its property have failed in a row.
ThreeStrikes ==
    \A c \in Coordinators, p \in Properties :
        (loaded /\ Settled(c)) =>
            (Available(c, p) <=>
                /\ PropertyActive(p)
                /\ data[c] # None /\ (c \in FanOut => p \in data[c])
                /\ streak[c][p] < MAX_CONSECUTIVE_FAILURES)

\* FR-057, as shown: while the entry is loaded an entity is not written as
\* unavailable before that, whatever the order of the refreshes.  (During a
\* fan-out that will succeed the coordinator's own count is not yet reset.)
RetainsLastKnown ==
    [][loaded' =>
          \A e \in shown \ shown' :
              \/ ~PropertyActive(e[2])' \/ ~Settled(e[1])'
              \/ streak'[e[1]][e[2]] >= MAX_CONSECUTIVE_FAILURES]_vars

\* FR-057, the other half: an entity that is written as available has not
\* failed MAX_CONSECUTIVE_FAILURES times in a row.
ShownWithinThreeStrikes ==
    \A e \in shown :
        Settled(e[1]) => streak[e[1]][e[2]] < MAX_CONSECUTIVE_FAILURES

\* A repair issue is a current condition (FR-065): one coordinator's 403 stays
\* reported until that coordinator succeeds, whatever the others do and however
\* often the entry is reloaded, and a coordinator that succeeded reports none.
IssuesAreCurrent ==
    /\ \A c \in refused : IssueId("forbidden", c) \in issues
    /\ \A c \in Coordinators \ ailing : issues \cap (Kinds \X {c}) = {}

\* FR-056: every disappearance of a monitored property is warned of.
DisappearanceReported == \A p \in missed : logs[p] >= 1

\* FR-056: and warned of once.
DisappearanceReportedOnce == \A p \in missed : logs[p] <= 1

\* Once upstream answers and no coordinator waits for new credentials, the
\* entry comes up, every issue is withdrawn and every entity shows what holds.
Recovered ==
    /\ loaded /\ issues = {}
    /\ shown = {e \in Entities : e[2] \in known /\ PropertyActive(e[2])}
Recovers == <>[](calm /\ stopped = {}) => <>[]Recovered

=============================================================================
