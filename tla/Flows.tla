------------------------------- MODULE Flows -------------------------------
(***************************************************************************)
(* The config flow, the reauthentication flow and the options flow of all  *)
(* accounts, any number of them at once.  A flow awaits upstream between   *)
(* what it checked and what it stores, and in the meantime other flows     *)
(* store as well.  Home Assistant is external: it keeps the unique ids of  *)
(* the flows in progress, runs one submission of a flow at a time, and     *)
(* replaces an entry when another one with its unique id is created.       *)
(*                                                                         *)
(* What an error is called does not matter here: a form is shown again.    *)
(* The reload that a stored change brings is EntryLifecycle's.             *)
(***************************************************************************)
EXTENDS Integers, FiniteSets

CONSTANTS
    Accounts, Tokens, FlowIds,
    TokenAccount,       \* [Tokens -> Accounts]
    PropertiesOfAccount,\* [Accounts -> what an account may ever list]
    Zones,              \* the IANA names that Home Assistant knows
    BadZones,           \* other texts that a user may enter
    Blank,
    Numbers,            \* the six numbers of the form, as they may be entered
    Toggles,            \* the sets of toggles that may be ticked
    DefaultNumbers,
    ReservationCounts,  \* how many reservations the last poll may have seen
    Holdings,           \* [Accounts -> what the two coordinators may hold at a time]
    None

VARIABLES
    configured,\* the accounts that have an entry
    credential,\* [Accounts -> the token of the entry, or None]
    options,   \* [Accounts -> the options of the entry, or None]
    stage,     \* [FlowIds -> what the flow awaits]
    token,     \* [FlowIds -> the token under validation, then self._token]
    account,   \* [FlowIds -> the unique id of the flow, or of its entry]
    form,      \* [FlowIds -> the form on display, or what was asked on the last one]
    pending,   \* [FlowIds -> what will be stored or shown, or None]
    overtaken  \* history: options flows that another one stored under

entries == <<configured, credential, options>>
vars == <<entries, stage, token, account, form, pending, overtaken>>

\* A user flow is at "user", "get_user", "get_properties" or "properties", a
\* reauthentication at "confirm" or "confirming", an options flow at "options"
\* or, while time zones are looked up, at "zones".
UserStages == {"user", "get_user", "get_properties", "properties"}
ReauthStages == {"confirm", "confirming"}
OptionsStages == {"options", "zones"}
Stages == UserStages \cup ReauthStages \cup OptionsStages \cup {"none"}

NoForm == [offered |-> {}, fields |-> {}]

End(f) ==
    /\ stage' = [stage EXCEPT ![f] = "none"]
    /\ token' = [token EXCEPT ![f] = None]
    /\ account' = [account EXCEPT ![f] = None]
    /\ form' = [form EXCEPT ![f] = NoForm]
    /\ pending' = [pending EXCEPT ![f] = None]
    /\ overtaken' = overtaken \ {f}

\* The user closes the dialogue: what the flow awaits has no effect any more, but
\* for a replacement token, which would be stored all the same.
Close(f) == stage[f] \notin {"none", "confirming"} /\ End(f) /\ UNCHANGED entries

-----------------------------------------------------------------------------
(* The config flow                                                         *)

StartUser(f) ==
    /\ stage[f] = "none"
    /\ stage' = [stage EXCEPT ![f] = "user"]
    /\ UNCHANGED <<entries, token, account, form, pending, overtaken>>

SubmitToken(f, t) ==
    /\ stage[f] = "user"
    /\ stage' = [stage EXCEPT ![f] = "get_user"]
    /\ token' = [token EXCEPT ![f] = t]
    /\ UNCHANGED <<entries, account, form, pending, overtaken>>

\* async_set_unique_id: no two config flows in progress have one unique id.
InProgress(f, a) ==
    \E g \in FlowIds \ {f} : stage[g] \in UserStages \cup ReauthStages /\ account[g] = a

\* Variant: an account that is configured is not turned away.
ConfiguredNever(a) == FALSE

\* _abort_if_unique_id_configured
Configured(a) == a \in configured

\* get_user has answered with the account of the token.
GotUser(f) ==
    LET a == TokenAccount[token[f]] IN
    /\ stage[f] = "get_user"
    /\ IF InProgress(f, a) \/ Configured(a) THEN End(f)
       ELSE /\ stage' = [stage EXCEPT ![f] = "get_properties"]
            /\ account' = [account EXCEPT ![f] = a]
            /\ UNCHANGED <<token, form, pending, overtaken>>
    /\ UNCHANGED entries

\* Any error of either request shows the form again; the unique id stays.
UserFails(f) ==
    /\ stage[f] \in {"get_user", "get_properties"}
    /\ stage' = [stage EXCEPT ![f] = "user"]
    /\ UNCHANGED <<entries, token, account, form, pending, overtaken>>

GotProperties(f, properties) ==
    /\ stage[f] = "get_properties" /\ properties \subseteq PropertiesOfAccount[account[f]]
    /\ IF properties = {} THEN End(f)
       ELSE /\ stage' = [stage EXCEPT ![f] = "properties"]
            /\ form' = [form EXCEPT ![f] = [NoForm EXCEPT !.offered = properties]]
            /\ UNCHANGED <<token, account, pending, overtaken>>
    /\ UNCHANGED entries

DefaultOptions(chosen) ==
    [selected |-> chosen, numbers |-> DefaultNumbers, toggles |-> {},
     overrides |-> [p \in {} |-> Blank]]

\* Without a selection the form is shown again and nothing changes.
CreateEntry(f, chosen) ==
    /\ stage[f] = "properties" /\ chosen \subseteq form[f].offered /\ chosen # {}
    /\ configured' = configured \cup {account[f]}
    /\ credential' = [credential EXCEPT ![account[f]] = token[f]]
    /\ options' = [options EXCEPT ![account[f]] = DefaultOptions(chosen)]
    /\ End(f)

-----------------------------------------------------------------------------
(* The reauthentication flow                                               *)

\* Home Assistant starts one at most for an entry.
StartReauth(f, a) ==
    /\ stage[f] = "none" /\ Configured(a)
    /\ \A g \in FlowIds : stage[g] \in ReauthStages => account[g] # a
    /\ stage' = [stage EXCEPT ![f] = "confirm"]
    /\ account' = [account EXCEPT ![f] = a]
    /\ UNCHANGED <<entries, token, form, pending, overtaken>>

SubmitReplacement(f, t) ==
    /\ stage[f] = "confirm"
    /\ stage' = [stage EXCEPT ![f] = "confirming"]
    /\ token' = [token EXCEPT ![f] = t]
    /\ UNCHANGED <<entries, account, form, pending, overtaken>>

ReauthFails(f) ==
    /\ stage[f] = "confirming"
    /\ stage' = [stage EXCEPT ![f] = "confirm"]
    /\ UNCHANGED <<entries, token, account, form, pending, overtaken>>

\* Variant: any token that upstream accepts will do.
SameAccountNever(f) == TRUE

SameAccount(f) == TokenAccount[token[f]] = account[f]

\* Another account's token ends the flow and is not stored.
Confirmed(f) ==
    /\ stage[f] = "confirming"
    /\ credential' = IF SameAccount(f)
                     THEN [credential EXCEPT ![account[f]] = token[f]] ELSE credential
    /\ End(f)
    /\ UNCHANGED <<configured, options>>

-----------------------------------------------------------------------------
(* The options flow                                                        *)

MIN_RESERVATION_INTERVAL == 1
MIN_PROPERTY_INTERVAL == 15
MIN_TASK_INTERVAL == 5
LOOKBACK_RANGE == 7..365
LOOKAHEAD_RANGE == 1..730
TASK_WINDOW_RANGE == 1..730

\* Variant: the property interval has no minimum.
WithinBoundsNoMinimum(n) ==
    /\ n.reservation_interval >= MIN_RESERVATION_INTERVAL
    /\ n.lookback_days \in LOOKBACK_RANGE /\ n.lookahead_days \in LOOKAHEAD_RANGE
    /\ n.task_interval >= MIN_TASK_INTERVAL /\ n.task_window_days \in TASK_WINDOW_RANGE

\* _validate_bounds finds nothing.  The form has made integers of the numbers.
WithinBounds(n) ==
    /\ n.reservation_interval >= MIN_RESERVATION_INTERVAL
    /\ n.property_interval >= MIN_PROPERTY_INTERVAL
    /\ n.lookback_days \in LOOKBACK_RANGE /\ n.lookahead_days \in LOOKAHEAD_RANGE
    /\ n.task_interval >= MIN_TASK_INTERVAL /\ n.task_window_days \in TASK_WINDOW_RANGE

ASSUME FlowsAssumption ==
    /\ TokenAccount \in [Tokens -> Accounts]
    /\ WithinBounds(DefaultNumbers)
    /\ \A a \in Accounts :
          Holdings[a] \subseteq (SUBSET PropertiesOfAccount[a]) \X ReservationCounts

\* Upstream lists finitely many properties, and the form makes integers of numbers.
PropertiesOfAll == UNION {PropertiesOfAccount[a] : a \in Accounts}

ASSUME CountsAssumption ==
    /\ IsFiniteSet(PropertiesOfAll) /\ ReservationCounts \subseteq Nat
    /\ \A n \in Numbers \cup {DefaultNumbers} :
          /\ n.property_interval \in Int /\ n.reservation_interval \in Int
          /\ n.task_interval \in Int

SafeInterval(value, fallback) == IF value >= 1 THEN value ELSE fallback

CeilDiv(x, y) == (x + y - 1) \div y
AtLeastOne(x) == IF x < 1 THEN 1 ELSE x

\* Variant: the task poll is forgotten.
EstimateWithoutTasks(count, property_interval, reservation_interval, seen, task_interval) ==
    (1440 \div property_interval) * (1 + count)
    + (1440 \div reservation_interval) * CeilDiv(count, 50) * AtLeastOne(CeilDiv(seen, 100))

estimate_requests_per_day(count, property_interval, reservation_interval, seen, task_interval) ==
    (1440 \div property_interval) * (1 + count)
    + (1440 \div reservation_interval) * CeilDiv(count, 50) * AtLeastOne(CeilDiv(seen, 100))
    + (1440 \div task_interval) * count

\* What is on display: the properties to choose from, those with a field for a
\* time zone, and the estimate with what it was made from.
Form(offered, selection, numbers, seen) ==
    [offered |-> offered, fields |-> selection, numbers |-> numbers, seen |-> seen,
     estimate |-> estimate_requests_per_day(
         Cardinality(selection),
         SafeInterval(numbers.property_interval, DefaultNumbers.property_interval),
         SafeInterval(numbers.reservation_interval, DefaultNumbers.reservation_interval),
         seen,
         SafeInterval(numbers.task_interval, DefaultNumbers.task_interval))]

\* Variant: what is selected in any entry.
AvailableOfAll(a, listed) == listed \cup UNION {options[b].selected : b \in configured}

\* _available_properties: what the coordinator holds and what is selected, both
\* read anew for every form.
Available(a, listed) == listed \cup options[a].selected

StartOptions(f, a, listed, seen) ==
    /\ stage[f] = "none" /\ Configured(a)
    /\ listed \subseteq PropertiesOfAccount[a]
    /\ stage' = [stage EXCEPT ![f] = "options"]
    /\ account' = [account EXCEPT ![f] = a]
    /\ form' = [form EXCEPT ![f] = Form(Available(a, listed), options[a].selected,
                                        options[a].numbers, seen)]
    /\ UNCHANGED <<entries, token, pending, overtaken>>

\* Variant: only what is on the form is kept.
ResolvedAnew(saved, texts) ==
    [p \in {q \in DOMAIN texts : texts[q] # Blank} |-> texts[p]]

\* _validate_timezones: a blank clears an override, what has no field is kept.
Resolved(saved, texts) ==
    [p \in (DOMAIN saved \ DOMAIN texts) \cup {q \in DOMAIN texts : texts[q] # Blank} |->
        IF p \in DOMAIN texts THEN texts[p] ELSE saved[p]]

\* Storing the options of one flow goes under the others that await.
Stored(f, a, new) ==
    /\ options' = [options EXCEPT ![a] = new]
    /\ stage' = [stage EXCEPT ![f] = "none"]
    /\ account' = [account EXCEPT ![f] = None]
    /\ form' = [form EXCEPT ![f] = NoForm]
    /\ pending' = [pending EXCEPT ![f] = None]
    /\ overtaken' = (overtaken \ {f})
                    \cup {g \in FlowIds \ {f} : stage[g] = "zones" /\ account[g] = a}
    /\ UNCHANGED <<configured, credential, token>>

\* A submission has every field of its form.  All that it is checked against
\* and merged with is read before a zone is looked up; with no zone to look up
\* it ends at once.
SubmitOptions(f, chosen, numbers, toggles, texts, listed, seen) ==
    LET a == account[f]
        saved == options[a]
        selection == IF chosen = {} THEN saved.selected ELSE chosen
        good == /\ chosen # {} /\ WithinBounds(numbers)
                /\ \A p \in DOMAIN texts : texts[p] \notin BadZones
        new == [selected |-> selection, numbers |-> numbers, toggles |-> toggles,
                overrides |-> Resolved(saved.overrides, texts)]
        again == Form(Available(a, listed), selection, numbers, seen)
    IN  /\ stage[f] = "options"
        /\ chosen \subseteq form[f].offered /\ listed \subseteq PropertiesOfAccount[a]
        /\ DOMAIN texts = form[f].fields
        /\ IF \E p \in DOMAIN texts : texts[p] # Blank
           THEN /\ stage' = [stage EXCEPT ![f] = "zones"]
                /\ form' = [form EXCEPT ![f] = [NoForm EXCEPT !.fields = DOMAIN texts]]
                /\ pending' = [pending EXCEPT ![f] = IF good THEN [store |-> new]
                                                     ELSE [show |-> again]]
                /\ UNCHANGED <<entries, token, account, overtaken>>
           ELSE IF good THEN Stored(f, a, new)
           ELSE /\ form' = [form EXCEPT ![f] = again]
                /\ UNCHANGED <<entries, stage, token, account, pending, overtaken>>

\* The last zone has been looked up.
ZonesKnown(f) ==
    /\ stage[f] = "zones"
    /\ IF "store" \in DOMAIN pending[f] THEN Stored(f, account[f], pending[f].store)
       ELSE /\ stage' = [stage EXCEPT ![f] = "options"]
            /\ form' = [form EXCEPT ![f] = pending[f].show]
            /\ pending' = [pending EXCEPT ![f] = None]
            /\ overtaken' = overtaken \ {f}
            /\ UNCHANGED <<entries, token, account>>

-----------------------------------------------------------------------------

Init ==
    /\ configured = {}
    /\ credential = [a \in Accounts |-> None] /\ options = [a \in Accounts |-> None]
    /\ stage = [f \in FlowIds |-> "none"]
    /\ token = [f \in FlowIds |-> None] /\ account = [f \in FlowIds |-> None]
    /\ form = [f \in FlowIds |-> NoForm] /\ pending = [f \in FlowIds |-> None]
    /\ overtaken = {}

UserNext(f) ==
    \/ StartUser(f) \/ GotUser(f) \/ UserFails(f)
    \/ \E t \in Tokens : SubmitToken(f, t)
    \/ \E properties \in SUBSET UNION {PropertiesOfAccount[a] : a \in Accounts} :
          GotProperties(f, properties) \/ CreateEntry(f, properties)

ReauthNext(f) ==
    \/ \E a \in Accounts : StartReauth(f, a)
    \/ \E t \in Tokens : SubmitReplacement(f, t)
    \/ ReauthFails(f) \/ Confirmed(f)

\* Every form is built from what the coordinators hold at that moment: an entry that
\* was unloaded since the last form holds nothing, and what upstream no longer lists
\* is gone.
OptionsNext(f) ==
    \/ \E a \in Accounts : \E held \in Holdings[a] : StartOptions(f, a, held[1], held[2])
    \/ /\ stage[f] = "options"
       /\ \E held \in Holdings[account[f]], numbers \in Numbers, toggles \in Toggles :
             \E texts \in [form[f].fields -> Zones \cup BadZones \cup {Blank}] :
                \E chosen \in SUBSET form[f].offered :
                   SubmitOptions(f, chosen, numbers, toggles, texts, held[1], held[2])
    \/ ZonesKnown(f)

FlowNext(f) == Close(f) \/ UserNext(f) \/ ReauthNext(f) \/ OptionsNext(f)

Next == \E f \in FlowIds : FlowNext(f)

Spec == Init /\ [][Next]_vars

-----------------------------------------------------------------------------
(* Properties                                                              *)

TypeOK ==
    /\ configured \subseteq Accounts
    /\ \A a \in Accounts :
          IF a \in configured
          THEN credential[a] \in Tokens /\ options[a].selected \subseteq PropertiesOfAccount[a]
          ELSE credential[a] = None /\ options[a] = None
    /\ stage \in [FlowIds -> Stages]
    /\ token \in [FlowIds -> Tokens \cup {None}]
    /\ account \in [FlowIds -> Accounts \cup {None}]
    /\ \A f \in FlowIds : stage[f] = "options" =>
          form[f].offered \cup form[f].fields \subseteq PropertiesOfAccount[account[f]]
    /\ \A f \in FlowIds : IF stage[f] = "zones" THEN DOMAIN pending[f] \in {{"store"}, {"show"}}
                           ELSE pending[f] = None
    /\ overtaken \subseteq {f \in FlowIds : stage[f] = "zones"}

\* FR-013 and FR-014: an entry's token is one of the account whose entities the
\* entry holds, whatever flows were under way when it was entered or replaced.
TokenMatchesAccount ==
    \A a \in configured : TokenAccount[credential[a]] = a

\* FR-013: no flow replaces an entry, whose options only an options flow changes.  Two
\* flows that both found an account not configured would: the second would put the
\* defaults in the place of its options.
EntriesAreKept ==
    [][\A a \in configured :
          /\ a \in configured'
          /\ options'[a] # options[a] =>
                \E f \in FlowIds : /\ account[f] = a
                                   /\ stage[f] \in OptionsStages /\ stage'[f] = "none"]_vars

Usable(o) ==
    /\ o.selected # {}
    /\ o.numbers.reservation_interval >= 1
    /\ o.numbers.property_interval >= 15 /\ o.numbers.task_interval >= 5
    /\ \A p \in DOMAIN o.overrides : o.overrides[p] \in Zones

\* FR-016 and FR-074: every interval that is stored is at least its minimum, every
\* override is a zone that is known, and some property is selected: none would
\* be taken for all of them.
StoredOptionsAreUsable == \A a \in configured : Usable(options[a])

\* options_flow.py:195: the override of a property that has no field on the form
\* is retained, unless another flow stored while this one awaited a zone: what
\* that one stored is lost.
OverridesAreRetained ==
    [][\A f \in FlowIds : (stage[f] \in OptionsStages /\ stage'[f] = "none") =>
          f \in overtaken \/
          LET a == account[f] IN
          \A p \in DOMAIN options[a].overrides \ form[f].fields :
              /\ p \in DOMAIN options'[a].overrides
              /\ options'[a].overrides[p] = options[a].overrides[p]]_vars

\* The requests that the polls of a day make: what falls due in each minute.
Periodic(n) ==
    n.property_interval >= 1 /\ n.reservation_interval >= 1 /\ n.task_interval >= 1
DuePolls(interval) == {m \in 1..1440 : m % interval = 0}
RequestsOfADay ==
    [n \in 0..Cardinality(PropertiesOfAll) |->
      [numbers \in {x \in Numbers \cup {DefaultNumbers} : Periodic(x)} |->
        [seen \in ReservationCounts |->
            Cardinality(DuePolls(numbers.property_interval) \X (0..n)) +
            Cardinality(DuePolls(numbers.reservation_interval) \X
                        {i \in 1..n : i % 50 = 1} \X {i \in 0..seen : i % 100 = 1 \/ i + seen = 0}) +
            Cardinality(DuePolls(numbers.task_interval) \X (1..n))]]]

\* FR-072: the estimate on a form is what the polls of a day would cost with the
\* numbers on it, the messages for awaiting_host_reply apart, with the properties
\* on one page and one page count for every batch of reservations.
EstimateIsWhatPollsCost ==
    \A f \in FlowIds : (stage[f] = "options" /\ Periodic(form[f].numbers)) =>
        form[f].estimate = RequestsOfADay[Cardinality(form[f].fields)][form[f].numbers]
                                         [form[f].seen]

=============================================================================
