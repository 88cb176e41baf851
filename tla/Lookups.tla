------------------------------ MODULE Lookups ------------------------------
(***************************************************************************)
(* The lookup services and the polls against an upstream that changes: a   *)
(* paged read awaits an answer per page, and in between reservations and   *)
(* properties come and go, the user changes the guest-contact option, and  *)
(* entries are unloaded and loaded.                                        *)
(*                                                                         *)
(* What a read writes, it writes in one step at its end, and no read looks *)
(* at what another is doing: one read at a time stands for any number.     *)
(* The set-up of an entry, taken apart in EntryLifecycle, is one step.     *)
(***************************************************************************)
EXTENDS ApiClient, Resolution, ResponsePrivacy, TLC

CONSTANTS
    Properties, Reservations,
    AccountOf,     \* [Properties -> Entries]
    PropertyOf,    \* [Reservations -> Properties]
    InWindow,      \* the reservations that arrive within the polled window
    Flaws,         \* [Reservations -> what from_api objects to, or "none"]
    SelectedProperties,       \* [Entries -> the option; {} selects them all]
    Calls,         \* the calls that may be made: a service with its fields
    Deviations,    \* ways in which an answer may differ from the one due
    InitialUpstream,
    Busy,          \* bound: the entries that do more than load and unload
    MaxChanges     \* bound: how often upstream may change in a behaviour

ListServices == {"get_reservations", "get_property_info"}
Services == ListServices \cup {"find_reservation", "list_properties"}
Polls == {"properties", "reservations"}

\* build_device_identifier makes the devices of an account, and no two accounts
\* share a namespace.
ASSUME LookupsAssumption ==
    \A device \in DOMAIN DeviceRegistry, entry \in Entries :
        \A identifier \in DeviceRegistry[device].identifiers :
            identifier[1] = Namespace[entry] => AccountOf[identifier[2]] = entry

\* An id is of a property or of a reservation, and upstream lists none twice; a
\* deviation is in what is around the items of an answer, and the last page is
\* off only as a number that nobody can read.
ASSUME ReadsAssumption ==
    /\ {PER_PAGE_MAX, PROPERTY_BATCH_MAX} \subseteq Nat \ {0} /\ MaxChanges \in Nat
    /\ IsFiniteSet(Properties) /\ IsFiniteSet(Reservations)
    /\ Properties \cap Reservations = {} /\ InWindow \subseteq Reservations
    /\ \A device \in DOMAIN DeviceRegistry :
          \A identifier \in DeviceRegistry[device].identifiers : identifier[2] \in Properties
    /\ \A c \in Calls :
          /\ c.service \in Services
          /\ c.service = "find_reservation" => c.reservation_uuid \in Reservations \cup {Unset}
          /\ c.service \in ListServices => c.property_id \in Properties \cup {Unset}
    /\ SelectedProperties \in [Entries -> SUBSET Properties] /\ Busy \subseteq Entries
    /\ InitialUpstream \in [Entries -> [properties : Seq(Properties),
                                        reservations : Seq(Reservations)]]
    /\ \A e \in Entries : /\ IsInjective(InitialUpstream[e].properties)
                          /\ IsInjective(InitialUpstream[e].reservations)
    /\ Unreadable \notin Int
    /\ \A d \in Deviations : /\ "items" \notin DOMAIN d
                             /\ "last_page" \in DOMAIN d => d.last_page = Unreadable

VARIABLES
    upstream,  \* [Entries -> the account's properties and reservations, in order]
    changes,   \* how often upstream has changed
    contact,   \* [Entries -> the guest_contact_details option]
    loaded,    \* the loaded entries
    devices,   \* [Entries -> the properties with a device]
    selected,  \* [Entries -> selected_property_ids of the runtime data]
    known,     \* [Entries -> known_property_ids of the runtime data]
    reports,   \* [entity ids -> the reservation its state carries, or Unset]
    call       \* the service call or poll in progress

runtimeVars == <<devices, selected, known, reports>>
vars == <<upstream, changes, contact, loaded, runtimeVars, call>>

NoCall == [stage |-> "idle", kind |-> "none", entry |-> Unset]

-----------------------------------------------------------------------------
(* Upstream                                                                *)

\* What the current request of a read is a page of.
Listed(read) ==
    IF read.kind \in {"properties", "get_property_info"}
    THEN upstream[read.entry].properties
    ELSE Kept(upstream[read.entry].reservations,
              {r \in Reservations : PropertyOf[r] \in ToSet(Head(read.reader.batches))})

AnswerDue(read) ==
    IF read.kind = "find_reservation"
    THEN IF read.target \in ToSet(upstream[read.entry].reservations)
         THEN Proper ELSE [Proper EXCEPT !.status = 404]
    ELSE PageOf(Listed(read), read.reader.page)

\* A read remembers what was upstream all along, and what ever was.
Witness(entry, item, added) ==
    IF call.stage # "reading" \/ call.entry # entry THEN call
    ELSE IF added THEN [call EXCEPT !.ever = @ \cup {item}, !.added = TRUE]
    ELSE [call EXCEPT !.always = @ \ {item}, !.removed = TRUE]

Change(entry, kind, item, list) ==
    /\ changes < MaxChanges /\ changes' = changes + 1
    /\ upstream' = [upstream EXCEPT ![entry][kind] = list]
    /\ UNCHANGED <<contact, loaded, runtimeVars>>

Add(entry, kind, item) ==
    LET list == upstream[entry][kind] IN
    /\ item \notin ToSet(list)
    /\ \E i \in 1..(Len(list) + 1) : Change(entry, kind, item, InsertAt(list, i, item))
    /\ call' = Witness(entry, item, TRUE)

Withdraw(entry, kind, item) ==
    LET list == upstream[entry][kind] IN
    /\ \E i \in DOMAIN list : list[i] = item /\ Change(entry, kind, item, RemoveAt(list, i))
    /\ call' = Witness(entry, item, FALSE)

-----------------------------------------------------------------------------
(* The life of an entry, as far as the services see it                     *)

EntitiesOf(entry) == {id \in DOMAIN EntityRegistry : OwnEntity(entry, id)}

\* The sensors of a property show one of its reservations; which, is Stays'.
Reported(entry, held) ==
    [id \in DOMAIN EntityRegistry |->
        LET own == Kept(held, {r \in Reservations :
                                  PropertyOf[r] = ResolveEntity(entry, id)})
        IN  CASE id \notin EntitiesOf(entry) -> reports[id]
              [] id \in EntitiesOf(entry) /\ own # << >> -> Head(own)
              [] OTHER -> Unset]

\* _known_property_ids, before devices are made for what has been selected
KnownIds(entry, chosen) == devices[entry] \cup chosen

\* async_setup_entry: the first refreshes, the devices, the runtime data.
Load(entry) ==
    LET listed == ToSet(upstream[entry].properties)
        chosen == IF SelectedProperties[entry] = {} THEN listed
                  ELSE SelectedProperties[entry]
    IN  /\ entry \notin loaded
        /\ loaded' = loaded \cup {entry}
        /\ selected' = [selected EXCEPT ![entry] = chosen]
        /\ known' = [known EXCEPT ![entry] = KnownIds(entry, chosen)]
        /\ devices' = [devices EXCEPT ![entry] = KnownIds(entry, chosen)]
        /\ reports' = Reported(entry, Kept(upstream[entry].reservations,
                                           {r \in InWindow : PropertyOf[r] \in chosen}))
        /\ UNCHANGED <<upstream, changes, contact, call>>

\* async_unload_entry; a poll of the entry is cancelled, a service call goes on.
Unload(entry) ==
    /\ entry \in loaded
    /\ loaded' = loaded \ {entry}
    /\ selected' = [selected EXCEPT ![entry] = {}]
    /\ known' = [known EXCEPT ![entry] = {}]
    /\ reports' = Reported(entry, << >>)
    /\ call' = IF call.kind \in Polls /\ call.entry = entry
               THEN NoCall ELSE call
    /\ UNCHANGED <<upstream, changes, contact, devices>>

SetContact(entry) ==
    /\ contact' = [contact EXCEPT ![entry] = ~@]
    /\ call' = IF call.stage = "reading" /\ call.entry = entry
               THEN [call EXCEPT !.consented = @ \/ contact'[entry]] ELSE call
    /\ UNCHANGED <<upstream, changes, loaded, runtimeVars>>

-----------------------------------------------------------------------------
(* The services                                                            *)

\* A call from its first await on, or as it is answered without one.
Began(kind, entry, target, batches) ==
    [stage |-> "reading", kind |-> kind, entry |-> entry, target |-> target,
     reader |-> Reader(batches), guest_contact |-> contact[entry],
     always |-> ToSet(upstream[entry].properties) \cup ToSet(upstream[entry].reservations),
     ever |-> ToSet(upstream[entry].properties) \cup ToSet(upstream[entry].reservations),
     added |-> FALSE, removed |-> FALSE, cut |-> FALSE,
     consented |-> contact[entry], outcome |-> "none"]

Answered(began, outcome) == [began EXCEPT !.stage = "answered", !.outcome = outcome]

AskFindReservation(entry, fields) ==
    LET uuid == resolve_reservation_uuid(entry, fields.reservation_uuid,
                                         fields.entity_id, reports)
    IN  /\ uuid # Invalid
        /\ call' = Began("find_reservation", entry, uuid, << << >> >>)

AskGetPropertyInfo(entry, fields) ==
    LET property == resolve_property_id(entry, fields.property_id, fields.target) IN
    /\ property # Invalid
    /\ call' = Began("get_property_info", entry, property, << << >> >>)

\* known_property_ids(entry): a property that is not among them is not asked for.
AskGetReservations(entry, fields) ==
    LET property == resolve_property_id(entry, fields.property_id, fields.target)
        began == Began("get_reservations", entry, property, << <<property>> >>)
    IN  /\ property # Invalid
        /\ call' = IF property \in known[entry] \cup selected[entry] THEN began
                   ELSE Answered(began, "not_found")

\* The answer comes from the cache, without a request.
AskListProperties(entry) ==
    call' = Answered(Began("list_properties", entry, Unset, << >>), "found")

\* What is synchronous in a handler; a call that is refused changes nothing.
Ask(service, fields) ==
    LET entry == resolve_config_entry(loaded, fields.config_entry_id) IN
    /\ call = NoCall /\ entry # Invalid
    /\ \/ service = "find_reservation" /\ AskFindReservation(entry, fields)
       \/ service = "get_property_info" /\ AskGetPropertyInfo(entry, fields)
       \/ service = "get_reservations" /\ AskGetReservations(entry, fields)
       \/ service = "list_properties" /\ AskListProperties(entry)
    /\ UNCHANGED <<upstream, changes, contact, loaded, runtimeVars>>

\* A coordinator's poll of all properties, or of the reservations of those
\* that are selected; with none selected there is nothing to await.
StartPoll(entry, kind) ==
    LET batches == IF kind = "properties" THEN << << >> >>
                   ELSE ChunkPropertyIds(SetToSeq(selected[entry]))
    IN  /\ call = NoCall /\ entry \in loaded
        /\ IF batches = << >>
           THEN reports' = Reported(entry, << >>) /\ UNCHANGED call
           ELSE call' = Began(kind, entry, Unset, batches) /\ UNCHANGED reports
        /\ UNCHANGED <<upstream, changes, contact, loaded, devices, selected, known>>

ReadOn(answer) ==
    LET reader == call.reader IN
    CASE call.kind = "find_reservation" ->
            Raised(GetReservation(answer, {"guest"}))
      [] call.kind = "get_property_info" -> get_property_payloads(reader, answer)
      [] call.kind = "get_reservations" -> get_reservation_payloads(reader, answer)
      [] call.kind = "properties" -> get_properties(reader, answer)
      [] call.kind = "reservations" ->
            get_reservations(reader, answer, Flaws,
                {r \in InWindow : PropertyOf[r] \in ToSet(Head(reader.batches))})

\* Variant: a handler that swallows every failure into found: false.
OutcomeSwallowing(kind, reader, target) ==
    IF \/ reader.error # "none"
       \/ kind = "get_property_info" /\ target \notin ToSet(reader.got)
    THEN "not_found" ELSE "found"

\* The except clauses of the handlers, and what they look for in the payloads.
Outcome(kind, reader, target) ==
    IF kind = "find_reservation" /\ Catches("not_found", reader.error) THEN "not_found"
    ELSE IF reader.error # "none" THEN "raised"
    ELSE IF kind = "get_property_info" /\ target \notin ToSet(reader.got) THEN "not_found"
    ELSE "found"

\* find_reservation and get_property_info read the option when they have the
\* payload, get_reservations when it is called.
ContactWhenServed ==
    IF call.kind = "get_reservations" THEN call.guest_contact ELSE contact[call.entry]

Served(reader) ==
    Answered([call EXCEPT !.reader = reader, !.guest_contact = ContactWhenServed],
             Outcome(call.kind, reader, call.target))

\* A poll that failed leaves the coordinator's data as they were; of those of
\* the properties nothing here depends on but names.
Store(reader) ==
    IF call.kind = "reservations" /\ reader.error = "none"
    THEN reports' = Reported(call.entry, reader.got) ELSE UNCHANGED reports

\* An answer is served and taken up.  (What changes in between changes nothing
\* that the reader looks at, except the option, which may as well change first.)
\* Upstream denies no reservation that it holds.
TakeAnswer(deviation) ==
    LET due == AnswerDue(call)
        reader == ReadOn(Deviating(due, deviation))
        cut == call.cut \/ ("last_page" \in DOMAIN deviation
                            /\ due.last_page > call.reader.page)
    IN  /\ call.stage = "reading"
        /\ call.kind = "find_reservation" /\ "status" \in DOMAIN deviation =>
              deviation.status # 404
        /\ IF Finished(reader)
           THEN call' = [Served(reader) EXCEPT !.cut = cut]
           ELSE call' = [call EXCEPT !.reader = reader, !.cut = cut]
        /\ IF Finished(reader) /\ call.kind \in Polls
           THEN Store(reader) ELSE UNCHANGED reports
        /\ UNCHANGED <<upstream, changes, contact, loaded, devices, selected, known>>

-----------------------------------------------------------------------------
(* What the services return and the diagnostics show, as ResponsePrivacy's  *)
(* sets of paths                                                           *)

Under(prefix, paths) == {prefix \o path : path \in paths}
Members(prefix, keys) == {Append(prefix, key) : key \in keys}

\* Upstream's own shapes, with a member of each that no filter knows of.
RawProperty ==
    Members(<< >>, {"id", "name"}) \cup
    Members(<<"listings", Item>>, {"platform", "platform_id", "platform_email",
                                   "platform_picture", "unknown"}) \cup
    Members(<<"listings", Item, "co_hosts", Item>>,
            {"user_id", "channel_name", "name", "email", "phone_numbers", "unknown"})

RawReservation ==
    Members(<< >>, {"id", "status", "profile_picture"}) \cup
    Members(<<"guest">>, {"first_name", "last_name", "location", "language", "email",
                          "phone_numbers", "profile_picture", "unknown"}) \cup
    Members(<<"sender">>, {"first_name", "email"}) \cup
    Under(<<"properties", Item>>, RawProperty)

\* _curate_property; a property without cached data has no listings.
CuratedProperty ==
    Members(<< >>, {"property_id", "name", "public_name", "selected"}) \cup
    Members(<<"listings", Item>>, {"platform", "platform_id"}) \cup
    Members(<<"listings", Item, "co_hosts", Item>>, {"user_id", "channel_name", "name"})

RawResponse(answered) ==
    Members(<< >>, {"found"}) \cup
    IF answered.outcome = "not_found" THEN {} ELSE
    CASE answered.kind = "find_reservation" -> Under(<<"reservation">>, RawReservation)
      [] answered.kind = "get_property_info" -> Under(<<"property">>, RawProperty)
      [] answered.kind = "list_properties" -> Under(<<"properties", Item>>, CuratedProperty)
      [] answered.kind = "get_reservations" ->
            Under(<<"reservations", Item>>, RawReservation)

\* async_get_config_entry_diagnostics: an entry that is not loaded has no
\* coordinators to show, and a reservation without a guest shows that.
Dump(entry) ==
    Members(<< >>, {"version", "minor_version", "namespace_source"}) \cup
    Members(<<"options">>, {"reservation_interval", "guest_contact_details"}) \cup
    IF entry \notin loaded THEN {}
    ELSE Members(<<"counts">>, {"properties", "reservations"})
         \cup Members(<<"coordinators", "properties">>, {"last_update_success", "item_count"})
         \cup Members(<<"coordinators", "reservations", "items", Item>>,
                      {"reservation_id", "status_category", "has_last_message_at", "guest"})
         \cup Members(<<"coordinators", "reservations", "items", Item, "guest">>,
                      {"guest_id", "first_name", "last_name", "email", "phone_numbers"})

Return ==
    /\ call.stage = "answered" /\ call' = NoCall
    /\ UNCHANGED <<upstream, changes, contact, loaded, runtimeVars>>

Init ==
    /\ upstream = InitialUpstream /\ changes = 0
    /\ contact = [e \in Entries |-> FALSE]
    /\ loaded = {}
    /\ devices = [e \in Entries |-> {}]
    /\ selected = [e \in Entries |-> {}] /\ known = [e \in Entries |-> {}]
    /\ reports = [id \in DOMAIN EntityRegistry |-> Unset]
    /\ call = NoCall

EntryNext(e) ==
    \/ \E p \in {x \in Properties : AccountOf[x] = e} :
          Add(e, "properties", p) \/ Withdraw(e, "properties", p)
    \/ \E r \in {x \in Reservations : AccountOf[PropertyOf[x]] = e} :
          Add(e, "reservations", r) \/ Withdraw(e, "reservations", r)
    \/ SetContact(e)
    \/ \E kind \in Polls : StartPoll(e, kind)

\* Nothing runs between the last answer of a call and its return.
Next ==
    \/ /\ call.stage # "answered"
       /\ \/ \E e \in Entries : Load(e) \/ Unload(e)
          \/ \E e \in Busy : EntryNext(e)
          \/ \E c \in Calls : Ask(c.service, c)
          \/ \E deviation \in Deviations : TakeAnswer(deviation)
    \/ Return

Spec == Init /\ [][Next]_vars

-----------------------------------------------------------------------------
(* Properties                                                              *)

Items == Properties \cup Reservations

\* No page is asked for that no list can have.
LastPage ==
    LET longest == Max({1, Cardinality(Properties), Cardinality(Reservations)})
    IN  (longest - 1) \div PER_PAGE_MAX + 1

CallTypeOK ==
    \/ call = NoCall
    \/ /\ call.stage \in {"reading", "answered"}
       /\ call.kind \in Services \cup Polls /\ call.entry \in Entries
       /\ call.target \in Items \cup {Unset}
       /\ call.reader.got \in Seq(Items)
       /\ call.reader.page \in 1..LastPage
       /\ call.always \subseteq call.ever /\ call.ever \subseteq Items
       /\ {call.guest_contact, call.consented} \subseteq BOOLEAN
       /\ {call.added, call.removed, call.cut} \subseteq BOOLEAN

TypeOK ==
    /\ \A e \in Entries : /\ upstream[e].properties \in Seq(Properties)
                          /\ upstream[e].reservations \in Seq(Reservations)
    /\ changes \in 0..MaxChanges
    /\ contact \in [Entries -> BOOLEAN]
    /\ loaded \subseteq Entries
    /\ {devices, selected, known} \subseteq [Entries -> SUBSET Properties]
    /\ reports \in [DOMAIN EntityRegistry -> Reservations \cup {Unset}]
    /\ CallTypeOK

\* What a read is asked for, of all that upstream holds.
AskedFor(read, item) ==
    CASE read.kind \in {"properties", "get_property_info"} -> item \in Properties
      [] read.kind = "get_reservations" ->
            item \in Reservations /\ PropertyOf[item] = read.target
      [] read.kind = "reservations" ->
            item \in InWindow /\ PropertyOf[item] \in selected[read.entry]
      [] OTHER -> FALSE

\* A paged read (client.py) that ends without an error has each item that was
\* upstream throughout, unless something was removed in the meantime, which moves
\* what follows it to a page already read, or the last page could not be told;
\* it has none twice, unless something was added in the meantime; and it has
\* nothing that it did not ask for or that was never there.
ReadsMirrorUpstream ==
    (call.stage = "answered" /\ call.reader.batches = << >> /\ call.reader.error = "none")
    => LET got == call.reader.got
           asked == {item \in call.always : AskedFor(call, item)}
       IN  /\ ~call.removed /\ ~call.cut => asked \subseteq ToSet(got)
           /\ ~call.added => IsInjective(got)
           /\ \A item \in ToSet(got) : item \in call.ever /\ AskedFor(call, item)

\* FR-028: found: false means that what was asked for was not there, at one time
\* during the call at least, and is never the answer to a failure.  (A property
\* may be missed as in ReadsMirrorUpstream; get_reservations goes by the ids
\* known since set-up.)
NotFoundOnlyIfAbsent ==
    call.stage = "answered" /\ call.kind \in Services /\ call.outcome = "not_found" =>
        CASE call.kind = "find_reservation" -> call.target \notin call.always
          [] call.kind = "get_property_info" ->
                call.target \notin call.always \/ call.removed \/ call.cut
          [] call.kind = "get_reservations" -> call.reader.got = << >>

\* FR-026 as get_reservations.py:7 puts it: "found: false - this account does not
\* hold that property".
HeldIsFound ==
    call.stage = "answered" /\ call.kind = "get_reservations"
    /\ call.outcome = "not_found" => call.target \notin call.always

\* FR-017 and FR-022: a call that names a property and a target acts on what both
\* of them name, and an entity or a device of one account never makes a call act
\* on another account.
CallsActOnWhatTheyName ==
    call = NoCall => \A c \in Calls :
        LET entry == resolve_config_entry(loaded, c.config_entry_id) IN
        /\ (c.service = "find_reservation" /\ entry # Invalid
              /\ resolve_reservation_uuid(entry, c.reservation_uuid, c.entity_id, reports)
                    # Invalid
              /\ c.entity_id # Unset) => c.entity_id \in EntitiesOf(entry)
        /\ c.service \in ListServices /\ entry # Invalid =>
              LET property == resolve_property_id(entry, c.property_id, c.target) IN
              property # Invalid =>
                  /\ c.property_id \in {Unset, property}
                  /\ \/ ResolveTarget(entry, c.target) = Unset
                     \/ ResolveTarget(entry, c.target) = property
                        /\ AccountOf[property] = entry

Contact == {"email", "phone_numbers", "platform_email", "platform_picture"}
Keys(path) == {path[i] : i \in 1..Len(path)}

\* FR-046 to FR-048 of spec 002: no response has a picture or a sender, a member that the
\* filter does not know of, or a guest's or host's contact details unless the option
\* was on during the call; and nothing else is withheld.  (The option may have been
\* turned off before the answer: get_reservations reads it first.)
ResponsesAreFiltered ==
    call.stage = "answered" /\ call.kind \in Services /\ call.outcome # "raised" =>
        LET raw == RawResponse(call)
            sent == serialize_response(raw, call.guest_contact)
            private == {path \in raw : Keys(path) \cap
                            {"profile_picture", "sender", "unknown"} # {}}
            gated == {path \in raw \ private : Keys(path) \cap Contact # {}}
        IN  /\ sent \cap private = {}
            /\ sent \cap gated # {} => call.consented
            /\ raw \ (private \cup gated) \subseteq sent

\* FR-042 of spec 002, FR-063 of spec 001: the diagnostics of an entry, loaded or not, show which
\* fields a guest has and no value of any, that a reservation has no guest, and
\* everything else, the option guest_contact_details with it.
DumpHidesGuests ==
    \A e \in Entries : \A path \in Dump(e) :
        Fate(path) = IF "guest" \in Keys(Front(path)) THEN "redacted" ELSE "shown"

=============================================================================
