--------------------------- MODULE ResponsePrivacy ---------------------------
(***************************************************************************)
(* What leaves the integration: the filter that every service response     *)
(* passes and the redactor of the diagnostics download.                    *)
(*                                                                         *)
(* A payload is the set of the paths from its root to its scalars; a path  *)
(* is a sequence of mapping keys, with Item for an element of a list.      *)
(* Neither walk lets what it does to one path depend on another, so both   *)
(* are stated for one path.                                                *)
(***************************************************************************)
EXTENDS Integers, Sequences

Item == "[]"

IsMapping(path, i) == i <= Len(path) /\ path[i] # Item
IsList(path, i) == i <= Len(path) /\ path[i] = Item

-----------------------------------------------------------------------------
(* actions/response.py                                                     *)

ALWAYS_DROPPED == {"profile_picture", "sender"}

IdentityAllowed(guest_contact) ==
    {"first_name", "last_name", "location", "language"} \cup
    IF guest_contact THEN {"email", "phone_numbers"} ELSE {}

\* Variant: the contact details of a co-host are not gated.
CoHostAllowedAll(guest_contact) ==
    {"user_id", "channel_name", "name", "email", "phone_numbers"}

CoHostAllowed(guest_contact) ==
    {"user_id", "channel_name", "name"} \cup
    IF guest_contact THEN {"email", "phone_numbers"} ELSE {}

ListingAllowed(guest_contact) ==
    {"platform", "platform_id", "co_hosts"} \cup
    IF guest_contact THEN {"platform_email", "platform_picture"} ELSE {}

\* The filters expect a mapping under guest and lists of mappings under co_hosts
\* and listings; anything else in their place is walked on.
OfGuest(path, i) == path[i] = "guest" /\ IsMapping(path, i + 1)
OfOne(path, i, key) == path[i] = key /\ IsList(path, i + 1) /\ IsMapping(path, i + 2)

Refused(path, i, guest_contact) ==
    \/ path[i] \in ALWAYS_DROPPED
    \/ OfGuest(path, i) /\ path[i + 1] \notin IdentityAllowed(guest_contact)
    \/ OfOne(path, i, "co_hosts") /\ path[i + 2] \notin CoHostAllowed(guest_contact)
    \/ OfOne(path, i, "listings") /\ path[i + 2] \notin ListingAllowed(guest_contact)

\* serialize_response with its helpers: nothing on the path is refused, but below
\* an allowed member of a guest or of a co-host nothing is looked at.
Released(path, guest_contact) ==
    \A i \in DOMAIN path : Refused(path, i, guest_contact) =>
        \E j \in 1..(i - 1) : OfGuest(path, j) \/ OfOne(path, j, "co_hosts")

serialize_response(payload, guest_contact) ==
    {path \in payload : Released(path, guest_contact)}

-----------------------------------------------------------------------------
(* diagnostics.py                                                          *)

ALLOWED_TOP_LEVEL ==
    {"version", "minor_version", "namespace_source", "options", "coordinators",
     "counts"}

GUEST_CONTAINER_KEYS == {"guest", "sender"}

\* The keys in use that begin with GUEST_ATTRIBUTE_PREFIX, and are guest data.
GuestAttributes ==
    {"guest_first_name", "guest_last_name", "guest_location", "guest_language",
     "guest_email", "guest_phone_numbers", "guest_contact_details"}

\* Variant: no key with the prefix is exempt.
NoExemptions == {}

NON_GUEST_PREFIXED_KEYS == {"guest_contact_details"}

\* _redact_value and _redact_member: is the scalar at the end of the path, below
\* its top-level key, blanked?  A mapping under a guest key is blanked member by
\* member, and a guest that is no mapping is left as it is, unwalked.
Redacted(path) ==
    \E i \in 2..Len(path) :
        /\ \/ path[i] \in GUEST_CONTAINER_KEYS /\ IsMapping(path, i + 1)
           \/ path[i] \in GuestAttributes \ NON_GUEST_PREFIXED_KEYS
        /\ \A j \in 2..(i - 1) : path[j] \notin GUEST_CONTAINER_KEYS

\* redact_diagnostics: "absent" from the dump, there but "redacted", or "shown".
Fate(path) ==
    CASE path[1] \notin ALLOWED_TOP_LEVEL -> "absent"
      [] path[1] \in ALLOWED_TOP_LEVEL /\ Redacted(path) -> "redacted"
      [] OTHER -> "shown"

=============================================================================
