----------------------------- MODULE Resolution -----------------------------
(***************************************************************************)
(* From the fields of a service call to the account, the reservation or    *)
(* the property it acts on (actions/helpers.py).  The registries of Home   *)
(* Assistant are constants; which entries are loaded and which reservation *)
(* an entity reports are arguments.  Invalid is a ServiceValidationError.  *)
(***************************************************************************)
EXTENDS Integers, Sequences

CONSTANTS
    Entries,         \* the config entries of this domain
    Namespace,       \* [Entries -> account_namespace]
    EntityRegistry,  \* [entity ids -> [platform, config_entry_id, device_id]]
    DeviceRegistry,  \* [device ids -> [config_entries, identifiers]]
    DOMAIN_NAME,     \* the platform of this integration's entities
    Unset, Invalid   \* a field that is not given; a call that is refused

\* The registry of devices holds pairs <<namespace, property>> of this domain.
ASSUME ResolutionAssumption ==
    /\ Unset # Invalid
    /\ {Unset, Invalid} \cap Entries = {}
    /\ \A device \in DOMAIN DeviceRegistry :
          \A identifier \in DeviceRegistry[device].identifiers :
              identifier[2] \notin {Unset, Invalid}

resolve_config_entry(loaded, config_entry_id) ==
    CASE config_entry_id # Unset ->
            IF config_entry_id \in loaded THEN config_entry_id ELSE Invalid
      [] config_entry_id = Unset /\ (\E entry \in Entries : loaded = {entry}) ->
            CHOOSE entry \in Entries : loaded = {entry}
      [] OTHER -> Invalid

OwnEntity(entry, entity_id) ==
    /\ entity_id \in DOMAIN EntityRegistry
    /\ EntityRegistry[entity_id].platform = DOMAIN_NAME
    /\ EntityRegistry[entity_id].config_entry_id = entry

\* Exactly one of the two fields; reports is what each entity's state carries.
resolve_reservation_uuid(entry, reservation_uuid, entity_id, reports) ==
    CASE (reservation_uuid = Unset) <=> (entity_id = Unset) -> Invalid
      [] reservation_uuid # Unset /\ entity_id = Unset -> reservation_uuid
      [] OTHER -> IF /\ OwnEntity(entry, entity_id)
                     /\ reports[entity_id] # Unset
                  THEN reports[entity_id] ELSE Invalid

\* parse_device_identifier of each identifier of a device
PropertiesOf(entry, device_id) ==
    {identifier[2] : identifier \in {i \in DeviceRegistry[device_id].identifiers :
                                        i[1] = Namespace[entry]}}

\* _resolve_device_target: the first identifier, in no particular order.
ResolveDevice(entry, device_id) ==
    IF /\ device_id \in DOMAIN DeviceRegistry
       /\ entry \in DeviceRegistry[device_id].config_entries
       /\ PropertiesOf(entry, device_id) # {}
    THEN CHOOSE property \in PropertiesOf(entry, device_id) : TRUE
    ELSE Invalid

\* _resolve_entity_target
ResolveEntity(entry, entity_id) ==
    IF OwnEntity(entry, entity_id) /\ EntityRegistry[entity_id].device_id # Unset
    THEN ResolveDevice(entry, EntityRegistry[entity_id].device_id)
    ELSE Invalid

\* _resolve_target: the first entity, or else the first device.
ResolveTarget(entry, target) ==
    CASE target.entity_id # << >> -> ResolveEntity(entry, Head(target.entity_id))
      [] target.entity_id = << >> /\ target.device_id # << >> ->
            ResolveDevice(entry, Head(target.device_id))
      [] OTHER -> Unset

\* Variant: the explicit property wins over the target.
ResolvePropertyIdExplicitFirst(entry, property_id, target) ==
    IF property_id # Unset THEN property_id
    ELSE IF ResolveTarget(entry, target) # Unset THEN ResolveTarget(entry, target)
    ELSE Invalid

resolve_property_id(entry, property_id, target) ==
    LET targeted == ResolveTarget(entry, target) IN
    CASE targeted = Unset -> IF property_id = Unset THEN Invalid ELSE property_id
      [] targeted # Unset /\ property_id \in {Unset, targeted} -> targeted
      [] OTHER -> Invalid

=============================================================================
