--------------------------- MODULE EntryLifecycle ---------------------------
(***************************************************************************)
(* The set-up, reload and unload of several config entries, which share    *)
(* one set of services.  Home Assistant is external: it never runs two     *)
(* set-ups or unloads of one entry at once, it may run those of different  *)
(* entries in any interleaving, and it reports an entry as loaded when its *)
(* set-up has ended: not yet while the platforms are being set up.         *)
(*                                                                         *)
(* A step is what happens between two awaits of a set-up or an unload.     *)
(***************************************************************************)
EXTENDS Integers, Sequences

CONSTANTS
    Entries,  \* the config entries
    Options   \* the values an entry's options may have

VARIABLES
    state,     \* [Entries -> what the entry is doing]
    options,   \* [Entries -> its options]
    applied,   \* [Entries -> the options read for each coordinator so far]
    listener,  \* the entries whose update listener is registered
    leaked,    \* the entries with a listener that nothing will remove
    reloads,   \* the entries with a reload that has yet to start
    services,  \* are the services registered?
    unheard,   \* history: the options changed while nobody listened
    abandoned, \* history: has a set-up left the services behind?
    overtaken  \* history: set-ups that an unload of another entry overtook

vars == <<state, options, applied, listener, leaked, reloads, services, unheard,
          abandoned, overtaken>>

\* The coordinators in the order in which set-up builds them.  Each reads the
\* options when it is built, and its first refresh is awaited before the next.
\* The entry is not set up without the required ones.
Coordinators == <<"properties", "reservations", "calendar", "tasks">>
Required == {"properties", "reservations"}

States == {"not_loaded", "setup", "forward", "loaded", "unload", "failed"}

Init ==
    /\ state = [e \in Entries |-> "not_loaded"]
    /\ options \in [Entries -> Options]
    /\ applied = [e \in Entries |-> << >>]
    /\ listener = {} /\ leaked = {} /\ reloads = {}
    /\ services = FALSE /\ abandoned = FALSE
    /\ unheard = {} /\ overtaken = {}

-----------------------------------------------------------------------------
(* async_setup_entry                                                       *)

Start(e) ==
    /\ state' = [state EXCEPT ![e] = "setup"]
    /\ applied' = [applied EXCEPT ![e] = <<options[e]>>]
    /\ unheard' = unheard \ {e}
    /\ overtaken' = overtaken \ {e}

\* At start-up, on a retry, by the user or as the second half of a reload.
SetUp(e) ==
    /\ state[e] = "not_loaded"
    /\ Start(e)
    /\ UNCHANGED <<options, listener, leaked, reloads, services, abandoned>>

\* Variant: one coordinator too many.
MoreToBuildOneMore(e) == Len(applied[e]) <= Len(Coordinators)

MoreToBuild(e) == Len(applied[e]) < Len(Coordinators)

\* A first refresh has ended and the next coordinator is built.
BuildNext(e) ==
    /\ state[e] = "setup" /\ MoreToBuild(e)
    /\ applied' = [applied EXCEPT ![e] = Append(@, options[e])]
    /\ UNCHANGED <<state, options, listener, leaked, reloads, services, unheard,
                   abandoned, overtaken>>

\* A required first refresh has failed: ConfigEntryNotReady or an auth failure.
FailSetUp(e) ==
    /\ state[e] = "setup" /\ Coordinators[Len(applied[e])] \in Required
    /\ state' = [state EXCEPT ![e] = "not_loaded"]
    /\ UNCHANGED <<options, applied, listener, leaked, reloads, services, unheard,
                   abandoned, overtaken>>

\* Variant: the entry does not listen to its options.
ListenNever(e) == listener

Listen(e) == listener \cup {e}

\* Everything from the last first refresh to the forwarding of the platforms:
\* the listener, runtime_data and the services, which may be there already.
Register(e) ==
    /\ state[e] = "setup" /\ ~MoreToBuild(e)
    /\ state' = [state EXCEPT ![e] = "forward"]
    /\ listener' = Listen(e)
    /\ services' = TRUE
    /\ UNCHANGED <<options, applied, leaked, reloads, unheard, abandoned, overtaken>>

\* The platforms are set up and Home Assistant reports the entry as loaded.
EndSetUp(e) ==
    /\ state[e] = "forward"
    /\ state' = [state EXCEPT ![e] = "loaded"]
    /\ UNCHANGED <<options, applied, listener, leaked, reloads, services, unheard,
                   abandoned, overtaken>>

\* Forwarding the platforms raises, as when one cannot be imported: the set-up has
\* failed.  Home Assistant does not unload such an entry before it is set up again,
\* so the services stay, and the listener too, which only an unload would remove.
FailForward(e) ==
    /\ state[e] = "forward"
    /\ state' = [state EXCEPT ![e] = "not_loaded"]
    /\ listener' = listener \ {e} /\ leaked' = leaked \cup {e}
    /\ abandoned' = (abandoned \/ services)
    /\ UNCHANGED <<options, applied, reloads, services, unheard, overtaken>>

-----------------------------------------------------------------------------
(* async_unload_entry                                                      *)

Unload(e) ==
    /\ state[e] = "loaded"
    /\ state' = [state EXCEPT ![e] = "unload"]
    /\ UNCHANGED <<options, applied, listener, leaked, reloads, services, unheard,
                   abandoned, overtaken>>

\* Home Assistant reports an entry that is being unloaded as loaded, as
\* async_unload_services says, or in newer versions as being unloaded.
ReportedAsLoaded == {{"loaded"}, {"loaded", "unload"}}

\* loaded_entries
LoadedEntries(reported) == {e \in Entries : state[e] \in reported}

\* Variants: the unloading entry counts itself; it does not look for others.
RemainingAll(e, reported) == LoadedEntries(reported)
RemainingNone(e, reported) == {}

Remaining(e, reported) == LoadedEntries(reported) \ {e}

\* The platforms are unloaded, or refuse to be; what follows is the same.
EndUnload(e, unload_ok, reported) ==
    /\ state[e] = "unload"
    /\ state' = [state EXCEPT ![e] = IF unload_ok THEN "not_loaded" ELSE "failed"]
    /\ listener' = listener \ {e}
    /\ services' = (services /\ Remaining(e, reported) # {})
    /\ abandoned' = (abandoned /\ services')
    /\ overtaken' = overtaken \cup {f \in Entries : state[f] = "forward"}
    /\ UNCHANGED <<options, applied, leaked, reloads, unheard>>

-----------------------------------------------------------------------------
(* Options                                                                 *)

\* The options flow stores new options.  Each listener gets a task, which
\* waits while the entry is being set up or unloaded.
ChangeOptions(e, new) ==
    /\ new # options[e]
    /\ options' = [options EXCEPT ![e] = new]
    /\ reloads' = IF e \in listener \cup leaked THEN reloads \cup {e} ELSE reloads
    /\ unheard' = IF state[e] = "setup" THEN unheard \cup {e} ELSE unheard
    /\ UNCHANGED <<state, applied, listener, leaked, services, abandoned, overtaken>>

\* _async_update_options.  An entry that would not unload cannot be reloaded.
Reload(e) ==
    /\ e \in reloads
    /\ CASE state[e] = "loaded" ->
                /\ state' = [state EXCEPT ![e] = "unload"]
                /\ UNCHANGED <<applied, unheard, overtaken>>
         [] state[e] = "not_loaded" -> Start(e)
         [] state[e] = "failed" -> UNCHANGED <<state, applied, unheard, overtaken>>
         [] OTHER -> FALSE
    /\ reloads' = reloads \ {e}
    /\ UNCHANGED <<options, listener, leaked, services, abandoned>>

EntryNext(e) ==
    \/ SetUp(e) \/ BuildNext(e) \/ FailSetUp(e)
    \/ Register(e) \/ EndSetUp(e) \/ FailForward(e)
    \/ Unload(e)
    \/ \E unload_ok \in BOOLEAN, reported \in ReportedAsLoaded :
          EndUnload(e, unload_ok, reported)
    \/ \E new \in Options : ChangeOptions(e, new)
    \/ Reload(e)

Next == \E e \in Entries : EntryNext(e)

Spec == Init /\ [][Next]_vars

-----------------------------------------------------------------------------
(* Properties                                                              *)

\* The options are read once for each coordinator, from the first on.
Stages ==
    \A e \in Entries :
        /\ Len(applied[e]) <= Len(Coordinators)
        /\ state[e] = "setup" => Len(applied[e]) >= 1
        /\ state[e] \notin {"setup", "not_loaded"} =>
              Len(applied[e]) = Len(Coordinators)

TypeOK ==
    /\ state \in [Entries -> States]
    /\ options \in [Entries -> Options]
    /\ applied \in [Entries -> Seq(Options)]
    /\ Stages
    /\ listener \subseteq Entries /\ leaked \subseteq Entries /\ reloads \subseteq Entries
    /\ {services, abandoned} \subseteq BOOLEAN
    /\ unheard \subseteq Entries /\ overtaken \subseteq Entries

\* FR-006, first half: the last entry to unload takes the services with it,
\* also when it is itself still reported as loaded, when its platforms refuse
\* to unload and when other entries have failed to come up.  Only a set-up that
\* raises once it has registered them leaves them behind, until the next unload
\* that finds no other entry.
NoServicesWithoutEntry ==
    services => \/ \E e \in Entries : state[e] \in {"forward", "loaded", "unload"}
                \/ abandoned

\* FR-006, second half: while any entry remains loaded the services do too.
ServicesWhileLoaded == \A e \in Entries : state[e] = "loaded" => services

\* ... which fails in one way only: the unload of another entry ends while the
\* platforms of this one are being set up.
ServicesLostByOvertakingOnly ==
    \A e \in Entries : state[e] = "loaded" /\ ~services => e \in overtaken

\* Every coordinator of a loaded entry works with the entry's options, unless
\* a reload is under way or they were changed during the set-up, when nothing
\* listens yet and later coordinators read other options than earlier ones.
OptionsInEffect ==
    \A e \in Entries :
        (state[e] = "loaded" /\ e \notin reloads \cup unheard) =>
            \A i \in 1..Len(Coordinators) : applied[e][i] = options[e]

=============================================================================
