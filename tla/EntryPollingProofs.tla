------------------------- MODULE EntryPollingProofs -------------------------
(***************************************************************************)
(* Whatever the properties, the coordinators and the number of strikes:    *)
(* repair issues and warnings tell what holds, availability follows from   *)
(* the polls of a property alone, and nothing on display is given up early.*)
(*                                                                         *)
(* An entity's availability is computed from two counters that are reset   *)
(* at different moments of a fan-out.  What carries the proof is that the  *)
(* coordinator's counter never runs ahead of a property's (FanOutCounted): *)
(* not between refreshes, and during one not even by the strike that the   *)
(* coordinator may get at its end, once that property has been asked for.  *)
(***************************************************************************)
EXTENDS EntryPolling, TLAPS

\* Only set-up changes what is selected, and then no fan-out is under way.
SetUpShape ==
    /\ loaded => setup = << >> /\ monitored = selected
    /\ ~loaded => shown = {}
    /\ \A i \in DOMAIN setup : setup[i] = Listing => i = 1
    /\ \A c \in FanOut :
           cycle[c] # NoCycle => loaded \/ (setup # << >> /\ Head(setup) = c)
    /\ (~loaded /\ setup # << >> /\ Head(setup) = Listing) =>
           \A c \in FanOut : failures[c] = 0

PlainCounted == \A c \in Plain, p \in Properties : failures[c] = streak[c][p]

FanOutCounted ==
    \A c \in FanOut, p \in Properties :
        /\ strikes[c][p] = streak[c][p]
        /\ p \in selected \ cycle[c].got =>
               /\ streak[c][p] >= failures[c]
               /\ cycle[c] # NoCycle /\ p \notin ToSet(cycle[c].todo) =>
                      streak[c][p] >= Strike(failures[c])

ShownHeld ==
    \A e \in shown :
        /\ e[2] \in known /\ data[e[1]] # None
        /\ e[1] \in FanOut => e[2] \in data[e[1]]

PollingInv ==
    /\ TypeOK /\ SetUpShape /\ PlainCounted /\ FanOutCounted /\ ShownHeld
    /\ IssuesAreCurrent /\ DisappearanceReported

-----------------------------------------------------------------------------
(* What the parts of a refresh return                                      *)

LEMMA StrikeCounts ==
    /\ \A n \in Count : Strike(n) \in Count
    /\ \A m, n \in Count : m >= n => Strike(m) >= Strike(n)
    /\ \A n \in Count : Strike(n) >= n
    /\ \A n \in Count : Strike(n) # 0
    /\ 0 \in Count
  BY PollingAssumption DEF Count, Strike

LEMMA CoordinatorsApart ==
    /\ Listing \in Coordinators /\ Bookings \in Coordinators /\ Listing # Bookings
    /\ FanOut \subseteq Coordinators /\ Plain \subseteq Coordinators
    /\ \A c \in FanOut : c \notin Plain /\ c # Listing /\ c # Bookings
  BY PollingAssumption DEF Plain, Coordinators

LEMMA TailOfSetUp ==
    ASSUME NEW s \in Seq(Coordinators), s # << >>,
           \A i \in DOMAIN s : s[i] = Listing => i = 1
    PROVE  /\ Tail(s) \in Seq(Coordinators)
           /\ \A i \in DOMAIN Tail(s) : Tail(s)[i] # Listing
           /\ Tail(s) # << >> => Head(Tail(s)) # Listing
<1>1. /\ Tail(s) \in Seq(Coordinators)
      /\ \A i \in DOMAIN Tail(s) : i + 1 \in DOMAIN s /\ i + 1 # 1 /\ Tail(s)[i] = s[i + 1]
  OBVIOUS
<1>2. \A i \in DOMAIN Tail(s) : Tail(s)[i] # Listing
  BY <1>1
<1>3. Tail(s) # << >> => Head(Tail(s)) # Listing
  <2>1. Tail(s) # << >> => 1 \in DOMAIN Tail(s) /\ Head(Tail(s)) = Tail(s)[1]
    BY <1>1
  <2> QED BY <2>1, <1>2
<1> QED BY <1>1, <1>2, <1>3

\* What a failure and a success leave of the types, and of the issues.
LEMMA FailKeeps ==
    ASSUME TypeOK, IssuesAreCurrent, NEW c \in Coordinators, NEW kind, Fail(c, kind)
    PROVE  /\ failures' \in [Coordinators -> Count]
           /\ failures' = [failures EXCEPT ![c] = Strike(failures[c])]
           /\ last_success' \in [Coordinators -> BOOLEAN]
           /\ data' = data
           /\ {stopped', ailing', refused'} \subseteq SUBSET Coordinators
           /\ issues' \subseteq Kinds \X Coordinators
           /\ IssuesAreCurrent'
<1>1. IssuesOf(c, kind) \subseteq Kinds \X {c}
  BY DEF IssuesOf, IssueId, Kinds
<1>2. kind = "forbidden" => IssueId("forbidden", c) \in IssuesOf(c, kind)
  BY DEF IssuesOf
<1>3. IssuesAreCurrent'
  <2>1. \A d \in refused' : IssueId("forbidden", d) \in issues'
    BY <1>2 DEF Fail, IssuesAreCurrent
  <2>2. \A d \in Coordinators \ ailing' : issues' \cap (Kinds \X {d}) = {}
    BY <1>1 DEF Fail, IssuesAreCurrent
  <2> QED BY <2>1, <2>2 DEF IssuesAreCurrent, IssueId
<1>4. failures' \in [Coordinators -> Count]
  BY StrikeCounts DEF Fail, TypeOK
<1>5. issues' \subseteq Kinds \X Coordinators
  BY <1>1 DEF Fail, TypeOK
<1>6. {stopped', ailing', refused'} \subseteq SUBSET Coordinators
  BY DEF Fail, TypeOK
<1>7. last_success' \in [Coordinators -> BOOLEAN]
  BY DEF Fail, TypeOK
<1> QED BY <1>3, <1>4, <1>5, <1>6, <1>7 DEF Fail

LEMMA SucceedKeeps ==
    ASSUME TypeOK, IssuesAreCurrent, NEW c \in Coordinators,
           NEW held \in SUBSET Properties, Succeed(c, held)
    PROVE  /\ failures' \in [Coordinators -> Count]
           /\ failures' = [failures EXCEPT ![c] = 0]
           /\ last_success' \in [Coordinators -> BOOLEAN]
           /\ data' \in [Coordinators -> (SUBSET Properties) \cup {None}]
           /\ data' = [data EXCEPT ![c] = held]
           /\ {stopped', ailing', refused'} \subseteq SUBSET Coordinators
           /\ issues' \subseteq Kinds \X Coordinators
           /\ IssuesAreCurrent'
<1>1. \A d \in Coordinators, kind \in Kinds :
          IssueId(kind, d) \in IssuesCleared(c) <=> d = c
  BY DEF IssuesCleared, IssueId
<1>2. issues' \cap (Kinds \X {c}) = {}
  BY DEF Succeed, IssuesCleared, IssueId
<1>3. IssuesAreCurrent'
  <2>1. \A d \in refused' : IssueId("forbidden", d) \in issues'
    BY <1>1 DEF Succeed, IssuesAreCurrent, TypeOK, Kinds
  <2>2. \A d \in Coordinators \ ailing' : issues' \cap (Kinds \X {d}) = {}
    BY <1>2 DEF Succeed, IssuesAreCurrent
  <2> QED BY <2>1, <2>2 DEF IssuesAreCurrent, IssueId
<1>4. failures' \in [Coordinators -> Count] /\ failures' = [failures EXCEPT ![c] = 0]
  BY StrikeCounts DEF Succeed, FailuresReset, TypeOK
<1>5. data' \in [Coordinators -> (SUBSET Properties) \cup {None}]
  BY DEF Succeed, TypeOK
<1>6. issues' \subseteq Kinds \X Coordinators
  BY DEF Succeed, TypeOK
<1>7. {stopped', ailing', refused'} \subseteq SUBSET Coordinators
  BY DEF Succeed, TypeOK
<1>8. last_success' \in [Coordinators -> BOOLEAN]
  BY DEF Succeed, TypeOK
<1> QED BY <1>3, <1>4, <1>5, <1>6, <1>7, <1>8 DEF Succeed

LEMMA RetainedIsHeld ==
    ASSUME TypeOK, NEW c \in Coordinators
    PROVE  /\ Retained(c) \in SUBSET Properties
           /\ data[c] # None => Retained(c) = data[c]
           /\ Retained(c) # None
  BY PollingAssumption DEF Retained, TypeOK

\* A refresh that gives up no data keeps on display only what it holds.
LEMMA NotifyKeeps ==
    ASSUME TypeOK, ShownHeld, NEW c \in Coordinators, NEW succeeded \in BOOLEAN,
           Notify(c, succeeded), known' = known, ~loaded => shown = {},
           \A d \in Coordinators : data[d] # None => data'[d] # None,
           \A d \in FanOut : data[d] # None => data[d] \subseteq data'[d]
    PROVE  shown' \subseteq Entities /\ ShownHeld' /\ (~loaded => shown' = {})
<1>1. shown' \subseteq Entities
  BY DEF Notify
<1>2. \A e \in shown' : e \in shown \/ (e[2] \in known /\ Available(e[1], e[2])')
  BY DEF Notify
<1>3. \A e \in shown' : e[1] \in Coordinators /\ e[2] \in Properties
  BY <1>1 DEF Entities
<1>4. ShownHeld'
  BY <1>2, <1>3 DEF ShownHeld, Available
<1>5. ~loaded => shown' = {}
  BY DEF Notify
<1> QED BY <1>1, <1>4, <1>5

-----------------------------------------------------------------------------
(* The invariant holds at first and is kept by every action.               *)

LEMMA PollingInvInit == Init => PollingInv
<1> SUFFICES ASSUME Init PROVE PollingInv
  OBVIOUS
<1>1. TypeOK
  <2>1. NoCycle \in Cycle /\ NoStrikes \in [Properties -> Count]
    BY StrikeCounts DEF Cycle, NoCycle, NoStrikes
  <2>2. {loaded, calm} \subseteq BOOLEAN
    BY DEF Init
  <2>3. option \in SUBSET Properties
    BY PollingAssumption DEF Init
  <2>4. setup \in Seq(Coordinators)
    BY PollingAssumption DEF Init
  <2> QED BY <2>1, <2>2, <2>3, <2>4, StrikeCounts DEF Init, TypeOK
<1>2. SetUpShape
  BY PollingAssumption, CoordinatorsApart DEF Init, SetUpShape
<1>3. PlainCounted /\ FanOutCounted
  BY CoordinatorsApart DEF Init, PlainCounted, FanOutCounted, NoStrikes, NoCycle
<1>4. ShownHeld /\ IssuesAreCurrent /\ DisappearanceReported
  BY DEF Init, ShownHeld, IssuesAreCurrent, DisappearanceReported
<1> QED BY <1>1, <1>2, <1>3, <1>4 DEF PollingInv

\* Any new coordinators will do, if the rest is as it should be.
LEMMA BuildKeeps ==
    ASSUME PollingInv, BuildEntry, option' \in SUBSET Properties, UNCHANGED <<known, calm>>,
           {stopped', ailing', refused'} \subseteq SUBSET Coordinators,
           issues' \subseteq Kinds \X Coordinators, IssuesAreCurrent'
    PROVE  PollingInv'
<1>1. TypeOK'
  <2>1. NoCycle \in Cycle /\ NoStrikes \in [Properties -> Count]
    BY StrikeCounts DEF Cycle, NoCycle, NoStrikes
  <2>2. {loaded', calm'} \subseteq BOOLEAN
    BY DEF PollingInv, TypeOK, BuildEntry
  <2>3. setup' \in Seq(Coordinators)
    BY PollingAssumption DEF BuildEntry
  <2> QED BY <2>1, <2>2, <2>3, StrikeCounts DEF PollingInv, BuildEntry, TypeOK
<1>2. SetUpShape'
  BY PollingAssumption, CoordinatorsApart DEF BuildEntry, SetUpShape
<1>3. PlainCounted' /\ FanOutCounted'
  BY CoordinatorsApart DEF BuildEntry, PlainCounted, FanOutCounted, NoStrikes, NoCycle
<1>4. ShownHeld' /\ DisappearanceReported'
  BY DEF BuildEntry, ShownHeld, DisappearanceReported
<1> QED BY <1>1, <1>2, <1>3, <1>4 DEF PollingInv

\* A plain coordinator's success.
LEMMA PlainSuccessKeeps ==
    ASSUME PollingInv, NEW c \in Plain, NEW held \in SUBSET Properties,
           MayRefresh(c), Succeed(c, held), SetUpGoesOn, Notify(c, TRUE),
           streak' = [streak EXCEPT ![c] = NoStrikes],
           UNCHANGED <<option, loaded, known, monitored, fanOutVars, calm>>,
           {selected', warned', missed'} \subseteq SUBSET Properties,
           loaded \/ c # Listing => selected' = selected,
           logs' \in [Properties -> 0..2], DisappearanceReported'
    PROVE  PollingInv'
<1>0. c \in Coordinators /\ c \notin FanOut
  BY CoordinatorsApart
<1>1. /\ failures' \in [Coordinators -> Count]
      /\ failures' = [failures EXCEPT ![c] = 0]
      /\ last_success' \in [Coordinators -> BOOLEAN]
      /\ data' \in [Coordinators -> (SUBSET Properties) \cup {None}]
      /\ data' = [data EXCEPT ![c] = held]
      /\ {stopped', ailing', refused'} \subseteq SUBSET Coordinators
      /\ issues' \subseteq Kinds \X Coordinators
      /\ IssuesAreCurrent'
  BY <1>0, SucceedKeeps DEF PollingInv
<1>2. streak' \in [Coordinators -> [Properties -> Count]]
  BY <1>0, StrikeCounts DEF PollingInv, TypeOK, NoStrikes
<1>3. shown' \subseteq Entities /\ ShownHeld' /\ (~loaded => shown' = {})
  <2>1. held # None
    BY PollingAssumption
  <2>2. \A d \in Coordinators : data[d] # None => data'[d] # None
    BY <1>1, <2>1 DEF PollingInv, TypeOK
  <2>3. \A d \in FanOut : data'[d] = data[d]
    BY <1>0, <1>1, CoordinatorsApart DEF PollingInv, TypeOK
  <2> QED BY <1>0, <2>2, <2>3, NotifyKeeps DEF PollingInv, SetUpShape
<1>4. setup' \in Seq(Coordinators)
  BY TailOfSetUp DEF PollingInv, TypeOK, SetUpShape, SetUpGoesOn, MayRefresh
<1>5. TypeOK'
  BY <1>1, <1>2, <1>3, <1>4 DEF PollingInv, TypeOK, fanOutVars
<1>6. SetUpShape'
  <2>1. CASE loaded
    BY <1>3, <2>1 DEF PollingInv, SetUpShape, SetUpGoesOn, fanOutVars
  <2>2. CASE ~loaded
    <3>1. setup # << >> /\ Head(setup) = c /\ setup' = Tail(setup)
      BY <2>2 DEF MayRefresh, SetUpGoesOn
    <3>2. \A i \in DOMAIN setup' : setup'[i] # Listing
      BY <3>1, TailOfSetUp DEF PollingInv, TypeOK, SetUpShape
    <3>3. setup' # << >> => Head(setup') # Listing
      BY <3>1, TailOfSetUp DEF PollingInv, TypeOK, SetUpShape
    <3>4. \A d \in FanOut : cycle'[d] = NoCycle
      BY <1>0, <2>2, <3>1 DEF PollingInv, SetUpShape, fanOutVars
    <3> QED BY <1>3, <2>2, <3>2, <3>3, <3>4 DEF SetUpShape
  <2> QED BY <2>1, <2>2
<1>7. PlainCounted'
  BY <1>0, <1>1, CoordinatorsApart DEF PollingInv, PlainCounted, TypeOK, NoStrikes
<1>8. FanOutCounted'
  <2>1. \A d \in FanOut : failures'[d] = failures[d] /\ streak'[d] = streak[d]
    BY <1>0, <1>1, CoordinatorsApart DEF PollingInv, TypeOK
  <2>2. CASE loaded \/ c # Listing
    BY <2>1, <2>2 DEF PollingInv, FanOutCounted, fanOutVars
  <2>3. CASE ~loaded /\ c = Listing
    <3>1. \A d \in FanOut : cycle[d] = NoCycle /\ failures[d] = 0
      BY <1>0, <2>3, CoordinatorsApart DEF PollingInv, SetUpShape, MayRefresh
    <3>2. \A d \in FanOut, p \in Properties : streak[d][p] >= 0
      BY CoordinatorsApart DEF PollingInv, TypeOK, Count
    <3> QED BY <2>1, <3>1, <3>2 DEF PollingInv, FanOutCounted, fanOutVars
  <2> QED BY <2>2, <2>3
<1> QED BY <1>1, <1>3, <1>5, <1>6, <1>7, <1>8 DEF PollingInv

LEMMA RefreshListingKeeps ==
    ASSUME PollingInv, NEW ids \in SUBSET Properties, RefreshListing(ids)
    PROVE  PollingInv'
<1>1. {selected', warned', missed'} \subseteq SUBSET Properties
  BY DEF PollingInv, TypeOK, RefreshListing, NewlyWarned, StillWarned, Chosen
<1>2. logs' \in [Properties -> 0..2]
  <2>1. \A p \in Properties : logs[p] \in 0..2
    BY DEF PollingInv, TypeOK
  <2> QED BY <2>1 DEF RefreshListing
<1>3. DisappearanceReported'
  <2> SUFFICES ASSUME NEW p \in missed' PROVE logs'[p] >= 1
    BY DEF DisappearanceReported
  <2>1. p \in Properties /\ p \in NewlyWarned(ids) /\ p \notin ids
    BY <1>1 DEF RefreshListing, NewlyWarned, StillWarned
  <2>2. logs[p] \in 0..2
    BY <2>1 DEF PollingInv, TypeOK
  <2> QED BY <2>1, <2>2 DEF RefreshListing
<1>4. loaded \/ Listing # Listing => selected' = selected
  BY DEF RefreshListing
<1> QED BY <1>1, <1>2, <1>3, <1>4, PlainSuccessKeeps DEF RefreshListing, Plain

LEMMA RefreshBookingsKeeps ==
    ASSUME PollingInv, RefreshBookings
    PROVE  PollingInv'
<1>1. {selected', warned', missed'} \subseteq SUBSET Properties
  BY DEF PollingInv, TypeOK, RefreshBookings
<1>2. logs' \in [Properties -> 0..2] /\ DisappearanceReported'
  BY DEF PollingInv, TypeOK, RefreshBookings, DisappearanceReported
<1> QED BY <1>1, <1>2, PlainSuccessKeeps DEF RefreshBookings, Plain

LEMMA RetainDataKeeps ==
    ASSUME PollingInv, NEW c \in Plain, RetainData(c)
    PROVE  PollingInv'
<1>1. Retained(c) \in SUBSET Properties
  BY RetainedIsHeld, CoordinatorsApart DEF PollingInv
<1>2. {selected', warned', missed'} \subseteq SUBSET Properties
  BY <1>1 DEF PollingInv, TypeOK, RetainData, Chosen
<1>3. logs' \in [Properties -> 0..2] /\ DisappearanceReported'
  BY DEF PollingInv, TypeOK, RetainData, DisappearanceReported
<1>4. loaded \/ c # Listing => selected' = selected
  BY DEF RetainData
<1> QED BY <1>1, <1>2, <1>3, <1>4, PlainSuccessKeeps DEF RetainData

LEMMA FailRefreshKeeps ==
    ASSUME PollingInv, NEW c \in Plain, NEW kind, FailRefresh(c, kind)
    PROVE  PollingInv'
<1>0. c \in Coordinators /\ c \notin FanOut
  BY CoordinatorsApart
<1>1. /\ failures' \in [Coordinators -> Count]
      /\ failures' = [failures EXCEPT ![c] = Strike(failures[c])]
      /\ last_success' \in [Coordinators -> BOOLEAN]
      /\ data' = data
      /\ {stopped', ailing', refused'} \subseteq SUBSET Coordinators
      /\ issues' \subseteq Kinds \X Coordinators
      /\ IssuesAreCurrent'
  BY <1>0, FailKeeps DEF PollingInv, FailRefresh
<1>2. /\ streak' = [streak EXCEPT ![c] = [p \in Properties |-> Strike(streak[c][p])]]
      /\ streak' \in [Coordinators -> [Properties -> Count]]
  <2>1. streak' = [streak EXCEPT ![c] = [p \in Properties |-> Strike(streak[c][p])]]
    BY DEF FailRefresh
  <2>2. [p \in Properties |-> Strike(streak[c][p])] \in [Properties -> Count]
    BY <1>0, StrikeCounts DEF PollingInv, TypeOK
  <2> QED BY <2>1, <2>2 DEF PollingInv, TypeOK
<1>3. shown' \subseteq Entities /\ ShownHeld' /\ (~loaded => shown' = {})
  BY <1>0, <1>1, NotifyKeeps DEF PollingInv, SetUpShape, FailRefresh, entryVars
<1>4. TypeOK'
  BY <1>1, <1>2, <1>3 DEF PollingInv, TypeOK, FailRefresh, entryVars, fanOutVars
<1>5. SetUpShape'
  BY <1>3 DEF PollingInv, SetUpShape, FailRefresh, entryVars, fanOutVars
<1>6. PlainCounted'
  BY <1>0, <1>1, <1>2, CoordinatorsApart DEF PollingInv, PlainCounted, TypeOK
<1>7. FanOutCounted'
  <2>1. \A d \in FanOut : failures'[d] = failures[d] /\ streak'[d] = streak[d]
    BY <1>0, <1>1, <1>2, CoordinatorsApart DEF PollingInv, TypeOK
  <2> QED BY <2>1 DEF PollingInv, FanOutCounted, FailRefresh, entryVars, fanOutVars
<1>8. DisappearanceReported'
  BY DEF PollingInv, DisappearanceReported, FailRefresh
<1> QED BY <1>1, <1>3, <1>4, <1>5, <1>6, <1>7, <1>8 DEF PollingInv

LEMMA FailFirstRefreshKeeps ==
    ASSUME PollingInv, NEW c \in Plain, NEW kind, FailFirstRefresh(c, kind)
    PROVE  PollingInv'
<1>0. c \in Coordinators
  BY CoordinatorsApart
<1>1. IssuesOf(c, kind) \subseteq Kinds \X {c}
  BY DEF IssuesOf, IssueId, Kinds
<1>2. kind = "forbidden" => IssueId("forbidden", c) \in IssuesOf(c, kind)
  BY DEF IssuesOf
<1>3. IssuesAreCurrent'
  <2>1. \A d \in refused' : IssueId("forbidden", d) \in issues'
    BY <1>2 DEF FailFirstRefresh, PollingInv, IssuesAreCurrent
  <2>2. \A d \in Coordinators \ ailing' : issues' \cap (Kinds \X {d}) = {}
    BY <1>1 DEF FailFirstRefresh, PollingInv, IssuesAreCurrent
  <2> QED BY <2>1, <2>2 DEF IssuesAreCurrent, IssueId
<1>4. issues' \subseteq Kinds \X Coordinators
  BY <1>0, <1>1 DEF FailFirstRefresh, PollingInv, TypeOK
<1>5. {stopped', ailing', refused'} \subseteq SUBSET Coordinators
  BY <1>0 DEF FailFirstRefresh, PollingInv, TypeOK
<1>6. option' \in SUBSET Properties
  BY DEF FailFirstRefresh, PollingInv, TypeOK
<1> QED BY <1>3, <1>4, <1>5, <1>6, BuildKeeps DEF FailFirstRefresh

LEMMA ReloadKeeps ==
    ASSUME PollingInv, NEW choice \in Selections, Reload(choice)
    PROVE  PollingInv'
<1>1. option' \in SUBSET Properties
  BY PollingAssumption DEF Reload
<1>2. {stopped', ailing', refused'} \subseteq SUBSET Coordinators
  BY DEF Reload, PollingInv, TypeOK
<1>3. issues' \subseteq Kinds \X Coordinators /\ IssuesAreCurrent'
  BY DEF Reload, PollingInv, TypeOK, IssuesAreCurrent
<1> QED BY <1>1, <1>2, <1>3, BuildKeeps DEF Reload

LEMMA StartFanOutKeeps ==
    ASSUME PollingInv, NEW c \in FanOut, StartFanOut(c)
    PROVE  PollingInv'
<1>1. /\ Sorted[selected] \in Seq(Properties) /\ ToSet(Sorted[selected]) = selected
      /\ cycle[c] = NoCycle
  BY PollingAssumption DEF PollingInv, TypeOK, StartFanOut
<1>2. cycle' \in [FanOut -> Cycle]
  <2>1. [todo |-> Sorted[selected], got |-> {}, error |-> "none"] \in Cycle
    BY <1>1 DEF Cycle
  <2> QED BY <2>1 DEF PollingInv, TypeOK, StartFanOut
<1>3. TypeOK'
  BY <1>2 DEF PollingInv, TypeOK, StartFanOut, entryVars, coordinatorVars, historyVars
<1>4. cycle'[c] = [todo |-> Sorted[selected], got |-> {}, error |-> "none"]
  BY DEF PollingInv, TypeOK, StartFanOut
<1>5. \A d \in FanOut \ {c} : cycle'[d] = cycle[d]
  BY DEF PollingInv, TypeOK, StartFanOut
<1>6. SetUpShape'
  BY <1>5 DEF PollingInv, SetUpShape, StartFanOut, MayRefresh, entryVars, coordinatorVars
<1>7. FanOutCounted'
  <2> SUFFICES ASSUME NEW d \in FanOut, NEW p \in Properties
               PROVE  /\ strikes'[d][p] = streak'[d][p]
                      /\ p \in selected' \ cycle'[d].got =>
                             /\ streak'[d][p] >= failures'[d]
                             /\ cycle'[d] # NoCycle /\ p \notin ToSet(cycle'[d].todo) =>
                                    streak'[d][p] >= Strike(failures'[d])
    BY DEF FanOutCounted, Strike
  <2>1. CASE d # c
    BY <1>5, <2>1 DEF PollingInv, FanOutCounted, StartFanOut, entryVars,
                      coordinatorVars, historyVars
  <2>2. CASE d = c
    <3>1. ToSet(cycle'[c].todo) = selected /\ cycle[c].got = {} /\ cycle'[c].got = {}
      BY <1>1, <1>4 DEF NoCycle
    <3> QED BY <2>2, <3>1 DEF PollingInv, FanOutCounted, StartFanOut, entryVars,
                              coordinatorVars, historyVars
  <2> QED BY <2>1, <2>2
<1>8. PlainCounted' /\ ShownHeld' /\ IssuesAreCurrent' /\ DisappearanceReported'
  BY DEF PollingInv, PlainCounted, ShownHeld, IssuesAreCurrent, DisappearanceReported,
         StartFanOut, entryVars, coordinatorVars, historyVars
<1> QED BY <1>3, <1>6, <1>7, <1>8 DEF PollingInv

LEMMA FetchPropertyKeeps ==
    ASSUME PollingInv, NEW c \in FanOut, NEW outcome \in {"ok"} \cup FailureKinds,
           FetchProperty(c, outcome)
    PROVE  PollingInv'
<1> DEFINE p == Head(cycle[c].todo)
<1>0. /\ cycle[c] \in Cycle /\ cycle[c].todo \in Seq(Properties) /\ cycle[c].todo # << >>
      /\ cycle[c].got \in SUBSET Properties /\ c \in Coordinators
  BY CoordinatorsApart DEF PollingInv, TypeOK, FetchProperty, Cycle
<1>1. /\ p \in Properties /\ Tail(cycle[c].todo) \in Seq(Properties)
      /\ \A q \in ToSet(cycle[c].todo) : q = p \/ q \in ToSet(Tail(cycle[c].todo))
  <2>1. \A s \in Seq(Properties) : s # << >> =>
            /\ Head(s) \in Properties /\ Tail(s) \in Seq(Properties)
            /\ \A i \in DOMAIN s : i = 1 \/ (i - 1 \in DOMAIN Tail(s) /\ Tail(s)[i - 1] = s[i])
            /\ Head(s) = s[1]
    OBVIOUS
  <2> HIDE DEF p
  <2>2. /\ p \in Properties /\ Tail(cycle[c].todo) \in Seq(Properties)
        /\ p = cycle[c].todo[1]
    BY <1>0, <2>1 DEF p
  <2>3. \A q \in ToSet(cycle[c].todo) : q = p \/ q \in ToSet(Tail(cycle[c].todo))
    <3> TAKE q \in ToSet(cycle[c].todo)
    <3>1. PICK i \in DOMAIN cycle[c].todo : q = cycle[c].todo[i]
      BY DEF ToSet
    <3>2. i = 1 \/ (i - 1 \in DOMAIN Tail(cycle[c].todo)
                   /\ Tail(cycle[c].todo)[i - 1] = q)
      BY <1>0, <2>1, <3>1
    <3> QED BY <2>2, <3>1, <3>2 DEF ToSet
  <2> QED BY <2>2, <2>3
<1>2. cycle[c] # NoCycle
  BY <1>0 DEF NoCycle
<1> DEFINE count == IF outcome = "ok" THEN 0 ELSE Strike(streak[c][p])
<1>3. /\ strikes'[c][p] = count /\ streak'[c][p] = count
      /\ \A q \in Properties \ {p} : strikes'[c][q] = strikes[c][q] /\ streak'[c][q] = streak[c][q]
      /\ \A d \in FanOut \ {c} : strikes'[d] = strikes[d]
      /\ \A d \in Coordinators \ {c} : streak'[d] = streak[d]
      /\ strikes' \in [FanOut -> [Properties -> Count]]
      /\ streak' \in [Coordinators -> [Properties -> Count]]
  <2>1. strikes[c][p] = streak[c][p] /\ streak[c][p] \in Count
    BY <1>0, <1>1 DEF PollingInv, FanOutCounted, TypeOK
  <2>2. count \in Count
    BY <2>1, StrikeCounts
  <2>3. /\ strikes' = [strikes EXCEPT ![c][p] = count]
        /\ streak' = [streak EXCEPT ![c][p] = count]
    BY <1>0, <1>1, <2>1 DEF FetchProperty, StrikesReset, PollingInv, TypeOK
  <2> HIDE DEF count, p
  <2> QED BY <1>0, <1>1, <2>2, <2>3 DEF PollingInv, TypeOK
<1>4. /\ \A d \in FanOut \ {c} : cycle'[d] = cycle[d]
      /\ cycle'[c].todo = Tail(cycle[c].todo)
      /\ cycle'[c].got = IF outcome = "ok" THEN cycle[c].got \cup {p} ELSE cycle[c].got
      /\ cycle' \in [FanOut -> Cycle]
  <2> HIDE DEF p
  <2>1. CASE outcome = "ok"
    <3>1. cycle' = [cycle EXCEPT ![c] = [todo |-> Tail(cycle[c].todo),
                                         got |-> cycle[c].got \cup {p},
                                         error |-> cycle[c].error]]
      BY <1>0, <2>1 DEF FetchProperty, PollingInv, TypeOK, Cycle, p
    <3>2. [todo |-> Tail(cycle[c].todo), got |-> cycle[c].got \cup {p},
           error |-> cycle[c].error] \in Cycle
      BY <1>0, <1>1 DEF Cycle
    <3> QED BY <2>1, <3>1, <3>2 DEF PollingInv, TypeOK
  <2>2. CASE outcome # "ok"
    <3>1. cycle' = [cycle EXCEPT ![c] = [todo |-> Tail(cycle[c].todo),
                                         got |-> cycle[c].got, error |-> outcome]]
      BY <1>0, <2>2 DEF FetchProperty, PollingInv, TypeOK, Cycle
    <3>2. [todo |-> Tail(cycle[c].todo), got |-> cycle[c].got, error |-> outcome] \in Cycle
      BY <1>0, <1>1, <2>2 DEF Cycle
    <3> QED BY <2>2, <3>1, <3>2 DEF PollingInv, TypeOK
  <2> QED BY <2>1, <2>2
<1>5. TypeOK'
  BY <1>3, <1>4 DEF PollingInv, TypeOK, FetchProperty, entryVars, coordinatorVars
<1>6. SetUpShape'
  <2>1. \A d \in FanOut : cycle'[d] # NoCycle => cycle[d] # NoCycle
    BY <1>2, <1>4
  <2> QED BY <2>1 DEF PollingInv, SetUpShape, FetchProperty, entryVars, coordinatorVars
<1>7. FanOutCounted'
  <2> SUFFICES ASSUME NEW d \in FanOut, NEW q \in Properties
               PROVE  /\ strikes'[d][q] = streak'[d][q]
                      /\ q \in selected \ cycle'[d].got =>
                             /\ streak'[d][q] >= failures[d]
                             /\ cycle'[d] # NoCycle /\ q \notin ToSet(cycle'[d].todo) =>
                                    streak'[d][q] >= Strike(failures[d])
    BY DEF FanOutCounted, Strike, FetchProperty, entryVars, coordinatorVars
  <2> HIDE DEF p, count
  <2>1. CASE d # c
    BY <1>3, <1>4, <2>1, CoordinatorsApart DEF PollingInv, FanOutCounted
  <2>2. CASE d = c /\ q # p
    <3>1. q \in cycle'[c].got <=> q \in cycle[c].got
      BY <1>4, <2>2
    <3>2. q \notin ToSet(cycle'[c].todo) => q \notin ToSet(cycle[c].todo)
      BY <1>1, <1>4, <2>2
    <3> QED BY <1>2, <1>3, <2>2, <3>1, <3>2 DEF PollingInv, FanOutCounted
  <2>3. CASE d = c /\ q = p
    <3>1. CASE outcome = "ok"
      BY <1>3, <1>4, <2>3, <3>1
    <3>2. CASE outcome # "ok"
      <4>1. /\ streak[c][p] \in Count /\ failures[c] \in Count
            /\ streak'[c][p] = Strike(streak[c][p])
        BY <1>0, <1>1, <1>3, <3>2 DEF PollingInv, TypeOK, count
      <4>2. q \in selected \ cycle'[c].got => streak[c][p] >= failures[c]
        BY <1>1, <1>4, <2>3, <3>2 DEF PollingInv, FanOutCounted
      <4>3. q \in selected \ cycle'[c].got =>
               Strike(streak[c][p]) >= Strike(failures[c]) /\ Strike(failures[c]) >= failures[c]
        BY <4>1, <4>2, StrikeCounts
      <4>4. Strike(streak[c][p]) \in Int /\ Strike(failures[c]) \in Int /\ failures[c] \in Int
        BY <4>1, StrikeCounts DEF Count
      <4> QED BY <1>3, <2>3, <4>1, <4>3, <4>4
    <3> QED BY <3>1, <3>2
  <2> QED BY <2>1, <2>2, <2>3
<1>8. PlainCounted'
  <2> HIDE DEF p, count
  <2> SUFFICES ASSUME NEW d \in Plain, NEW q \in Properties
               PROVE  failures[d] = streak'[d][q]
    BY DEF PlainCounted, FetchProperty, coordinatorVars
  <2>1. streak'[d] = streak[d]
    BY <1>3, CoordinatorsApart
  <2> QED BY <2>1 DEF PollingInv, PlainCounted
<1>9. ShownHeld' /\ IssuesAreCurrent' /\ DisappearanceReported'
  BY DEF PollingInv, ShownHeld, IssuesAreCurrent, DisappearanceReported, FetchProperty,
         entryVars, coordinatorVars
<1> QED BY <1>5, <1>6, <1>7, <1>8, <1>9 DEF PollingInv

LEMMA EndFanOutKeeps ==
    ASSUME PollingInv, NEW c \in FanOut, EndFanOut(c)
    PROVE  PollingInv'
<1> DEFINE failed == cycle[c].got = {} /\ cycle[c].error # "none"
           held == Retained(c) \cup cycle[c].got
<1>0. /\ c \in Coordinators /\ c \notin Plain /\ c # Listing /\ held \in SUBSET Properties
      /\ cycle[c] # NoCycle /\ cycle[c].todo = << >>
  BY CoordinatorsApart, RetainedIsHeld DEF PollingInv, TypeOK, EndFanOut, Cycle
<1>1. (failed /\ Fail(c, cycle[c].error)) \/ (~failed /\ Succeed(c, held))
  BY DEF EndFanOut
<1> HIDE DEF failed, held
<1>2. /\ failures' \in [Coordinators -> Count]
      /\ failures' = [failures EXCEPT ![c] = IF failed THEN Strike(failures[c]) ELSE 0]
      /\ last_success' \in [Coordinators -> BOOLEAN]
      /\ data' \in [Coordinators -> (SUBSET Properties) \cup {None}]
      /\ data' = IF failed THEN data ELSE [data EXCEPT ![c] = held]
      /\ {stopped', ailing', refused'} \subseteq SUBSET Coordinators
      /\ issues' \subseteq Kinds \X Coordinators
      /\ IssuesAreCurrent'
  <2>1. CASE failed /\ Fail(c, cycle[c].error)
    BY <1>0, <2>1, FailKeeps DEF PollingInv, TypeOK
  <2>2. CASE ~failed /\ Succeed(c, held)
    BY <1>0, <2>2, SucceedKeeps DEF PollingInv
  <2> QED BY <1>1, <2>1, <2>2
<1>3. shown' \subseteq Entities /\ ShownHeld' /\ (~loaded => shown' = {})
  <2>1. held # None /\ (data[c] # None => data[c] \subseteq held)
    BY <1>0, PollingAssumption, RetainedIsHeld DEF held, PollingInv
  <2>2. \A d \in Coordinators : data[d] # None => data'[d] # None
    BY <1>0, <1>2, <2>1 DEF PollingInv, TypeOK
  <2>3. \A d \in FanOut : data[d] # None => data[d] \subseteq data'[d]
    BY <1>0, <1>2, <2>1, CoordinatorsApart DEF PollingInv, TypeOK
  <2>4. Notify(c, last_success'[c]) /\ last_success'[c] \in BOOLEAN /\ known' = known
    BY <1>0, <1>2 DEF EndFanOut
  <2> QED BY <1>0, <2>2, <2>3, <2>4, NotifyKeeps DEF PollingInv, SetUpShape
<1>4. ~loaded => setup # << >> /\ Head(setup) = c
  BY <1>0 DEF PollingInv, SetUpShape
<1>5. setup' \in Seq(Coordinators)
  BY <1>4, TailOfSetUp DEF PollingInv, TypeOK, SetUpShape, SetUpGoesOn, EndFanOut
<1>6. /\ cycle'[c] = NoCycle /\ \A d \in FanOut \ {c} : cycle'[d] = cycle[d]
      /\ cycle' \in [FanOut -> Cycle]
  <2>1. NoCycle \in Cycle
    BY DEF NoCycle, Cycle
  <2> QED BY <2>1 DEF EndFanOut, PollingInv, TypeOK
<1>7. TypeOK'
  BY <1>2, <1>3, <1>5, <1>6 DEF PollingInv, TypeOK, EndFanOut
<1>8. SetUpShape'
  <2>1. CASE loaded
    BY <1>3, <1>6, <2>1 DEF PollingInv, SetUpShape, SetUpGoesOn, EndFanOut
  <2>2. CASE ~loaded
    <3>1. setup' = Tail(setup) /\ ~loaded'
      BY <2>2 DEF SetUpGoesOn, EndFanOut
    <3>2. \A i \in DOMAIN setup' : setup'[i] # Listing
      BY <1>4, <2>2, <3>1, TailOfSetUp DEF PollingInv, TypeOK, SetUpShape
    <3>3. setup' # << >> => Head(setup') # Listing
      BY <1>4, <2>2, <3>1, TailOfSetUp DEF PollingInv, TypeOK, SetUpShape
    <3>4. \A d \in FanOut : cycle'[d] = NoCycle
      BY <1>4, <1>6, <2>2 DEF PollingInv, SetUpShape
    <3> QED BY <1>3, <2>2, <3>1, <3>2, <3>3, <3>4 DEF SetUpShape
  <2> QED BY <2>1, <2>2
<1>9. PlainCounted'
  BY <1>0, <1>2, CoordinatorsApart DEF PollingInv, PlainCounted, TypeOK, EndFanOut
<1>10. FanOutCounted'
  <2> SUFFICES ASSUME NEW d \in FanOut, NEW p \in Properties
               PROVE  /\ strikes[d][p] = streak[d][p]
                      /\ p \in selected \ cycle'[d].got =>
                             /\ streak[d][p] >= failures'[d]
                             /\ cycle'[d] # NoCycle /\ p \notin ToSet(cycle'[d].todo) =>
                                    streak[d][p] >= Strike(failures'[d])
    BY DEF FanOutCounted, Strike, EndFanOut
  <2>1. CASE d # c
    BY <1>2, <1>6, <2>1, CoordinatorsApart DEF PollingInv, FanOutCounted, TypeOK
  <2>2. CASE d = c /\ failed
    <3>1. cycle[c].got = {} /\ p \notin ToSet(cycle[c].todo)
      BY <1>0, <2>2 DEF failed, ToSet
    <3>2. p \in selected => streak[c][p] >= Strike(failures[c])
      BY <1>0, <3>1 DEF PollingInv, FanOutCounted
    <3>3. failures'[c] = Strike(failures[c])
      BY <1>0, <1>2, <2>2 DEF PollingInv, TypeOK
    <3> QED BY <1>6, <2>2, <3>2, <3>3 DEF PollingInv, FanOutCounted
  <2>3. CASE d = c /\ ~failed
    <3>1. failures'[c] = 0
      BY <1>0, <1>2, <2>3 DEF PollingInv, TypeOK
    <3>2. streak[c][p] >= 0
      BY <1>0 DEF PollingInv, TypeOK, Count
    <3> QED BY <1>6, <2>3, <3>1, <3>2 DEF PollingInv, FanOutCounted
  <2> QED BY <2>1, <2>2, <2>3
<1>11. DisappearanceReported'
  BY DEF PollingInv, DisappearanceReported, EndFanOut
<1> QED BY <1>2, <1>3, <1>7, <1>8, <1>9, <1>10, <1>11 DEF PollingInv

LEMMA LoadKeeps ==
    ASSUME PollingInv, Load
    PROVE  PollingInv'
<1>1. TypeOK'
  BY DEF PollingInv, TypeOK, Load, fanOutVars, historyVars
<1>2. SetUpShape'
  BY DEF PollingInv, TypeOK, SetUpShape, Load, fanOutVars
<1>3. PlainCounted' /\ FanOutCounted' /\ IssuesAreCurrent' /\ DisappearanceReported'
  BY DEF PollingInv, PlainCounted, FanOutCounted, IssuesAreCurrent, DisappearanceReported,
         Load, fanOutVars, historyVars
<1>4. ShownHeld'
  BY DEF Load, ShownHeld, Available, Entities
<1> QED BY <1>1, <1>2, <1>3, <1>4 DEF PollingInv

LEMMA UnchangedKeeps ==
    ASSUME PollingInv, UNCHANGED <<entryVars, coordinatorVars, fanOutVars, issues, warned,
                                   shown, historyVars>>,
           calm' \in BOOLEAN
    PROVE  PollingInv'
<1>1. TypeOK'
  BY DEF PollingInv, TypeOK, entryVars, coordinatorVars, fanOutVars, historyVars
<1>2. SetUpShape' /\ PlainCounted' /\ FanOutCounted' /\ ShownHeld'
  BY DEF PollingInv, SetUpShape, PlainCounted, FanOutCounted, ShownHeld,
         entryVars, coordinatorVars, fanOutVars, historyVars
<1>3. IssuesAreCurrent' /\ DisappearanceReported'
  BY DEF PollingInv, IssuesAreCurrent, DisappearanceReported, historyVars
<1> QED BY <1>1, <1>2, <1>3 DEF PollingInv

LEMMA PollingInvStep == PollingInv /\ [Next]_vars => PollingInv'
<1> SUFFICES ASSUME PollingInv, [Next]_vars PROVE PollingInv'
  OBVIOUS
<1>1. ASSUME NEW c \in Plain, RefreshPlain(c) PROVE PollingInv'
  <2>1. CASE \E ids \in SUBSET Properties : RefreshListing(ids)
    BY <2>1, RefreshListingKeeps
  <2>2. CASE RefreshBookings
    BY <2>2, RefreshBookingsKeeps
  <2>3. CASE RetainData(c)
    BY <2>3, RetainDataKeeps
  <2>4. CASE \E kind \in Failure \ {"scope"} :
                 FailRefresh(c, kind) \/ FailFirstRefresh(c, kind)
    BY <2>4, FailRefreshKeeps, FailFirstRefreshKeeps
  <2> QED BY <1>1, <2>1, <2>2, <2>3, <2>4 DEF RefreshPlain
<1>2. ASSUME NEW c \in FanOut, RefreshFanOut(c) PROVE PollingInv'
  <2>1. CASE \E outcome \in {"ok"} \cup Failure : FetchProperty(c, outcome)
    BY <2>1, FetchPropertyKeeps DEF Failure
  <2> QED BY <1>2, <2>1, StartFanOutKeeps, EndFanOutKeeps DEF RefreshFanOut
<1>3. ASSUME NEW choice \in Selections, Reload(choice) PROVE PollingInv'
  BY <1>3, ReloadKeeps
<1>4. CASE BecomeCalm
  BY <1>4, UnchangedKeeps DEF BecomeCalm
<1>5. CASE UNCHANGED vars
  <2>1. calm' \in BOOLEAN
    BY <1>5 DEF PollingInv, TypeOK, vars
  <2> QED BY <1>5, <2>1, UnchangedKeeps DEF vars
<1> QED BY <1>1, <1>2, <1>3, <1>4, <1>5, LoadKeeps DEF Next

-----------------------------------------------------------------------------
(* The theorems                                                            *)

\* The invariant holds for every entry, whatever its coordinators.
THEOREM PollingInvariant == Spec => []PollingInv
<1> QED BY PollingInvInit, PollingInvStep, PTL DEF Spec

\* Every variable keeps its type: no counter leaves 0..MAX_CONSECUTIVE_FAILURES
\* (coordinator.py), and no queue of first refreshes outgrows the set-up.
THEOREM TypeCorrect == Spec => []TypeOK
<1>1. PollingInv => TypeOK
  BY DEF PollingInv
<1> QED BY <1>1, PollingInvariant, PTL

\* FR-065: an issue is raised exactly as long as its coordinator's condition
\* lasts, over reloads and set-up retries too (coordinator.py:163-200).
THEOREM IssuesCurrent == Spec => []IssuesAreCurrent
<1>1. PollingInv => IssuesAreCurrent
  BY DEF PollingInv
<1> QED BY <1>1, PollingInvariant, PTL

\* FR-056: no disappearance goes without a warning (coordinator.py:371-392).
THEOREM DisappearancesReported == Spec => []DisappearanceReported
<1>1. PollingInv => DisappearanceReported
  BY DEF PollingInv
<1> QED BY <1>1, PollingInvariant, PTL

\* Between refreshes both counters together say what the polls of a property do.
LEMMA CountersAgree ==
    ASSUME PollingInv, loaded, NEW c \in Coordinators, NEW p \in Properties, Settled(c),
           PropertyActive(p)
    PROVE  (/\ failures[c] < MAX_CONSECUTIVE_FAILURES
            /\ c \in FanOut => strikes[c][p] < MAX_CONSECUTIVE_FAILURES)
           <=> streak[c][p] < MAX_CONSECUTIVE_FAILURES
<1>1. CASE c \in Plain
  BY <1>1, CoordinatorsApart DEF PollingInv, PlainCounted
<1>2. CASE c \in FanOut
  <2>1. cycle[c].got = {} /\ p \in selected
    BY <1>2 DEF Settled, NoCycle, PropertyActive, PollingInv, SetUpShape
  <2>2. strikes[c][p] = streak[c][p] /\ streak[c][p] >= failures[c]
    BY <1>2, <2>1 DEF PollingInv, FanOutCounted
  <2>3. streak[c][p] \in Nat /\ failures[c] \in Nat /\ MAX_CONSECUTIVE_FAILURES \in Nat
    BY PollingAssumption DEF PollingInv, TypeOK, Count
  <2> QED BY <1>2, <2>2, <2>3
<1> QED BY <1>1, <1>2 DEF Coordinators

LEMMA AvailableByStreak == PollingInv => ThreeStrikes
<1> SUFFICES ASSUME PollingInv, loaded, NEW c \in Coordinators, NEW p \in Properties,
                    Settled(c)
             PROVE  Available(c, p) <=>
                       /\ PropertyActive(p)
                       /\ data[c] # None /\ (c \in FanOut => p \in data[c])
                       /\ streak[c][p] < MAX_CONSECUTIVE_FAILURES
  BY DEF ThreeStrikes
<1>1. CASE PropertyActive(p)
  BY <1>1, CountersAgree DEF Available
<1>2. CASE ~PropertyActive(p)
  BY <1>2 DEF Available
<1> QED BY <1>1, <1>2

\* FR-057 as computed (entity.py:65-86): the third failed poll of a property in a
\* row makes its entities unavailable, no other thing does, for any number of
\* properties, coordinators and strikes.
THEOREM ThreeStrikesKept == Spec => []ThreeStrikes
<1> QED BY AvailableByStreak, PollingInvariant, PTL

LEMMA AvailableByStreakNext == PollingInv' => ThreeStrikes'
  BY AvailableByStreak, PTL

\* What a notification takes off the display could not be available.
LEMMA RemovedByNotify ==
    ASSUME PollingInv, PollingInv', NEW c \in Coordinators, NEW succeeded,
           Notify(c, succeeded), known' = known, loaded',
           NEW e \in shown \ shown',
           \A d \in Coordinators : data[d] # None => data'[d] # None,
           \A d \in FanOut : data[d] # None => data[d] \subseteq data'[d]
    PROVE  \/ ~PropertyActive(e[2])' \/ ~Settled(e[1])'
           \/ streak'[e[1]][e[2]] >= MAX_CONSECUTIVE_FAILURES
<1>1. e \in Entities /\ e[1] \in Coordinators /\ e[2] \in Properties
  BY DEF PollingInv, TypeOK, Entities
<1>2. ~Available(e[1], e[2])'
  BY <1>1 DEF Notify, PollingInv, ShownHeld
<1>3. data'[e[1]] # None /\ (e[1] \in FanOut => e[2] \in data'[e[1]])
  BY <1>1 DEF PollingInv, ShownHeld
<1>4. ThreeStrikes'
  BY AvailableByStreakNext
<1>5. streak'[e[1]][e[2]] \in Nat /\ MAX_CONSECUTIVE_FAILURES \in Nat
  BY <1>1, PollingAssumption DEF PollingInv, TypeOK, Count
<1> QED BY <1>1, <1>2, <1>3, <1>4, <1>5 DEF ThreeStrikes

\* A refresh gives up no data, and no other step takes anything off the display
\* of an entry that is loaded.
LEMMA RefreshRemoves ==
    ASSUME PollingInv, PollingInv', NEW c \in Coordinators, NEW succeeded,
           Notify(c, succeeded), known' = known, loaded', NEW e \in shown \ shown',
           data' = data \/ \E held \in SUBSET Properties :
                               /\ data' = [data EXCEPT ![c] = held]
                               /\ c \in FanOut /\ data[c] # None => data[c] \subseteq held
    PROVE  \/ ~PropertyActive(e[2])' \/ ~Settled(e[1])'
           \/ streak'[e[1]][e[2]] >= MAX_CONSECUTIVE_FAILURES
<1>1. \A d \in Coordinators : data[d] # None => data'[d] # None
  BY PollingAssumption DEF PollingInv, TypeOK
<1>2. \A d \in FanOut : data[d] # None => data[d] \subseteq data'[d]
  <2>1. CASE data' = data
    BY <2>1
  <2>2. ASSUME NEW held, data' = [data EXCEPT ![c] = held],
               c \in FanOut /\ data[c] # None => data[c] \subseteq held,
               NEW d \in FanOut, data[d] # None
        PROVE  data[d] \subseteq data'[d]
    <3>1. data'[d] = IF d = c THEN held ELSE data[d]
      BY <2>2, CoordinatorsApart DEF PollingInv, TypeOK
    <3> QED BY <2>2, <3>1
  <2> QED BY <2>1, <2>2
<1> QED BY <1>1, <1>2, RemovedByNotify

LEMMA StepRetains ==
    ASSUME PollingInv, PollingInv', [Next]_vars, loaded', NEW e \in shown \ shown'
    PROVE  \/ ~PropertyActive(e[2])' \/ ~Settled(e[1])'
           \/ streak'[e[1]][e[2]] >= MAX_CONSECUTIVE_FAILURES
<1> DEFINE Allowed == \/ ~PropertyActive(e[2])' \/ ~Settled(e[1])'
                      \/ streak'[e[1]][e[2]] >= MAX_CONSECUTIVE_FAILURES
<1> HIDE DEF Allowed
<1>1. ASSUME NEW c \in Plain, RefreshPlain(c) PROVE Allowed
  <2>0. c \in Coordinators /\ c \notin FanOut
    BY CoordinatorsApart
  <2>1. CASE \E ids \in SUBSET Properties : RefreshListing(ids)
    BY <2>1, CoordinatorsApart, RefreshRemoves DEF RefreshListing, Succeed, Allowed
  <2>2. CASE RefreshBookings
    <3>1. Bookings \in Coordinators /\ Bookings \notin FanOut /\ {} \in SUBSET Properties
      BY CoordinatorsApart
    <3>2. data' = [data EXCEPT ![Bookings] = {}] /\ Notify(Bookings, TRUE) /\ known' = known
      BY <2>2 DEF RefreshBookings, Succeed
    <3> QED BY <3>1, <3>2, RefreshRemoves DEF Allowed
  <2>3. CASE RetainData(c)
    <3>1. Retained(c) \in SUBSET Properties
      BY <2>0, RetainedIsHeld DEF PollingInv
    <3> QED BY <2>0, <2>3, <3>1, RefreshRemoves DEF RetainData, Succeed, Allowed
  <2>4. CASE \E kind \in Failure \ {"scope"} :
                 FailRefresh(c, kind) \/ FailFirstRefresh(c, kind)
    <3>1. ~(\E kind : FailFirstRefresh(c, kind))
      BY DEF FailFirstRefresh, BuildEntry
    <3> QED BY <2>0, <2>4, <3>1, RefreshRemoves DEF FailRefresh, Fail, entryVars, Allowed
  <2> QED BY <1>1, <2>1, <2>2, <2>3, <2>4 DEF RefreshPlain
<1>2. ASSUME NEW c \in FanOut, RefreshFanOut(c) PROVE Allowed
  <2>0. c \in Coordinators
    BY CoordinatorsApart
  <2>1. shown' # shown
    OBVIOUS
  <2>2. EndFanOut(c)
    BY <1>2, <2>1 DEF RefreshFanOut, StartFanOut, FetchProperty
  <2>3. /\ Retained(c) \cup cycle[c].got \in SUBSET Properties
        /\ data[c] # None => data[c] \subseteq Retained(c) \cup cycle[c].got
    BY <2>0, RetainedIsHeld DEF PollingInv, TypeOK, Cycle
  <2>4. data' = data \/ \E held \in SUBSET Properties :
                            /\ data' = [data EXCEPT ![c] = held]
                            /\ c \in FanOut /\ data[c] # None => data[c] \subseteq held
    BY <2>2, <2>3 DEF EndFanOut, Fail, Succeed
  <2> QED BY <2>0, <2>2, <2>4, RefreshRemoves DEF EndFanOut, Allowed
<1>3. ~Load
  BY DEF Load, PollingInv, SetUpShape
<1>4. ~(\E choice \in Selections : Reload(choice))
  BY DEF Reload, BuildEntry
<1>5. ~BecomeCalm /\ ~UNCHANGED vars
  BY DEF BecomeCalm, vars
<1> QED BY <1>1, <1>2, <1>3, <1>4, <1>5 DEF Next, Allowed

\* FR-057 as shown (entity.py:65-86): nothing goes off the display of a loaded
\* entry before its property has failed MAX_CONSECUTIVE_FAILURES times in a row,
\* unless the property went.
THEOREM LastKnownRetained == Spec => RetainsLastKnown
<1>1. PollingInv /\ PollingInv' /\ [Next]_vars =>
         [loaded' =>
          \A e \in shown \ shown' :
              \/ ~PropertyActive(e[2])' \/ ~Settled(e[1])'
              \/ streak'[e[1]][e[2]] >= MAX_CONSECUTIVE_FAILURES]_vars
  BY StepRetains
<1> QED BY <1>1, PollingInvariant, PTL DEF Spec, RetainsLastKnown

=============================================================================
