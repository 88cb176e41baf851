------------------------ MODULE EntryLifecycleProofs ------------------------
(***************************************************************************)
(* What holds of EntryLifecycle for any set of entries and of options.     *)
(***************************************************************************)
EXTENDS EntryLifecycle, TLAPS

LEMMA FourCoordinators == Len(Coordinators) = 4
  BY DEF Coordinators

LEMMA NotBelowFour == \A n \in Nat : n <= 4 /\ ~(n < 4) => n = 4
  OBVIOUS

\* TypeOK without Stages, which has an argument of its own.
Shape ==
    /\ state \in [Entries -> States]
    /\ options \in [Entries -> Options]
    /\ applied \in [Entries -> Seq(Options)]
    /\ listener \subseteq Entries /\ leaked \subseteq Entries /\ reloads \subseteq Entries
    /\ {services, abandoned} \subseteq BOOLEAN
    /\ unheard \subseteq Entries /\ overtaken \subseteq Entries

LEMMA TypeIsShape == TypeOK <=> Shape /\ Stages
  BY DEF TypeOK, Shape

LEMMA StartType ==
    ASSUME Shape, NEW e \in Entries, Start(e)
    PROVE  /\ state' \in [Entries -> States] /\ applied' \in [Entries -> Seq(Options)]
           /\ unheard' \subseteq Entries /\ overtaken' \subseteq Entries
           /\ Len(applied'[e]) = 1
  <1>1. <<options[e]>> \in Seq(Options) /\ Len(<<options[e]>>) = 1
        BY DEF Shape
  <1> QED
      BY <1>1 DEF Start, Shape, States

LEMMA BuildType ==
    ASSUME Shape, NEW e \in Entries, BuildNext(e)
    PROVE  /\ applied' \in [Entries -> Seq(Options)]
           /\ Len(applied'[e]) = Len(applied[e]) + 1
           /\ Len(applied[e]) \in Nat
  <1>1. /\ Append(applied[e], options[e]) \in Seq(Options)
        /\ Len(Append(applied[e], options[e])) = Len(applied[e]) + 1
        /\ Len(applied[e]) \in Nat
        BY DEF Shape
  <1> QED
      BY <1>1 DEF BuildNext, Shape

LEMMA InitType == Init => TypeOK
  <1> SUFFICES ASSUME Init PROVE TypeOK
      OBVIOUS
  <1>1. << >> \in Seq(Options) /\ Len(<< >>) = 0
        OBVIOUS
  <1>2. \A e \in Entries : Len(applied[e]) = 0 /\ state[e] = "not_loaded"
    <2>1. \A e \in Entries : applied[e] = << >> /\ state[e] = "not_loaded"
          BY DEF Init
    <2> QED
        BY <1>1, <2>1
  <1>3. Stages
    <2>1. 0 <= Len(Coordinators)
          BY FourCoordinators
    <2> QED
        BY <1>2, <2>1, Zenon DEF Stages
  <1>4. applied \in [Entries -> Seq(Options)]
    <2>1. applied = [e \in Entries |-> << >>]
          BY DEF Init
    <2> QED
        BY <1>1, <2>1, Zenon
  <1>5. Shape
        BY <1>4 DEF Init, Shape, States
  <1> QED
      BY <1>3, <1>5, TypeIsShape

LEMMA StepType == TypeOK /\ [Next]_vars => TypeOK'
  <1> SUFFICES ASSUME Shape, Stages, [Next]_vars PROVE Shape' /\ Stages'
      BY TypeIsShape DEF TypeOK, Shape
  <1> USE FourCoordinators
  <1>1. CASE UNCHANGED vars
        BY <1>1 DEF Shape, Stages, vars
  <1>2. ASSUME NEW e \in Entries, EntryNext(e) PROVE Shape' /\ Stages'
    <2>1. CASE SetUp(e)
      <3>1. Shape'
            BY <2>1, StartType DEF SetUp, Shape
      <3>2. Stages'
            BY <2>1, StartType DEF SetUp, Start, Shape, Stages
      <3> QED
          BY <3>1, <3>2
    <2>2. CASE BuildNext(e)
      <3>1. Shape'
            BY <2>2, BuildType DEF BuildNext, Shape
      <3>2. Stages'
            BY <2>2, BuildType DEF BuildNext, MoreToBuild, Shape, Stages
      <3> QED
          BY <3>1, <3>2
    <2>3. CASE FailSetUp(e)
      <3>1. Shape'
            BY <2>3 DEF FailSetUp, Shape, States
      <3>2. Stages'
            BY <2>3 DEF FailSetUp, Shape, Stages
      <3> QED
          BY <3>1, <3>2
    <2>4. CASE Register(e)
      <3>1. Shape'
            BY <2>4 DEF Register, Listen, Shape, States
      <3>2. Len(applied[e]) \in Nat
            BY DEF Shape
      <3>3. Len(applied[e]) = 4
        <4>1. Len(applied[e]) <= 4
              BY DEF Stages
        <4>2. ~(Len(applied[e]) < 4)
              BY <2>4 DEF Register, MoreToBuild
        <4> QED
            BY <3>2, <4>1, <4>2, NotBelowFour, Zenon
      <3>4. Stages'
            BY <2>4, <3>3 DEF Register, Shape, Stages
      <3> QED
          BY <3>1, <3>4
    <2>5. CASE EndSetUp(e)
          BY <2>5 DEF EndSetUp, Shape, Stages, States
    <2>6. CASE Unload(e)
          BY <2>6 DEF Unload, Shape, Stages, States
    <2>7. ASSUME NEW unload_ok \in BOOLEAN, NEW reported \in ReportedAsLoaded,
                 EndUnload(e, unload_ok, reported)
          PROVE  Shape' /\ Stages'
      <3>1. Shape'
            BY <2>7 DEF EndUnload, Shape, States
      <3>2. Stages'
            BY <2>7 DEF EndUnload, Shape, Stages
      <3> QED
          BY <3>1, <3>2
    <2>8. ASSUME NEW new \in Options, ChangeOptions(e, new)
          PROVE  Shape' /\ Stages'
          BY <2>8 DEF ChangeOptions, Shape, Stages
    <2>9. CASE Reload(e)
      <3>1. CASE state[e] = "not_loaded"
        <4>1. Start(e)
              BY <2>9, <3>1 DEF Reload
        <4>2. Shape'
              BY <2>9, <4>1, StartType DEF Reload, Shape
        <4>3. Stages'
              BY <2>9, <4>1, StartType DEF Reload, Start, Shape, Stages
        <4> QED
            BY <4>2, <4>3
      <3>2. CASE state[e] # "not_loaded"
            BY <2>9, <3>2 DEF Reload, Shape, Stages, States
      <3> QED
          BY <3>1, <3>2
    <2>10. CASE FailForward(e)
      <3>1. Shape'
            BY <2>10 DEF FailForward, Shape, States
      <3>2. Stages'
            BY <2>10 DEF FailForward, Shape, Stages
      <3> QED
          BY <3>1, <3>2
    <2> QED
        BY <1>2, <2>1, <2>2, <2>3, <2>4, <2>5, <2>6, <2>7, <2>8, <2>9, <2>10 DEF EntryNext
  <1> QED
      BY <1>1, <1>2 DEF Next

\* TypeOK is an invariant: in particular set-up builds its coordinators once
\* each and in order (async_setup_entry).
THEOREM LifecycleTypeCorrect == Spec => []TypeOK
  BY InitType, StepType, PTL DEF Spec

-----------------------------------------------------------------------------
(* The services                                                            *)

LEMMA LastOneRemoves ==
    ASSUME TypeOK, NoServicesWithoutEntry, [Next]_vars
    PROVE  NoServicesWithoutEntry'
  <1> USE DEF NoServicesWithoutEntry
  <1>0. state \in [Entries -> States]
        BY DEF TypeOK
  <1>1. CASE UNCHANGED vars
        BY <1>1 DEF vars
  <1>2. ASSUME NEW e \in Entries, EntryNext(e) PROVE NoServicesWithoutEntry'
    <2>1. CASE SetUp(e)
          BY <2>1, <1>0 DEF SetUp, Start
    <2>2. CASE BuildNext(e)
          BY <2>2 DEF BuildNext
    <2>3. CASE FailSetUp(e)
          BY <2>3, <1>0 DEF FailSetUp
    <2>4. CASE Register(e)
          BY <2>4, <1>0 DEF Register
    <2>5. CASE EndSetUp(e)
          BY <2>5, <1>0 DEF EndSetUp
    <2>6. CASE Unload(e)
          BY <2>6, <1>0 DEF Unload
    <2>7. ASSUME NEW unload_ok \in BOOLEAN, NEW reported \in ReportedAsLoaded,
                 EndUnload(e, unload_ok, reported)
          PROVE  NoServicesWithoutEntry'
          BY <2>7, <1>0 DEF EndUnload, Remaining, LoadedEntries, ReportedAsLoaded
    <2>8. ASSUME NEW new \in Options, ChangeOptions(e, new)
          PROVE  NoServicesWithoutEntry'
          BY <2>8 DEF ChangeOptions
    <2>9. CASE Reload(e)
          BY <2>9, <1>0 DEF Reload, Start
    <2>10. CASE FailForward(e)
          BY <2>10, <1>0 DEF FailForward
    <2> QED
        BY <1>2, <2>1, <2>2, <2>3, <2>4, <2>5, <2>6, <2>7, <2>8, <2>9, <2>10 DEF EntryNext
  <1> QED
      BY <1>1, <1>2 DEF Next

\* FR-006, first half, for any number of entries: async_unload_services leaves
\* no service behind when the last entry unloads.
THEOREM NoOrphanedServices == Spec => []NoServicesWithoutEntry
  <1>1. Init => NoServicesWithoutEntry
        BY DEF Init, NoServicesWithoutEntry
  <1> QED
      BY <1>1, LastOneRemoves, LifecycleTypeCorrect, PTL DEF Spec

\* ServicesLostByOvertakingOnly, from the registration on.
Overtaken ==
    \A e \in Entries :
        state[e] \in {"forward", "loaded"} /\ ~services => e \in overtaken

LEMMA OvertakenStep == ASSUME TypeOK, Overtaken, [Next]_vars PROVE Overtaken'
  <1> USE DEF Overtaken
  <1>0. state \in [Entries -> States] /\ services \in BOOLEAN
        BY DEF TypeOK
  <1>1. CASE UNCHANGED vars
        BY <1>1 DEF vars
  <1>2. ASSUME NEW e \in Entries, EntryNext(e) PROVE Overtaken'
    <2>1. CASE SetUp(e)
          BY <2>1, <1>0 DEF SetUp, Start
    <2>2. CASE BuildNext(e)
          BY <2>2 DEF BuildNext
    <2>3. CASE FailSetUp(e)
          BY <2>3, <1>0 DEF FailSetUp
    <2>4. CASE Register(e)
          BY <2>4, <1>0 DEF Register
    <2>5. CASE EndSetUp(e)
          BY <2>5, <1>0 DEF EndSetUp
    <2>6. CASE Unload(e)
          BY <2>6, <1>0 DEF Unload
    <2>7. ASSUME NEW unload_ok \in BOOLEAN, NEW reported \in ReportedAsLoaded,
                 EndUnload(e, unload_ok, reported)
          PROVE  Overtaken'
      <3> SUFFICES ASSUME NEW f \in Entries, state'[f] \in {"forward", "loaded"},
                          ~services'
                   PROVE  f \in overtaken'
          OBVIOUS
      <3>1. f # e /\ state'[f] = state[f]
            BY <2>7, <1>0 DEF EndUnload
      <3>2. CASE state[f] = "forward"
            BY <2>7, <3>2 DEF EndUnload
      <3>3. CASE state[f] = "loaded"
        <4>1. f \in Remaining(e, reported)
              BY <3>1, <3>3 DEF Remaining, LoadedEntries, ReportedAsLoaded
        <4>2. ~services
              BY <2>7, <4>1 DEF EndUnload
        <4> QED
            BY <2>7, <3>3, <4>2 DEF EndUnload
      <3> QED
          BY <3>1, <3>2, <3>3
    <2>8. ASSUME NEW new \in Options, ChangeOptions(e, new) PROVE Overtaken'
          BY <2>8 DEF ChangeOptions
    <2>9. CASE Reload(e)
          BY <2>9, <1>0 DEF Reload, Start
    <2>10. CASE FailForward(e)
          BY <2>10, <1>0 DEF FailForward
    <2> QED
        BY <1>2, <2>1, <2>2, <2>3, <2>4, <2>5, <2>6, <2>7, <2>8, <2>9, <2>10 DEF EntryNext
  <1> QED
      BY <1>1, <1>2 DEF Next

\* FR-006, second half, as far as it holds: a loaded entry is without services
\* only if an unload overtook its set-up.
THEOREM OnlyOvertakingLosesServices == Spec => []ServicesLostByOvertakingOnly
  <1>1. Init => Overtaken
        BY DEF Init, Overtaken
  <1>2. Overtaken => ServicesLostByOvertakingOnly
        BY DEF Overtaken, ServicesLostByOvertakingOnly
  <1> QED
      BY <1>1, <1>2, OvertakenStep, LifecycleTypeCorrect, PTL DEF Spec

-----------------------------------------------------------------------------
(* The options                                                             *)

\* From its registration to its unload an entry listens to its options ...
Listening ==
    \A e \in Entries : state[e] \in {"forward", "loaded"} => e \in listener

\* ... and what a set-up has read so far is in effect unless a reload is due
\* or the change was not heard.
InSync ==
    \A e \in Entries :
        (state[e] \in {"setup", "forward", "loaded"} /\ e \notin reloads \cup unheard) =>
            \A i \in 1..Len(applied[e]) : applied[e][i] = options[e]

LEMMA ListeningStep == ASSUME TypeOK, Listening, [Next]_vars PROVE Listening'
  <1> USE DEF Listening
  <1>0. state \in [Entries -> States]
        BY DEF TypeOK
  <1>1. CASE UNCHANGED vars
        BY <1>1 DEF vars
  <1>2. ASSUME NEW e \in Entries, EntryNext(e) PROVE Listening'
    <2>1. CASE SetUp(e)
          BY <2>1, <1>0 DEF SetUp, Start
    <2>2. CASE BuildNext(e)
          BY <2>2 DEF BuildNext
    <2>3. CASE FailSetUp(e)
          BY <2>3, <1>0 DEF FailSetUp
    <2>4. CASE Register(e)
          BY <2>4, <1>0 DEF Register, Listen
    <2>5. CASE EndSetUp(e)
          BY <2>5, <1>0 DEF EndSetUp
    <2>6. CASE Unload(e)
          BY <2>6, <1>0 DEF Unload
    <2>7. ASSUME NEW unload_ok \in BOOLEAN, NEW reported \in ReportedAsLoaded,
                 EndUnload(e, unload_ok, reported)
          PROVE  Listening'
          BY <2>7, <1>0 DEF EndUnload
    <2>8. ASSUME NEW new \in Options, ChangeOptions(e, new) PROVE Listening'
          BY <2>8 DEF ChangeOptions
    <2>9. CASE Reload(e)
          BY <2>9, <1>0 DEF Reload, Start
    <2>10. CASE FailForward(e)
          BY <2>10, <1>0 DEF FailForward
    <2> QED
        BY <1>2, <2>1, <2>2, <2>3, <2>4, <2>5, <2>6, <2>7, <2>8, <2>9, <2>10 DEF EntryNext
  <1> QED
      BY <1>1, <1>2 DEF Next

\* The first read of a set-up is of the current options.
LEMMA StartReads ==
    ASSUME TypeOK, NEW e \in Entries, Start(e), options' = options
    PROVE  \A i \in 1..Len(applied'[e]) : applied'[e][i] = options'[e]
  <1>1. applied'[e] = <<options[e]>>
        BY DEF Start, TypeOK
  <1> QED
      BY <1>1

\* So is every later one.
LEMMA BuildReads ==
    ASSUME TypeOK, NEW e \in Entries, BuildNext(e),
           \A i \in 1..Len(applied[e]) : applied[e][i] = options[e]
    PROVE  \A i \in 1..Len(applied'[e]) : applied'[e][i] = options'[e]
  <1>1. applied'[e] = Append(applied[e], options[e]) /\ options' = options
        BY DEF BuildNext, TypeOK
  <1>2. applied[e] \in Seq(Options) /\ options[e] \in Options
        BY DEF TypeOK
  <1> QED
      BY <1>1, <1>2

LEMMA InSyncStep ==
    ASSUME TypeOK, Listening, InSync, [Next]_vars PROVE InSync'
  <1> USE DEF InSync
  <1>0. /\ state \in [Entries -> States] /\ options \in [Entries -> Options]
        /\ applied \in [Entries -> Seq(Options)]
        BY DEF TypeOK
  <1>1. CASE UNCHANGED vars
        BY <1>1 DEF vars
  <1>2. ASSUME NEW e \in Entries, EntryNext(e) PROVE InSync'
    <2>1. CASE SetUp(e)
          BY <2>1, <1>0, StartReads DEF SetUp, Start
    <2>2. CASE BuildNext(e)
          BY <2>2, <1>0, BuildReads DEF BuildNext
    <2>3. CASE FailSetUp(e)
          BY <2>3, <1>0 DEF FailSetUp
    <2>4. CASE Register(e)
          BY <2>4, <1>0 DEF Register
    <2>5. CASE EndSetUp(e)
          BY <2>5, <1>0 DEF EndSetUp
    <2>6. CASE Unload(e)
          BY <2>6, <1>0 DEF Unload
    <2>7. ASSUME NEW unload_ok \in BOOLEAN, NEW reported \in ReportedAsLoaded,
                 EndUnload(e, unload_ok, reported)
          PROVE  InSync'
          BY <2>7, <1>0 DEF EndUnload
    <2>8. ASSUME NEW new \in Options, ChangeOptions(e, new) PROVE InSync'
      <3>1. state[e] \in {"setup", "forward", "loaded"} => e \in reloads' \cup unheard'
            BY <2>8 DEF ChangeOptions, Listening
      <3> QED
          BY <2>8, <1>0, <3>1 DEF ChangeOptions
    <2>9. CASE Reload(e)
      <3>1. CASE state[e] = "not_loaded"
            BY <2>9, <3>1, <1>0, StartReads DEF Reload, Start
      <3>2. CASE state[e] # "not_loaded"
            BY <2>9, <3>2, <1>0 DEF Reload
      <3> QED
          BY <3>1, <3>2
    <2>10. CASE FailForward(e)
          BY <2>10, <1>0 DEF FailForward
    <2> QED
        BY <1>2, <2>1, <2>2, <2>3, <2>4, <2>5, <2>6, <2>7, <2>8, <2>9, <2>10 DEF EntryNext
  <1> QED
      BY <1>1, <1>2 DEF Next

\* A loaded entry runs on its options unless a reload is under way or they
\* changed before async_setup_entry had registered its update listener.
THEOREM OptionsTakeEffect == Spec => []OptionsInEffect
  <1>1. Init => Listening /\ InSync
        BY DEF Init, Listening, InSync
  <1>2. TypeOK /\ InSync => OptionsInEffect
        BY DEF TypeOK, Stages, InSync, OptionsInEffect
  <1> QED
      BY <1>1, <1>2, ListeningStep, InSyncStep, LifecycleTypeCorrect, PTL DEF Spec

=============================================================================
