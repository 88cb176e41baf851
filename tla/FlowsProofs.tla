----------------------------- MODULE FlowsProofs -----------------------------
(***************************************************************************)
(* Whatever the accounts, the tokens and the number of flows: an entry has *)
(* a token of its own account and is never replaced, what is stored is     *)
(* usable, and an options flow that was not overtaken loses no override.   *)
(*                                                                         *)
(* A config flow stores what it checked two awaits ago.  What carries the  *)
(* proof is that between the two no other flow can have configured that    *)
(* account, because no two of them are about one account (Apart).  For an  *)
(* options flow that awaits time zones it is that what will be stored was  *)
(* usable when it was made (WillStoreUsable), and still holds what it is   *)
(* not about, unless it was overtaken (WillRetain).                        *)
(***************************************************************************)
EXTENDS Flows, FiniteSetTheorems, FunctionTheorems, TLAPS

Validated == {"get_properties", "properties"}

Shape ==
    /\ configured \subseteq Accounts
    /\ credential = [a \in Accounts |-> credential[a]]
    /\ options = [a \in Accounts |-> options[a]]
    /\ stage \in [FlowIds -> Stages]
    /\ token = [f \in FlowIds |-> token[f]]
    /\ account = [f \in FlowIds |-> account[f]]
    /\ form = [f \in FlowIds |-> form[f]]
    /\ pending = [f \in FlowIds |-> pending[f]]

HasToken ==
    \A f \in FlowIds : stage[f] \in {"get_user", "confirming"} => token[f] \in Tokens

IsNew ==
    \A f \in FlowIds : stage[f] \in Validated =>
        /\ account[f] \in Accounts \ configured
        /\ token[f] \in Tokens /\ TokenAccount[token[f]] = account[f]

Apart ==
    \A f, g \in FlowIds : f # g /\ stage[f] \in Validated /\ stage[g] \in Validated =>
        account[f] # account[g]

OfAnEntry ==
    \A f \in FlowIds : stage[f] \in ReauthStages \cup OptionsStages =>
        account[f] \in configured

WillStore(f) == stage[f] = "zones" /\ "store" \in DOMAIN pending[f]

WillStoreUsable == \A f \in FlowIds : WillStore(f) => Usable(pending[f].store)

Retains(kept, fields, new) ==
    \A p \in DOMAIN kept \ fields : p \in DOMAIN new /\ new[p] = kept[p]

WillRetain ==
    \A f \in FlowIds : WillStore(f) /\ f \notin overtaken =>
        Retains(options[account[f]].overrides, form[f].fields, pending[f].store.overrides)

FlowsInv ==
    /\ Shape /\ HasToken /\ IsNew /\ Apart /\ OfAnEntry /\ TokenMatchesAccount
    /\ StoredOptionsAreUsable /\ WillStoreUsable /\ WillRetain

-----------------------------------------------------------------------------
(* The invariant holds at first and is kept by every action.               *)

LEMMA FlowsInvInit == Init => FlowsInv
  BY DEF Init, FlowsInv, Shape, HasToken, IsNew, Apart, OfAnEntry, TokenMatchesAccount,
         StoredOptionsAreUsable, WillStoreUsable, WillRetain, WillStore, Validated,
         ReauthStages, OptionsStages, UserStages, Stages

\* An action that leaves the entries and pending alone, and puts f where it
\* neither has validated anything nor will store.
LEMMA OnlyOneFlow ==
    ASSUME FlowsInv, NEW f \in FlowIds, UNCHANGED entries,
           NEW there \in Stages, there \notin Validated, there # "zones",
           stage' = [stage EXCEPT ![f] = there],
           token' = [token EXCEPT ![f] = token'[f]],
           account' = [account EXCEPT ![f] = account'[f]],
           form' = [form EXCEPT ![f] = form'[f]],
           pending' = [pending EXCEPT ![f] = pending'[f]],
           overtaken' \in {overtaken, overtaken \ {f}},
           there \in {"get_user", "confirming"} => token'[f] \in Tokens,
           there \in ReauthStages \cup OptionsStages => account'[f] \in configured
    PROVE  FlowsInv'
  <1>1. Shape'
    BY DEF FlowsInv, Shape, entries
  <1>2. \A g \in FlowIds \ {f} :
           /\ stage'[g] = stage[g] /\ token'[g] = token[g] /\ account'[g] = account[g]
           /\ form'[g] = form[g] /\ pending'[g] = pending[g]
           /\ g \in overtaken' <=> g \in overtaken
    BY DEF FlowsInv, Shape
  <1>3. stage'[f] = there
    BY DEF FlowsInv, Shape
  <1>4. HasToken' /\ IsNew' /\ Apart' /\ OfAnEntry'
    BY <1>2, <1>3 DEF FlowsInv, HasToken, IsNew, Apart, OfAnEntry, entries
  <1>5. TokenMatchesAccount' /\ StoredOptionsAreUsable'
    BY DEF FlowsInv, TokenMatchesAccount, StoredOptionsAreUsable, entries
  <1>6. \A g \in FlowIds : WillStore(g)' => g # f /\ WillStore(g)
    BY <1>2, <1>3 DEF WillStore
  <1>7. WillStoreUsable' /\ WillRetain'
    <2>1. WillStoreUsable'
      BY <1>2, <1>6 DEF FlowsInv, WillStoreUsable
    <2>2. WillRetain'
      BY <1>2, <1>6 DEF FlowsInv, WillRetain, entries
    <2> QED BY <2>1, <2>2
  <1> QED BY <1>1, <1>4, <1>5, <1>7 DEF FlowsInv

\* What ends a flow without storing anything.
LEMMA EndKeeps ==
    ASSUME FlowsInv, NEW f \in FlowIds, End(f), UNCHANGED entries
    PROVE  FlowsInv'
<1>1. Shape
  BY DEF FlowsInv
<1>2. /\ token' = [token EXCEPT ![f] = token'[f]]
      /\ account' = [account EXCEPT ![f] = account'[f]]
      /\ form' = [form EXCEPT ![f] = form'[f]]
      /\ pending' = [pending EXCEPT ![f] = pending'[f]]
  BY <1>1 DEF End, Shape
<1>3. "none" \in Stages /\ "none" \notin Validated \cup ReauthStages \cup OptionsStages
  BY DEF Stages, Validated, ReauthStages, OptionsStages
<1> QED BY <1>2, <1>3, OnlyOneFlow DEF End

LEMMA UserKeeps ==
    ASSUME FlowsInv, NEW f \in FlowIds,
           StartUser(f) \/ UserFails(f) \/ \E t \in Tokens : SubmitToken(f, t)
    PROVE  FlowsInv'
<1>1. Shape
  BY DEF FlowsInv
<1>2. \E there \in {"user", "get_user"} :
         /\ stage' = [stage EXCEPT ![f] = there]
         /\ there = "get_user" => token'[f] \in Tokens
  BY <1>1 DEF StartUser, SubmitToken, UserFails, Shape
<1>3. /\ token' = [token EXCEPT ![f] = token'[f]]
      /\ account' = [account EXCEPT ![f] = account'[f]]
      /\ form' = [form EXCEPT ![f] = form'[f]]
      /\ pending' = [pending EXCEPT ![f] = pending'[f]]
      /\ overtaken' = overtaken /\ UNCHANGED entries
  BY <1>1 DEF StartUser, SubmitToken, UserFails, Shape
<1>4. PICK there \in {"user", "get_user"} :
         /\ stage' = [stage EXCEPT ![f] = there]
         /\ there = "get_user" => token'[f] \in Tokens
  BY <1>2
<1>5. there \in Stages /\ there \notin Validated \cup ReauthStages \cup OptionsStages
  BY DEF Stages, Validated, ReauthStages, OptionsStages, UserStages
<1>6. there # "zones" /\ there # "confirming"
  OBVIOUS
<1> QED BY <1>3, <1>4, <1>5, <1>6, OnlyOneFlow

\* No other flow has the account that this one has found not configured.
LEMMA GotUserKeeps ==
    ASSUME FlowsInv, NEW f \in FlowIds, GotUser(f)
    PROVE  FlowsInv'
<1> DEFINE a == TokenAccount[token[f]]
<1>1. CASE InProgress(f, a) \/ Configured(a)
  BY <1>1, EndKeeps DEF GotUser
<1>2. CASE ~(InProgress(f, a) \/ Configured(a))
  <2>1. /\ stage' = [stage EXCEPT ![f] = "get_properties"]
        /\ account' = [account EXCEPT ![f] = a]
        /\ stage[f] = "get_user"
        /\ UNCHANGED <<entries, token, form, pending, overtaken>>
    BY <1>2 DEF GotUser
  <2>2. a \in Accounts \ configured /\ token[f] \in Tokens
    BY <1>2, <2>1, FlowsAssumption DEF FlowsInv, HasToken, Configured
  <2>3. \A g \in FlowIds \ {f} : stage[g] \in Validated => account[g] # a
    BY <1>2 DEF InProgress, Validated, UserStages
  <2>4. \A g \in FlowIds \ {f} : stage'[g] = stage[g] /\ account'[g] = account[g]
    BY <2>1 DEF FlowsInv, Shape
  <2>5. stage'[f] = "get_properties" /\ account'[f] = a
    BY <2>1 DEF FlowsInv, Shape
  <2> HIDE DEF a
  <2>6. Shape'
    BY <2>1 DEF FlowsInv, Shape, entries, Stages, UserStages
  <2>7. HasToken' /\ OfAnEntry'
    BY <2>1, <2>4, <2>5 DEF FlowsInv, HasToken, OfAnEntry, entries, ReauthStages, OptionsStages
  <2>8. IsNew'
    BY <2>1, <2>2, <2>4, <2>5 DEF FlowsInv, IsNew, entries, a
  <2>9. Apart'
    BY <2>3, <2>4, <2>5 DEF FlowsInv, Apart
  <2>10. TokenMatchesAccount' /\ StoredOptionsAreUsable'
    BY <2>1 DEF FlowsInv, TokenMatchesAccount, StoredOptionsAreUsable, entries
  <2>11. \A g \in FlowIds : WillStore(g)' => g # f /\ WillStore(g)
    BY <2>1, <2>4, <2>5 DEF WillStore
  <2>12. WillStoreUsable'
    BY <2>1, <2>11 DEF FlowsInv, WillStoreUsable
  <2>13. WillRetain'
    BY <2>1, <2>4, <2>11 DEF FlowsInv, WillRetain, entries
  <2> QED BY <2>6, <2>7, <2>8, <2>9, <2>10, <2>12, <2>13 DEF FlowsInv
<1> QED BY <1>1, <1>2

LEMMA GotPropertiesKeeps ==
    ASSUME FlowsInv, NEW f \in FlowIds, NEW properties, GotProperties(f, properties)
    PROVE  FlowsInv'
<1>1. CASE properties = {}
  BY <1>1, EndKeeps DEF GotProperties
<1>2. CASE properties # {}
  <2>1. /\ stage' = [stage EXCEPT ![f] = "properties"] /\ stage[f] = "get_properties"
        /\ form' = [form EXCEPT ![f] = form'[f]]
        /\ UNCHANGED <<entries, token, account, pending, overtaken>>
    BY <1>2 DEF GotProperties, FlowsInv, Shape
  <2>2. /\ stage'[f] = "properties"
        /\ \A g \in FlowIds \ {f} : stage'[g] = stage[g] /\ form'[g] = form[g]
    BY <2>1 DEF FlowsInv, Shape
  <2>3. Shape'
    BY <2>1 DEF FlowsInv, Shape, entries, Stages, UserStages
  <2>4. \A g \in FlowIds : stage'[g] \in Validated <=> stage[g] \in Validated
    BY <2>1, <2>2 DEF Validated
  <2>5. HasToken' /\ OfAnEntry' /\ IsNew' /\ Apart'
    <3>1. HasToken' /\ OfAnEntry'
      BY <2>1, <2>2 DEF FlowsInv, HasToken, OfAnEntry, entries, ReauthStages, OptionsStages
    <3>2. IsNew' /\ Apart'
      BY <2>1, <2>4 DEF FlowsInv, IsNew, Apart, entries
    <3> QED BY <3>1, <3>2
  <2>6. TokenMatchesAccount' /\ StoredOptionsAreUsable'
    BY <2>1 DEF FlowsInv, TokenMatchesAccount, StoredOptionsAreUsable, entries
  <2>7. \A g \in FlowIds : WillStore(g)' => g # f /\ WillStore(g)
    BY <2>1, <2>2 DEF WillStore
  <2>8. WillStoreUsable' /\ WillRetain'
    <3>1. WillStoreUsable'
      BY <2>1, <2>7 DEF FlowsInv, WillStoreUsable
    <3>2. WillRetain'
      BY <2>1, <2>2, <2>7 DEF FlowsInv, WillRetain, entries
    <3> QED BY <3>1, <3>2
  <2> QED BY <2>3, <2>5, <2>6, <2>8 DEF FlowsInv
<1> QED BY <1>1, <1>2


\* The account was not configured, so no entry is replaced, and no other flow
\* that will store is about it.
LEMMA CreateEntryKeeps ==
    ASSUME FlowsInv, NEW f \in FlowIds, NEW chosen, CreateEntry(f, chosen)
    PROVE  /\ FlowsInv'
           /\ \A a \in configured : a \in configured' /\ options'[a] = options[a]
<1> DEFINE a == account[f]
<1>1. /\ stage[f] = "properties" /\ a \in Accounts \ configured /\ chosen # {}
      /\ token[f] \in Tokens /\ TokenAccount[token[f]] = a
  BY DEF CreateEntry, FlowsInv, IsNew, Validated
<1>2. /\ configured' = configured \cup {a}
      /\ credential' = [credential EXCEPT ![a] = token[f]]
      /\ options' = [options EXCEPT ![a] = DefaultOptions(chosen)]
      /\ stage' = [stage EXCEPT ![f] = "none"]
      /\ token' = [token EXCEPT ![f] = None]
      /\ account' = [account EXCEPT ![f] = None]
      /\ form' = [form EXCEPT ![f] = NoForm]
      /\ pending' = [pending EXCEPT ![f] = None]
      /\ overtaken' = overtaken \ {f}
  BY DEF CreateEntry, End
<1> HIDE DEF a
<1>3. Shape'
  BY <1>1, <1>2 DEF FlowsInv, Shape, Stages
<1>4. \A g \in FlowIds \ {f} :
         /\ stage'[g] = stage[g] /\ token'[g] = token[g] /\ account'[g] = account[g]
         /\ form'[g] = form[g] /\ pending'[g] = pending[g]
         /\ g \in overtaken' <=> g \in overtaken
  BY <1>2 DEF FlowsInv, Shape
<1>5. stage'[f] = "none"
  BY <1>2 DEF FlowsInv, Shape
<1>6. \A b \in configured : options'[b] = options[b] /\ credential'[b] = credential[b]
  BY <1>1, <1>2 DEF FlowsInv, Shape
<1>7. options'[a] = DefaultOptions(chosen) /\ credential'[a] = token[f]
  BY <1>1, <1>2 DEF FlowsInv, Shape
<1>8. HasToken' /\ OfAnEntry' /\ Apart'
  BY <1>2, <1>4, <1>5
     DEF FlowsInv, HasToken, OfAnEntry, Apart, ReauthStages, OptionsStages, Validated
<1>9. IsNew'
  <2>1. \A g \in FlowIds \ {f} : stage[g] \in Validated => account[g] # a
    BY <1>1 DEF FlowsInv, Apart, Validated, a
  <2> QED BY <2>1, <1>2, <1>4, <1>5 DEF FlowsInv, IsNew, Validated
<1>10. TokenMatchesAccount'
  BY <1>1, <1>2, <1>6, <1>7 DEF FlowsInv, TokenMatchesAccount
<1>11. Usable(DefaultOptions(chosen))
  BY <1>1, FlowsAssumption
     DEF Usable, DefaultOptions, WithinBounds, MIN_RESERVATION_INTERVAL,
         MIN_PROPERTY_INTERVAL, MIN_TASK_INTERVAL
<1>12. StoredOptionsAreUsable'
  BY <1>2, <1>6, <1>7, <1>11 DEF FlowsInv, StoredOptionsAreUsable, Usable
<1>13. \A g \in FlowIds : WillStore(g)' => /\ g # f /\ WillStore(g)
                                           /\ account[g] \in configured
  BY <1>4, <1>5 DEF WillStore, FlowsInv, OfAnEntry, OptionsStages
<1>14. WillStoreUsable' /\ WillRetain'
  <2>1. WillStoreUsable'
    BY <1>4, <1>13 DEF FlowsInv, WillStoreUsable
  <2>2. WillRetain'
    BY <1>4, <1>6, <1>13 DEF FlowsInv, WillRetain
  <2> QED BY <2>1, <2>2
<1> QED BY <1>2, <1>3, <1>6, <1>8, <1>9, <1>10, <1>12, <1>14 DEF FlowsInv

LEMMA ReauthKeeps ==
    ASSUME FlowsInv, NEW f \in FlowIds,
           \/ ReauthFails(f)
           \/ \E a \in Accounts : StartReauth(f, a)
           \/ \E t \in Tokens : SubmitReplacement(f, t)
    PROVE  FlowsInv'
<1>1. Shape
  BY DEF FlowsInv
<1>2. \E there \in ReauthStages :
         /\ stage' = [stage EXCEPT ![f] = there]
         /\ there = "confirming" => token'[f] \in Tokens
  BY <1>1 DEF StartReauth, SubmitReplacement, ReauthFails, Shape, ReauthStages
<1>3. /\ token' = [token EXCEPT ![f] = token'[f]]
      /\ account' = [account EXCEPT ![f] = account'[f]]
      /\ form' = [form EXCEPT ![f] = form'[f]]
      /\ pending' = [pending EXCEPT ![f] = pending'[f]]
      /\ overtaken' = overtaken /\ UNCHANGED entries
  BY <1>1 DEF StartReauth, SubmitReplacement, ReauthFails, Shape
<1>4. account'[f] \in configured
  BY <1>1 DEF StartReauth, SubmitReplacement, ReauthFails, Shape, Configured,
              FlowsInv, OfAnEntry, ReauthStages
<1>5. PICK there \in ReauthStages :
         /\ stage' = [stage EXCEPT ![f] = there]
         /\ there = "confirming" => token'[f] \in Tokens
  BY <1>2
<1>6. /\ there \in Stages /\ there \notin Validated
      /\ there \notin {"zones", "get_user"}
  BY DEF Stages, Validated, ReauthStages
<1> QED BY <1>3, <1>4, <1>5, <1>6, OnlyOneFlow

\* A replacement token is stored only when it is one of the entry's account.
LEMMA ConfirmedKeeps ==
    ASSUME FlowsInv, NEW f \in FlowIds, Confirmed(f)
    PROVE  FlowsInv'
<1>1. CASE ~SameAccount(f)
  BY <1>1, EndKeeps DEF Confirmed, entries
<1>2. CASE SameAccount(f)
  <2> DEFINE a == account[f]
  <2>1. /\ stage[f] = "confirming" /\ a \in configured /\ token[f] \in Tokens
        /\ TokenAccount[token[f]] = a
    BY <1>2 DEF Confirmed, SameAccount, FlowsInv, OfAnEntry, HasToken, ReauthStages
  <2>2. /\ credential' = [credential EXCEPT ![a] = token[f]]
        /\ stage' = [stage EXCEPT ![f] = "none"]
        /\ token' = [token EXCEPT ![f] = None]
        /\ account' = [account EXCEPT ![f] = None]
        /\ form' = [form EXCEPT ![f] = NoForm]
        /\ pending' = [pending EXCEPT ![f] = None]
        /\ overtaken' = overtaken \ {f}
        /\ UNCHANGED <<configured, options>>
    BY <1>2 DEF Confirmed, End
  <2> HIDE DEF a
  <2>3. Shape'
    BY <2>2 DEF FlowsInv, Shape, Stages
  <2>4. \A g \in FlowIds \ {f} :
           /\ stage'[g] = stage[g] /\ token'[g] = token[g] /\ account'[g] = account[g]
           /\ form'[g] = form[g] /\ pending'[g] = pending[g]
           /\ g \in overtaken' <=> g \in overtaken
    BY <2>2 DEF FlowsInv, Shape
  <2>5. stage'[f] = "none"
    BY <2>2 DEF FlowsInv, Shape
  <2>6. HasToken' /\ IsNew' /\ Apart' /\ OfAnEntry'
    BY <2>2, <2>4, <2>5 DEF FlowsInv, HasToken, IsNew, Apart, OfAnEntry, Validated,
                            ReauthStages, OptionsStages
  <2>7. TokenMatchesAccount'
    BY <2>1, <2>2 DEF FlowsInv, Shape, TokenMatchesAccount
  <2>8. StoredOptionsAreUsable'
    BY <2>2 DEF FlowsInv, StoredOptionsAreUsable
  <2>9. \A g \in FlowIds : WillStore(g)' => g # f /\ WillStore(g)
    BY <2>4, <2>5 DEF WillStore
  <2>10. WillStoreUsable'
    BY <2>4, <2>9 DEF FlowsInv, WillStoreUsable
  <2>11. WillRetain'
    BY <2>2, <2>4, <2>9 DEF FlowsInv, WillRetain
  <2> QED BY <2>3, <2>6, <2>7, <2>8, <2>10, <2>11 DEF FlowsInv
<1> QED BY <1>1, <1>2

LEMMA StartOptionsKeeps ==
    ASSUME FlowsInv, NEW f \in FlowIds, NEW a \in Accounts, NEW listed, NEW seen,
           StartOptions(f, a, listed, seen)
    PROVE  FlowsInv'
<1>1. Shape
  BY DEF FlowsInv
<1>2. /\ stage' = [stage EXCEPT ![f] = "options"]
      /\ token' = [token EXCEPT ![f] = token'[f]]
      /\ account' = [account EXCEPT ![f] = account'[f]]
      /\ account'[f] = a /\ a \in configured
      /\ form' = [form EXCEPT ![f] = form'[f]]
      /\ pending' = [pending EXCEPT ![f] = pending'[f]]
      /\ overtaken' = overtaken /\ UNCHANGED entries
  BY <1>1 DEF StartOptions, Configured, Shape
<1>3. "options" \in Stages /\ "options" \notin Validated \cup {"zones", "get_user", "confirming"}
  BY DEF Stages, Validated, OptionsStages
<1> QED BY <1>2, <1>3, OnlyOneFlow

-----------------------------------------------------------------------------
(* Storing options                                                         *)

LEMMA ResolvedRetains ==
    ASSUME NEW saved, NEW texts
    PROVE  Retains(saved, DOMAIN texts, Resolved(saved, texts))
  BY DEF Retains, Resolved

LEMMA ResolvedKnown ==
    ASSUME NEW saved, NEW F, NEW texts \in [F -> Zones \cup BadZones \cup {Blank}],
           \A p \in DOMAIN saved : saved[p] \in Zones,
           \A p \in DOMAIN texts : texts[p] \notin BadZones
    PROVE  \A p \in DOMAIN Resolved(saved, texts) : Resolved(saved, texts)[p] \in Zones
  BY DEF Resolved

\* What is stored is usable, and every flow that awaits zones for the same entry
\* has been overtaken.
LEMMA StoredKeeps ==
    ASSUME FlowsInv, NEW f \in FlowIds, stage[f] \in OptionsStages, NEW new, Usable(new),
           Stored(f, account[f], new)
    PROVE  FlowsInv'
<1> DEFINE a == account[f]
<1>1. a \in configured /\ a \in Accounts
  BY DEF FlowsInv, OfAnEntry, Shape
<1>2. /\ options' = [options EXCEPT ![a] = new]
      /\ stage' = [stage EXCEPT ![f] = "none"]
      /\ account' = [account EXCEPT ![f] = None]
      /\ form' = [form EXCEPT ![f] = NoForm]
      /\ pending' = [pending EXCEPT ![f] = None]
      /\ overtaken' = (overtaken \ {f})
                      \cup {g \in FlowIds \ {f} : stage[g] = "zones" /\ account[g] = a}
      /\ UNCHANGED <<configured, credential, token>>
  BY DEF Stored
<1> HIDE DEF a
<1>3. Shape'
  BY <1>2 DEF FlowsInv, Shape, Stages
<1>4. \A g \in FlowIds \ {f} :
         /\ stage'[g] = stage[g] /\ account'[g] = account[g]
         /\ form'[g] = form[g] /\ pending'[g] = pending[g]
  BY <1>2 DEF FlowsInv, Shape
<1>5. stage'[f] = "none"
  BY <1>2 DEF FlowsInv, Shape
<1>6. HasToken' /\ IsNew' /\ Apart' /\ OfAnEntry'
  BY <1>2, <1>4, <1>5 DEF FlowsInv, HasToken, IsNew, Apart, OfAnEntry, Validated,
                          ReauthStages, OptionsStages
<1>7. TokenMatchesAccount'
  BY <1>2 DEF FlowsInv, TokenMatchesAccount
<1>8. options'[a] = new /\ \A b \in Accounts \ {a} : options'[b] = options[b]
  BY <1>1, <1>2 DEF FlowsInv, Shape
<1>9. StoredOptionsAreUsable'
  <2>1. ASSUME NEW b \in configured' PROVE Usable(options'[b])
    <3>1. CASE b = a
      BY <3>1, <1>8
    <3>2. CASE b # a
      BY <3>2, <1>2, <1>8 DEF FlowsInv, Shape, StoredOptionsAreUsable
    <3> QED BY <3>1, <3>2
  <2> QED BY <2>1 DEF StoredOptionsAreUsable, Usable
<1>10. \A g \in FlowIds : WillStore(g)' => /\ g # f /\ WillStore(g)
                                           /\ account[g] \in Accounts
  BY <1>4, <1>5 DEF WillStore, FlowsInv, OfAnEntry, OptionsStages, Shape
<1>11. WillStoreUsable'
  BY <1>4, <1>10 DEF FlowsInv, WillStoreUsable
<1>12. WillRetain'
  <2>1. ASSUME NEW g \in FlowIds, WillStore(g)', g \notin overtaken'
        PROVE  /\ g # f /\ WillStore(g) /\ g \notin overtaken
               /\ options'[account[g]] = options[account[g]]
    <3>1. g # f /\ WillStore(g) /\ account[g] \in Accounts
      BY <2>1, <1>10
    <3>2. g \notin overtaken /\ account[g] # a
      BY <2>1, <3>1, <1>2 DEF WillStore
    <3> QED BY <3>1, <3>2, <1>8
  <2> QED BY <2>1, <1>4 DEF FlowsInv, WillRetain
<1> QED BY <1>3, <1>6, <1>7, <1>9, <1>11, <1>12 DEF FlowsInv

LEMMA SubmitOptionsKeeps ==
    ASSUME FlowsInv, NEW f \in FlowIds, NEW chosen, NEW numbers, NEW toggles,
           NEW texts \in [form[f].fields -> Zones \cup BadZones \cup {Blank}],
           NEW listed, NEW seen,
           SubmitOptions(f, chosen, numbers, toggles, texts, listed, seen)
    PROVE  FlowsInv'
<1> DEFINE a == account[f]
           saved == options[a]
           selection == IF chosen = {} THEN saved.selected ELSE chosen
           good == /\ chosen # {} /\ WithinBounds(numbers)
                   /\ \A p \in DOMAIN texts : texts[p] \notin BadZones
           new == [selected |-> selection, numbers |-> numbers, toggles |-> toggles,
                   overrides |-> Resolved(saved.overrides, texts)]
           again == Form(Available(a, listed), selection, numbers, seen)
<1>1. stage[f] = "options" /\ stage[f] \in OptionsStages /\ a \in configured
  BY DEF SubmitOptions, FlowsInv, OfAnEntry, OptionsStages
<1>2. ASSUME good PROVE Usable(new)
  <2>1. \A p \in DOMAIN saved.overrides : saved.overrides[p] \in Zones
    BY <1>1 DEF FlowsInv, StoredOptionsAreUsable, Usable
  <2>2. \A p \in DOMAIN Resolved(saved.overrides, texts) :
           Resolved(saved.overrides, texts)[p] \in Zones
    BY <1>2, <2>1, ResolvedKnown
  <2>3. chosen # {} /\ WithinBounds(numbers)
    BY <1>2
  <2> HIDE DEF saved
  <2> QED BY <2>2, <2>3 DEF Usable, WithinBounds, MIN_RESERVATION_INTERVAL,
                            MIN_PROPERTY_INTERVAL, MIN_TASK_INTERVAL
<1>3. Retains(saved.overrides, DOMAIN texts, new.overrides)
  BY ResolvedRetains
<1>4. CASE \E p \in DOMAIN texts : texts[p] # Blank
  <2>1. /\ stage' = [stage EXCEPT ![f] = "zones"]
        /\ form' = [form EXCEPT ![f] = [NoForm EXCEPT !.fields = DOMAIN texts]]
        /\ pending' = [pending EXCEPT ![f] = IF good THEN [store |-> new]
                                             ELSE [show |-> again]]
        /\ UNCHANGED <<entries, token, account, overtaken>>
    BY <1>4 DEF SubmitOptions
  <2>2. \A g \in FlowIds \ {f} :
           stage'[g] = stage[g] /\ form'[g] = form[g] /\ pending'[g] = pending[g]
    BY <2>1 DEF FlowsInv, Shape
  <2>3. /\ stage'[f] = "zones" /\ form'[f].fields = DOMAIN texts
        /\ pending'[f] = IF good THEN [store |-> new] ELSE [show |-> again]
    BY <2>1 DEF FlowsInv, Shape, NoForm
  <2> HIDE DEF new, again, good, a, saved
  <2>4. WillStore(f)' => good /\ pending'[f].store = new
    BY <2>3 DEF WillStore
  <2>5. Shape'
    BY <2>1 DEF FlowsInv, Shape, entries, Stages, OptionsStages
  <2>6. HasToken' /\ IsNew' /\ Apart' /\ OfAnEntry'
    BY <2>1, <2>2, <2>3, <1>1
       DEF FlowsInv, HasToken, IsNew, Apart, OfAnEntry, entries, Validated,
           ReauthStages, OptionsStages, a
  <2>7. TokenMatchesAccount' /\ StoredOptionsAreUsable'
    BY <2>1 DEF FlowsInv, TokenMatchesAccount, StoredOptionsAreUsable, entries
  <2>8. \A g \in FlowIds \ {f} : WillStore(g)' => WillStore(g)
    BY <2>2 DEF WillStore
  <2>9. WillStoreUsable'
    BY <1>2, <2>2, <2>4, <2>8 DEF FlowsInv, WillStoreUsable
  <2>10. WillRetain'
    <3>1. WillStore(f)' => Retains(options'[account'[f]].overrides, form'[f].fields,
                                   pending'[f].store.overrides)
      BY <1>3, <2>1, <2>3, <2>4 DEF entries, saved, a
    <3>2. \A g \in FlowIds \ {f} : WillStore(g)' /\ g \notin overtaken' =>
             Retains(options'[account'[g]].overrides, form'[g].fields,
                     pending'[g].store.overrides)
      BY <2>1, <2>2, <2>8 DEF FlowsInv, WillRetain, entries
    <3> QED BY <3>1, <3>2 DEF WillRetain
  <2> QED BY <2>5, <2>6, <2>7, <2>9, <2>10 DEF FlowsInv
<1>5. CASE (\A p \in DOMAIN texts : texts[p] = Blank) /\ good
  BY <1>1, <1>2, <1>5, StoredKeeps DEF SubmitOptions
<1>6. CASE (\A p \in DOMAIN texts : texts[p] = Blank) /\ ~good
  <2>1. /\ form' = [form EXCEPT ![f] = again]
        /\ UNCHANGED <<entries, stage, token, account, pending, overtaken>>
    BY <1>6 DEF SubmitOptions
  <2>2. Shape
    BY DEF FlowsInv
  <2> HIDE DEF again, good, new
  <2>3. /\ stage' = [stage EXCEPT ![f] = "options"]
        /\ token' = [token EXCEPT ![f] = token'[f]]
        /\ account' = [account EXCEPT ![f] = account'[f]] /\ account'[f] \in configured
        /\ form' = [form EXCEPT ![f] = form'[f]]
        /\ pending' = [pending EXCEPT ![f] = pending'[f]]
    BY <1>1, <2>1, <2>2 DEF Shape
  <2>4. "options" \in Stages /\ "options" \notin Validated \cup {"zones", "get_user", "confirming"}
    BY DEF Stages, Validated, OptionsStages
  <2> QED BY <2>1, <2>3, <2>4, OnlyOneFlow
<1> QED BY <1>4, <1>5, <1>6

LEMMA ZonesKnownKeeps ==
    ASSUME FlowsInv, NEW f \in FlowIds, ZonesKnown(f)
    PROVE  FlowsInv'
<1>1. CASE "store" \in DOMAIN pending[f]
  <2>1. stage[f] \in OptionsStages /\ Usable(pending[f].store)
    BY <1>1 DEF ZonesKnown, OptionsStages, FlowsInv, WillStoreUsable, WillStore
  <2> QED BY <1>1, <2>1, StoredKeeps DEF ZonesKnown
<1>2. CASE "store" \notin DOMAIN pending[f]
  <2>1. Shape
    BY DEF FlowsInv
  <2>2. /\ stage' = [stage EXCEPT ![f] = "options"]
        /\ token' = [token EXCEPT ![f] = token'[f]]
        /\ account' = [account EXCEPT ![f] = account'[f]] /\ account'[f] \in configured
        /\ form' = [form EXCEPT ![f] = form'[f]]
        /\ pending' = [pending EXCEPT ![f] = pending'[f]]
        /\ overtaken' = overtaken \ {f} /\ UNCHANGED entries
    BY <1>2, <2>1 DEF ZonesKnown, Shape, FlowsInv, OfAnEntry, OptionsStages
  <2>3. "options" \in Stages /\ "options" \notin Validated \cup {"zones", "get_user", "confirming"}
    BY DEF Stages, Validated, OptionsStages
  <2> QED BY <2>2, <2>3, OnlyOneFlow
<1> QED BY <1>1, <1>2

LEMMA FlowsInvNext ==
    ASSUME FlowsInv, [Next]_vars
    PROVE  FlowsInv'
<1>1. CASE UNCHANGED vars
  BY <1>1 DEF vars, entries, FlowsInv, Shape, HasToken, IsNew, Apart, OfAnEntry,
              TokenMatchesAccount, StoredOptionsAreUsable, WillStoreUsable, WillRetain,
              WillStore
<1>2. ASSUME NEW f \in FlowIds, FlowNext(f) PROVE FlowsInv'
  <2>1. CASE Close(f)
    BY <2>1, EndKeeps DEF Close
  <2>2. CASE UserNext(f)
    <3>1. CASE StartUser(f) \/ UserFails(f) \/ \E t \in Tokens : SubmitToken(f, t)
      BY <3>1, UserKeeps
    <3>2. CASE GotUser(f)
      BY <3>2, GotUserKeeps
    <3>3. ASSUME NEW properties, GotProperties(f, properties) \/ CreateEntry(f, properties)
          PROVE  FlowsInv'
      BY <3>3, GotPropertiesKeeps, CreateEntryKeeps
    <3> QED BY <2>2, <3>1, <3>2, <3>3 DEF UserNext
  <2>3. CASE ReauthNext(f)
    <3>1. CASE Confirmed(f)
      BY <3>1, ConfirmedKeeps
    <3>2. CASE ReauthFails(f)
      BY <3>2, ReauthKeeps
    <3>3. ASSUME NEW a \in Accounts, StartReauth(f, a) PROVE FlowsInv'
      BY <3>3, ReauthKeeps
    <3>4. ASSUME NEW t \in Tokens, SubmitReplacement(f, t) PROVE FlowsInv'
      BY <3>4, ReauthKeeps
    <3> QED BY <2>3, <3>1, <3>2, <3>3, <3>4 DEF ReauthNext
  <2>4. CASE OptionsNext(f)
    <3>1. ASSUME NEW a \in Accounts, NEW listed, NEW seen, StartOptions(f, a, listed, seen)
          PROVE  FlowsInv'
      BY <3>1, StartOptionsKeeps
    <3>2. ASSUME NEW numbers, NEW toggles, NEW seen, NEW chosen, NEW listed,
                 NEW texts \in [form[f].fields -> Zones \cup BadZones \cup {Blank}],
                 SubmitOptions(f, chosen, numbers, toggles, texts, listed, seen)
          PROVE  FlowsInv'
      BY <3>2, SubmitOptionsKeeps
    <3>3. CASE ZonesKnown(f)
      BY <3>3, ZonesKnownKeeps
    <3> QED BY <2>4, <3>1, <3>2, <3>3 DEF OptionsNext
  <2> QED BY <1>2, <2>1, <2>2, <2>3, <2>4 DEF FlowNext
<1> QED BY <1>1, <1>2 DEF Next

\* What the flows hold of the entries and of each other, at every await.
THEOREM FlowsInvariant == Spec => []FlowsInv
<1>1. Init => FlowsInv
  BY FlowsInvInit
<1>2. FlowsInv /\ [Next]_vars => FlowsInv'
  BY FlowsInvNext
<1> QED BY <1>1, <1>2, PTL DEF Spec

-----------------------------------------------------------------------------
(* What follows                                                            *)

\* No flow, however late, leaves an entry with another account's token
\* (config_flow.py:102 and 181).
THEOREM TokensMatch == Spec => []TokenMatchesAccount
<1>1. FlowsInv => TokenMatchesAccount
  BY DEF FlowsInv
<1> QED BY <1>1, FlowsInvariant, PTL

\* No form, however often shown again and however long it awaited a time zone,
\* stores options that could not be polled with (options_flow.py:85).
THEOREM OptionsUsable == Spec => []StoredOptionsAreUsable
<1>1. FlowsInv => StoredOptionsAreUsable
  BY DEF FlowsInv
<1> QED BY <1>1, FlowsInvariant, PTL

\* The step ends an options flow of account a.
Saves(f, a) == account[f] = a /\ stage[f] \in OptionsStages /\ stage'[f] = "none"

LEMMA StepKeepsEntries ==
    ASSUME FlowsInv, [Next]_vars, NEW a \in configured
    PROVE  /\ a \in configured'
           /\ options'[a] # options[a] => \E f \in FlowIds : Saves(f, a)
<1>1. CASE UNCHANGED entries
  BY <1>1 DEF entries
<1>2. CASE UNCHANGED vars
  BY <1>2, <1>1 DEF vars
<1>3. ASSUME NEW f \in FlowIds, NEW chosen, CreateEntry(f, chosen)
      PROVE  a \in configured' /\ options'[a] = options[a]
  BY <1>3, CreateEntryKeeps
<1>4. ASSUME NEW f \in FlowIds, Confirmed(f)
      PROVE  a \in configured' /\ options'[a] = options[a]
  BY <1>4 DEF Confirmed
<1>5. ASSUME NEW f \in FlowIds, NEW new, Stored(f, account[f], new), stage[f] \in OptionsStages
      PROVE  /\ a \in configured'
             /\ options'[a] # options[a] => Saves(f, a)
  <2>1. a \in configured' /\ stage'[f] = "none"
    BY <1>5 DEF Stored, FlowsInv, Shape
  <2>2. options'[a] # options[a] => account[f] = a
    BY <1>5 DEF Stored, FlowsInv, Shape
  <2> QED BY <1>5, <2>1, <2>2 DEF Saves
<1>6. ASSUME NEW f \in FlowIds, FlowNext(f)
      PROVE  \/ UNCHANGED entries
             \/ \E chosen : CreateEntry(f, chosen)
             \/ Confirmed(f)
             \/ stage[f] \in OptionsStages /\ \E new : Stored(f, account[f], new)
  <2>1. CASE Close(f)
    BY <2>1 DEF Close
  <2>2. CASE UserNext(f)
    BY <2>2 DEF UserNext, StartUser, SubmitToken, GotUser, UserFails, GotProperties
  <2>3. CASE ReauthNext(f)
    BY <2>3 DEF ReauthNext, StartReauth, SubmitReplacement, ReauthFails
  <2>4. CASE OptionsNext(f)
    <3>1. ASSUME NEW a0 \in Accounts, NEW listed, NEW seen, StartOptions(f, a0, listed, seen)
          PROVE  UNCHANGED entries
      BY <3>1 DEF StartOptions
    <3>2. ASSUME NEW chosen, NEW numbers, NEW toggles, NEW texts, NEW listed, NEW seen,
                 SubmitOptions(f, chosen, numbers, toggles, texts, listed, seen)
          PROVE  UNCHANGED entries \/ \E new : Stored(f, account[f], new)
      <4>1. CASE \E p \in DOMAIN texts : texts[p] # Blank
        BY <3>2, <4>1 DEF SubmitOptions
      <4>2. CASE \A p \in DOMAIN texts : texts[p] = Blank
        BY <3>2, <4>2 DEF SubmitOptions
      <4> QED BY <4>1, <4>2
    <3>3. CASE ZonesKnown(f)
      BY <3>3 DEF ZonesKnown, OptionsStages
    <3>4. stage[f] = "options" \/ ZonesKnown(f) => stage[f] \in OptionsStages
      BY DEF ZonesKnown, OptionsStages
    <3> QED BY <2>4, <3>1, <3>2, <3>3, <3>4 DEF OptionsNext
  <2> QED BY <1>6, <2>1, <2>2, <2>3, <2>4 DEF FlowNext
<1> QED BY <1>1, <1>2, <1>3, <1>4, <1>5, <1>6 DEF Next

\* No two flows configure one account, however their awaits interleave: an entry
\* stays, and only an options flow of its own that ends with the step changes its
\* options (config_flow.py:103).
THEOREM EntriesKept == Spec => EntriesAreKept
<1>1. FlowsInv /\ [Next]_vars =>
         [\A a \in configured :
             /\ a \in configured'
             /\ options'[a] # options[a] =>
                   \E f \in FlowIds : /\ account[f] = a
                                      /\ stage[f] \in OptionsStages /\ stage'[f] = "none"]_vars
  BY StepKeepsEntries DEF Saves
<1> QED BY <1>1, FlowsInvariant, PTL DEF Spec, EntriesAreKept

LEMMA OthersStay ==
    ASSUME FlowsInv, NEW g \in FlowIds, FlowNext(g), NEW f \in FlowIds \ {g}
    PROVE  stage'[f] = stage[f]
<1>1. \/ UNCHANGED stage
      \/ \E there : stage' = [stage EXCEPT ![g] = there]
  <2>1. CASE Close(g)
    BY <2>1 DEF Close, End
  <2>2. CASE UserNext(g)
    BY <2>2 DEF UserNext, StartUser, SubmitToken, GotUser, UserFails, GotProperties,
                CreateEntry, End
  <2>3. CASE ReauthNext(g)
    BY <2>3 DEF ReauthNext, StartReauth, SubmitReplacement, ReauthFails, Confirmed, End
  <2>4. CASE OptionsNext(g)
    <3>1. ASSUME NEW a \in Accounts, NEW listed, NEW seen, StartOptions(g, a, listed, seen)
          PROVE  \E there : stage' = [stage EXCEPT ![g] = there]
      BY <3>1 DEF StartOptions
    <3>2. ASSUME NEW chosen, NEW numbers, NEW toggles, NEW texts, NEW listed, NEW seen,
                 SubmitOptions(g, chosen, numbers, toggles, texts, listed, seen)
          PROVE  UNCHANGED stage \/ \E there : stage' = [stage EXCEPT ![g] = there]
      <4>1. CASE \E p \in DOMAIN texts : texts[p] # Blank
        BY <3>2, <4>1 DEF SubmitOptions
      <4>2. CASE \A p \in DOMAIN texts : texts[p] = Blank
        BY <3>2, <4>2 DEF SubmitOptions, Stored
      <4> QED BY <4>1, <4>2
    <3>3. CASE ZonesKnown(g)
      BY <3>3 DEF ZonesKnown, Stored
    <3> QED BY <2>4, <3>1, <3>2, <3>3 DEF OptionsNext
  <2> QED BY <2>1, <2>2, <2>3, <2>4 DEF FlowNext
<1> QED BY <1>1 DEF FlowsInv, Shape

LEMMA StepRetains ==
    ASSUME FlowsInv, [Next]_vars, NEW f \in FlowIds,
           stage[f] \in OptionsStages, stage'[f] = "none", f \notin overtaken
    PROVE  Retains(options[account[f]].overrides, form[f].fields,
                   options'[account[f]].overrides)
<1>1. stage[f] # "none" /\ account[f] \in Accounts
  BY DEF OptionsStages, FlowsInv, OfAnEntry, Shape
<1>2. FlowNext(f)
  BY <1>1, OthersStay DEF Next, vars
<1>3. ~UserNext(f) /\ ~ReauthNext(f)
  <2>1. stage[f] \notin {"none", "user", "get_user", "get_properties", "properties",
                         "confirm", "confirming"}
    BY DEF OptionsStages
  <2>2. ~UserNext(f)
    BY <2>1 DEF UserNext, StartUser, SubmitToken, GotUser, UserFails, GotProperties,
                CreateEntry
  <2>3. ~ReauthNext(f)
    BY <2>1 DEF ReauthNext, StartReauth, SubmitReplacement, ReauthFails, Confirmed
  <2> QED BY <2>2, <2>3
<1>4. CASE Close(f)
  BY <1>4 DEF Close, entries, Retains
<1>5. ASSUME NEW new, Stored(f, account[f], new) PROVE options'[account[f]] = new
  BY <1>1, <1>5 DEF Stored, FlowsInv, Shape
<1>6. ASSUME NEW chosen, NEW numbers, NEW toggles, NEW texts, NEW listed, NEW seen,
             SubmitOptions(f, chosen, numbers, toggles, texts, listed, seen)
      PROVE  Retains(options[account[f]].overrides, form[f].fields,
                     options'[account[f]].overrides)
  <2> DEFINE saved == options[account[f]]
             selection == IF chosen = {} THEN saved.selected ELSE chosen
             new == [selected |-> selection, numbers |-> numbers, toggles |-> toggles,
                     overrides |-> Resolved(saved.overrides, texts)]
  <2>1. \A p \in DOMAIN texts : texts[p] = Blank
    <3>1. SUFFICES ASSUME \E p \in DOMAIN texts : texts[p] # Blank PROVE FALSE
      OBVIOUS
    <3>2. stage' = [stage EXCEPT ![f] = "zones"]
      BY <1>6, <3>1 DEF SubmitOptions
    <3> QED BY <3>2 DEF FlowsInv, Shape
  <2>2. Stored(f, account[f], new) /\ DOMAIN texts = form[f].fields
    BY <1>1, <1>6, <2>1 DEF SubmitOptions
  <2>3. options'[account[f]].overrides = Resolved(saved.overrides, texts)
    BY <2>2, <1>5
  <2> QED BY <2>2, <2>3, ResolvedRetains
<1>7. CASE ZonesKnown(f)
  <2>1. CASE "store" \in DOMAIN pending[f]
    <3>1. WillStore(f) /\ options'[account[f]] = pending[f].store
      BY <1>5, <1>7, <2>1 DEF ZonesKnown, WillStore
    <3> QED BY <3>1 DEF FlowsInv, WillRetain
  <2>2. CASE "store" \notin DOMAIN pending[f]
    BY <1>7, <2>2 DEF ZonesKnown, FlowsInv, Shape
  <2> QED BY <2>1, <2>2
<1>8. ~(\E a \in Accounts : \E listed, seen : StartOptions(f, a, listed, seen))
  BY <1>1 DEF StartOptions
<1>9. CASE OptionsNext(f)
  BY <1>6, <1>7, <1>8, <1>9 DEF OptionsNext
<1> QED BY <1>2, <1>3, <1>4, <1>9 DEF FlowNext

\* An options flow that no other one stored under loses no override of a property
\* that its form did not ask about, however often the form was shown again
\* (options_flow.py:195).
THEOREM OverridesRetained == Spec => OverridesAreRetained
<1>1. FlowsInv /\ [Next]_vars =>
         [\A f \in FlowIds : (stage[f] \in OptionsStages /\ stage'[f] = "none") =>
             f \in overtaken \/
             LET a == account[f] IN
             \A p \in DOMAIN options[a].overrides \ form[f].fields :
                 /\ p \in DOMAIN options'[a].overrides
                 /\ options'[a].overrides[p] = options[a].overrides[p]]_vars
  BY StepRetains DEF Retains
<1> QED BY <1>1, FlowsInvariant, PTL DEF Spec, OverridesAreRetained

-----------------------------------------------------------------------------
(* What the flows and the entries hold                                     *)

Enterable == Numbers \cup {DefaultNumbers}

\* x is a form for account a, with the estimate of what is on it.
IsDisplay(a, x) ==
    \E offered, selection \in SUBSET PropertiesOfAccount[a], numbers \in Enterable,
       seen \in ReservationCounts : x = Form(offered, selection, numbers, seen)

OptionsOf(a, o) == o.selected \subseteq PropertiesOfAccount[a] /\ o.numbers \in Enterable

EntryTyped(a) ==
    IF a \in configured THEN credential[a] \in Tokens /\ OptionsOf(a, options[a])
    ELSE credential[a] = None /\ options[a] = None

Holding(f) ==
    \/ DOMAIN pending[f] = {"store"} /\ OptionsOf(account[f], pending[f].store)
    \/ DOMAIN pending[f] = {"show"} /\ IsDisplay(account[f], pending[f].show)

FlowTyped(f) ==
    /\ token[f] \in Tokens \cup {None} /\ account[f] \in Accounts \cup {None}
    /\ stage[f] = "properties" => form[f].offered \subseteq PropertiesOfAccount[account[f]]
    /\ stage[f] = "options" => IsDisplay(account[f], form[f])
    /\ IF stage[f] = "zones" THEN Holding(f) ELSE pending[f] = None
    /\ f \in overtaken => stage[f] = "zones"

FlowsTyped ==
    /\ \A a \in Accounts : EntryTyped(a)
    /\ \A f \in FlowIds : FlowTyped(f)
    /\ overtaken \subseteq FlowIds

LEMMA FlowsTypedInit == Init => FlowsTyped
  BY DEF Init, FlowsTyped, EntryTyped, FlowTyped

\* An action of one flow leaves what the others hold as it was.
LEMMA OthersTyped ==
    ASSUME Shape, NEW f \in FlowIds, \A g \in FlowIds : FlowTyped(g),
           stage' = [stage EXCEPT ![f] = stage'[f]],
           token' = [token EXCEPT ![f] = token'[f]],
           account' = [account EXCEPT ![f] = account'[f]],
           form' = [form EXCEPT ![f] = form'[f]],
           pending' = [pending EXCEPT ![f] = pending'[f]],
           \A g \in FlowIds \ {f} : g \in overtaken' => g \in overtaken \/ stage[g] = "zones",
           FlowTyped(f)'
    PROVE  \A g \in FlowIds : FlowTyped(g)'
<1>1. ASSUME NEW g \in FlowIds \ {f} PROVE FlowTyped(g)'
  <2>1. /\ stage'[g] = stage[g] /\ token'[g] = token[g] /\ account'[g] = account[g]
        /\ form'[g] = form[g] /\ pending'[g] = pending[g]
    BY DEF Shape
  <2>2. FlowTyped(g) /\ (g \in overtaken' => stage[g] = "zones")
    BY DEF FlowTyped
  <2>3. Holding(g) => Holding(g)'
    BY <2>1 DEF Holding
  <2> QED BY <2>1, <2>2, <2>3 DEF FlowTyped
<1> QED BY <1>1

\* The same for an action that leaves the entries alone.
LEMMA OnlyOneTyped ==
    ASSUME Shape, FlowsTyped, NEW f \in FlowIds, UNCHANGED entries,
           stage' = [stage EXCEPT ![f] = stage'[f]],
           token' = [token EXCEPT ![f] = token'[f]],
           account' = [account EXCEPT ![f] = account'[f]],
           form' = [form EXCEPT ![f] = form'[f]],
           pending' = [pending EXCEPT ![f] = pending'[f]],
           overtaken' \in {overtaken, overtaken \ {f}},
           FlowTyped(f)'
    PROVE  FlowsTyped'
<1>1. \A g \in FlowIds : FlowTyped(g)'
  BY OthersTyped DEF FlowsTyped
<1>2. overtaken' \subseteq FlowIds /\ \A a \in Accounts : EntryTyped(a)'
  BY DEF FlowsTyped, EntryTyped, entries
<1> QED BY <1>1, <1>2 DEF FlowsTyped

LEMMA EndTyped ==
    ASSUME Shape, FlowsTyped, NEW f \in FlowIds, End(f)
    PROVE  (\A g \in FlowIds : FlowTyped(g)') /\ overtaken' \subseteq FlowIds
<1>1. /\ stage' = [stage EXCEPT ![f] = stage'[f]] /\ token' = [token EXCEPT ![f] = token'[f]]
      /\ account' = [account EXCEPT ![f] = account'[f]]
      /\ form' = [form EXCEPT ![f] = form'[f]]
      /\ pending' = [pending EXCEPT ![f] = pending'[f]]
      /\ overtaken' = overtaken \ {f}
  BY DEF End, Shape
<1>2. stage'[f] = "none" /\ token'[f] = None /\ account'[f] = None /\ pending'[f] = None
  BY DEF End, Shape
<1>3. FlowTyped(f)'
  BY <1>1, <1>2 DEF FlowTyped
<1> QED BY <1>1, <1>3, OthersTyped DEF FlowsTyped

LEMMA EndKeepsTyped ==
    ASSUME Shape, FlowsTyped, NEW f \in FlowIds, End(f), UNCHANGED entries
    PROVE  FlowsTyped'
<1>1. \A a \in Accounts : EntryTyped(a)'
  BY DEF FlowsTyped, EntryTyped, entries
<1> QED BY <1>1, EndTyped DEF FlowsTyped

\* The steps of the config and the reauthentication flow that store nothing.
LEMMA StepsTyped ==
    ASSUME FlowsInv, FlowsTyped, NEW f \in FlowIds,
           \/ StartUser(f) \/ UserFails(f) \/ ReauthFails(f)
           \/ \E t \in Tokens : SubmitToken(f, t) \/ SubmitReplacement(f, t)
           \/ \E a \in Accounts : StartReauth(f, a)
    PROVE  FlowsTyped'
<1>1. Shape /\ FlowTyped(f)
  BY DEF FlowsInv, FlowsTyped
<1>2. /\ stage' = [stage EXCEPT ![f] = stage'[f]] /\ token' = [token EXCEPT ![f] = token'[f]]
      /\ account' = [account EXCEPT ![f] = account'[f]]
      /\ form' = [form EXCEPT ![f] = form'[f]]
      /\ pending' = [pending EXCEPT ![f] = pending'[f]]
      /\ UNCHANGED entries
  BY <1>1 DEF StartUser, UserFails, SubmitToken, StartReauth, SubmitReplacement, ReauthFails, Shape
<1>3. /\ stage'[f] \in {"user", "get_user", "confirm", "confirming"} /\ stage[f] # "zones"
      /\ token'[f] \in {token[f]} \cup Tokens /\ account'[f] \in {account[f]} \cup Accounts
      /\ pending'[f] = pending[f] /\ overtaken' = overtaken
  BY <1>1 DEF StartUser, UserFails, SubmitToken, StartReauth, SubmitReplacement, ReauthFails, Shape
<1>4. FlowTyped(f)'
  BY <1>1, <1>3 DEF FlowTyped
<1> QED BY <1>1, <1>2, <1>3, <1>4, OnlyOneTyped

LEMMA GotTyped ==
    ASSUME FlowsInv, FlowsTyped, NEW f \in FlowIds,
           GotUser(f) \/ \E properties : GotProperties(f, properties)
    PROVE  FlowsTyped'
<1>1. Shape /\ FlowTyped(f)
  BY DEF FlowsInv, FlowsTyped
<1>2. CASE End(f) /\ UNCHANGED entries
  BY <1>1, <1>2, EndKeepsTyped
<1>3. CASE ~End(f) /\ GotUser(f)
  <2>1. /\ stage' = [stage EXCEPT ![f] = "get_properties"]
        /\ account' = [account EXCEPT ![f] = TokenAccount[token[f]]]
        /\ UNCHANGED <<entries, token, form, pending, overtaken>>
        /\ stage[f] = "get_user" /\ token[f] \in Tokens
    BY <1>3 DEF GotUser, FlowsInv, HasToken
  <2>2. TokenAccount[token[f]] \in Accounts
    BY <2>1, FlowsAssumption
  <2>3. FlowTyped(f)'
    BY <1>1, <2>1, <2>2 DEF FlowTyped, Shape
  <2> QED BY <1>1, <2>1, <2>3, OnlyOneTyped DEF Shape
<1>4. ASSUME NEW properties, GotProperties(f, properties), ~End(f) PROVE FlowsTyped'
  <2>1. /\ stage' = [stage EXCEPT ![f] = "properties"]
        /\ form' = [form EXCEPT ![f] = [NoForm EXCEPT !.offered = properties]]
        /\ UNCHANGED <<entries, token, account, pending, overtaken>>
        /\ stage[f] = "get_properties" /\ properties \subseteq PropertiesOfAccount[account[f]]
    BY <1>4 DEF GotProperties
  <2>2. stage'[f] = "properties" /\ form'[f].offered = properties
    BY <1>1, <2>1 DEF Shape, NoForm
  <2>3. FlowTyped(f)'
    BY <1>1, <2>1, <2>2 DEF FlowTyped
  <2> QED BY <1>1, <2>1, <2>3, OnlyOneTyped DEF Shape
<1> QED BY <1>2, <1>3, <1>4 DEF GotUser, GotProperties

LEMMA CreateEntryTyped ==
    ASSUME FlowsInv, FlowsTyped, NEW f \in FlowIds, NEW chosen, CreateEntry(f, chosen)
    PROVE  FlowsTyped'
<1>1. Shape /\ FlowTyped(f)
  BY DEF FlowsInv, FlowsTyped
<1>2. stage[f] = "properties" /\ account[f] \in Accounts \ configured /\ token[f] \in Tokens
  BY DEF CreateEntry, FlowsInv, IsNew, Validated
<1>3. OptionsOf(account[f], DefaultOptions(chosen))
  BY <1>1, <1>2 DEF OptionsOf, DefaultOptions, Enterable, CreateEntry, FlowTyped
<1>4. /\ configured' = configured \cup {account[f]}
      /\ credential'[account[f]] = token[f] /\ options'[account[f]] = DefaultOptions(chosen)
      /\ \A a \in Accounts \ {account[f]} :
            credential'[a] = credential[a] /\ options'[a] = options[a]
  BY <1>1, <1>2 DEF CreateEntry, Shape
<1>5. ASSUME NEW a \in Accounts PROVE EntryTyped(a)'
  <2>1. CASE a = account[f]
    BY <2>1, <1>2, <1>3, <1>4 DEF EntryTyped
  <2>2. CASE a # account[f]
    BY <2>2, <1>4 DEF FlowsTyped, EntryTyped
  <2> QED BY <2>1, <2>2
<1> QED BY <1>1, <1>5, EndTyped DEF CreateEntry, FlowsTyped

LEMMA ConfirmedTyped ==
    ASSUME FlowsInv, FlowsTyped, NEW f \in FlowIds, Confirmed(f)
    PROVE  FlowsTyped'
<1>1. Shape
  BY DEF FlowsInv
<1>2. token[f] \in Tokens /\ account[f] \in configured /\ account[f] \in Accounts
  BY <1>1 DEF Confirmed, FlowsInv, HasToken, OfAnEntry, ReauthStages, Shape
<1>3. ASSUME NEW a \in Accounts PROVE EntryTyped(a)'
  <2>1. credential'[a] \in {credential[a], token[f]} /\ (a \notin configured => credential'[a] = credential[a])
    BY <1>1, <1>2 DEF Confirmed, Shape
  <2> QED BY <2>1, <1>2 DEF FlowsTyped, EntryTyped, Confirmed
<1> QED BY <1>1, <1>3, EndTyped DEF Confirmed, FlowsTyped

LEMMA StartOptionsTyped ==
    ASSUME FlowsInv, FlowsTyped, NEW f \in FlowIds, NEW a \in Accounts, NEW listed,
           NEW seen \in ReservationCounts, StartOptions(f, a, listed, seen)
    PROVE  FlowsTyped'
<1>1. Shape /\ FlowTyped(f)
  BY DEF FlowsInv, FlowsTyped
<1>2. a \in configured /\ OptionsOf(a, options[a])
  BY DEF StartOptions, Configured, FlowsTyped, EntryTyped
<1>3. IsDisplay(a, Form(Available(a, listed), options[a].selected, options[a].numbers, seen))
  BY <1>2 DEF StartOptions, IsDisplay, Available, OptionsOf
<1>4. /\ stage' = [stage EXCEPT ![f] = "options"]
      /\ account' = [account EXCEPT ![f] = a]
      /\ form' = [form EXCEPT ![f] = Form(Available(a, listed), options[a].selected,
                                          options[a].numbers, seen)]
      /\ UNCHANGED <<entries, token, pending, overtaken>> /\ stage[f] = "none"
  BY DEF StartOptions
<1>5. /\ stage'[f] = "options" /\ account'[f] = a
      /\ form'[f] = Form(Available(a, listed), options[a].selected, options[a].numbers, seen)
  BY <1>1, <1>4 DEF Shape
<1>6. FlowTyped(f)'
  BY <1>1, <1>3, <1>4, <1>5 DEF FlowTyped
<1> QED BY <1>1, <1>4, <1>6, OnlyOneTyped DEF Shape

LEMMA StoredTyped ==
    ASSUME FlowsInv, FlowsTyped, NEW f \in FlowIds, stage[f] \in OptionsStages, NEW new,
           OptionsOf(account[f], new), Stored(f, account[f], new)
    PROVE  FlowsTyped'
<1>1. Shape /\ FlowTyped(f)
  BY DEF FlowsInv, FlowsTyped
<1>2. account[f] \in configured /\ account[f] \in Accounts
  BY DEF FlowsInv, OfAnEntry, Shape
<1>3. /\ stage' = [stage EXCEPT ![f] = "none"] /\ account' = [account EXCEPT ![f] = None]
      /\ form' = [form EXCEPT ![f] = NoForm] /\ pending' = [pending EXCEPT ![f] = None]
      /\ overtaken' = (overtaken \ {f})
                      \cup {g \in FlowIds \ {f} : stage[g] = "zones" /\ account[g] = account[f]}
      /\ UNCHANGED <<configured, credential, token>>
      /\ options' = [options EXCEPT ![account[f]] = new]
  BY DEF Stored
<1>4. FlowTyped(f)'
  BY <1>1, <1>3 DEF FlowTyped, Shape
<1>5. (\A g \in FlowIds : FlowTyped(g)') /\ overtaken' \subseteq FlowIds
  BY <1>1, <1>3, <1>4, OthersTyped DEF Shape, FlowsTyped
<1>6. ASSUME NEW a \in Accounts PROVE EntryTyped(a)'
  <2>1. CASE a = account[f]
    BY <2>1, <1>1, <1>2, <1>3 DEF EntryTyped, Shape, FlowsTyped
  <2>2. CASE a # account[f]
    BY <2>2, <1>1, <1>2, <1>3 DEF EntryTyped, Shape, FlowsTyped
  <2> QED BY <2>1, <2>2
<1> QED BY <1>5, <1>6 DEF FlowsTyped

LEMMA SubmitOptionsTyped ==
    ASSUME FlowsInv, FlowsTyped, NEW f \in FlowIds, NEW chosen, NEW numbers \in Numbers,
           NEW toggles, NEW texts, NEW listed, NEW seen \in ReservationCounts,
           SubmitOptions(f, chosen, numbers, toggles, texts, listed, seen)
    PROVE  FlowsTyped'
<1> DEFINE a == account[f]
           saved == options[a]
           selection == IF chosen = {} THEN saved.selected ELSE chosen
           good == /\ chosen # {} /\ WithinBounds(numbers)
                   /\ \A p \in DOMAIN texts : texts[p] \notin BadZones
           new == [selected |-> selection, numbers |-> numbers, toggles |-> toggles,
                   overrides |-> Resolved(saved.overrides, texts)]
           again == Form(Available(a, listed), selection, numbers, seen)
<1>1. Shape /\ FlowTyped(f)
  BY DEF FlowsInv, FlowsTyped
<1>2. stage[f] = "options" /\ stage[f] \in OptionsStages /\ a \in configured /\ a \in Accounts
  BY DEF SubmitOptions, FlowsInv, OfAnEntry, OptionsStages, Shape
<1>3. /\ chosen \subseteq form[f].offered /\ listed \subseteq PropertiesOfAccount[a]
      /\ saved.selected \subseteq PropertiesOfAccount[a]
      /\ form[f].offered \subseteq PropertiesOfAccount[a]
  <2>1. PICK offered, selected \in SUBSET PropertiesOfAccount[a], n \in Enterable,
             s \in ReservationCounts : form[f] = Form(offered, selected, n, s)
    BY <1>1, <1>2 DEF FlowTyped, IsDisplay
  <2>2. form[f].offered \subseteq PropertiesOfAccount[a]
    BY <2>1 DEF Form
  <2> QED BY <1>2, <2>2 DEF SubmitOptions, FlowsTyped, EntryTyped, OptionsOf
<1>4. /\ selection \subseteq PropertiesOfAccount[a]
      /\ Available(a, listed) \subseteq PropertiesOfAccount[a]
  BY <1>3 DEF Available
<1>5. OptionsOf(a, new)
  BY <1>4 DEF OptionsOf, Enterable
<1>6. IsDisplay(a, again)
  <2> HIDE DEF a, selection
  <2>1. Available(a, listed) \in SUBSET PropertiesOfAccount[a] /\ numbers \in Enterable
    BY <1>4 DEF Enterable
  <2> QED BY <1>4, <2>1 DEF IsDisplay
<1>7. CASE \E p \in DOMAIN texts : texts[p] # Blank
  <2>1. /\ stage' = [stage EXCEPT ![f] = "zones"]
        /\ form' = [form EXCEPT ![f] = [NoForm EXCEPT !.fields = DOMAIN texts]]
        /\ pending' = [pending EXCEPT ![f] = IF good THEN [store |-> new]
                                             ELSE [show |-> again]]
        /\ UNCHANGED <<entries, token, account, overtaken>>
    BY <1>7 DEF SubmitOptions
  <2> HIDE DEF new, again, good, a
  <2>2. /\ stage'[f] = "zones" /\ account'[f] = a
        /\ pending'[f] = IF good THEN [store |-> new] ELSE [show |-> again]
    BY <1>1, <2>1 DEF Shape, a
  <2>3. Holding(f)'
    <3>1. CASE good
      BY <3>1, <1>5, <2>2 DEF Holding
    <3>2. CASE ~good
      BY <3>2, <1>6, <2>2 DEF Holding
    <3> QED BY <3>1, <3>2
  <2>4. FlowTyped(f)'
    BY <1>1, <2>1, <2>2, <2>3 DEF FlowTyped
  <2> QED BY <1>1, <2>1, <2>4, OnlyOneTyped DEF Shape
<1>8. CASE (\A p \in DOMAIN texts : texts[p] = Blank) /\ good
  BY <1>2, <1>5, <1>8, StoredTyped DEF SubmitOptions
<1>9. CASE (\A p \in DOMAIN texts : texts[p] = Blank) /\ ~good
  <2>1. /\ form' = [form EXCEPT ![f] = again]
        /\ UNCHANGED <<entries, stage, token, account, pending, overtaken>>
    BY <1>9 DEF SubmitOptions
  <2> HIDE DEF again, good, new
  <2>2. form'[f] = again
    BY <1>1, <2>1 DEF Shape
  <2>3. FlowTyped(f)'
    BY <1>1, <1>2, <1>6, <2>1, <2>2 DEF FlowTyped
  <2> QED BY <1>1, <2>1, <2>3, OnlyOneTyped DEF Shape
<1> QED BY <1>7, <1>8, <1>9

LEMMA ZonesKnownTyped ==
    ASSUME FlowsInv, FlowsTyped, NEW f \in FlowIds, ZonesKnown(f)
    PROVE  FlowsTyped'
<1>1. Shape /\ FlowTyped(f) /\ stage[f] = "zones" /\ stage[f] \in OptionsStages /\ Holding(f)
  BY DEF FlowsInv, FlowsTyped, ZonesKnown, FlowTyped, OptionsStages
<1>2. CASE "store" \in DOMAIN pending[f]
  <2>1. OptionsOf(account[f], pending[f].store)
    BY <1>1, <1>2 DEF Holding
  <2> QED BY <1>1, <1>2, <2>1, StoredTyped DEF ZonesKnown
<1>3. CASE "store" \notin DOMAIN pending[f]
  <2>1. IsDisplay(account[f], pending[f].show)
    BY <1>1, <1>3 DEF Holding
  <2>2. /\ stage' = [stage EXCEPT ![f] = "options"]
        /\ form' = [form EXCEPT ![f] = pending[f].show]
        /\ pending' = [pending EXCEPT ![f] = None]
        /\ overtaken' = overtaken \ {f} /\ UNCHANGED <<entries, token, account>>
    BY <1>3 DEF ZonesKnown
  <2>3. FlowTyped(f)'
    BY <1>1, <2>1, <2>2 DEF FlowTyped, Shape
  <2> QED BY <1>1, <2>2, <2>3, OnlyOneTyped DEF Shape
<1> QED BY <1>2, <1>3

LEMMA FlowsTypedNext ==
    ASSUME FlowsInv, FlowsTyped, [Next]_vars
    PROVE  FlowsTyped'
<1>1. CASE UNCHANGED vars
  BY <1>1 DEF vars, entries, FlowsTyped, EntryTyped, FlowTyped, Holding
<1>2. ASSUME NEW f \in FlowIds, FlowNext(f) PROVE FlowsTyped'
  <2>1. CASE Close(f)
    BY <2>1, EndKeepsTyped DEF Close, FlowsInv
  <2>2. CASE UserNext(f)
    BY <2>2, StepsTyped, GotTyped, CreateEntryTyped DEF UserNext
  <2>3. CASE ReauthNext(f)
    BY <2>3, StepsTyped, ConfirmedTyped DEF ReauthNext
  <2>4. CASE OptionsNext(f)
    <3>1. ASSUME NEW a \in Accounts, NEW held \in Holdings[a],
                 StartOptions(f, a, held[1], held[2])
          PROVE  FlowsTyped'
      <4>1. held[2] \in ReservationCounts
        BY FlowsAssumption
      <4> QED BY <3>1, <4>1, StartOptionsTyped
    <3>2. ASSUME stage[f] = "options", NEW held \in Holdings[account[f]],
                 NEW numbers \in Numbers, NEW toggles, NEW texts, NEW chosen,
                 SubmitOptions(f, chosen, numbers, toggles, texts, held[1], held[2])
          PROVE  FlowsTyped'
      <4>1. account[f] \in Accounts
        BY <3>2 DEF FlowsInv, OfAnEntry, OptionsStages, Shape
      <4>2. held[2] \in ReservationCounts
        BY <4>1, FlowsAssumption
      <4> QED BY <3>2, <4>2, SubmitOptionsTyped
    <3> QED BY <2>4, <3>1, <3>2, ZonesKnownTyped DEF OptionsNext
  <2> QED BY <1>2, <2>1, <2>2, <2>3, <2>4 DEF FlowNext
<1> QED BY <1>1, <1>2 DEF Next

\* What a form shows, what will be stored and what is stored is of the flow's own
\* account, and a flow that was overtaken still awaits its zones.
THEOREM FlowsTypedInvariant == Spec => []FlowsTyped
<1>1. Init => FlowsTyped
  BY FlowsTypedInit
<1>2. FlowsInv /\ FlowsTyped /\ [Next]_vars => FlowsTyped'
  BY FlowsTypedNext
<1> QED BY <1>1, <1>2, FlowsInvariant, PTL DEF Spec

\* At every await of every flow, for all accounts and any number of flows, a form
\* offers and asks about properties of the flow's own account only, though it is
\* built anew from what is held and what is stored whenever it is shown
\* (options_flow.py:165), and the tokens and the stored options have their types.
THEOREM Types == Spec => []TypeOK
<1>1. FlowsInv /\ FlowsTyped => TypeOK
  <2> SUFFICES ASSUME FlowsInv, FlowsTyped PROVE TypeOK
    OBVIOUS
  <2>1. \A f \in FlowIds : stage[f] = "options" =>
           form[f].offered \cup form[f].fields \subseteq PropertiesOfAccount[account[f]]
    <3> SUFFICES ASSUME NEW f \in FlowIds, stage[f] = "options"
                 PROVE  form[f].offered \cup form[f].fields \subseteq PropertiesOfAccount[account[f]]
      OBVIOUS
    <3>1. IsDisplay(account[f], form[f])
      BY DEF FlowsTyped, FlowTyped
    <3>2. PICK offered, selection \in SUBSET PropertiesOfAccount[account[f]],
               numbers \in Enterable, seen \in ReservationCounts :
               form[f] = Form(offered, selection, numbers, seen)
      BY <3>1 DEF IsDisplay
    <3> QED BY <3>2 DEF Form
  <2>2. \A f \in FlowIds : IF stage[f] = "zones" THEN DOMAIN pending[f] \in {{"store"}, {"show"}}
                           ELSE pending[f] = None
    BY DEF FlowsTyped, FlowTyped, Holding
  <2>3. /\ token \in [FlowIds -> Tokens \cup {None}]
        /\ account \in [FlowIds -> Accounts \cup {None}]
    BY DEF FlowsInv, Shape, FlowsTyped, FlowTyped
  <2>4. \A a \in Accounts :
           IF a \in configured
           THEN credential[a] \in Tokens /\ options[a].selected \subseteq PropertiesOfAccount[a]
           ELSE credential[a] = None /\ options[a] = None
    BY DEF FlowsTyped, EntryTyped, OptionsOf
  <2>5. overtaken \subseteq {f \in FlowIds : stage[f] = "zones"}
    BY DEF FlowsTyped, FlowTyped
  <2> QED BY <2>1, <2>2, <2>3, <2>4, <2>5 DEF TypeOK, FlowsInv, Shape
<1> QED BY <1>1, FlowsInvariant, FlowsTypedInvariant, PTL

-----------------------------------------------------------------------------
(* What a day of polls costs                                               *)

LEMMA DivMod ==
    ASSUME NEW k \in Nat, NEW d \in Nat \ {0}
    PROVE  /\ k \div d \in Nat /\ k % d \in 0..(d - 1)
           /\ k = (k \div d) * d + (k % d)
  OBVIOUS

LEMMA DivOfMultiple ==
    ASSUME NEW q \in Nat, NEW d \in Nat \ {0}
    PROVE  (q * d) % d = 0 /\ (q * d) \div d = q
  OBVIOUS

LEMMA DivBound ==
    ASSUME NEW q \in Nat, NEW n \in Nat, NEW d \in Nat \ {0}
    PROVE  q * d <= n <=> q <= n \div d
  OBVIOUS

LEMMA OneOverMultiple ==
    ASSUME NEW q \in Nat, NEW d \in Nat, d > 1
    PROVE  (q * d + 1) % d = 1
<1>1. q * d + 1 = q * d + 1 /\ q * d + 1 \in Nat
  OBVIOUS
<1>2. PICK x \in Nat : x = (q * d + 1) \div d
  BY <1>1, DivMod
<1>3. PICK r \in 0..(d - 1) : r = (q * d + 1) % d
  BY <1>1, DivMod
<1>4. q * d + 1 = x * d + r
  BY <1>1, <1>2, <1>3, DivMod
<1>5. x = q
  <2>1. CASE x > q
    <3>1. (x - q - 1) * d >= 0 /\ (x - q - 1) * d = x * d - q * d - d
      BY <2>1
    <3> QED BY <3>1, <1>4
  <2>2. CASE x < q
    <3>1. (q - x - 1) * d >= 0 /\ (q - x - 1) * d = q * d - x * d - d
      BY <2>2
    <3> QED BY <3>1, <1>4
  <2> QED BY <2>1, <2>2
<1> QED BY <1>3, <1>4, <1>5

\* S has n members: F names each of them once.
LEMMA CountedBy ==
    ASSUME NEW n \in Nat, NEW S, NEW F \in [1..n -> S],
           \A i, j \in 1..n : F[i] = F[j] => i = j,
           \A s \in S : \E i \in 1..n : F[i] = s
    PROVE  IsFiniteSet(S) /\ Cardinality(S) = n
<1>1. F \in Bijection(1..n, S)
  BY DEF Bijection, Injection, Surjection, IsInjective
<1>2. ExistsBijection(1..n, S)
  BY <1>1 DEF ExistsBijection
<1> QED BY <1>2, FS_Interval, FS_Bijection

\* In a day as many polls fall due as the interval fits in it.
LEMMA DuePollsOfADay ==
    ASSUME NEW d \in Nat \ {0}
    PROVE  IsFiniteSet(DuePolls(d)) /\ Cardinality(DuePolls(d)) = 1440 \div d
<1> DEFINE n == 1440 \div d
           F == [q \in 1..n |-> q * d]
<1>1. n \in Nat
  BY DivMod
<1>2. ASSUME NEW q \in 1..n PROVE q * d \in DuePolls(d)
  <2>1. q * d <= 1440 /\ (q * d) % d = 0
    BY <1>1, DivBound, DivOfMultiple
  <2>2. q * d >= 1 /\ q * d \in Int
    OBVIOUS
  <2> QED BY <2>1, <2>2 DEF DuePolls
<1>3. ASSUME NEW i \in 1..n, NEW j \in 1..n, i * d = j * d PROVE i = j
  BY <1>1, <1>3, DivOfMultiple
<1>4. ASSUME NEW m \in DuePolls(d) PROVE \E q \in 1..n : q * d = m
  <2> DEFINE k == m \div d
  <2>1. m \in 1..1440 /\ k \in Nat /\ m = k * d
    BY DivMod DEF DuePolls
  <2> HIDE DEF k
  <2>2. k # 0
    BY <2>1
  <2>3. k * d <= 1440 /\ 1440 \in Nat
    BY <2>1
  <2>4. k <= 1440 \div d
    BY <2>1, <2>3, DivBound
  <2> QED BY <1>1, <2>1, <2>2, <2>4
<1>5. F \in [1..n -> DuePolls(d)]
  BY <1>2
<1> HIDE DEF n
<1>6. /\ \A i, j \in 1..n : F[i] = F[j] => i = j
      /\ \A s \in DuePolls(d) : \E i \in 1..n : F[i] = s
  BY <1>3, <1>4
<1> HIDE DEF F
<1>7. IsFiniteSet(DuePolls(d)) /\ Cardinality(DuePolls(d)) = n
  BY <1>1, <1>5, <1>6, CountedBy
<1> QED BY <1>7 DEF n

\* The numbers that begin a batch of d: one for every batch, the last one included.
LEMMA BatchesOf ==
    ASSUME NEW d \in Nat, d > 1, NEW n \in Nat
    PROVE  LET S == {i \in 1..n : i % d = 1}
           IN  IsFiniteSet(S) /\ Cardinality(S) = CeilDiv(n, d)
<1> DEFINE S == {i \in 1..n : i % d = 1}
           c == CeilDiv(n, d)
           F == [q \in 1..c |-> (q - 1) * d + 1]
<1>1. c \in Nat
  BY DivMod DEF CeilDiv
<1>2. ASSUME NEW q \in 1..c PROVE (q - 1) * d + 1 \in S
  <2>1. q * d <= n + d - 1
    BY <1>1, DivBound DEF CeilDiv
  <2>2. (q - 1) * d + 1 \in 1..n
    BY <1>1, <2>1
  <2>3. q - 1 \in Nat
    BY <1>1
  <2>4. ((q - 1) * d + 1) % d = 1
    BY <2>3, OneOverMultiple
  <2> QED BY <2>2, <2>4
<1>3. ASSUME NEW i \in 1..c, NEW j \in 1..c, (i - 1) * d + 1 = (j - 1) * d + 1 PROVE i = j
  BY <1>1, <1>3, DivOfMultiple
<1>4. ASSUME NEW m \in S PROVE \E q \in 1..c : (q - 1) * d + 1 = m
  <2>1. m \in 1..n /\ m % d = 1 /\ m \div d \in Nat /\ m = (m \div d) * d + 1
    BY DivMod
  <2>2. (m \div d + 1) * d <= n + d - 1
    BY <2>1
  <2>3. m \div d + 1 <= c
    BY <2>1, <2>2, DivBound DEF CeilDiv
  <2> QED BY <1>1, <2>1, <2>3
<1>5. F \in [1..c -> S]
  BY <1>2
<1> HIDE DEF c
<1>6. /\ \A i, j \in 1..c : F[i] = F[j] => i = j
      /\ \A s \in S : \E i \in 1..c : F[i] = s
  BY <1>3, <1>4
<1> HIDE DEF F, S
<1>7. IsFiniteSet(S) /\ Cardinality(S) = c
  BY <1>1, <1>5, <1>6, CountedBy
<1> QED BY <1>7 DEF c, S

LEMMA PagesOf ==
    ASSUME NEW n \in Nat
    PROVE  LET S == {i \in 0..n : i % 100 = 1 \/ i + n = 0}
           IN  IsFiniteSet(S) /\ Cardinality(S) = AtLeastOne(CeilDiv(n, 100))
<1> DEFINE S == {i \in 0..n : i % 100 = 1 \/ i + n = 0}
           T == {i \in 1..n : i % 100 = 1}
<1>1. CASE n = 0
  <2>1. S = {0} /\ CeilDiv(n, 100) = 0
    BY <1>1 DEF CeilDiv
  <2> HIDE DEF S
  <2>2. IsFiniteSet(S) /\ Cardinality(S) = 1
    BY <2>1, FS_Singleton
  <2> QED BY <2>1, <2>2 DEF AtLeastOne, S
<1>2. CASE n > 0
  <2>1. S = T
    BY <1>2
  <2>2. CeilDiv(n, 100) >= 1 /\ CeilDiv(n, 100) \in Nat
    BY <1>2 DEF CeilDiv
  <2>3. IsFiniteSet(T) /\ Cardinality(T) = CeilDiv(n, 100)
    BY BatchesOf
  <2> HIDE DEF S, T
  <2>4. IsFiniteSet(S) /\ Cardinality(S) = AtLeastOne(CeilDiv(n, 100))
    BY <2>1, <2>2, <2>3 DEF AtLeastOne
  <2> QED BY <2>4 DEF S
<1> QED BY <1>1, <1>2

LEMMA TripleProduct ==
    ASSUME NEW A, NEW B, NEW C, IsFiniteSet(A), IsFiniteSet(B), IsFiniteSet(C)
    PROVE  Cardinality(A \X B \X C) = Cardinality(A) * Cardinality(B) * Cardinality(C)
<1> DEFINE P == (A \X B) \X C
           T == A \X B \X C
           F == [x \in P |-> <<x[1][1], x[1][2], x[2]>>]
<1>1. F \in [P -> T]
  OBVIOUS
<1>2. \A x, y \in P : F[x] = F[y] => x = y
  OBVIOUS
<1>3. \A t \in T : \E x \in P : F[x] = t
  <2> SUFFICES ASSUME NEW t \in T PROVE \E x \in P : F[x] = t
    OBVIOUS
  <2> WITNESS <<<<t[1], t[2]>>, t[3]>> \in P
  <2> QED OBVIOUS
<1>4. F \in Bijection(P, T)
  BY <1>1, <1>2, <1>3 DEF Bijection, Injection, Surjection, IsInjective
<1>5. ExistsBijection(P, T)
  BY <1>4 DEF ExistsBijection
<1>6. /\ IsFiniteSet(P) /\ Cardinality(A \X B) = Cardinality(A) * Cardinality(B)
      /\ Cardinality(P) = Cardinality(A \X B) * Cardinality(C)
  BY FS_Product
<1> QED BY <1>5, <1>6, FS_Bijection

\* The estimate, for every number of properties and of reservations seen and every
\* three intervals that can be polled with.
LEMMA EstimateOfADay ==
    ASSUME NEW n \in 0..Cardinality(PropertiesOfAll), NEW numbers \in Enterable,
           Periodic(numbers), NEW seen \in ReservationCounts
    PROVE  estimate_requests_per_day(n, numbers.property_interval,
                                     numbers.reservation_interval, seen,
                                     numbers.task_interval)
           = RequestsOfADay[n][numbers][seen]
<1> DEFINE p == numbers.property_interval
           r == numbers.reservation_interval
           t == numbers.task_interval
           batches == {i \in 1..n : i % 50 = 1}
           pages == {i \in 0..seen : i % 100 = 1 \/ i + seen = 0}
<1>1. n \in Nat /\ seen \in Nat /\ p \in Nat \ {0} /\ r \in Nat \ {0} /\ t \in Nat \ {0}
  <2>1. Cardinality(PropertiesOfAll) \in Nat
    BY CountsAssumption, FS_CardinalityType
  <2> QED BY <2>1, CountsAssumption DEF Enterable, Periodic
<1>2. RequestsOfADay[n][numbers][seen] =
         Cardinality(DuePolls(p) \X (0..n)) + Cardinality(DuePolls(r) \X batches \X pages)
         + Cardinality(DuePolls(t) \X (1..n))
  BY DEF RequestsOfADay, Enterable
<1> HIDE DEF p, r, t, batches, pages
<1>3. /\ \A d \in {p, r, t} : IsFiniteSet(DuePolls(d)) /\ Cardinality(DuePolls(d)) = 1440 \div d
      /\ \A d \in {p, r, t} : 1440 \div d \in Nat
  BY <1>1, DuePollsOfADay, DivMod
<1>4. /\ IsFiniteSet(0..n) /\ Cardinality(0..n) = 1 + n
      /\ IsFiniteSet(1..n) /\ Cardinality(1..n) = n
  BY <1>1, FS_Interval
<1>5. IsFiniteSet(batches) /\ Cardinality(batches) = CeilDiv(n, 50)
  BY <1>1, BatchesOf DEF batches
<1>6. IsFiniteSet(pages) /\ Cardinality(pages) = AtLeastOne(CeilDiv(seen, 100))
  BY <1>1, PagesOf DEF pages
<1>7. /\ Cardinality(DuePolls(p) \X (0..n)) = Cardinality(DuePolls(p)) * Cardinality(0..n)
      /\ Cardinality(DuePolls(t) \X (1..n)) = Cardinality(DuePolls(t)) * Cardinality(1..n)
  <2>1. \A S, T : IsFiniteSet(S) /\ IsFiniteSet(T) =>
                     Cardinality(S \X T) = Cardinality(S) * Cardinality(T)
    BY FS_Product
  <2>2. IsFiniteSet(DuePolls(p)) /\ IsFiniteSet(DuePolls(t))
    BY <1>3
  <2>3. IsFiniteSet(0..n) /\ IsFiniteSet(1..n)
    BY <1>4
  <2> QED BY <2>1, <2>2, <2>3, ZenonT(20)
<1>8. Cardinality(DuePolls(r) \X batches \X pages)
      = Cardinality(DuePolls(r)) * Cardinality(batches) * Cardinality(pages)
  BY <1>3, <1>5, <1>6, TripleProduct
<1>9. RequestsOfADay[n][numbers][seen] =
         (1440 \div p) * (1 + n)
         + (1440 \div r) * CeilDiv(n, 50) * AtLeastOne(CeilDiv(seen, 100))
         + (1440 \div t) * n
  BY <1>2, <1>3, <1>4, <1>5, <1>6, <1>7, <1>8
<1> QED BY <1>9 DEF estimate_requests_per_day, p, r, t

\* The estimate on every form that is ever shown is what the polls of a day make,
\* for every number of properties, of reservations seen and every three intervals
\* (options_flow.py:252).
THEOREM EstimateIsTheCost == Spec => []EstimateIsWhatPollsCost
<1>1. FlowsInv /\ FlowsTyped => EstimateIsWhatPollsCost
  <2> SUFFICES ASSUME FlowsInv, FlowsTyped, NEW f \in FlowIds, stage[f] = "options",
                      Periodic(form[f].numbers)
               PROVE  form[f].estimate = RequestsOfADay[Cardinality(form[f].fields)][form[f].numbers]
                                                       [form[f].seen]
    BY DEF EstimateIsWhatPollsCost
  <2>1. account[f] \in Accounts /\ IsDisplay(account[f], form[f])
    BY DEF FlowsInv, OfAnEntry, OptionsStages, Shape, FlowsTyped, FlowTyped
  <2>2. PICK offered, selection \in SUBSET PropertiesOfAccount[account[f]],
             numbers \in Enterable, seen \in ReservationCounts :
             form[f] = Form(offered, selection, numbers, seen)
    BY <2>1 DEF IsDisplay
  <2>3. /\ form[f].fields = selection /\ form[f].numbers = numbers /\ form[f].seen = seen
        /\ form[f].estimate = estimate_requests_per_day(
              Cardinality(selection),
              SafeInterval(numbers.property_interval, DefaultNumbers.property_interval),
              SafeInterval(numbers.reservation_interval, DefaultNumbers.reservation_interval),
              seen,
              SafeInterval(numbers.task_interval, DefaultNumbers.task_interval))
    BY <2>2 DEF Form
  <2>4. Cardinality(selection) \in 0..Cardinality(PropertiesOfAll)
    <3>1. selection \in SUBSET PropertiesOfAll
      BY <2>1 DEF PropertiesOfAll
    <3>2. IsFiniteSet(PropertiesOfAll)
      BY CountsAssumption
    <3> QED BY <3>1, <3>2, FS_Subset, FS_CardinalityType
  <2>5. Periodic(numbers)
    BY <2>3
  <2>6. form[f].estimate = estimate_requests_per_day(
              Cardinality(selection), numbers.property_interval,
              numbers.reservation_interval, seen, numbers.task_interval)
    BY <2>3, <2>5 DEF Periodic, SafeInterval
  <2> QED BY <2>3, <2>4, <2>5, <2>6, EstimateOfADay
<1> QED BY <1>1, FlowsInvariant, FlowsTypedInvariant, PTL

=============================================================================
