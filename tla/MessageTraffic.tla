--------------------------- MODULE MessageTraffic ---------------------------
(***************************************************************************)
(* Everything that talks to GET/POST /reservations/{uuid}/messages: the    *)
(* send_message and get_messages service calls, the awaiting-host-reply    *)
(* poll of each config entry, the tracker they share and the upstream      *)
(* bucket that answers them.                                               *)
(*                                                                         *)
(* A task is one coroutine.  It runs on Home Assistant's event loop until  *)
(* it awaits, so a step below is what happens between two awaits: a call   *)
(* checks the budgets, awaits the answer, and only then charges them.      *)
(* Upstream is external: the request is served at one instant and the      *)
(* answer is taken up at a later one, in any order among the tasks.        *)
(***************************************************************************)
EXTENDS RateLimitTracker

CONSTANTS
    Callers,         \* service calls that may be running at once
    Pollers,         \* the tokens whose entry polls for awaiting replies
    Properties,
    Owner,           \* Owner[res]: the property a reservation belongs to
    PollOrder,       \* the fetcher's property_ids
    Targets,         \* the selections of stays an update may be given
    MESSAGE_FETCH_FLOOR_SECONDS,
    Reloads,         \* may an entry be reloaded?
    ResetIsSent,     \* may a success carry x-ratelimit-reset?
    SharedBucket,    \* the readings of OQ-007 considered
    MaxTime,         \* bound on the clock
    NoTask, NoCycle, NoReservation, Never

Tasks == Callers \cup Pollers

ASSUME TrafficAssumption ==
    /\ IsFiniteSet(Callers) /\ Callers \cap Tokens = {}
    /\ Pollers \subseteq Tokens /\ IsFiniteSet(Pollers)
    /\ Owner \in [Reservations -> Properties]
    /\ PollOrder \in Seq(Properties)
    /\ MESSAGE_FETCH_FLOOR_SECONDS \in Nat
    /\ MaxTime \in Nat
    /\ {Reloads, ResetIsSent} \subseteq BOOLEAN
    /\ SharedBucket \subseteq BOOLEAN
    /\ NoReservation \notin Reservations /\ Never \notin Nat

VARIABLES
    task,      \* [Tasks -> the request a task is busy with, or NoTask]
    cycle,     \* [Pollers -> the running async_update, or NoCycle]
    fetcher,   \* [Pollers -> the MessagePresenceFetcher's three dicts]
    published, \* [Pollers -> per property, the stay coordinator.data selects]
    shared,    \* do reads and sends draw on one upstream bucket (OQ-007)?
    served,    \* per upstream bucket, the last instants at which it was spent
    uncharged, \* when a request spent it for good that the tracker never charges
    polled     \* when a fetch was last put on the wire

\* The last two are history: no action reads them.
vars == <<now, reservation, token, hints, task, cycle, fetcher, published,
          shared, served, uncharged, polled>>
pollVars == <<cycle, fetcher, published>>
bucketVars == <<shared, served, uncharged>>

Kinds == {"send", "read", "poll"}

Answers == [status : {"none", "ok", "throttled", "failed"},
            headers : Hint \cup {NoHint}, retry_after : Nat]
NoAnswer == [status |-> "none", headers |-> NoHint, retry_after |-> 0]

Request == [kind : Kinds, pc : {"channel", "request", "answer"},
            tok : Tokens, res : Reservations, answer : Answers]

Selection == [Properties -> Reservations \cup {NoReservation}]
OwnSelection == {s \in Selection : \A p \in Properties :
                    s[p] # NoReservation => Owner[s[p]] = p}

Fetcher == [last_attempt : [Reservations -> Nat \cup {Never}],
            blocked_until : [Reservations -> Nat],
            presence : Selection]

\* Variant: an absent blocked_until entry is not read as 0.
NewFetcherUnset == [last_attempt |-> [r \in Reservations |-> Never],
                    blocked_until |-> [r \in Reservations |-> Never],
                    presence |-> [p \in Properties |-> NoReservation]]

NewFetcher == [last_attempt |-> [r \in Reservations |-> Never],
               blocked_until |-> [r \in Reservations |-> 0],
               presence |-> [p \in Properties |-> NoReservation]]
Cycle == [started : Nat, todo : Seq(Properties), target : Selection]

ASSUME TargetsAssumption == Targets \subseteq OwnSelection

ASSUME NoRequestAssumption == NoTask \notin Request /\ NoCycle \notin Cycle

\* Upstream's buckets: those of each reservation, and one for the account.
Buckets == (Keys \X {"read", "write"}) \cup (Tokens \X {"account"})

Init ==
    /\ now = 0
    /\ TrackerInit
    /\ task = [t \in Tasks |-> NoTask]
    /\ cycle = [e \in Pollers |-> NoCycle]
    /\ fetcher = [e \in Pollers |-> NewFetcher]
    /\ published = [e \in Pollers |-> [p \in Properties |-> NoReservation]]
    /\ shared \in SharedBucket
    /\ served = [b \in Buckets |-> << >>]
    /\ uncharged = [b \in Buckets |-> Never]
    /\ polled = [k \in Keys |-> Never]

\* A coroutine that is not awaiting holds the event loop: nothing else on the
\* loop runs, and its steps take no time.
Running(e) == cycle[e] # NoCycle /\ task[e] = NoTask
LoopFree == \A e \in Pollers : ~Running(e)

NewRequest(kind, pc, tok, res) ==
    [kind |-> kind, pc |-> pc, tok |-> tok, res |-> res, answer |-> NoAnswer]

Awaits(t, kind, pc) == task[t] # NoTask /\ task[t].kind = kind /\ task[t].pc = pc

-----------------------------------------------------------------------------
(* send_message                                                            *)

\* Up to the first await: the budgets are checked, then the reservation is
\* looked up when sender_id is given and it is not cached ("channel"), or the
\* message is posted, or a cached booking that is not Airbnb's ends the call.
SendMessage(c, tok, res) ==
    /\ LoopFree /\ task[c] = NoTask
    /\ Check(tok, res)
    /\ IF CheckPasses(tok, res)
       THEN \/ \E pc \in {"channel", "request"} :
                  task' = [task EXCEPT ![c] = NewRequest("send", pc, tok, res)]
            \/ UNCHANGED task
       ELSE UNCHANGED task
    /\ UNCHANGED <<now, pollVars, bucketVars, polled>>

\* The lookup's answer: an Airbnb booking, or anything else, which rejects the
\* call.  The budgets are not checked again.
AssertAirbnb(c) ==
    /\ LoopFree /\ Awaits(c, "send", "channel")
    /\ \/ task' = [task EXCEPT ![c].pc = "request"]
       \/ task' = [task EXCEPT ![c] = NoTask]
    /\ UNCHANGED <<now, trackerVars, pollVars, bucketVars, polled>>

\* Only an accepted send is charged; the headers of any other answer are lost.
SendReturns(c) ==
    /\ LoopFree /\ Awaits(c, "send", "answer")
    /\ IF task[c].answer.status = "ok"
       THEN RecordAndApply(task[c].tok, task[c].res, task[c].answer.headers)
       ELSE UNCHANGED trackerVars
    /\ task' = [task EXCEPT ![c] = NoTask]
    /\ UNCHANGED <<now, pollVars, bucketVars, polled>>

-----------------------------------------------------------------------------
(* get_messages                                                            *)

GetMessages(c, tok, res) ==
    /\ LoopFree /\ task[c] = NoTask
    /\ Check(tok, res)
    /\ task' = IF CheckPasses(tok, res)
               THEN [task EXCEPT ![c] = NewRequest("read", "request", tok, res)]
               ELSE task
    /\ UNCHANGED <<now, pollVars, bucketVars, polled>>

\* The read is charged in a finally clause, whatever the answer.
ReadReturns(c) ==
    /\ LoopFree /\ Awaits(c, "read", "answer")
    /\ IF task[c].answer.status = "ok"
       THEN RecordAndApply(task[c].tok, task[c].res, task[c].answer.headers)
       ELSE Record(task[c].tok, task[c].res)
    /\ task' = [task EXCEPT ![c] = NoTask]
    /\ UNCHANGED <<now, pollVars, bucketVars, polled>>

-----------------------------------------------------------------------------
(* The awaiting-host-reply poll                                            *)

\* The reservations request has been answered with some stays; async_update
\* samples the clock once and works through the properties.
StartCycle(e, target) ==
    /\ LoopFree /\ cycle[e] = NoCycle
    /\ cycle' = [cycle EXCEPT ![e] =
                    [started |-> now, todo |-> PollOrder, target |-> target]]
    /\ UNCHANGED <<now, trackerVars, task, fetcher, published, bucketVars,
                   polled>>

\* Variant: the floor the rate limit alone would call for.
FloorFromLimit(e, res) ==
    /\ fetcher[e].last_attempt[res] # Never =>
          cycle[e].started - fetcher[e].last_attempt[res] >=
              RESERVATION_WINDOW_SECONDS \div RESERVATION_LIMIT
    /\ cycle[e].started >= fetcher[e].blocked_until[res]

\* The fetcher's own two gates, which are consulted before the tracker is.
FloorAllows(e, res) ==
    LET f == fetcher[e] IN
    /\ f.last_attempt[res] # Never =>
          cycle[e].started - f.last_attempt[res] >= MESSAGE_FETCH_FLOOR_SECONDS
    /\ cycle[e].started >= f.blocked_until[res]

NextTarget(e) == cycle[e].target[Head(cycle[e].todo)]

\* The property has no stay, or a gate defers its fetch.
SkipFetch(e) ==
    /\ Running(e) /\ cycle[e].todo # << >>
    /\ LET res == NextTarget(e) IN
       IF res # NoReservation /\ FloorAllows(e, res)
       THEN Check(e, res) /\ ~CheckPasses(e, res)
       ELSE UNCHANGED trackerVars
    /\ cycle' = [cycle EXCEPT ![e].todo = Tail(@)]
    /\ UNCHANGED <<now, task, fetcher, published, bucketVars, polled>>

\* The attempt is noted before the request goes out, at the cycle's start time.
IssueFetch(e) ==
    /\ Running(e) /\ cycle[e].todo # << >>
    /\ LET res == NextTarget(e) IN
       /\ res # NoReservation /\ FloorAllows(e, res)
       /\ CheckPasses(e, res) /\ Check(e, res)
       /\ fetcher' = [fetcher EXCEPT ![e].last_attempt[res] = cycle[e].started]
       /\ task' = [task EXCEPT ![e] = NewRequest("poll", "request", e, res)]
       /\ polled' = [polled EXCEPT ![<<e, res>>] = now]
    /\ cycle' = [cycle EXCEPT ![e].todo = Tail(@)]
    /\ UNCHANGED <<now, published, bucketVars>>

\* A 429 blocks the reservation, counting from the cycle's start; a thread
\* that was read is charged and becomes the property's presence record; any
\* other failure leaves everything as it was.
PollReturns(e) ==
    /\ LoopFree /\ Awaits(e, "poll", "answer")
    /\ LET res == task[e].res
           answer == task[e].answer
           wait == IF answer.retry_after = 0 THEN MESSAGE_FETCH_FLOOR_SECONDS
                   ELSE answer.retry_after
       IN  CASE answer.status = "ok" ->
                   /\ RecordAndApply(e, res, answer.headers)
                   /\ fetcher' = [fetcher EXCEPT ![e].presence[Owner[res]] = res]
             [] answer.status = "throttled" ->
                   /\ fetcher' = [fetcher EXCEPT ![e].blocked_until[res] =
                                      cycle[e].started + wait]
                   /\ UNCHANGED trackerVars
             [] OTHER -> UNCHANGED <<trackerVars, fetcher>>
    /\ task' = [task EXCEPT ![e] = NoTask]
    /\ UNCHANGED <<now, cycle, published, bucketVars, polled>>

\* The update returns and coordinator.data takes the stays it was given.
EndCycle(e) ==
    /\ Running(e) /\ cycle[e].todo = << >>
    /\ cycle' = [cycle EXCEPT ![e] = NoCycle]
    /\ published' = [published EXCEPT ![e] = cycle[e].target]
    /\ UNCHANGED <<now, trackerVars, task, fetcher, bucketVars, polled>>

\* An entry that is reloaded gets a new fetcher and no data; the tracker is
\* the process's and survives.
ReloadEntry(e) ==
    /\ Reloads /\ LoopFree /\ cycle[e] = NoCycle
    /\ fetcher' = [fetcher EXCEPT ![e] = NewFetcher]
    /\ published' = [published EXCEPT ![e] = NewFetcher.presence]
    /\ UNCHANGED <<now, trackerVars, task, cycle, bucketVars, polled>>

-----------------------------------------------------------------------------
(* Upstream (external): RESERVATION_LIMIT requests per rolling window and  *)
(* reservation, TOKEN_LIMIT per window and account.  Whether sends have a  *)
(* reservation bucket of their own is not known.                           *)

ReservationBucket(request) ==
    <<<<request.tok, request.res>>,
      IF request.kind = "send" /\ ~shared THEN "write" ELSE "read">>
BucketsOf(request) == {ReservationBucket(request), <<request.tok, "account">>}

LimitOf(b) == IF b[2] = "account" THEN TOKEN_LIMIT ELSE RESERVATION_LIMIT
WindowOf(b) == IF b[2] = "account" THEN TOKEN_WINDOW_SECONDS
               ELSE RESERVATION_WINDOW_SECONDS

\* The instants that still count; upstream need not remember older ones.
Counting(b) == {i \in 1..Len(served[b]) : now - served[b][i] < WindowOf(b)}
Left(b) == LimitOf(b) - Cardinality(Counting(b))
HasRoom(request) == \A b \in BucketsOf(request) : Left(b) > 0

\* When the oldest of them, or of them and a request served now, stops counting.
FreesAt(b, instants) ==
    {s + WindowOf(b) : s \in {x \in instants : \A y \in instants : x <= y}}
CountingInstants(b) == {served[b][i] : i \in Counting(b)}

Spend(buckets) ==
    served' = [b \in Buckets |->
                  IF b \notin buckets THEN served[b]
                  ELSE IF Len(served[b]) < LimitOf(b) THEN Append(served[b], now)
                  ELSE Append(Tail(served[b]), now)]

Answered(t, status, headers, retry_after) ==
    task' = [task EXCEPT ![t].pc = "answer",
                         ![t].answer = [status |-> status, headers |-> headers,
                                        retry_after |-> retry_after]]

\* A success may name what remains to the reservation and when that bucket frees
\* a slot.
Accept(t) ==
    LET b == ReservationBucket(task[t])
        resets == IF ResetIsSent
                  THEN FreesAt(b, CountingInstants(b) \cup {now}) ELSE {}
    IN  /\ HasRoom(task[t])
        /\ Spend(BucketsOf(task[t])) /\ UNCHANGED uncharged
        /\ \E headers \in {NoHint} \cup
                [remaining : {Left(b) - 1}, reset_at : {NoReset} \cup resets] :
              Answered(t, "ok", headers, 0)

\* Of a 429 the client keeps only the retry-after, when there is one.
Refuse(t) ==
    /\ ~HasRoom(task[t])
    /\ \E wait \in {0} \cup UNION {{r - now : r \in FreesAt(b, CountingInstants(b))} :
                                    b \in {x \in BucketsOf(task[t]) : Left(x) <= 0}} :
          Answered(t, "throttled", NoHint, wait)

\* It is the request that spends the bucket, not a 200: one that is answered with
\* an error, or whose answer is lost, may have spent it or may never have arrived.
\* Only a read is charged for it by the caller.
Fail(t) ==
    /\ Refuse(t) \/ Answered(t, "failed", NoHint, 0)
    /\ \/ UNCHANGED <<served, uncharged>>
       \/ /\ Spend(BucketsOf(task[t]))
          /\ uncharged' = [b \in Buckets |->
                              IF b \in BucketsOf(task[t]) /\ task[t].kind # "read"
                              THEN now ELSE uncharged[b]]

Serve(t) ==
    /\ task[t] # NoTask /\ task[t].pc = "request"
    /\ Accept(t) \/ Fail(t)
    /\ UNCHANGED <<now, trackerVars, pollVars, shared, polled>>

Tick ==
    /\ LoopFree /\ now < MaxTime
    /\ now' = now + 1
    /\ UNCHANGED <<trackerVars, task, pollVars, bucketVars, polled>>

CallerNext(c) ==
    \/ \E tok \in Tokens, res \in Reservations :
          SendMessage(c, tok, res) \/ GetMessages(c, tok, res)
    \/ AssertAirbnb(c) \/ SendReturns(c) \/ ReadReturns(c)

PollerNext(e) ==
    \/ \E target \in Targets : StartCycle(e, target)
    \/ SkipFetch(e) \/ IssueFetch(e) \/ PollReturns(e) \/ EndCycle(e)
    \/ ReloadEntry(e)

Next ==
    \/ \E c \in Callers : CallerNext(c)
    \/ \E e \in Pollers : PollerNext(e)
    \/ \E t \in Tasks : Serve(t)
    \/ Tick

Spec == Init /\ [][Next]_vars

\* The behaviours in which no call and no update overlaps another one.
OneAtATime ==
    Cardinality({c \in Callers : task[c] # NoTask}
                  \cup {e \in Pollers : cycle[e] # NoCycle}) <= 1
SerialSpec == Init /\ [][Next /\ OneAtATime']_vars

-----------------------------------------------------------------------------
(* Properties                                                              *)

TypeOK ==
    /\ TrackerTypeOK
    /\ task \in [Tasks -> Request \cup {NoTask}]
    /\ cycle \in [Pollers -> Cycle \cup {NoCycle}]
    /\ fetcher \in [Pollers -> Fetcher]
    /\ published \in [Pollers -> Selection]
    /\ shared \in BOOLEAN
    /\ served \in [Buckets -> Seq(Nat)]
    /\ uncharged \in [Buckets -> Nat \cup {Never}]
    /\ polled \in [Keys -> Nat \cup {Never}]

InFlight(tok) == {t \in Tasks : task[t] # NoTask /\ task[t].tok = tok}

\* The per-token budget of rate_limit.py is checked before an await and
\* charged after it.  However the calls overlap, the deque it is charged to
\* never holds more than TOKEN_LIMIT plus the other tasks' requests, those
\* still in flight included.
TokenOverrunBounded ==
    \A tok \in Tokens :
        Len(token[tok]) + Cardinality(InFlight(tok)) <=
            TOKEN_LIMIT + Cardinality(Tasks) - 1

\* The same as a refinement: the traffic of all tasks implements the budget,
\* so every rolling TOKEN_WINDOW_SECONDS respects the widened limit.
Budget == INSTANCE MessageBudget WITH
              Accounts <- Tokens, Window <- TOKEN_WINDOW_SECONDS,
              Limit <- TOKEN_LIMIT + Cardinality(Tasks) - 1,
              clock <- now, charged <- token
ImplementsBudget == Budget!Spec

\* As long as requests do not overlap, every request that check() has let pass
\* finds room upstream, in its reservation's bucket and in its account's, unless
\* the bucket was spent within its window by a send or a poll that failed: those
\* two callers do not charge what get_messages charges in its finally clause.  It
\* holds for any mix of calls, updates, headers, errors, lost answers and delays,
\* on both readings of OQ-007.
LetPassHasRoom ==
    \A t \in Tasks : task[t] # NoTask /\ task[t].pc # "answer" =>
        \A b \in BucketsOf(task[t]) :
            \/ Left(b) > 0
            \/ uncharged[b] # Never /\ now - uncharged[b] < WindowOf(b)

IssuesFetch(e, res) ==
    /\ task[e] = NoTask
    /\ task'[e] # NoTask
    /\ task'[e].res = res

\* Two message fetches of one reservation are at least the floor apart on the
\* wire, whatever the poll interval and however often a refresh is requested.
EffectiveFloor ==
    [][\A e \in Pollers, res \in Reservations :
          (IssuesFetch(e, res) /\ polled[<<e, res>>] # Never) =>
              now - polled[<<e, res>>] >= MESSAGE_FETCH_FLOOR_SECONDS]_vars

\* Between two updates, a property's awaiting-reply record and its other
\* entities describe one stay, never two different ones.
PresenceDescribesSelectedStay ==
    \A e \in Pollers, p \in Properties :
        cycle[e] = NoCycle =>
            \/ NoReservation \in {fetcher[e].presence[p], published[e][p]}
            \/ fetcher[e].presence[p] = published[e][p]

=============================================================================
