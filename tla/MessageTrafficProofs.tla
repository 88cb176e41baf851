------------------------ MODULE MessageTrafficProofs ------------------------
(***************************************************************************)
(* What holds of the message traffic for every number of callers, entries  *)
(* and reservations, all limits and windows, and an unbounded clock.       *)
(***************************************************************************)
EXTENDS MessageTraffic, FiniteSetTheorems, SequenceTheorems, TLAPS

-----------------------------------------------------------------------------
(* What trimming a deque does                                              *)

Popped(stamps, window) ==
    {i \in 1..Len(stamps) : \A j \in 1..i : now - stamps[j] >= window}

\* _trim drops a prefix, all of which has left the window.
LEMMA TrimDropsPrefix ==
    ASSUME NEW s \in Seq(Nat), NEW window \in Nat, now \in Nat
    PROVE  \E n \in 0..Len(s) :
              /\ \A i \in 1..n : now - s[i] >= window
              /\ Trim(s, window) = SubSeq(s, n + 1, Len(s))
<1>. DEFINE P == Popped(s, window)
            n == Cardinality(P)
<1>1. Len(s) \in Nat
  BY LenProperties
<1>2. /\ IsFiniteSet(1..Len(s))
      /\ Cardinality(1..Len(s)) = Len(s)
  <2>1. 1 \in Int /\ Len(s) \in Int
    BY <1>1
  <2>2. /\ IsFiniteSet(1..Len(s))
        /\ Cardinality(1..Len(s)) = IF 1 > Len(s) THEN 0 ELSE Len(s) - 1 + 1
    BY <2>1, FS_Interval
  <2>. QED
    BY <1>1, <2>2
<1>3. P \subseteq 1..Len(s)
  BY DEF Popped
<1>4. IsFiniteSet(P) /\ n \in Nat /\ n <= Len(s)
  BY <1>2, <1>3, FS_Subset, FS_CardinalityType
<1>5. ASSUME NEW i \in 1..n PROVE now - s[i] >= window
  <2>1. i \in 1..Len(s) /\ i \in Nat /\ i - 1 \in Nat
    BY <1>1, <1>4
  <2>2. SUFFICES i \in P
    BY <2>1 DEF Popped
  <2>3. SUFFICES ASSUME i \notin P PROVE FALSE
    OBVIOUS
  <2>4. P \subseteq 1..(i - 1)
    BY <2>1, <2>3, <1>1 DEF Popped
  <2>5. /\ IsFiniteSet(1..(i - 1))
        /\ Cardinality(1..(i - 1)) = IF 1 > i - 1 THEN 0 ELSE (i - 1) - 1 + 1
    <3>1. 1 \in Int /\ i - 1 \in Int
      BY <2>1
    <3>. QED
      BY <3>1, FS_Interval
  <2>6. n <= Cardinality(1..(i - 1))
    BY <2>4, <2>5, FS_Subset
  <2>. QED
    BY <2>1, <2>5, <2>6, <1>4
<1>6. Trim(s, window) = SubSeq(s, n + 1, Len(s))
  BY DEF Trim, Popped
<1>7. n \in 0..Len(s)
  BY <1>1, <1>4
<1>. QED
  BY <1>5, <1>6, <1>7

\* What is left is a sequence of instants, no longer than it was.
LEMMA TrimType ==
    ASSUME NEW s \in Seq(Nat), NEW window \in Nat, now \in Nat
    PROVE  /\ Trim(s, window) \in Seq(Nat)
           /\ Len(Trim(s, window)) \in Nat
           /\ Len(Trim(s, window)) <= Len(s)
<1>1. PICK n \in 0..Len(s) : Trim(s, window) = SubSeq(s, n + 1, Len(s))
  BY TrimDropsPrefix
<1>2. Len(s) \in Nat /\ n \in Nat /\ n <= Len(s)
  BY LenProperties
<1>3. \A i \in n + 1 .. Len(s) : s[i] \in Nat
  BY <1>2, ElementOfSeq
<1>4. /\ SubSeq(s, n + 1, Len(s)) \in Seq(Nat)
      /\ Len(SubSeq(s, n + 1, Len(s))) =
            IF n + 1 <= Len(s) THEN Len(s) - (n + 1) + 1 ELSE 0
  <2>1. n + 1 \in Int /\ Len(s) \in Int
    BY <1>2
  <2>. QED
    BY <1>3, <2>1, SubSeqProperties
<1>. QED
  BY <1>1, <1>2, <1>4

-----------------------------------------------------------------------------
(* What the tracker's operations do                                        *)

\* check() keeps the tracker's types; of the token deques it changes only the
\* one consulted, which it can only shorten, and when the call passes that one
\* holds less than the limit.
LEMMA CheckProperties ==
    ASSUME TrackerTypeOK, NEW tok \in Tokens, NEW res \in Reservations,
           Check(tok, res)
    PROVE  /\ reservation' \in [Keys -> Seq(Nat)]
           /\ token' \in [Tokens -> Seq(Nat)]
           /\ hints' \in [Keys -> Hint \cup {NoHint}]
           /\ \A u \in Tokens \ {tok} : token'[u] = token[u]
           /\ token'[tok] \in {token[tok], TokenStamps(tok)}
           /\ Len(token'[tok]) <= Len(token[tok])
           /\ CheckPasses(tok, res) => Len(token'[tok]) < TOKEN_LIMIT
<1>. DEFINE key == <<tok, res>>
<1>1. key \in Keys
  BY DEF Keys
<1>2. CurrentHint(key) \in Hint \cup {NoHint}
  BY <1>1 DEF CurrentHint, TrackerTypeOK
<1>3. hints' \in [Keys -> Hint \cup {NoHint}]
  BY <1>2 DEF Check, TrackerTypeOK
<1>4. LocalStamps(key) \in Seq(Nat)
  BY <1>1, TrimType, LimitsAssumption DEF LocalStamps, TrackerTypeOK
<1>5. reservation' \in [Keys -> Seq(Nat)]
  BY <1>4 DEF Check, TrackerTypeOK
<1>6. /\ token[tok] \in Seq(Nat)
      /\ TokenStamps(tok) \in Seq(Nat)
      /\ Len(TokenStamps(tok)) \in Nat
      /\ Len(TokenStamps(tok)) <= Len(token[tok])
  BY TrimType, LimitsAssumption DEF TokenStamps, TrackerTypeOK
<1>7. token' = IF ReservationRefuses(key) THEN token
               ELSE [token EXCEPT ![tok] = TokenStamps(tok)]
  BY DEF Check
<1>8. /\ token' \in [Tokens -> Seq(Nat)]
      /\ \A u \in Tokens \ {tok} : token'[u] = token[u]
      /\ token'[tok] \in {token[tok], TokenStamps(tok)}
  BY <1>6, <1>7 DEF TrackerTypeOK
<1>9. Len(token'[tok]) <= Len(token[tok])
  <2>1. Len(token[tok]) \in Nat
    BY <1>6, LenProperties
  <2>. QED
    BY <1>6, <1>8, <2>1
<1>10. ASSUME CheckPasses(tok, res) PROVE Len(token'[tok]) < TOKEN_LIMIT
  <2>1. ~ReservationRefuses(key) /\ ~TokenRefuses(tok)
    BY <1>10 DEF CheckPasses
  <2>2. token'[tok] = TokenStamps(tok)
    BY <1>7, <2>1 DEF TrackerTypeOK
  <2>. QED
    BY <1>6, <2>1, <2>2, LimitsAssumption DEF TokenRefuses
<1>. QED
  BY <1>3, <1>5, <1>8, <1>9, <1>10

\* A charge keeps the tracker's types and appends the clock to one token deque.
LEMMA ChargeProperties ==
    ASSUME TrackerTypeOK, NEW tok \in Tokens, NEW res \in Reservations,
           NEW headers \in Hint \cup {NoHint},
           Record(tok, res) \/ RecordAndApply(tok, res, headers)
    PROVE  /\ reservation' \in [Keys -> Seq(Nat)]
           /\ token' \in [Tokens -> Seq(Nat)]
           /\ hints' \in [Keys -> Hint \cup {NoHint}]
           /\ token' = [token EXCEPT ![tok] = Append(@, now)]
           /\ \A u \in Tokens \ {tok} : token'[u] = token[u]
           /\ Len(token'[tok]) = Len(token[tok]) + 1
<1>. DEFINE key == <<tok, res>>
<1>1. key \in Keys
  BY DEF Keys
<1>2. HintAfterRecord(key) \in Hint \cup {NoHint}
  <2>1. CASE hints[key] = NoHint
    BY <2>1 DEF HintAfterRecord
  <2>2. CASE hints[key] # NoHint
    <3>1. hints[key] \in Hint
      BY <1>1, <2>2 DEF TrackerTypeOK
    <3>2. [hints[key] EXCEPT !.remaining = @ - 1] \in Hint
      BY <3>1 DEF Hint
    <3>. QED
      BY <2>2, <3>2 DEF HintAfterRecord
  <2>. QED
    BY <2>1, <2>2
<1>3. hints' \in [Keys -> Hint \cup {NoHint}]
  BY <1>2 DEF Record, RecordAndApply, TrackerTypeOK
<1>4. reservation' = [reservation EXCEPT ![key] = Append(@, now)]
  BY DEF Record, RecordAndApply
<1>5. reservation' \in [Keys -> Seq(Nat)]
  BY <1>1, <1>4, AppendProperties DEF TrackerTypeOK
<1>6. token' = [token EXCEPT ![tok] = Append(@, now)]
  BY DEF Record, RecordAndApply
<1>7. /\ token[tok] \in Seq(Nat)
      /\ Append(token[tok], now) \in Seq(Nat)
      /\ Len(Append(token[tok], now)) = Len(token[tok]) + 1
  BY AppendProperties DEF TrackerTypeOK
<1>. QED
  BY <1>3, <1>5, <1>6, <1>7 DEF TrackerTypeOK

-----------------------------------------------------------------------------
(* Type correctness                                                        *)

\* A request of an entry's poll is awaited inside a cycle, and is made with
\* the entry's own token.
PollsAreCycles ==
    \A e \in Pollers : task[e] # NoTask => cycle[e] # NoCycle /\ task[e].tok = e

TypeInv == TypeOK /\ PollsAreCycles

LEMMA RequestType ==
    ASSUME NEW kind \in Kinds, NEW pc \in {"channel", "request", "answer"},
           NEW tok \in Tokens, NEW res \in Reservations
    PROVE  /\ NewRequest(kind, pc, tok, res) \in Request
           /\ NewRequest(kind, pc, tok, res) # NoTask
           /\ NewRequest(kind, pc, tok, res).tok = tok
BY NoRequestAssumption DEF NewRequest, Request, NoAnswer, Answers

LEMMA FetcherType == NewFetcher \in Fetcher
BY TrafficAssumption DEF NewFetcher, Fetcher, Selection

\* Callers are not tokens, so a caller's step leaves every poll as it was.
LEMMA CallerType ==
    ASSUME TypeInv, NEW c \in Callers, CallerNext(c)
    PROVE  TypeInv'
<1>1. /\ c \in Tasks /\ c \notin Pollers
      /\ TrackerTypeOK
      /\ task \in [Tasks -> Request \cup {NoTask}]
  BY TrafficAssumption DEF TypeInv, TypeOK, Tasks
<1>2. SUFFICES /\ TrackerTypeOK'
               /\ \E r \in Request \cup {NoTask} : task' = [task EXCEPT ![c] = r]
               /\ UNCHANGED <<pollVars, bucketVars, polled>>
  <2>. SUFFICES ASSUME TrackerTypeOK',
                       NEW r \in Request \cup {NoTask}, task' = [task EXCEPT ![c] = r],
                       UNCHANGED <<pollVars, bucketVars, polled>>
                PROVE  TypeInv'
    OBVIOUS
  <2>1. TypeOK'
    BY <1>1 DEF TypeInv, TypeOK, pollVars, bucketVars
  <2>2. \A e \in Pollers : task'[e] = task[e]
    BY <1>1 DEF Tasks
  <2>. QED
    BY <2>1, <2>2 DEF TypeInv, PollsAreCycles, pollVars
<1>3. ASSUME task' = task
      PROVE  \E r \in Request \cup {NoTask} : task' = [task EXCEPT ![c] = r]
  <2>1. task' = [task EXCEPT ![c] = task[c]] /\ task[c] \in Request \cup {NoTask}
    BY <1>1, <1>3
  <2>. QED
    BY <2>1
<1>4. ASSUME NEW tok \in Tokens, NEW res \in Reservations, SendMessage(c, tok, res)
      PROVE  /\ TrackerTypeOK'
             /\ \E r \in Request \cup {NoTask} : task' = [task EXCEPT ![c] = r]
             /\ UNCHANGED <<pollVars, bucketVars, polled>>
  <2>1. TrackerTypeOK'
    BY <1>1, <1>4, CheckProperties DEF SendMessage, TrackerTypeOK
  <2>2. CASE task' = task
    BY <1>3, <1>4, <2>1, <2>2 DEF SendMessage
  <2>3. CASE \E pc \in {"channel", "request"} :
                task' = [task EXCEPT ![c] = NewRequest("send", pc, tok, res)]
    <3>1. PICK pc \in {"channel", "request"} :
                task' = [task EXCEPT ![c] = NewRequest("send", pc, tok, res)]
      BY <2>3
    <3>2. NewRequest("send", pc, tok, res) \in Request
      BY RequestType DEF Kinds
    <3>. QED
      BY <1>4, <2>1, <3>1, <3>2 DEF SendMessage
  <2>. QED
    BY <1>4, <2>2, <2>3 DEF SendMessage
<1>5. ASSUME NEW tok \in Tokens, NEW res \in Reservations, GetMessages(c, tok, res)
      PROVE  /\ TrackerTypeOK'
             /\ \E r \in Request \cup {NoTask} : task' = [task EXCEPT ![c] = r]
             /\ UNCHANGED <<pollVars, bucketVars, polled>>
  <2>1. TrackerTypeOK'
    BY <1>1, <1>5, CheckProperties DEF GetMessages, TrackerTypeOK
  <2>2. NewRequest("read", "request", tok, res) \in Request
    BY RequestType DEF Kinds
  <2>3. CASE task' = task
    BY <1>3, <1>5, <2>1, <2>3 DEF GetMessages
  <2>4. CASE task' = [task EXCEPT ![c] = NewRequest("read", "request", tok, res)]
    BY <1>5, <2>1, <2>2, <2>4 DEF GetMessages
  <2>. QED
    BY <1>5, <2>3, <2>4 DEF GetMessages
<1>6. ASSUME AssertAirbnb(c)
      PROVE  /\ TrackerTypeOK'
             /\ \E r \in Request \cup {NoTask} : task' = [task EXCEPT ![c] = r]
             /\ UNCHANGED <<pollVars, bucketVars, polled>>
  <2>1. TrackerTypeOK'
    BY <1>1, <1>6 DEF AssertAirbnb, trackerVars, TrackerTypeOK
  <2>2. task[c] \in Request
    BY <1>1, <1>6 DEF AssertAirbnb, Awaits
  <2>3. [task[c] EXCEPT !.pc = "request"] \in Request
    BY <2>2 DEF Request
  <2>4. CASE task' = [task EXCEPT ![c].pc = "request"]
    <3>1. task' = [task EXCEPT ![c] = [task[c] EXCEPT !.pc = "request"]]
      BY <2>4, <1>1
    <3>. QED
      BY <1>6, <2>1, <2>3, <3>1 DEF AssertAirbnb
  <2>5. CASE task' = [task EXCEPT ![c] = NoTask]
    BY <1>6, <2>1, <2>5 DEF AssertAirbnb
  <2>. QED
    BY <1>6, <2>4, <2>5 DEF AssertAirbnb
<1>7. ASSUME SendReturns(c) \/ ReadReturns(c)
      PROVE  /\ TrackerTypeOK'
             /\ \E r \in Request \cup {NoTask} : task' = [task EXCEPT ![c] = r]
             /\ UNCHANGED <<pollVars, bucketVars, polled>>
  <2>1. task[c] \in Request
    BY <1>1, <1>7 DEF SendReturns, ReadReturns, Awaits
  <2>2. /\ task[c].tok \in Tokens /\ task[c].res \in Reservations
        /\ task[c].answer.headers \in Hint \cup {NoHint}
    BY <2>1 DEF Request, Answers
  <2>3. \/ RecordAndApply(task[c].tok, task[c].res, task[c].answer.headers)
        \/ Record(task[c].tok, task[c].res)
        \/ UNCHANGED trackerVars
    BY <1>7 DEF SendReturns, ReadReturns
  <2>4. TrackerTypeOK'
    <3>1. now' = now
      BY <1>7 DEF SendReturns, ReadReturns
    <3>2. CASE UNCHANGED trackerVars
      BY <1>1, <3>1, <3>2 DEF trackerVars, TrackerTypeOK
    <3>3. CASE ~ UNCHANGED trackerVars
      BY <1>1, <2>2, <2>3, <3>1, <3>3, ChargeProperties DEF TrackerTypeOK
    <3>. QED
      BY <3>2, <3>3
  <2>. QED
    BY <1>7, <2>4 DEF SendReturns, ReadReturns
<1>. QED
  BY <1>4, <1>5, <1>6, <1>7 DEF CallerNext

\* An entry's step keeps the types, and its poll inside its cycle.
LEMMA PollerType ==
    ASSUME TypeInv, NEW e \in Pollers, PollerNext(e)
    PROVE  TypeInv'
<1>1. /\ e \in Tasks /\ e \in Tokens
      /\ TrackerTypeOK /\ now \in Nat
      /\ task \in [Tasks -> Request \cup {NoTask}]
      /\ cycle \in [Pollers -> Cycle \cup {NoCycle}]
      /\ fetcher \in [Pollers -> Fetcher]
      /\ published \in [Pollers -> Selection]
      /\ polled \in [Keys -> Nat \cup {Never}]
      /\ task[e] # NoTask => cycle[e] # NoCycle /\ task[e].tok = e
  BY TrafficAssumption DEF TypeInv, TypeOK, TrackerTypeOK, Tasks, PollsAreCycles
<1>2. Pollers \subseteq Tasks
  BY DEF Tasks
\* What every step below has to establish.
<1>3. ASSUME /\ TrackerTypeOK'
             /\ \E r \in Request \cup {NoTask} :
                    /\ task' = [task EXCEPT ![e] = r]
                    /\ r # NoTask => r.tok = e
             /\ \E k \in Cycle \cup {NoCycle} :
                    /\ cycle' = [cycle EXCEPT ![e] = k]
                    /\ task'[e] # NoTask => k # NoCycle
             /\ fetcher' \in [Pollers -> Fetcher]
             /\ published' \in [Pollers -> Selection]
             /\ polled' \in [Keys -> Nat \cup {Never}]
             /\ UNCHANGED <<bucketVars>>
      PROVE  TypeInv'
  <2>1. PICK r \in Request \cup {NoTask} :
                /\ task' = [task EXCEPT ![e] = r]
                /\ r # NoTask => r.tok = e
    BY <1>3
  <2>2. PICK k \in Cycle \cup {NoCycle} :
                /\ cycle' = [cycle EXCEPT ![e] = k]
                /\ task'[e] # NoTask => k # NoCycle
    BY <1>3
  <2>3. /\ task' \in [Tasks -> Request \cup {NoTask}]
        /\ cycle' \in [Pollers -> Cycle \cup {NoCycle}]
    BY <1>1, <2>1, <2>2
  <2>4. TypeOK'
    BY <1>3, <2>3 DEF TypeInv, TypeOK, bucketVars
  <2>5. ASSUME NEW f \in Pollers, task'[f] # NoTask
        PROVE  cycle'[f] # NoCycle /\ task'[f].tok = f
    <3>1. CASE f = e
      BY <1>1, <2>1, <2>2, <2>5, <3>1
    <3>2. CASE f # e
      BY <1>1, <1>2, <2>1, <2>2, <2>5, <3>2 DEF TypeInv, PollsAreCycles
    <3>. QED
      BY <3>1, <3>2
  <2>. QED
    BY <2>4, <2>5 DEF TypeInv, PollsAreCycles
<1>4. ASSUME task' = task
      PROVE  \E r \in Request \cup {NoTask} :
                /\ task' = [task EXCEPT ![e] = r]
                /\ r # NoTask => r.tok = e
  <2>1. /\ task' = [task EXCEPT ![e] = task[e]]
        /\ task[e] \in Request \cup {NoTask}
        /\ task[e] # NoTask => task[e].tok = e
    BY <1>1, <1>4
  <2>. QED
    BY <2>1
<1>5. ASSUME cycle' = cycle, task' = task \/ task'[e] = NoTask
      PROVE  \E k \in Cycle \cup {NoCycle} :
                /\ cycle' = [cycle EXCEPT ![e] = k]
                /\ task'[e] # NoTask => k # NoCycle
  <2>1. /\ cycle' = [cycle EXCEPT ![e] = cycle[e]]
        /\ cycle[e] \in Cycle \cup {NoCycle}
        /\ task'[e] # NoTask => cycle[e] # NoCycle
    BY <1>1, <1>5
  <2>. QED
    BY <2>1
<1>6. ASSUME NEW target \in Targets, StartCycle(e, target) PROVE TypeInv'
  <2>1. [started |-> now, todo |-> PollOrder, target |-> target] \in Cycle
    BY <1>1, <1>6, TrafficAssumption, TargetsAssumption DEF Cycle, OwnSelection
  <2>2. \E k \in Cycle \cup {NoCycle} :
            /\ cycle' = [cycle EXCEPT ![e] = k]
            /\ task'[e] # NoTask => k # NoCycle
    BY <1>6, <2>1, NoRequestAssumption DEF StartCycle
  <2>3. TrackerTypeOK'
    BY <1>1, <1>6 DEF StartCycle, trackerVars, TrackerTypeOK
  <2>. QED
    BY <1>1, <1>3, <1>4, <1>6, <2>2, <2>3 DEF StartCycle
<1>7. ASSUME Running(e), cycle[e].todo # << >>
      PROVE  /\ cycle[e] \in Cycle /\ task[e] = NoTask
             /\ Head(cycle[e].todo) \in Properties
             /\ NextTarget(e) \in Reservations \cup {NoReservation}
             /\ [cycle[e] EXCEPT !.todo = Tail(@)] \in Cycle
  <2>1. /\ cycle[e] \in Cycle /\ task[e] = NoTask
        /\ cycle[e].todo \in Seq(Properties)
        /\ cycle[e].target \in Selection
    BY <1>1, <1>7 DEF Running, Cycle
  <2>2. Head(cycle[e].todo) \in Properties /\ Tail(cycle[e].todo) \in Seq(Properties)
    BY <1>7, <2>1, HeadTailProperties
  <2>. QED
    BY <2>1, <2>2 DEF NextTarget, Cycle, Selection
<1>8. ASSUME Running(e), cycle[e].todo # << >>,
             cycle' = [cycle EXCEPT ![e].todo = Tail(@)]
      PROVE  \E k \in Cycle \cup {NoCycle} :
                /\ cycle' = [cycle EXCEPT ![e] = k]
                /\ task'[e] # NoTask => k # NoCycle
  <2>1. cycle' = [cycle EXCEPT ![e] = [cycle[e] EXCEPT !.todo = Tail(@)]]
    BY <1>1, <1>8
  <2>2. /\ [cycle[e] EXCEPT !.todo = Tail(@)] \in Cycle
        /\ [cycle[e] EXCEPT !.todo = Tail(@)] # NoCycle
    BY <1>7, <1>8, NoRequestAssumption
  <2>. QED
    BY <2>1, <2>2
<1>9. ASSUME SkipFetch(e) PROVE TypeInv'
  <2>1. Running(e) /\ cycle[e].todo # << >> /\ now' = now
    BY <1>9 DEF SkipFetch
  <2>2. TrackerTypeOK'
    <3>1. CASE UNCHANGED trackerVars
      BY <1>1, <2>1, <3>1 DEF trackerVars, TrackerTypeOK
    <3>2. CASE NextTarget(e) # NoReservation /\ Check(e, NextTarget(e))
      <4>1. NextTarget(e) \in Reservations
        BY <1>7, <2>1, <3>2
      <4>. QED
        BY <1>1, <2>1, <3>2, <4>1, CheckProperties DEF TrackerTypeOK
    <3>. QED
      BY <1>9, <3>1, <3>2 DEF SkipFetch
  <2>. QED
    BY <1>1, <1>3, <1>4, <1>8, <1>9, <2>1, <2>2 DEF SkipFetch
<1>10. ASSUME IssueFetch(e) PROVE TypeInv'
  <2>. DEFINE res == NextTarget(e)
  <2>1. Running(e) /\ cycle[e].todo # << >> /\ now' = now
    BY <1>10 DEF IssueFetch
  <2>2. res \in Reservations /\ Check(e, res) /\ cycle[e].started \in Nat
    BY <1>7, <1>10, <2>1 DEF IssueFetch, Cycle
  <2>3. TrackerTypeOK'
    BY <1>1, <2>1, <2>2, CheckProperties DEF TrackerTypeOK
  <2>4. \E r \in Request \cup {NoTask} :
            /\ task' = [task EXCEPT ![e] = r]
            /\ r # NoTask => r.tok = e
    <3>1. task' = [task EXCEPT ![e] = NewRequest("poll", "request", e, res)]
      BY <1>10 DEF IssueFetch
    <3>2. /\ NewRequest("poll", "request", e, res) \in Request
          /\ NewRequest("poll", "request", e, res).tok = e
      BY <1>1, <2>2, RequestType DEF Kinds
    <3>. QED
      BY <3>1, <3>2
  <2>5. fetcher' \in [Pollers -> Fetcher]
    <3>1. fetcher' = [fetcher EXCEPT ![e].last_attempt[res] = cycle[e].started]
      BY <1>10 DEF IssueFetch
    <3>2. fetcher[e] \in Fetcher
      BY <1>1
    <3>3. [fetcher[e] EXCEPT !.last_attempt[res] = cycle[e].started] \in Fetcher
      BY <2>2, <3>2 DEF Fetcher
    <3>4. fetcher' = [fetcher EXCEPT ![e] =
                        [fetcher[e] EXCEPT !.last_attempt[res] = cycle[e].started]]
      BY <1>1, <3>1
    <3>. QED
      BY <1>1, <3>3, <3>4
  <2>6. polled' \in [Keys -> Nat \cup {Never}]
    BY <1>1, <1>10, <2>2 DEF IssueFetch, Keys
  <2>7. cycle' = [cycle EXCEPT ![e].todo = Tail(@)] /\ UNCHANGED <<published, bucketVars>>
    BY <1>10 DEF IssueFetch
  <2>. QED
    BY <1>1, <1>3, <1>8, <2>1, <2>3, <2>4, <2>5, <2>6, <2>7
<1>11. ASSUME PollReturns(e) PROVE TypeInv'
  <2>. DEFINE res == task[e].res
  <2>1. /\ task[e] \in Request /\ res \in Reservations
        /\ cycle[e] \in Cycle /\ cycle[e].started \in Nat
        /\ task[e].answer.headers \in Hint \cup {NoHint}
        /\ task[e].answer.retry_after \in Nat
    BY <1>1, <1>11 DEF PollReturns, Awaits, Request, Answers, Cycle
  <2>2. now' = now /\ task' = [task EXCEPT ![e] = NoTask]
        /\ UNCHANGED <<cycle, published, bucketVars, polled>>
    BY <1>11 DEF PollReturns
  <2>3. CASE task[e].answer.status = "ok"
    <3>1. /\ RecordAndApply(e, res, task[e].answer.headers)
          /\ fetcher' = [fetcher EXCEPT ![e].presence[Owner[res]] = res]
      BY <1>11, <2>3 DEF PollReturns
    <3>2. TrackerTypeOK'
      BY <1>1, <2>1, <2>2, <3>1, ChargeProperties DEF TrackerTypeOK
    <3>3. [fetcher[e] EXCEPT !.presence[Owner[res]] = res] \in Fetcher
      <4>1. Owner[res] \in Properties
        BY <2>1, TrafficAssumption
      <4>2. fetcher[e] \in Fetcher
        BY <1>1
      <4>3. [fetcher[e].presence EXCEPT ![Owner[res]] = res] \in Selection
        BY <2>1, <4>1, <4>2 DEF Fetcher, Selection
      <4>. QED
        BY <4>2, <4>3 DEF Fetcher
    <3>4. fetcher' = [fetcher EXCEPT ![e] =
                        [fetcher[e] EXCEPT !.presence[Owner[res]] = res]]
      BY <1>1, <3>1
    <3>5. fetcher' \in [Pollers -> Fetcher]
      BY <1>1, <3>3, <3>4
    <3>. QED
      BY <1>1, <1>3, <1>5, <2>2, <3>2, <3>5
  <2>4. CASE task[e].answer.status = "throttled"
    <3>. DEFINE wait == IF task[e].answer.retry_after = 0
                        THEN MESSAGE_FETCH_FLOOR_SECONDS
                        ELSE task[e].answer.retry_after
    <3>1. /\ UNCHANGED trackerVars
          /\ fetcher' = [fetcher EXCEPT ![e].blocked_until[res] = cycle[e].started + wait]
      BY <1>11, <2>4 DEF PollReturns
    <3>2. TrackerTypeOK'
      BY <1>1, <2>2, <3>1 DEF TrackerTypeOK, trackerVars
    <3>3. cycle[e].started + wait \in Nat
      BY <2>1, TrafficAssumption
    <3>4. [fetcher[e] EXCEPT !.blocked_until[res] = cycle[e].started + wait] \in Fetcher
      BY <1>1, <2>1, <3>3 DEF Fetcher
    <3>5. fetcher' = [fetcher EXCEPT ![e] =
                        [fetcher[e] EXCEPT !.blocked_until[res] = cycle[e].started + wait]]
      BY <1>1, <3>1
    <3>6. fetcher' \in [Pollers -> Fetcher]
      BY <1>1, <3>4, <3>5
    <3>. QED
      BY <1>1, <1>3, <1>5, <2>2, <3>2, <3>6
  <2>5. CASE task[e].answer.status \notin {"ok", "throttled"}
    <3>1. UNCHANGED <<trackerVars, fetcher>>
      BY <1>11, <2>5 DEF PollReturns
    <3>2. TrackerTypeOK'
      BY <1>1, <2>2, <3>1 DEF TrackerTypeOK, trackerVars
    <3>. QED
      BY <1>1, <1>3, <1>5, <2>2, <3>1, <3>2
  <2>. QED
    BY <2>3, <2>4, <2>5
<1>12. ASSUME EndCycle(e) PROVE TypeInv'
  <2>1. TrackerTypeOK'
    BY <1>1, <1>12 DEF EndCycle, trackerVars, TrackerTypeOK
  <2>2. cycle[e].target \in Selection /\ task[e] = NoTask
    BY <1>1, <1>12 DEF EndCycle, Running, Cycle
  <2>3. \E k \in Cycle \cup {NoCycle} :
            /\ cycle' = [cycle EXCEPT ![e] = k]
            /\ task'[e] # NoTask => k # NoCycle
    BY <1>12, <2>2 DEF EndCycle
  <2>4. published' \in [Pollers -> Selection]
    BY <1>1, <1>12, <2>2 DEF EndCycle
  <2>. QED
    BY <1>1, <1>3, <1>4, <1>12, <2>1, <2>3, <2>4 DEF EndCycle
<1>13. ASSUME ReloadEntry(e) PROVE TypeInv'
  <2>1. TrackerTypeOK'
    BY <1>1, <1>13 DEF ReloadEntry, trackerVars, TrackerTypeOK
  <2>2. NewFetcher \in Fetcher /\ NewFetcher.presence \in Selection
    BY FetcherType DEF Fetcher
  <2>3. fetcher' \in [Pollers -> Fetcher] /\ published' \in [Pollers -> Selection]
    BY <1>1, <1>13, <2>2 DEF ReloadEntry
  <2>. QED
    BY <1>1, <1>3, <1>4, <1>5, <1>13, <2>1, <2>3 DEF ReloadEntry
<1>. QED
  BY <1>6, <1>9, <1>10, <1>11, <1>12, <1>13 DEF PollerNext

\* A bucket's window and limit, and what spending it leaves.
LEMMA BucketType ==
    ASSUME NEW b \in Buckets
    PROVE  LimitOf(b) \in Nat \ {0} /\ WindowOf(b) \in Nat \ {0}
BY LimitsAssumption DEF LimitOf, WindowOf

LEMMA SpendType ==
    ASSUME served \in [Buckets -> Seq(Nat)], now \in Nat, NEW buckets, Spend(buckets)
    PROVE  served' \in [Buckets -> Seq(Nat)]
<1>1. SUFFICES ASSUME NEW b \in Buckets
               PROVE  (IF b \notin buckets THEN served[b]
                       ELSE IF Len(served[b]) < LimitOf(b) THEN Append(served[b], now)
                       ELSE Append(Tail(served[b]), now)) \in Seq(Nat)
  BY DEF Spend
<1>2. served[b] \in Seq(Nat) /\ Len(served[b]) \in Nat /\ LimitOf(b) \in Nat \ {0}
  BY BucketType, LenProperties
<1>3. Append(served[b], now) \in Seq(Nat)
  BY <1>2, AppendProperties
<1>4. ASSUME ~(Len(served[b]) < LimitOf(b)) PROVE Append(Tail(served[b]), now) \in Seq(Nat)
  <2>1. served[b] # << >>
    BY <1>2, <1>4, EmptySeq
  <2>2. Tail(served[b]) \in Seq(Nat)
    BY <1>2, <2>1, HeadTailProperties
  <2>. QED
    BY <2>2, AppendProperties
<1>. QED
  BY <1>2, <1>3, <1>4

\* What is left of a bucket is a whole number, and the wait that a full one asks
\* for is an instant from now.
LEMMA BucketNumbers ==
    ASSUME served \in [Buckets -> Seq(Nat)], now \in Nat, NEW b \in Buckets
    PROVE  /\ Left(b) \in Int
           /\ CountingInstants(b) \in SUBSET Nat
           /\ \A S \in SUBSET Nat : FreesAt(b, S) \in SUBSET Nat
           /\ \A r \in FreesAt(b, CountingInstants(b)) : r - now \in Nat
<1>1. served[b] \in Seq(Nat) /\ Len(served[b]) \in Nat
      /\ LimitOf(b) \in Nat \ {0} /\ WindowOf(b) \in Nat \ {0}
  BY BucketType, LenProperties
<1>2. Left(b) \in Int
  <2>1. 1 \in Int /\ Len(served[b]) \in Int
    BY <1>1
  <2>2. IsFiniteSet(1..Len(served[b]))
    BY <2>1, FS_Interval
  <2>3. Counting(b) \in SUBSET (1..Len(served[b]))
    BY DEF Counting
  <2>4. IsFiniteSet(Counting(b))
    BY <2>2, <2>3, FS_Subset
  <2>5. Cardinality(Counting(b)) \in Nat
    BY <2>4, FS_CardinalityType
  <2>. QED
    BY <1>1, <2>5 DEF Left
<1>3. CountingInstants(b) \in SUBSET Nat
  BY <1>1, ElementOfSeq DEF CountingInstants, Counting
<1>4. \A i \in CountingInstants(b) : now - i < WindowOf(b)
  BY DEF CountingInstants, Counting
<1>5. \A S \in SUBSET Nat : FreesAt(b, S) \in SUBSET Nat
  BY <1>1 DEF FreesAt
<1>6. ASSUME NEW r \in FreesAt(b, CountingInstants(b)) PROVE r - now \in Nat
  <2>1. PICK i \in CountingInstants(b) : r = i + WindowOf(b)
    BY DEF FreesAt
  <2>2. i \in Nat /\ now - i < WindowOf(b)
    BY <1>3, <1>4
  <2>. QED
    BY <1>1, <2>1, <2>2
<1>. QED
  BY <1>2, <1>3, <1>5, <1>6

\* Upstream's step puts one task's request, with its answer, in its place.
LEMMA ServeType ==
    ASSUME TypeInv, NEW t \in Tasks, Serve(t)
    PROVE  /\ TypeInv'
           /\ \E answer \in Answers :
                 task' = [task EXCEPT ![t].pc = "answer", ![t].answer = answer]
<1>. DEFINE b0 == ReservationBucket(task[t])
<1>1. /\ task[t] \in Request /\ task \in [Tasks -> Request \cup {NoTask}]
      /\ now \in Nat /\ served \in [Buckets -> Seq(Nat)]
      /\ uncharged \in [Buckets -> Nat \cup {Never}]
      /\ task[t].pc = "request" /\ (Accept(t) \/ Fail(t))
      /\ UNCHANGED <<now, trackerVars, pollVars, shared, polled>>
  BY DEF TypeInv, TypeOK, TrackerTypeOK, Serve
<1>2. b0 \in Buckets /\ BucketsOf(task[t]) \subseteq Buckets
  BY <1>1 DEF BucketsOf, ReservationBucket, Buckets, Keys, Request
<1>6. served' \in [Buckets -> Seq(Nat)] /\ uncharged' \in [Buckets -> Nat \cup {Never}]
  <2>1. UNCHANGED served \/ Spend(BucketsOf(task[t]))
    BY <1>1 DEF Accept, Fail
  <2>2. served' \in [Buckets -> Seq(Nat)]
    BY <1>1, <2>1, SpendType
  <2>3. uncharged' \in [Buckets -> Nat \cup {Never}]
    BY <1>1 DEF Accept, Fail
  <2>. QED
    BY <2>2, <2>3
<1>8. \E answer \in Answers :
          task' = [task EXCEPT ![t].pc = "answer", ![t].answer = answer]
  <2>1. ASSUME NEW status \in {"none", "ok", "throttled", "failed"},
               NEW headers \in Hint \cup {NoHint}, NEW wait \in Nat,
               Answered(t, status, headers, wait)
        PROVE  \E answer \in Answers :
                  task' = [task EXCEPT ![t].pc = "answer", ![t].answer = answer]
    <3>1. [status |-> status, headers |-> headers, retry_after |-> wait] \in Answers
      BY DEF Answers
    <3>. QED
      BY <2>1, <3>1 DEF Answered
  <2>2. CASE Answered(t, "failed", NoHint, 0)
    BY <2>1, <2>2
  <2>3. CASE Refuse(t)
    <3>1. PICK wait \in {0} \cup UNION {{r - now : r \in FreesAt(b, CountingInstants(b))} :
                                    b \in {x \in BucketsOf(task[t]) : Left(x) <= 0}} :
                Answered(t, "throttled", NoHint, wait)
      BY <2>3 DEF Refuse
    <3>2. ASSUME NEW b \in BucketsOf(task[t]), NEW r \in FreesAt(b, CountingInstants(b))
          PROVE  r - now \in Nat
      BY <1>1, <1>2, BucketNumbers
    <3>3. wait \in Nat
      BY <3>1, <3>2
    <3>. QED
      BY <2>1, <3>1, <3>3
  <2>4. CASE Accept(t)
    <3>0. PICK resets \in SUBSET Nat :
              \E headers \in {NoHint} \cup
                    [remaining : {Left(b0) - 1}, reset_at : {NoReset} \cup resets] :
                  Answered(t, "ok", headers, 0)
      <4>1. /\ FreesAt(b0, CountingInstants(b0) \cup {now}) \in SUBSET Nat
            /\ {} \in SUBSET Nat
        BY <1>1, <1>2, BucketNumbers
      <4>. HIDE DEF b0
      <4>2. \E headers \in {NoHint} \cup
              [remaining : {Left(b0) - 1},
               reset_at : {NoReset} \cup IF ResetIsSent
                  THEN FreesAt(b0, CountingInstants(b0) \cup {now}) ELSE {}] :
                  Answered(t, "ok", headers, 0)
        BY <2>4 DEF Accept, b0
      <4>. QED
        BY <4>1, <4>2
    <3>2. PICK headers \in {NoHint} \cup
                      [remaining : {Left(b0) - 1}, reset_at : {NoReset} \cup resets] :
                    Answered(t, "ok", headers, 0)
      BY <3>0
    <3>3. headers \in Hint \cup {NoHint}
      <4>0. Left(b0) - 1 \in Int
        BY <1>1, <1>2, BucketNumbers
      <4>. HIDE DEF b0
      <4>1. {NoReset} \cup resets \subseteq Nat \cup {NoReset}
        BY <3>0
      <4>2. CASE headers \in
                    [remaining : {Left(b0) - 1}, reset_at : {NoReset} \cup resets]
        <5>1. /\ headers = [remaining |-> headers.remaining, reset_at |-> headers.reset_at]
              /\ headers.remaining = Left(b0) - 1
              /\ headers.reset_at \in {NoReset} \cup resets
          BY <4>2
        <5>2. headers.remaining \in Int /\ headers.reset_at \in Nat \cup {NoReset}
          BY <4>0, <4>1, <5>1
        <5>. QED
          BY <5>1, <5>2 DEF Hint
      <4>. QED
        BY <3>2, <4>2
    <3>. QED
      BY <2>1, <3>2, <3>3
  <2>. QED
    BY <1>1, <2>2, <2>3, <2>4 DEF Fail
<1>9. PICK answer \in Answers :
          task' = [task EXCEPT ![t].pc = "answer", ![t].answer = answer]
  BY <1>8
<1>10. /\ task' = [task EXCEPT ![t] =
                      [task[t] EXCEPT !.pc = "answer", !.answer = answer]]
       /\ [task[t] EXCEPT !.pc = "answer", !.answer = answer] \in Request
       /\ [task[t] EXCEPT !.pc = "answer", !.answer = answer].tok = task[t].tok
  BY <1>1, <1>9 DEF Request
<1>11. task' \in [Tasks -> Request \cup {NoTask}]
  BY <1>1, <1>10
<1>12. TypeOK'
  BY <1>1, <1>6, <1>11 DEF TypeInv, TypeOK, TrackerTypeOK, trackerVars, pollVars
<1>13. PollsAreCycles'
  <2>. SUFFICES ASSUME NEW e \in Pollers, task'[e] # NoTask
                PROVE  cycle'[e] # NoCycle /\ task'[e].tok = e
    BY DEF PollsAreCycles
  <2>1. e \in Tasks /\ cycle' = cycle
    BY <1>1 DEF Tasks, pollVars
  <2>2. task[e] # NoTask /\ task'[e].tok = task[e].tok
    BY <1>1, <1>10, <2>1, NoRequestAssumption
  <2>. QED
    BY <2>1, <2>2 DEF TypeInv, PollsAreCycles
<1>. QED
  BY <1>8, <1>12, <1>13 DEF TypeInv

LEMMA InitType == Init => TypeInv
<1>. SUFFICES ASSUME Init PROVE TypeInv
  OBVIOUS
<1>1. TrackerTypeOK
  BY EmptySeq DEF Init, TrackerInit, TrackerTypeOK
<1>2. published \in [Pollers -> Selection] /\ fetcher \in [Pollers -> Fetcher]
  BY FetcherType DEF Init, Selection
<1>3. served \in [Buckets -> Seq(Nat)] /\ uncharged \in [Buckets -> Nat \cup {Never}]
  BY EmptySeq DEF Init
<1>4. TypeOK
  BY <1>1, <1>2, <1>3, TrafficAssumption DEF Init, TypeOK
<1>. QED
  BY <1>4 DEF TypeInv, PollsAreCycles, Init, Tasks

LEMMA StepType == TypeInv /\ [Next]_vars => TypeInv'
<1>. SUFFICES ASSUME TypeInv, [Next]_vars PROVE TypeInv'
  OBVIOUS
<1>1. CASE \E c \in Callers : CallerNext(c)
  BY <1>1, CallerType
<1>2. CASE \E e \in Pollers : PollerNext(e)
  BY <1>2, PollerType
<1>3. CASE \E t \in Tasks : Serve(t)
  BY <1>3, ServeType
<1>4. CASE Tick
  BY <1>4 DEF Tick, TypeInv, TypeOK, TrackerTypeOK, PollsAreCycles, trackerVars, pollVars, bucketVars
<1>5. CASE UNCHANGED vars
  BY <1>5 DEF vars, bucketVars, TypeInv, TypeOK, TrackerTypeOK, PollsAreCycles
<1>. QED
  BY <1>1, <1>2, <1>3, <1>4, <1>5 DEF Next

\* The state of the tracker, the fetchers, the tasks and upstream keeps its
\* types; in particular what PollReturns adds to an instant is an instant, and
\* a poll's answer finds the cycle that awaits it.
THEOREM TypeCorrect == Spec => []TypeOK
<1>1. TypeInv => TypeOK
  BY DEF TypeInv
<1>. QED
  BY <1>1, InitType, StepType, PTL DEF Spec

-----------------------------------------------------------------------------
(* The token budget                                                        *)

LEMMA InFlightFinite ==
    ASSUME NEW tok \in Tokens
    PROVE  /\ IsFiniteSet(Tasks) /\ Cardinality(Tasks) \in Nat
           /\ IsFiniteSet(InFlight(tok)) /\ Cardinality(InFlight(tok)) \in Nat
           /\ Cardinality(InFlight(tok)) <= Cardinality(Tasks)
           /\ IsFiniteSet(InFlight(tok)') /\ Cardinality(InFlight(tok)') \in Nat
           /\ Cardinality(InFlight(tok)') <= Cardinality(Tasks)
<1>1. IsFiniteSet(Callers) /\ IsFiniteSet(Pollers)
  BY TrafficAssumption
<1>2. IsFiniteSet(Tasks)
  BY <1>1, FS_Union DEF Tasks
<1>3. InFlight(tok) \in SUBSET Tasks /\ InFlight(tok)' \in SUBSET Tasks
  BY DEF InFlight
<1>4. /\ IsFiniteSet(InFlight(tok))
      /\ Cardinality(InFlight(tok)) <= Cardinality(Tasks)
  BY <1>2, <1>3, FS_Subset
<1>5. /\ IsFiniteSet(InFlight(tok)')
      /\ Cardinality(InFlight(tok)') <= Cardinality(Tasks)
  BY <1>2, <1>3, FS_Subset
<1>6. Cardinality(Tasks) \in Nat
  BY <1>2, FS_CardinalityType
<1>7. Cardinality(InFlight(tok)) \in Nat
  BY <1>4, FS_CardinalityType
<1>8. Cardinality(InFlight(tok)') \in Nat
  BY <1>5, FS_CardinalityType
<1>. QED
  BY <1>2, <1>4, <1>5, <1>6, <1>7, <1>8

\* The three ways a step can treat a token's budget.
Relaxed(tok) ==
    Len(token'[tok]) <= Len(token[tok]) /\ InFlight(tok)' \subseteq InFlight(tok)
Issued(tok) == Len(token'[tok]) < TOKEN_LIMIT
Charged(tok) ==
    /\ token'[tok] = Append(token[tok], now)
    /\ \E t \in InFlight(tok) : InFlight(tok)' \subseteq InFlight(tok) \ {t}

\* A request is charged to the budget it was counted against in flight, and
\* put in flight only below the limit: the bound survives all three.
LEMMA BudgetStep ==
    ASSUME TypeOK, TypeOK', TokenOverrunBounded,
           \A tok \in Tokens : Relaxed(tok) \/ Issued(tok) \/ Charged(tok)
    PROVE  TokenOverrunBounded'
<1>. SUFFICES ASSUME NEW tok \in Tokens
              PROVE  Len(token'[tok]) + Cardinality(InFlight(tok)') <=
                        TOKEN_LIMIT + Cardinality(Tasks) - 1
  BY DEF TokenOverrunBounded
<1>1. /\ token[tok] \in Seq(Nat) /\ token'[tok] \in Seq(Nat)
      /\ Len(token[tok]) \in Nat /\ Len(token'[tok]) \in Nat
      /\ now \in Nat /\ TOKEN_LIMIT \in Nat
  BY LenProperties, LimitsAssumption DEF TypeOK, TrackerTypeOK
<1>2. /\ Cardinality(Tasks) \in Nat
      /\ Cardinality(InFlight(tok)) \in Nat
      /\ Cardinality(InFlight(tok)') \in Nat
      /\ Cardinality(InFlight(tok)') <= Cardinality(Tasks)
      /\ IsFiniteSet(InFlight(tok))
  BY InFlightFinite
<1>3. Len(token[tok]) + Cardinality(InFlight(tok)) <=
          TOKEN_LIMIT + Cardinality(Tasks) - 1
  BY DEF TokenOverrunBounded
<1>4. CASE Relaxed(tok)
  <2>1. Cardinality(InFlight(tok)') <= Cardinality(InFlight(tok))
    BY <1>2, <1>4, FS_Subset DEF Relaxed
  <2>. QED
    BY <1>1, <1>2, <1>3, <1>4, <2>1 DEF Relaxed
<1>5. CASE Issued(tok)
  BY <1>1, <1>2, <1>5 DEF Issued
<1>6. CASE Charged(tok)
  <2>1. PICK t \in InFlight(tok) : InFlight(tok)' \subseteq InFlight(tok) \ {t}
    BY <1>6 DEF Charged
  <2>2. /\ IsFiniteSet(InFlight(tok) \ {t})
        /\ Cardinality(InFlight(tok) \ {t}) = Cardinality(InFlight(tok)) - 1
    BY <1>2, FS_RemoveElement
  <2>3. Cardinality(InFlight(tok)') <= Cardinality(InFlight(tok) \ {t})
    BY <2>1, <2>2, FS_Subset
  <2>4. Len(token'[tok]) = Len(token[tok]) + 1
    BY <1>1, <1>6, AppendProperties DEF Charged
  <2>. QED
    BY <1>1, <1>2, <1>3, <2>2, <2>3, <2>4
<1>. QED
  BY <1>4, <1>5, <1>6

\* What one task's change does to the sets of tasks in flight.
LEMMA InFlightUpdate ==
    ASSUME TypeOK, NEW t \in Tasks, NEW r, task' = [task EXCEPT ![t] = r]
    PROVE  /\ r = NoTask \/ (task[t] # NoTask /\ r.tok = task[t].tok) =>
                 \A u \in Tokens : InFlight(u)' \subseteq InFlight(u)
           /\ r = NoTask => \A u \in Tokens : InFlight(u)' \subseteq InFlight(u) \ {t}
           /\ \A u \in Tokens : u # r.tok => InFlight(u)' \subseteq InFlight(u)
<1>1. task'[t] = r /\ \A x \in Tasks \ {t} : task'[x] = task[x]
  BY DEF TypeOK
<1>. QED
  BY <1>1 DEF InFlight

\* What a step does to the token budgets: nothing; or it lets a call check one,
\* and adds the call to those in flight only when it passes; or it charges the
\* budget that a call in flight, which it ends, was checked against.
Idle ==
    /\ UNCHANGED <<now, token>>
    /\ \A u \in Tokens : InFlight(u)' \subseteq InFlight(u)
ChecksBudget(tok, res) ==
    /\ Check(tok, res) /\ now' = now
    /\ \A u \in Tokens : u # tok => InFlight(u)' \subseteq InFlight(u)
    /\ CheckPasses(tok, res) \/ InFlight(tok)' \subseteq InFlight(tok)
ChargesBudget(tok) ==
    /\ token' = [token EXCEPT ![tok] = Append(@, now)]
    /\ now' = now
    /\ \A u \in Tokens : InFlight(u)' \subseteq InFlight(u)
    /\ \E t \in InFlight(tok) : InFlight(tok)' \subseteq InFlight(tok) \ {t}

BudgetStepKinds ==
    \/ Idle \/ Tick
    \/ \E tok \in Tokens, res \in Reservations : ChecksBudget(tok, res)
    \/ \E tok \in Tokens : ChargesBudget(tok)

LEMMA CallerBudget ==
    ASSUME TypeInv, NEW c \in Callers, CallerNext(c)
    PROVE  BudgetStepKinds
<1>1. /\ TypeOK /\ c \in Tasks /\ TrackerTypeOK
      /\ task \in [Tasks -> Request \cup {NoTask}]
  BY DEF TypeInv, TypeOK, Tasks
<1>2. ASSUME NEW tok \in Tokens, NEW res \in Reservations,
             SendMessage(c, tok, res) \/ GetMessages(c, tok, res)
      PROVE  BudgetStepKinds
  <2>1. Check(tok, res) /\ now' = now
    BY <1>2 DEF SendMessage, GetMessages
  <2>2. CASE task' = task
    BY <2>1, <2>2 DEF BudgetStepKinds, ChecksBudget, InFlight
  <2>3. CASE \E kind \in Kinds, pc \in {"channel", "request"} :
                /\ CheckPasses(tok, res)
                /\ task' = [task EXCEPT ![c] = NewRequest(kind, pc, tok, res)]
    <3>1. PICK kind \in Kinds, pc \in {"channel", "request"} :
                /\ CheckPasses(tok, res)
                /\ task' = [task EXCEPT ![c] = NewRequest(kind, pc, tok, res)]
      BY <2>3
    <3>2. NewRequest(kind, pc, tok, res).tok = tok
      BY RequestType
    <3>3. \A u \in Tokens : u # tok => InFlight(u)' \subseteq InFlight(u)
      BY <1>1, <3>1, <3>2, InFlightUpdate
    <3>. QED
      BY <2>1, <3>1, <3>3 DEF BudgetStepKinds, ChecksBudget
  <2>. QED
    BY <1>2, <2>2, <2>3 DEF SendMessage, GetMessages, Kinds
<1>3. ASSUME AssertAirbnb(c) PROVE BudgetStepKinds
  <2>1. /\ UNCHANGED <<now, token>> /\ task[c] # NoTask
        /\ \/ task' = [task EXCEPT ![c] = [task[c] EXCEPT !.pc = "request"]]
           \/ task' = [task EXCEPT ![c] = NoTask]
    BY <1>1, <1>3 DEF AssertAirbnb, Awaits, trackerVars
  <2>2. [task[c] EXCEPT !.pc = "request"].tok = task[c].tok
    BY <1>1, <2>1 DEF Request
  <2>3. \A u \in Tokens : InFlight(u)' \subseteq InFlight(u)
    <3>1. CASE task' = [task EXCEPT ![c] = NoTask]
      BY <1>1, <3>1, InFlightUpdate
    <3>2. CASE task' = [task EXCEPT ![c] = [task[c] EXCEPT !.pc = "request"]]
      BY <1>1, <2>1, <2>2, <3>2, InFlightUpdate
    <3>. QED
      BY <2>1, <3>1, <3>2
  <2>. QED
    BY <2>1, <2>3 DEF BudgetStepKinds, Idle
<1>4. ASSUME SendReturns(c) \/ ReadReturns(c) PROVE BudgetStepKinds
  <2>1. /\ task[c] \in Request /\ task[c] # NoTask
        /\ task' = [task EXCEPT ![c] = NoTask] /\ now' = now
    BY <1>1, <1>4, NoRequestAssumption DEF SendReturns, ReadReturns, Awaits
  <2>2. task[c].tok \in Tokens /\ c \in InFlight(task[c].tok)
    BY <1>1, <2>1 DEF Request, InFlight
  <2>3. \A u \in Tokens : InFlight(u)' \subseteq InFlight(u) \ {c}
    BY <1>1, <2>1, InFlightUpdate
  <2>4. CASE UNCHANGED trackerVars
    BY <2>1, <2>3, <2>4 DEF BudgetStepKinds, Idle, trackerVars
  <2>5. CASE token' = [token EXCEPT ![task[c].tok] = Append(@, now)]
    <3>1. PICK tok \in Tokens : tok = task[c].tok
      BY <2>2
    <3>2. c \in InFlight(tok) /\ InFlight(tok)' \subseteq InFlight(tok) \ {c}
      BY <2>2, <2>3, <3>1
    <3>3. ChargesBudget(tok)
      BY <2>1, <2>3, <2>5, <3>1, <3>2 DEF ChargesBudget
    <3>. QED
      BY <3>3 DEF BudgetStepKinds
  <2>. QED
    BY <1>4, <2>4, <2>5 DEF SendReturns, ReadReturns, Record, RecordAndApply
<1>. QED
  BY <1>2, <1>3, <1>4 DEF CallerNext

LEMMA PollerBudget ==
    ASSUME TypeInv, NEW e \in Pollers, PollerNext(e)
    PROVE  BudgetStepKinds
<1>1. /\ TypeOK /\ e \in Tasks /\ e \in Tokens
      /\ task \in [Tasks -> Request \cup {NoTask}]
      /\ cycle \in [Pollers -> Cycle \cup {NoCycle}]
      /\ task[e] # NoTask => task[e].tok = e
  BY TrafficAssumption DEF TypeInv, TypeOK, Tasks, PollsAreCycles
<1>2. ASSUME Running(e), cycle[e].todo # << >>
      PROVE  NextTarget(e) \in Reservations \cup {NoReservation}
  <2>1. cycle[e].todo \in Seq(Properties) /\ cycle[e].target \in Selection
    BY <1>1, <1>2 DEF Running, Cycle
  <2>2. Head(cycle[e].todo) \in Properties
    BY <1>2, <2>1, HeadTailProperties
  <2>. QED
    BY <2>1, <2>2 DEF NextTarget, Selection
<1>3. ASSUME UNCHANGED <<now, token, task>> PROVE BudgetStepKinds
  BY <1>3 DEF BudgetStepKinds, Idle, InFlight
<1>4. ASSUME SkipFetch(e) PROVE BudgetStepKinds
  <2>1. CASE UNCHANGED trackerVars
    BY <1>3, <1>4, <2>1 DEF SkipFetch, trackerVars
  <2>2. CASE /\ NextTarget(e) # NoReservation
             /\ Check(e, NextTarget(e))
    <3>1. NextTarget(e) \in Reservations
      BY <1>2, <1>4, <2>2 DEF SkipFetch
    <3>2. ChecksBudget(e, NextTarget(e))
      BY <1>4, <2>2 DEF SkipFetch, ChecksBudget, InFlight
    <3>. QED
      BY <1>1, <3>1, <3>2 DEF BudgetStepKinds
  <2>. QED
    BY <1>4, <2>1, <2>2 DEF SkipFetch
<1>5. ASSUME IssueFetch(e) PROVE BudgetStepKinds
  <2>. DEFINE res == NextTarget(e)
  <2>1. res \in Reservations
    BY <1>2, <1>5 DEF IssueFetch
  <2>2. /\ Check(e, res) /\ CheckPasses(e, res) /\ now' = now
        /\ task' = [task EXCEPT ![e] = NewRequest("poll", "request", e, res)]
    BY <1>5 DEF IssueFetch
  <2>3. NewRequest("poll", "request", e, res).tok = e
    BY <1>1, <2>1, RequestType DEF Kinds
  <2>4. \A u \in Tokens : u # e => InFlight(u)' \subseteq InFlight(u)
    BY <1>1, <2>2, <2>3, InFlightUpdate
  <2>. QED
    BY <1>1, <2>1, <2>2, <2>4 DEF BudgetStepKinds, ChecksBudget
<1>6. ASSUME PollReturns(e) PROVE BudgetStepKinds
  <2>1. /\ task[e] # NoTask /\ now' = now
        /\ task' = [task EXCEPT ![e] = NoTask]
    BY <1>6 DEF PollReturns, Awaits
  <2>2. e \in InFlight(e)
    BY <1>1, <2>1 DEF InFlight
  <2>3. \A u \in Tokens : InFlight(u)' \subseteq InFlight(u) \ {e}
    BY <1>1, <2>1, InFlightUpdate
  <2>4. CASE UNCHANGED trackerVars
    BY <2>1, <2>3, <2>4 DEF BudgetStepKinds, Idle, trackerVars
  <2>5. CASE token' = [token EXCEPT ![e] = Append(@, now)]
    BY <1>1, <2>1, <2>2, <2>3, <2>5 DEF BudgetStepKinds, ChargesBudget
  <2>. QED
    BY <1>6, <2>4, <2>5 DEF PollReturns, RecordAndApply
<1>. QED
  BY <1>3, <1>4, <1>5, <1>6
  DEF PollerNext, StartCycle, EndCycle, ReloadEntry, trackerVars

LEMMA StepBudget ==
    ASSUME TypeInv, Next
    PROVE  BudgetStepKinds
<1>1. ASSUME NEW t \in Tasks, Serve(t) PROVE BudgetStepKinds
  <2>1. PICK answer \in Answers :
            task' = [task EXCEPT ![t].pc = "answer", ![t].answer = answer]
    BY <1>1, ServeType
  <2>2. /\ task[t] \in Request /\ task[t] # NoTask /\ UNCHANGED <<now, token>>
        /\ TypeOK /\ task \in [Tasks -> Request \cup {NoTask}]
    BY <1>1 DEF TypeInv, TypeOK, Serve, trackerVars
  <2>3. /\ task' = [task EXCEPT ![t] =
                       [task[t] EXCEPT !.pc = "answer", !.answer = answer]]
        /\ [task[t] EXCEPT !.pc = "answer", !.answer = answer].tok = task[t].tok
    BY <2>1, <2>2 DEF Request
  <2>4. \A u \in Tokens : InFlight(u)' \subseteq InFlight(u)
    BY <2>2, <2>3, InFlightUpdate
  <2>. QED
    BY <2>2, <2>4 DEF BudgetStepKinds, Idle
<1>. QED
  BY <1>1, CallerBudget, PollerBudget DEF Next, BudgetStepKinds

BudgetInv == TypeInv /\ TokenOverrunBounded

LEMMA InitBudget == Init => BudgetInv
<1>. SUFFICES ASSUME Init PROVE BudgetInv
  OBVIOUS
<1>1. TypeInv
  BY InitType
<1>2. ASSUME NEW tok \in Tokens
      PROVE  Len(token[tok]) + Cardinality(InFlight(tok)) <=
                 TOKEN_LIMIT + Cardinality(Tasks) - 1
  <2>1. Len(token[tok]) = 0
    BY EmptySeq DEF Init, TrackerInit
  <2>2. InFlight(tok) = {}
    BY DEF Init, InFlight
  <2>3. Cardinality(InFlight(tok)) = 0
    BY <2>2, FS_EmptySet
  <2>4. Cardinality(Tasks) \in Nat
    BY InFlightFinite
  <2>. QED
    BY <2>1, <2>3, <2>4, LimitsAssumption
<1>. QED
  BY <1>1, <1>2 DEF BudgetInv, TokenOverrunBounded

LEMMA StepBudgetInv == BudgetInv /\ [Next]_vars => BudgetInv'
<1>. SUFFICES ASSUME BudgetInv, [Next]_vars PROVE BudgetInv'
  OBVIOUS
<1>1. TypeInv' /\ TypeOK /\ TypeOK' /\ TokenOverrunBounded /\ TrackerTypeOK
  BY StepType DEF BudgetInv, TypeInv, TypeOK
<1>2. \A u \in Tokens : Len(token[u]) \in Nat
  BY <1>1, LenProperties DEF TrackerTypeOK
<1>3. ASSUME Idle \/ Tick \/ UNCHANGED vars PROVE TokenOverrunBounded'
  <2>1. token' = token /\ \A u \in Tokens : InFlight(u)' \subseteq InFlight(u)
    BY <1>3 DEF Idle, Tick, vars, trackerVars, InFlight
  <2>2. \A u \in Tokens : Relaxed(u)
    BY <1>2, <2>1 DEF Relaxed
  <2>. QED
    BY <1>1, <2>2, BudgetStep
<1>4. ASSUME NEW tok \in Tokens, NEW res \in Reservations, ChecksBudget(tok, res)
      PROVE  TokenOverrunBounded'
  <2>1. Check(tok, res)
    BY <1>4 DEF ChecksBudget
  <2>2. /\ \A u \in Tokens \ {tok} : token'[u] = token[u]
        /\ Len(token'[tok]) <= Len(token[tok])
        /\ CheckPasses(tok, res) => Len(token'[tok]) < TOKEN_LIMIT
    BY <1>1, <2>1, CheckProperties
  <2>3. \A u \in Tokens : Relaxed(u) \/ Issued(u)
    BY <1>2, <1>4, <2>2 DEF ChecksBudget, Relaxed, Issued
  <2>. QED
    BY <1>1, <2>3, BudgetStep
<1>5. ASSUME NEW tok \in Tokens, ChargesBudget(tok) PROVE TokenOverrunBounded'
  <2>1. /\ token'[tok] = Append(token[tok], now)
        /\ \A u \in Tokens \ {tok} : token'[u] = token[u]
    BY <1>1, <1>5 DEF ChargesBudget, TrackerTypeOK
  <2>2. \A u \in Tokens : Relaxed(u) \/ Charged(u)
    BY <1>2, <1>5, <2>1 DEF ChargesBudget, Relaxed, Charged
  <2>. QED
    BY <1>1, <2>2, BudgetStep
<1>. QED
  BY <1>1, <1>3, <1>4, <1>5, StepBudget DEF BudgetInv, BudgetStepKinds

\* However the calls and the polls overlap, and whatever is answered or lost,
\* a token's deque and the requests in flight against it stay within
\* TOKEN_LIMIT plus the number of other tasks: what checking before the await
\* and charging after it can cost.
THEOREM TokenOverrun == Spec => []TokenOverrunBounded
<1>1. BudgetInv => TokenOverrunBounded
  BY DEF BudgetInv
<1>. QED
  BY <1>1, InitBudget, StepBudgetInv, PTL DEF Spec

-----------------------------------------------------------------------------
(* The traffic implements the abstract budget                              *)

\* A call that checks a budget forgets instants that have left the window, or
\* leaves the deques alone.
LEMMA CheckForgets ==
    ASSUME TrackerTypeOK, NEW tok \in Tokens, NEW res \in Reservations,
           Check(tok, res), now' = now
    PROVE  Budget!Forget(tok) \/ UNCHANGED Budget!vars
<1>1. CASE token' = token
  BY <1>1 DEF Budget!vars
<1>2. CASE token' = [token EXCEPT ![tok] = TokenStamps(tok)]
  <2>1. token[tok] \in Seq(Nat) /\ TOKEN_WINDOW_SECONDS \in Nat /\ now \in Nat
    BY LimitsAssumption DEF TrackerTypeOK
  <2>2. \E n \in 0..Len(token[tok]) :
            /\ \A i \in 1..n : now - token[tok][i] >= TOKEN_WINDOW_SECONDS
            /\ TokenStamps(tok) = SubSeq(token[tok], n + 1, Len(token[tok]))
    BY <2>1, TrimDropsPrefix DEF TokenStamps
  <2>3. PICK n \in 0..Len(token[tok]) :
            /\ \A i \in 1..n : now - token[tok][i] >= TOKEN_WINDOW_SECONDS
            /\ TokenStamps(tok) = SubSeq(token[tok], n + 1, Len(token[tok]))
    BY <2>2
  <2>4. token' = [token EXCEPT ![tok] = SubSeq(@, n + 1, Len(@))]
    BY <1>2, <2>3
  <2>. QED
    BY <2>3, <2>4 DEF Budget!Forget
<1>. QED
  BY <1>1, <1>2 DEF Check

\* A charge finds room below the widened limit.
LEMMA ChargeHasRoom ==
    ASSUME BudgetInv, NEW tok \in Tokens, ChargesBudget(tok)
    PROVE  Budget!Charge(tok)
<1>. DEFINE counting == Budget!Counting(token[tok], now)
<1>1. /\ token[tok] \in Seq(Nat) /\ Len(token[tok]) \in Nat
  BY LenProperties DEF BudgetInv, TypeInv, TypeOK, TrackerTypeOK
<1>2. counting \in SUBSET (1..Len(token[tok]))
  BY DEF Budget!Counting
<1>3. IsFiniteSet(1..Len(token[tok])) /\ Cardinality(1..Len(token[tok])) = Len(token[tok])
  <2>1. 1 \in Int /\ Len(token[tok]) \in Int
    BY <1>1
  <2>2. /\ IsFiniteSet(1..Len(token[tok]))
        /\ Cardinality(1..Len(token[tok])) =
              IF 1 > Len(token[tok]) THEN 0 ELSE Len(token[tok]) - 1 + 1
    BY <2>1, FS_Interval
  <2>. QED
    BY <1>1, <2>2
<1>4. IsFiniteSet(counting) /\ Cardinality(counting) <= Len(token[tok])
  BY <1>2, <1>3, FS_Subset
<1>5. Cardinality(counting) \in Nat
  BY <1>4, FS_CardinalityType
<1>6. /\ IsFiniteSet(InFlight(tok)) /\ Cardinality(InFlight(tok)) \in Nat
      /\ Cardinality(Tasks) \in Nat
  BY InFlightFinite
<1>7. Cardinality(InFlight(tok)) > 0
  <2>1. InFlight(tok) # {}
    BY DEF ChargesBudget
  <2>2. Cardinality(InFlight(tok)) # 0
    BY <1>6, <2>1, FS_EmptySet
  <2>. QED
    BY <1>6, <2>2
<1>8. Cardinality(counting) < TOKEN_LIMIT + Cardinality(Tasks) - 1
  <2>1. Len(token[tok]) + Cardinality(InFlight(tok)) <=
            TOKEN_LIMIT + Cardinality(Tasks) - 1
    BY DEF BudgetInv, TokenOverrunBounded
  <2>. QED
    BY <1>1, <1>4, <1>5, <1>6, <1>7, <2>1, LimitsAssumption
<1>9. token' = [token EXCEPT ![tok] = Append(@, now)] /\ UNCHANGED now
  BY DEF ChargesBudget
<1>. HIDE DEF counting
<1>10. Cardinality(Budget!Counting(token[tok], now)) <
          TOKEN_LIMIT + Cardinality(Tasks) - 1
  BY <1>8 DEF counting
<1>11. \A S : Budget!Cardinality(S) = Cardinality(S)
  BY DEF Budget!Cardinality, Cardinality
<1>. QED
  BY <1>9, <1>10, <1>11 DEF Budget!Charge

\* The message traffic implements the budget with the widened limit, hence
\* keeps its promise: see PromiseKept of MessageBudgetProofs.
THEOREM TrafficImplementsBudget == Spec => ImplementsBudget
<1>1. Init => Budget!Init
  BY DEF Init, TrackerInit, Budget!Init
<1>2. BudgetInv /\ [Next]_vars => [Budget!Next]_(Budget!vars)
  <2>. SUFFICES ASSUME BudgetInv, [Next]_vars
                PROVE  Budget!Next \/ UNCHANGED Budget!vars
    OBVIOUS
  <2>1. TrackerTypeOK
    BY DEF BudgetInv, TypeInv, TypeOK
  <2>2. CASE Idle \/ UNCHANGED vars
    BY <2>2 DEF Idle, vars, Budget!vars
  <2>3. CASE Tick
    BY <2>3 DEF Tick, trackerVars, Budget!Next, Budget!Advance
  <2>4. CASE \E tok \in Tokens, res \in Reservations : ChecksBudget(tok, res)
    BY <2>1, <2>4, CheckForgets DEF ChecksBudget, Budget!Next
  <2>5. CASE \E tok \in Tokens : ChargesBudget(tok)
    BY <2>5, ChargeHasRoom DEF Budget!Next
  <2>. QED
    BY <2>2, <2>3, <2>4, <2>5, StepBudget DEF BudgetInv, BudgetStepKinds
<1>. QED
  BY <1>1, <1>2, InitBudget, StepBudgetInv, PTL DEF Spec, ImplementsBudget, Budget!Spec

-----------------------------------------------------------------------------
(* One call or update at a time                                            *)

\* The deque of the tracker or of upstream; kept as one notion, because sequences
\* get in the way of arithmetic.
Instants(s) == s \in Seq(Nat)

\* The instants are in order, and none of them is after t.
InTime(s, t) ==
    /\ \A i \in 1..Len(s) : s[i] <= t
    /\ \A i, j \in 1..Len(s) : i <= j => s[i] <= s[j]

\* Each instant of s after the horizon h, but for the last few, has a stamp of its
\* own that is no older: the first of the last has the last one, and so on.
Covers(stamps, s, lag, h) ==
    \A k \in 1..Len(s) :
        k + lag <= Len(s) /\ s[k] > h =>
            LET i == Len(stamps) + k + lag - Len(s)
            IN  i >= 1 /\ s[k] <= stamps[i]

\* The oldest instant of s, if it is full, is not after the horizon.
FreeAt(s, limit, h) == Len(s) < limit \/ s[1] <= h

\* Upstream holds against the client what it did not charge, for one window.
Disturbed(b) == uncharged[b] # Never /\ now - uncharged[b] < WindowOf(b)

\* What a bucket served up to here has left its window, or is not accounted for
\* because of a later request that was not charged.
Horizon(b) == IF Disturbed(b) THEN uncharged[b] ELSE now - WindowOf(b)

Free(b) == FreeAt(served[b], LimitOf(b), Horizon(b))
Sides(key) == {<<key, "read">>, <<key, "write">>}
AllBuckets(key) == Sides(key) \cup {<<key[1], "account">>}
Room(key) == \A b \in AllBuckets(key) : Free(b)

\* The tracker's own record of what a bucket has served.
Ledger(b) == IF b[2] = "account" THEN token[b[1]] ELSE reservation[b[1]]

\* The request was answered, and its charge is yet to come.
Owes(r, b) ==
    /\ r # NoTask /\ r.pc = "answer"
    /\ r.answer.status = "ok" \/ r.kind = "read"
    /\ b \in BucketsOf(r)
Owed(b) == \E t \in Tasks : Owes(task[t], b)

Alone == \A t, u \in Tasks : task[t] # NoTask /\ task[u] # NoTask => t = u

Recorded ==
    \A b \in Buckets :
        InTime(Ledger(b), now) /\ InTime(served[b], now) /\ Len(served[b]) <= LimitOf(b)

Accounted ==
    \A b \in Buckets :
        Covers(Ledger(b), served[b], IF Owed(b) THEN 1 ELSE 0, Horizon(b))

\* A hint allows one request at most, and only where the reservation has room.
Hinted ==
    \A key \in Keys : hints[key] # NoHint =>
        /\ hints[key].remaining <= 1
        /\ hints[key].remaining = 1 =>
              (\A b \in Sides(key) : Free(b)) \/ \E b \in Sides(key) : Owed(b)

\* There is room for a request that is not served yet, and for another one where
\* the headers of an answer say so.
RoomFor(r) ==
    LET key == <<r.tok, r.res>> IN
    /\ r.pc # "answer" => r.answer.status = "none" /\ Room(key)
    /\ r.pc = "answer" /\ r.answer.status = "ok" =>
          /\ \A b \in Sides(key) : b # ReservationBucket(r) => Free(b)
          /\ r.answer.headers # NoHint =>
                /\ r.answer.headers.remaining <= 1
                /\ r.answer.headers.remaining = 1 => Free(ReservationBucket(r))

Awaited == \A t \in Tasks : task[t] # NoTask => RoomFor(task[t])

SerialInv == TypeInv /\ Alone /\ Recorded /\ Accounted /\ Hinted /\ Awaited

\* A trimmed deque still covers what counts: what covers it is no older.
LEMMA TrimmedCovers ==
    ASSUME NEW stamps, Instants(stamps), now \in Nat, InTime(stamps, now),
           NEW W \in Nat, NEW h \in Int, h >= now - W
    PROVE  LET trimmed == Trim(stamps, W) IN
           /\ InTime(trimmed, now) /\ Instants(trimmed)
           /\ \A s : Instants(s) => \A lag \in 0..1 :
                 Covers(stamps, s, lag, h) => Covers(trimmed, s, lag, h)
<1>. DEFINE trimmed == Trim(stamps, W)
<1>1. W \in Nat /\ Len(stamps) \in Nat
  BY LenProperties DEF Instants
<1>2. PICK n \in 0..Len(stamps) :
          /\ \A i \in 1..n : now - stamps[i] >= W
          /\ trimmed = SubSeq(stamps, n + 1, Len(stamps))
  BY <1>1, TrimDropsPrefix DEF Instants
<1>3. Instants(trimmed) /\ \A i \in 1..Len(stamps) : stamps[i] \in Nat
  BY <1>1, TrimType, ElementOfSeq DEF Instants
<1>4. /\ Len(trimmed) = Len(stamps) - n
      /\ \A i \in 1..(Len(stamps) - n) : trimmed[i] = stamps[n + i]
  <2>1. \A i \in n + 1 .. Len(stamps) : stamps[i] \in Nat
    BY <1>1, <1>2, <1>3
  <2>2. /\ Len(SubSeq(stamps, n + 1, Len(stamps))) =
              IF n + 1 <= Len(stamps) THEN Len(stamps) - (n + 1) + 1 ELSE 0
        /\ \A i \in 1 .. Len(stamps) - (n + 1) + 1 :
              SubSeq(stamps, n + 1, Len(stamps))[i] = stamps[(n + 1) + i - 1]
    <3>1. n + 1 \in Int /\ Len(stamps) \in Int
      BY <1>1, <1>2
    <3>. QED
      BY <2>1, <3>1, SubSeqProperties
  <2>. QED
    BY <1>1, <1>2, <2>2
<1>. HIDE DEF trimmed
<1>5. InTime(trimmed, now)
  <2>1. \A i \in 1..Len(trimmed) : n + i \in 1..Len(stamps) /\ trimmed[i] = stamps[n + i]
    BY <1>1, <1>2, <1>4
  <2>2. ASSUME NEW i \in 1..Len(trimmed), NEW j \in 1..Len(trimmed)
        PROVE  trimmed[i] <= now /\ (i <= j => trimmed[i] <= trimmed[j])
    <3>1. stamps[n + i] <= now
      BY <2>1 DEF InTime
    <3>2. i <= j => n + i <= n + j
      BY <1>1, <1>2, <1>4
    <3>3. i <= j => stamps[n + i] <= stamps[n + j]
      BY <2>1, <3>2 DEF InTime
    <3>. QED
      BY <2>1, <3>1, <3>3
  <2>. QED
    BY <2>2 DEF InTime
<1>6. ASSUME NEW s, Instants(s), NEW lag \in 0..1, Covers(stamps, s, lag, h),
             NEW k \in 1..Len(s), k + lag <= Len(s), s[k] > h
      PROVE  LET i == Len(trimmed) + k + lag - Len(s)
             IN  i >= 1 /\ s[k] <= trimmed[i]
  <2>. DEFINE i == Len(stamps) + k + lag - Len(s)
  <2>1. Len(s) \in Nat /\ s[k] \in Nat /\ lag \in Nat
    BY <1>6, LenProperties, ElementOfSeq DEF Instants
  <2>2. i \in Int /\ i >= 1 /\ s[k] <= stamps[i] /\ i <= Len(stamps)
    BY <1>1, <1>6, <2>1 DEF Covers
  <2>a. n \in Nat /\ k \in Nat /\ Len(trimmed) = Len(stamps) - n
    BY <1>1, <1>2, <1>4
  <2>3. Len(trimmed) + k + lag - Len(s) = i - n
    BY <1>1, <2>1, <2>a
  <2>. HIDE DEF i
  <2>b. stamps[i] \in Nat
    BY <1>1, <1>3, <2>2
  <2>4. now - stamps[i] < W
    <3>1. s[k] > h /\ s[k] <= stamps[i]
      BY <1>6, <2>2
    <3>. QED
      BY <1>1, <2>1, <2>b, <3>1
  <2>5. i > n
    <3>1. CASE i <= n
      <4>1. i \in 1..n /\ i \in 1..Len(stamps)
        BY <1>1, <1>2, <2>2, <3>1
      <4>2. now - stamps[i] >= W /\ stamps[i] \in Nat
        BY <1>2, <1>3, <4>1
      <4>. QED
        BY <1>1, <2>4, <4>2
    <3>. QED
      BY <1>2, <2>2, <3>1
  <2>6. i - n \in 1..(Len(stamps) - n) /\ n + (i - n) = i
    BY <1>1, <1>2, <2>2, <2>5
  <2>7. trimmed[i - n] = stamps[i]
    BY <1>4, <2>6
  <2>8. i - n >= 1 /\ s[k] <= trimmed[i - n]
    BY <1>2, <2>2, <2>5, <2>7
  <2>. QED
    BY <2>3, <2>8
<1>. QED
  BY <1>3, <1>5, <1>6 DEF Covers, trimmed

\* The stamp of a charge covers the request that was not charged yet, or moves the
\* stamps that cover the others on by one.
LEMMA ChargeCovers ==
    ASSUME NEW stamps, Instants(stamps), NEW s, Instants(s), NEW lag \in 0..1,
           NEW t \in Nat, InTime(stamps, t), InTime(s, t), NEW h, Covers(stamps, s, lag, h)
    PROVE  InTime(Append(stamps, t), t) /\ Covers(Append(stamps, t), s, 0, h)
<1>. DEFINE charged == Append(stamps, t)
<1>1. /\ Len(stamps) \in Nat /\ Len(s) \in Nat
      /\ \A i \in 1..Len(stamps) : stamps[i] \in Nat
      /\ \A i \in 1..Len(s) : s[i] \in Nat
  BY LenProperties, ElementOfSeq DEF Instants
<1>2. /\ Len(charged) = Len(stamps) + 1 /\ charged[Len(stamps) + 1] = t
      /\ \A i \in 1..Len(stamps) : charged[i] = stamps[i]
  BY AppendProperties DEF Instants
<1>. HIDE DEF charged
<1>3. InTime(charged, t)
  <2>1. ASSUME NEW i \in 1..Len(charged), NEW j \in 1..Len(charged)
        PROVE  charged[i] <= t /\ (i <= j => charged[i] <= charged[j])
    <3>0. ASSUME NEW m \in 1..Len(charged) PROVE charged[m] \in Nat /\ charged[m] <= t
      <4>1. CASE m = Len(stamps) + 1
        BY <1>2, <4>1
      <4>2. CASE m # Len(stamps) + 1
        <5>1. m \in 1..Len(stamps)
          BY <1>1, <1>2, <4>2
        <5>. QED
          BY <1>1, <1>2, <5>1 DEF InTime
      <4>. QED
        BY <4>1, <4>2
    <3>1. charged[i] \in Nat /\ charged[i] <= t
      BY <3>0
    <3>2. CASE j = Len(stamps) + 1
      BY <1>2, <3>1, <3>2
    <3>3. CASE j # Len(stamps) + 1 /\ i <= j
      <4>1. i \in 1..Len(stamps) /\ j \in 1..Len(stamps)
        BY <1>1, <1>2, <3>3
      <4>. QED
        BY <1>2, <3>1, <3>3, <4>1 DEF InTime
    <3>. QED
      BY <3>1, <3>2, <3>3
  <2>. QED
    BY <2>1 DEF InTime
<1>4. ASSUME NEW k \in 1..Len(s), s[k] > h
      PROVE  LET i == Len(charged) + k + 0 - Len(s)
             IN  i >= 1 /\ s[k] <= charged[i]
  <2>. DEFINE j == Len(stamps) + k + lag - Len(s)
              i == Len(charged) + k + 0 - Len(s)
  <2>1. /\ lag \in 0..1 /\ i \in Int /\ j \in Int
        /\ i = Len(stamps) + 1 + k - Len(s) /\ i = j + 1 - lag
        /\ s[k] <= t
    BY <1>1, <1>2 DEF InTime
  <2>2. k + lag <= Len(s) => j >= 1 /\ s[k] <= stamps[j]
    BY <1>4 DEF Covers
  <2>3. k + lag <= Len(s) \/ i = Len(stamps) + 1
    BY <1>1, <2>1
  <2>4. i <= Len(stamps) + 1
    BY <1>1, <2>1
  <2>. HIDE DEF i, j
  <2>5. CASE i = Len(stamps) + 1
    <3>1. i >= 1 /\ s[k] <= charged[i]
      BY <1>1, <1>2, <2>1, <2>5
    <3>. QED
      BY <3>1 DEF i
  <2>6. CASE i # Len(stamps) + 1
    <3>0. j <= i /\ i <= Len(stamps)
      BY <1>1, <2>1, <2>4, <2>6
    <3>1. j >= 1 /\ j <= i /\ i <= Len(stamps) /\ s[k] <= stamps[j]
      BY <2>2, <2>3, <2>6, <3>0
    <3>2. i \in 1..Len(stamps) /\ j \in 1..Len(stamps)
      BY <1>1, <2>1, <3>1
    <3>3. stamps[j] <= stamps[i] /\ charged[i] = stamps[i]
      BY <1>2, <3>1, <3>2 DEF InTime
    <3>4. s[k] \in Nat /\ stamps[i] \in Nat /\ stamps[j] \in Nat
      BY <1>1, <3>2
    <3>5. i >= 1 /\ s[k] <= charged[i]
      <4>1. s[k] <= stamps[i]
        BY <3>1, <3>3, <3>4
      <4>. QED
        BY <3>2, <3>3, <4>1
    <3>. QED
      BY <3>5 DEF i
  <2>. QED
    BY <2>5, <2>6
<1>. QED
  BY <1>3, <1>4 DEF Covers, charged

\* What a deque below the limit covers is not full of instants after the horizon.
LEMMA CoveredIsFree ==
    ASSUME NEW stamps, Instants(stamps), NEW s, Instants(s), NEW h \in Int,
           NEW limit \in Nat \ {0},
           Covers(stamps, s, 0, h), Len(stamps) < limit, Len(s) <= limit
    PROVE  FreeAt(s, limit, h)
<1>1. Len(stamps) \in Nat /\ Len(s) \in Nat
  BY LenProperties DEF Instants
<1>2. SUFFICES ASSUME Len(s) = limit, ~(s[1] <= h)
               PROVE  FALSE
  BY <1>1 DEF FreeAt
<1>3. 1 \in 1..Len(s) /\ s[1] \in Nat
  BY <1>1, <1>2, ElementOfSeq DEF Instants
<1>4. s[1] > h /\ 1 + 0 <= Len(s)
  BY <1>1, <1>2, <1>3
<1>5. Len(stamps) + 1 + 0 - Len(s) >= 1
  BY <1>3, <1>4 DEF Covers
<1>. QED
  BY <1>1, <1>2, <1>5

\* Time only helps, and so does a charge that is yet to come.
LEMMA LaterIsFreer ==
    ASSUME NEW s, Instants(s), NEW h \in Int, NEW g \in Int, h <= g, NEW limit \in Nat \ {0}
    PROVE  /\ FreeAt(s, limit, h) => FreeAt(s, limit, g)
           /\ \A stamps : \A lag \in 0..1 :
                 Covers(stamps, s, lag, h) => Covers(stamps, s, lag, g)
<1>1. Len(s) \in Nat /\ \A i \in 1..Len(s) : s[i] \in Nat
  BY LenProperties, ElementOfSeq DEF Instants
<1>2. FreeAt(s, limit, h) => FreeAt(s, limit, g)
  <2>1. CASE Len(s) < limit
    BY <2>1 DEF FreeAt
  <2>2. CASE ~(Len(s) < limit)
    BY <1>1, <2>2 DEF FreeAt
  <2>. QED
    BY <2>1, <2>2
<1>3. ASSUME NEW k \in 1..Len(s), s[k] > g PROVE s[k] > h
  BY <1>1, <1>3
<1>4. ASSUME NEW stamps, NEW lag \in 0..1, Covers(stamps, s, lag, h)
      PROVE  Covers(stamps, s, lag, g)
  BY <1>3, <1>4 DEF Covers
<1>. QED
  BY <1>2, <1>4

LEMMA InTimeLater ==
    ASSUME NEW s, Instants(s), NEW t \in Nat, NEW u \in Nat, t <= u, InTime(s, t)
    PROVE  InTime(s, u)
<1>1. \A i \in 1..Len(s) : s[i] \in Nat
  BY ElementOfSeq DEF Instants
<1>. QED
  BY <1>1 DEF InTime

LEMMA OwedCovers ==
    ASSUME NEW stamps, Instants(stamps), NEW t, InTime(stamps, t), NEW s, Instants(s),
           NEW h, Covers(stamps, s, 0, h)
    PROVE  Covers(stamps, s, 1, h)
<1>1. /\ Len(stamps) \in Nat /\ Len(s) \in Nat
      /\ \A i \in 1..Len(stamps) : stamps[i] \in Nat
      /\ \A i \in 1..Len(s) : s[i] \in Nat
  BY LenProperties, ElementOfSeq DEF Instants
<1>. SUFFICES ASSUME NEW k \in 1..Len(s), k + 1 <= Len(s), s[k] > h
              PROVE  LET i == Len(stamps) + k + 1 - Len(s)
                     IN  i >= 1 /\ s[k] <= stamps[i]
  BY DEF Covers
<1>. DEFINE j == Len(stamps) + k + 0 - Len(s)
            i == Len(stamps) + k + 1 - Len(s)
<1>2. k + 0 <= Len(s) /\ k \in Nat
  BY <1>1
<1>3. j >= 1 /\ s[k] <= stamps[j]
  BY <1>2 DEF Covers
<1>4. i = j + 1 /\ i <= Len(stamps) /\ j \in Int /\ i \in Int
  BY <1>1, <1>2
<1>. HIDE DEF i, j
<1>5. i \in 1..Len(stamps) /\ j \in 1..Len(stamps) /\ j <= i
  BY <1>1, <1>3, <1>4
<1>6. stamps[j] <= stamps[i]
  BY <1>5 DEF InTime
<1>7. s[k] \in Nat /\ stamps[i] \in Nat /\ stamps[j] \in Nat
  BY <1>1, <1>5
<1>8. i >= 1 /\ s[k] <= stamps[i]
  BY <1>3, <1>4, <1>6, <1>7
<1>. QED
  BY <1>8 DEF i

\* What a bucket remembers when it serves one more request, of which it is yet to
\* hear.
LEMMA ServedOneMore ==
    ASSUME NEW s, Instants(s), NEW t \in Nat, InTime(s, t),
           NEW limit \in Nat \ {0}, Len(s) <= limit, NEW h \in Int
    PROVE  LET more == IF Len(s) < limit THEN Append(s, t) ELSE Append(Tail(s), t)
           IN  /\ InTime(more, t) /\ Len(more) <= limit
               /\ \A stamps : Instants(stamps) /\ Covers(stamps, s, 0, h)
                                => Covers(stamps, more, 1, h)
               /\ limit = 2 /\ (\A i \in 1..Len(s) : s[i] <= h)
                  => FreeAt(more, limit, h)
<1>. DEFINE more == IF Len(s) < limit THEN Append(s, t) ELSE Append(Tail(s), t)
<1>1. /\ Len(s) \in Nat /\ \A i \in 1..Len(s) : s[i] \in Nat
  BY LenProperties, ElementOfSeq DEF Instants
<1>2. PICK d \in 0..1 :
          /\ Len(more) = Len(s) + 1 - d /\ Len(more) <= limit
          /\ d <= Len(s) /\ d = 1 => Len(s) = limit
          /\ more[Len(more)] = t
          /\ \A i \in 1..(Len(s) - d) : more[i] = s[i + d]
  <2>1. CASE Len(s) < limit
    <3>1. /\ more = Append(s, t) /\ Len(more) = Len(s) + 1 /\ more[Len(s) + 1] = t
          /\ \A i \in 1..Len(s) : more[i] = s[i]
      BY <2>1, AppendProperties DEF Instants
    <3>. HIDE DEF more
    <3>. QED
      BY <1>1, <2>1, <3>1
  <2>2. CASE ~(Len(s) < limit)
    <3>1. s # << >> /\ Len(s) = limit
      BY <1>1, <2>2, EmptySeq DEF Instants
    <3>2. /\ Tail(s) \in Seq(Nat) /\ Len(Tail(s)) = Len(s) - 1
          /\ \A i \in 1..Len(Tail(s)) : Tail(s)[i] = s[i + 1]
      BY <3>1, HeadTailProperties DEF Instants
    <3>3. /\ more = Append(Tail(s), t) /\ Len(more) = Len(Tail(s)) + 1
          /\ more[Len(Tail(s)) + 1] = t
          /\ \A i \in 1..Len(Tail(s)) : more[i] = Tail(s)[i]
      BY <2>2, <3>2, AppendProperties
    <3>. HIDE DEF more
    <3>. QED
      BY <1>1, <3>1, <3>2, <3>3
  <2>. QED
    BY <2>1, <2>2
<1>. HIDE DEF more
<1>3. InTime(more, t)
  <2>1. ASSUME NEW i \in 1..Len(more), NEW j \in 1..Len(more)
        PROVE  more[i] <= t /\ (i <= j => more[i] <= more[j])
    <3>1. ASSUME NEW m \in 1..Len(more), m # Len(more)
          PROVE  m \in 1..(Len(s) - d) /\ m + d \in 1..Len(s) /\ more[m] = s[m + d]
      <4>1. d \in Nat /\ d <= Len(s) /\ Len(more) = Len(s) + 1 - d /\ m \in Nat
        BY <1>2
      <4>2. m \in 1..(Len(s) - d) /\ m + d \in 1..Len(s)
        BY <1>1, <3>1, <4>1
      <4>. QED
        BY <1>2, <4>2
    <3>0. ASSUME NEW m \in 1..Len(more) PROVE more[m] \in Nat /\ more[m] <= t
      <4>1. CASE m = Len(more)
        BY <1>2, <4>1
      <4>2. CASE m # Len(more)
        BY <1>1, <3>1, <4>2 DEF InTime
      <4>. QED
        BY <4>1, <4>2
    <3>2. more[i] \in Nat /\ more[i] <= t
      BY <3>0
    <3>3. CASE j = Len(more)
      BY <1>2, <3>2, <3>3
    <3>4. CASE j # Len(more) /\ i <= j
      <4>1. i # Len(more) /\ i + d <= j + d
        BY <1>1, <1>2, <3>4
      <4>. QED
        BY <3>1, <3>2, <3>4, <4>1 DEF InTime
    <3>. QED
      BY <3>2, <3>3, <3>4
  <2>. QED
    BY <2>1 DEF InTime
<1>4. ASSUME NEW stamps, Instants(stamps), Covers(stamps, s, 0, h)
      PROVE  Covers(stamps, more, 1, h)
  <2>. SUFFICES ASSUME NEW k \in 1..Len(more), k + 1 <= Len(more),
                       more[k] > h
                PROVE  LET i == Len(stamps) + k + 1 - Len(more)
                       IN  i >= 1 /\ more[k] <= stamps[i]
    BY DEF Covers
  <2>1. k \in 1..(Len(s) - d) /\ more[k] = s[k + d] /\ k + d \in 1..Len(s)
    BY <1>1, <1>2
  <2>2. LET i == Len(stamps) + (k + d) + 0 - Len(s)
        IN  i >= 1 /\ s[k + d] <= stamps[i]
    BY <1>1, <1>4, <2>1 DEF Covers
  <2>3. Len(stamps) + k + 1 - Len(more) = Len(stamps) + (k + d) + 0 - Len(s)
    BY <1>1, <1>2, <1>4, LenProperties DEF Instants
  <2>. QED
    BY <2>1, <2>2, <2>3
<1>5. ASSUME limit = 2,
             \A i \in 1..Len(s) : s[i] <= h
      PROVE  FreeAt(more, limit, h)
  <2>1. CASE Len(more) < 2
    BY <1>5, <2>1 DEF FreeAt
  <2>2. CASE ~(Len(more) < 2)
    <3>1. 1 \in 1..(Len(s) - d) /\ 1 + d \in 1..Len(s)
      BY <1>1, <1>2, <2>2
    <3>. QED
      BY <1>2, <1>5, <3>1 DEF FreeAt
  <2>. QED
    BY <2>1, <2>2
<1>. QED
  BY <1>2, <1>3, <1>4, <1>5 DEF more

\* Two of these always exclude each other: a call and an update, or two of either.
LEMMA AtMostOne ==
    ASSUME NEW S, IsFiniteSet(S), Cardinality(S) <= 1, NEW x \in S, NEW y \in S
    PROVE  x = y
<1>. SUFFICES ASSUME x # y PROVE FALSE
  OBVIOUS
<1>1. {x, y} \in SUBSET S
  OBVIOUS
<1>2. Cardinality({x, y}) <= Cardinality(S) /\ Cardinality(S) \in Nat
  BY <1>1, FS_Subset, FS_CardinalityType
<1>3. IsFiniteSet({x}) /\ Cardinality({x}) = 1
  BY FS_Singleton
<1>4. Cardinality({x} \cup {y}) = Cardinality({x}) + 1
  BY <1>3, FS_AddElement
<1>5. {x} \cup {y} = {x, y}
  OBVIOUS
<1>. QED
  BY <1>2, <1>3, <1>4, <1>5

\* What the steps below use of the types.
LEMMA BucketFacts ==
    ASSUME TypeOK
    PROVE  /\ now \in Nat /\ task \in [Tasks -> Request \cup {NoTask}]
           /\ hints \in [Keys -> Hint \cup {NoHint}]
           /\ \A b \in Buckets :
                 /\ Instants(served[b]) /\ Instants(Ledger(b))
                 /\ LimitOf(b) \in Nat \ {0} /\ WindowOf(b) \in Nat \ {0}
                 /\ Horizon(b) \in Int /\ Horizon(b) >= now - WindowOf(b)
           /\ \A key \in Keys : AllBuckets(key) \subseteq Buckets
                                /\ Sides(key) \subseteq AllBuckets(key)
           /\ \A r \in Request : /\ <<r.tok, r.res>> \in Keys
                                 /\ BucketsOf(r) \subseteq AllBuckets(<<r.tok, r.res>>)
                                 /\ ReservationBucket(r) \in Sides(<<r.tok, r.res>>)
                                 /\ ReservationBucket(r) \in BucketsOf(r)
<1>1. /\ now \in Nat /\ task \in [Tasks -> Request \cup {NoTask}]
      /\ hints \in [Keys -> Hint \cup {NoHint}]
      /\ reservation \in [Keys -> Seq(Nat)] /\ token \in [Tokens -> Seq(Nat)]
      /\ served \in [Buckets -> Seq(Nat)]
      /\ uncharged \in [Buckets -> Nat \cup {Never}]
  BY DEF TypeOK, TrackerTypeOK
<1>2. ASSUME NEW b \in Buckets
      PROVE  /\ Instants(served[b]) /\ Instants(Ledger(b))
             /\ LimitOf(b) \in Nat \ {0} /\ WindowOf(b) \in Nat \ {0}
             /\ Horizon(b) \in Int /\ Horizon(b) >= now - WindowOf(b)
  <2>1. \/ b[2] = "account" /\ b[1] \in Tokens
        \/ b[2] # "account" /\ b[1] \in Keys
    BY DEF Buckets
  <2>2. Instants(Ledger(b))
    BY <1>1, <2>1 DEF Ledger, Instants
  <2>3. LimitOf(b) \in Nat \ {0} /\ WindowOf(b) \in Nat \ {0}
    BY BucketType
  <2>4. Horizon(b) \in Int /\ Horizon(b) >= now - WindowOf(b)
    <3>1. CASE Disturbed(b)
      <4>1. uncharged[b] \in Nat /\ now - uncharged[b] < WindowOf(b) /\ Horizon(b) = uncharged[b]
        BY <1>1, <3>1 DEF Disturbed, Horizon
      <4>. QED
        BY <1>1, <2>3, <4>1
    <3>2. CASE ~Disturbed(b)
      BY <1>1, <2>3, <3>2 DEF Horizon
    <3>. QED
      BY <3>1, <3>2
  <2>. QED
    BY <1>1, <2>2, <2>3, <2>4 DEF Instants
<1>3. ASSUME NEW key \in Keys
      PROVE  AllBuckets(key) \subseteq Buckets /\ Sides(key) \subseteq AllBuckets(key)
  <2>1. key[1] \in Tokens
    BY DEF Keys
  <2>. QED
    BY <2>1 DEF AllBuckets, Sides, Buckets
<1>4. ASSUME NEW r \in Request
      PROVE  /\ <<r.tok, r.res>> \in Keys
             /\ BucketsOf(r) \subseteq AllBuckets(<<r.tok, r.res>>)
             /\ ReservationBucket(r) \in Sides(<<r.tok, r.res>>)
             /\ ReservationBucket(r) \in BucketsOf(r)
  BY DEF Request, Keys, BucketsOf, ReservationBucket, AllBuckets, Sides
<1>. QED
  BY <1>1, <1>2, <1>3, <1>4

\* A bucket that is free and not disturbed has room; one that has all of its limit
\* left counts nothing.
LEMMA LeftWhenFree ==
    ASSUME TypeOK, Recorded, NEW b \in Buckets
    PROVE  /\ Left(b) \in Int /\ Left(b) <= LimitOf(b)
           /\ Free(b) => Left(b) > 0 \/ Disturbed(b)
           /\ Left(b) = LimitOf(b) => \A i \in 1..Len(served[b]) : served[b][i] <= Horizon(b)
<1>. DEFINE s == served[b]
            C == Counting(b)
            W == WindowOf(b)
            L == LimitOf(b)
<1>1. /\ s \in Seq(Nat) /\ Len(s) \in Nat /\ Len(s) <= L /\ now \in Nat
      /\ L \in Nat \ {0} /\ W \in Nat
      /\ Horizon(b) \in Int /\ Horizon(b) >= now - W
      /\ \A i \in 1..Len(s) : s[i] \in Nat
  BY BucketFacts, LenProperties, ElementOfSeq DEF Recorded, Instants
<1>2. \A m \in Nat : IsFiniteSet(1..m) /\ Cardinality(1..m) = m
  <2>. TAKE m \in Nat
  <2>1. 1 \in Int /\ m \in Int
    OBVIOUS
  <2>2. IsFiniteSet(1..m) /\ Cardinality(1..m) = IF 1 > m THEN 0 ELSE m - 1 + 1
    BY <2>1, FS_Interval
  <2>. QED
    BY <2>2
<1>3. C = {i \in 1..Len(s) : now - s[i] < W}
  BY DEF Counting
<1>. HIDE DEF C, s, W, L
<1>4. C \in SUBSET (1..Len(s)) /\ IsFiniteSet(1..Len(s)) /\ Cardinality(1..Len(s)) = Len(s)
  BY <1>1, <1>2, <1>3
<1>5. IsFiniteSet(C) /\ Cardinality(C) \in Nat /\ Cardinality(C) <= Len(s)
  BY <1>4, FS_Subset, FS_CardinalityType
<1>6. Left(b) = L - Cardinality(C)
  BY DEF Left, C, L
<1>7. ASSUME Free(b), ~Disturbed(b) PROVE Cardinality(C) < L
  <2>1. FreeAt(s, L, now - W)
    BY <1>7 DEF Free, Horizon, s, L, W
  <2>2. CASE Len(s) < L
    BY <1>1, <1>5, <2>2
  <2>3. CASE ~(Len(s) < L)
    <3>1. 1 \in 1..Len(s) /\ 1 \notin C
      <4>1. s[1] <= now - W /\ 1 \in 1..Len(s)
        BY <1>1, <2>1, <2>3 DEF FreeAt
      <4>2. ~(now - s[1] < W)
        BY <1>1, <4>1
      <4>. QED
        BY <1>3, <4>1, <4>2
    <3>2. C # 1..Len(s)
      BY <3>1
    <3>3. Cardinality(C) # Cardinality(1..Len(s))
      BY <1>4, <3>2, FS_Subset
    <3>. QED
      BY <1>1, <1>4, <1>5, <3>3
  <2>. QED
    BY <2>2, <2>3
<1>8. ASSUME Left(b) = L, NEW i \in 1..Len(s)
      PROVE  s[i] <= Horizon(b)
  <2>1. Cardinality(C) = 0
    BY <1>1, <1>5, <1>6, <1>8
  <2>2. i \notin C
    BY <1>5, <2>1, FS_EmptySet
  <2>3. ~(now - s[i] < W)
    BY <1>3, <1>8, <2>2
  <2>. QED
    BY <1>1, <1>8, <2>3
<1>9. Left(b) \in Int /\ Left(b) <= L
  BY <1>1, <1>5, <1>6
<1>10. Free(b) => Left(b) > 0 \/ Disturbed(b)
  BY <1>1, <1>5, <1>6, <1>7
<1>. QED
  BY <1>8, <1>9, <1>10 DEF s, L

\* The parts of the invariant that a step which serves nobody, charges nothing and
\* takes no time leaves as they were.
LEMMA QuietStep ==
    ASSUME SerialInv, TypeInv', Alone',
           UNCHANGED <<now, reservation, token, hints, bucketVars>>,
           \A b \in Buckets : Owed(b)' <=> Owed(b),
           Awaited'
    PROVE  SerialInv'
<1>1. ASSUME NEW b \in Buckets
      PROVE  (Free(b)' <=> Free(b)) /\ Horizon(b)' = Horizon(b) /\ Ledger(b)' = Ledger(b)
  BY DEF Free, Horizon, Disturbed, Ledger, bucketVars
<1>2. Recorded'
  BY <1>1 DEF SerialInv, Recorded, bucketVars
<1>3. Accounted'
  <2>. SUFFICES ASSUME NEW b \in Buckets
                PROVE  Covers(Ledger(b)', served[b], IF Owed(b)' THEN 1 ELSE 0, Horizon(b)')
    BY DEF Accounted, bucketVars
  <2>1. Covers(Ledger(b), served[b], IF Owed(b) THEN 1 ELSE 0, Horizon(b))
    BY DEF SerialInv, Accounted
  <2>2. Ledger(b)' = Ledger(b) /\ Horizon(b)' = Horizon(b)
    BY <1>1
  <2>3. CASE Owed(b)
    BY <2>1, <2>2, <2>3
  <2>4. CASE ~Owed(b)
    BY <2>1, <2>2, <2>4
  <2>. QED
    BY <2>3, <2>4
<1>4. \A key \in Keys : Sides(key) \subseteq Buckets
  BY DEF Sides, Buckets
<1>5. Hinted'
  <2>. SUFFICES ASSUME NEW key \in Keys, hints[key] # NoHint
                PROVE  /\ hints[key].remaining <= 1
                       /\ hints[key].remaining = 1 =>
                             (\A b \in Sides(key) : Free(b)') \/ \E b \in Sides(key) : Owed(b)'
    BY DEF Hinted
  <2>1. /\ hints[key].remaining <= 1
        /\ hints[key].remaining = 1 =>
              (\A b \in Sides(key) : Free(b)) \/ \E b \in Sides(key) : Owed(b)
    BY DEF SerialInv, Hinted
  <2>2. \A b \in Sides(key) : (Free(b)' <=> Free(b)) /\ (Owed(b)' <=> Owed(b))
    BY <1>1, <1>4
  <2>. QED
    BY <2>1, <2>2
<1>. QED
  BY <1>2, <1>3, <1>5 DEF SerialInv

\* check() lets a request pass only where upstream has room for it: by the local
\* count, which covers what was served, or by a hint, which was the last word.
LEMMA CheckStep ==
    ASSUME SerialInv, TypeInv', Alone', NEW tok \in Tokens, NEW res \in Reservations,
           Check(tok, res), UNCHANGED <<now, bucketVars>>,
           \/ task' = task
           \/ /\ CheckPasses(tok, res)
              /\ \E t \in Tasks, kind \in Kinds, pc \in {"channel", "request"} :
                    /\ task[t] = NoTask
                    /\ task' = [task EXCEPT ![t] = NewRequest(kind, pc, tok, res)]
    PROVE  SerialInv'
<1>. DEFINE key == <<tok, res>>
            Trimmed(b) == Trim(Ledger(b), WindowOf(b))
<1>1. /\ key \in Keys /\ key[1] = tok /\ now \in Nat /\ UNCHANGED <<now, served, uncharged, shared>>
      /\ hints \in [Keys -> Hint \cup {NoHint}]
      /\ task \in [Tasks -> Request \cup {NoTask}] /\ TypeOK
  BY BucketFacts DEF SerialInv, TypeInv, TypeOK, TrackerTypeOK, Keys, bucketVars
<1>2. ASSUME NEW b \in Buckets
      PROVE  /\ InTime(Trimmed(b), now) /\ Instants(Trimmed(b))
             /\ \A s : Instants(s) => \A lag \in 0..1 :
                   Covers(Ledger(b), s, lag, Horizon(b)) => Covers(Trimmed(b), s, lag, Horizon(b))
  <2>1. /\ Instants(Ledger(b)) /\ InTime(Ledger(b), now) /\ WindowOf(b) \in Nat
        /\ Horizon(b) \in Int /\ Horizon(b) >= now - WindowOf(b)
    BY <1>1, BucketFacts DEF SerialInv, Recorded
  <2>. QED
    BY <1>1, <2>1, TrimmedCovers
<1>3. /\ hints' \in [Keys -> Hint \cup {NoHint}]
      /\ \A k \in Keys : hints'[k] \in {hints[k], NoHint}
  BY <1>1 DEF Check, CurrentHint
<1>a. /\ \A b \in Buckets : Ledger(b)' \in {Ledger(b), Trimmed(b)}
      /\ CurrentHint(key) = NoHint => \A b \in Sides(key) : Trimmed(b) = LocalStamps(key)
      /\ Trimmed(<<tok, "account">>) = TokenStamps(tok)
  <2>1. /\ reservation \in [Keys -> Seq(Nat)] /\ token \in [Tokens -> Seq(Nat)]
    BY DEF SerialInv, TypeInv, TypeOK, TrackerTypeOK
  <2>2. ASSUME NEW b \in Buckets PROVE Ledger(b)' \in {Ledger(b), Trimmed(b)}
    <3>1. CASE b[2] = "account"
      <4>1. Ledger(b) = token[b[1]] /\ Ledger(b)' = token'[b[1]] /\ b[1] \in Tokens
            /\ WindowOf(b) = TOKEN_WINDOW_SECONDS
        BY <3>1 DEF Ledger, Buckets, WindowOf
      <4>2. token'[b[1]] \in {token[b[1]], Trim(token[b[1]], TOKEN_WINDOW_SECONDS)}
        BY <2>1, <4>1 DEF Check, TokenStamps
      <4>. QED
        BY <4>1, <4>2
    <3>2. CASE b[2] # "account"
      <4>1. Ledger(b) = reservation[b[1]] /\ Ledger(b)' = reservation'[b[1]] /\ b[1] \in Keys
            /\ WindowOf(b) = RESERVATION_WINDOW_SECONDS
        BY <3>2 DEF Ledger, Buckets, WindowOf
      <4>2. reservation'[b[1]] \in
                {reservation[b[1]], Trim(reservation[b[1]], RESERVATION_WINDOW_SECONDS)}
        BY <2>1, <4>1 DEF Check, LocalStamps
      <4>. QED
        BY <4>1, <4>2
    <3>. QED
      BY <3>1, <3>2
  <2>3. ASSUME NEW b \in Sides(key) PROVE Trimmed(b) = LocalStamps(key)
    BY DEF Sides, Ledger, WindowOf, LocalStamps
  <2>4. Trimmed(<<tok, "account">>) = TokenStamps(tok)
    BY DEF Ledger, WindowOf, TokenStamps
  <2>. QED
    BY <2>2, <2>3, <2>4
<1>. HIDE DEF Trimmed, key
<1>4. ASSUME task' # task
      PROVE  /\ CheckPasses(tok, res)
             /\ \A u \in Tasks : task[u] = NoTask
             /\ \E kind \in Kinds, pc \in {"channel", "request"} : \A u \in Tasks :
                   task'[u] \in {NoTask, NewRequest(kind, pc, tok, res)}
  <2>1. PICK t \in Tasks, kind \in Kinds, pc \in {"channel", "request"} :
            /\ task[t] = NoTask
            /\ task' = [task EXCEPT ![t] = NewRequest(kind, pc, tok, res)]
    BY <1>4
  <2>2. task'[t] # NoTask
    BY <1>1, <2>1, RequestType
  <2>3. \A u \in Tasks : u # t => task'[u] = NoTask /\ task[u] = NoTask
    BY <1>1, <2>1, <2>2 DEF Alone
  <2>4. \A u \in Tasks : task[u] = NoTask
    BY <2>1, <2>3
  <2>5. \A u \in Tasks : task'[u] \in {NoTask, NewRequest(kind, pc, tok, res)}
    BY <1>1, <2>1, <2>3
  <2>. QED
    BY <1>4, <2>4, <2>5
<1>5. ASSUME NEW b \in Buckets PROVE Owed(b)' <=> Owed(b)
  <2>1. CASE task' = task
    BY <1>1, <2>1 DEF Owed, Owes, BucketsOf, ReservationBucket
  <2>2. CASE task' # task
    <3>1. ~Owed(b)
      BY <1>4, <2>2 DEF Owed, Owes
    <3>2. \A u \in Tasks : task'[u] = NoTask \/ task'[u].pc # "answer"
      BY <1>4, <2>2 DEF NewRequest
    <3>3. ~Owed(b)'
      BY <3>2 DEF Owed, Owes
    <3>. QED
      BY <3>1, <3>3
  <2>. QED
    BY <2>1, <2>2
<1>6. \A b \in Buckets : (Free(b)' <=> Free(b)) /\ Horizon(b)' = Horizon(b)
  BY <1>1 DEF Free, Horizon, Disturbed
<1>7. Recorded'
  <2>. SUFFICES ASSUME NEW b \in Buckets
                PROVE  InTime(Ledger(b)', now) /\ InTime(served[b], now)
                       /\ Len(served[b]) <= LimitOf(b)
    BY <1>1 DEF Recorded
  <2>. QED
    BY <1>2, <1>a DEF SerialInv, Recorded
<1>8. Accounted'
  <2>. SUFFICES ASSUME NEW b \in Buckets
                PROVE  Covers(Ledger(b)', served[b], IF Owed(b)' THEN 1 ELSE 0, Horizon(b)')
    BY <1>1 DEF Accounted
  <2>. DEFINE lag == IF Owed(b) THEN 1 ELSE 0
  <2>1. Covers(Ledger(b), served[b], lag, Horizon(b)) /\ lag \in 0..1
    BY DEF SerialInv, Accounted
  <2>2. Instants(served[b])
    BY <1>1, BucketFacts
  <2>3. (IF Owed(b)' THEN 1 ELSE 0) = lag
    BY <1>5
  <2>. HIDE DEF lag
  <2>4. Covers(Ledger(b)', served[b], lag, Horizon(b))
    BY <1>2, <1>a, <2>1, <2>2
  <2>. QED
    BY <1>6, <2>3, <2>4
<1>9. ASSUME NEW k \in Keys
      PROVE  /\ \A b \in AllBuckets(k) : b \in Buckets /\ (Free(b)' <=> Free(b))
             /\ Sides(k) \subseteq AllBuckets(k)
  BY <1>1, <1>6, BucketFacts
<1>10. Hinted'
  <2>. SUFFICES ASSUME NEW k \in Keys, hints'[k] # NoHint
                PROVE  /\ hints'[k].remaining <= 1
                       /\ hints'[k].remaining = 1 =>
                             (\A b \in Sides(k) : Free(b)') \/ \E b \in Sides(k) : Owed(b)'
    BY DEF Hinted
  <2>1. hints'[k] = hints[k] /\ hints[k] # NoHint
    BY <1>3
  <2>2. /\ hints[k].remaining <= 1
        /\ hints[k].remaining = 1 =>
              (\A b \in Sides(k) : Free(b)) \/ \E b \in Sides(k) : Owed(b)
    BY <2>1 DEF SerialInv, Hinted
  <2>3. \A b \in Sides(k) : (Free(b)' <=> Free(b)) /\ (Owed(b)' <=> Owed(b))
    BY <1>5, <1>9
  <2>. QED
    BY <2>1, <2>2, <2>3
<1>b. ASSUME NEW b \in AllBuckets(key), task' # task, Len(Trimmed(b)) < LimitOf(b)
      PROVE  Free(b)
  <2>1. b \in Buckets
    BY <1>1, <1>9
  <2>2. ~Owed(b)
    BY <1>4, <1>b DEF Owed, Owes
  <2>3. /\ Covers(Ledger(b), served[b], 0, Horizon(b)) /\ Instants(served[b])
        /\ Len(served[b]) <= LimitOf(b) /\ Horizon(b) \in Int /\ LimitOf(b) \in Nat \ {0}
    BY <1>1, <2>1, <2>2, BucketFacts DEF SerialInv, Accounted, Recorded
  <2>4. Covers(Trimmed(b), served[b], 0, Horizon(b)) /\ Instants(Trimmed(b))
    BY <1>2, <2>1, <2>3
  <2>. QED
    BY <1>b, <2>3, <2>4, CoveredIsFree DEF Free
<1>11. ASSUME task' # task PROVE Room(key)
  <2>1. /\ ~ReservationRefuses(key) /\ ~TokenRefuses(tok)
        /\ \A b \in Buckets : ~Owed(b)
    BY <1>4, <1>11 DEF CheckPasses, Owed, Owes, key
  <2>2. ASSUME NEW b \in Sides(key) PROVE Free(b)
    <3>1. CASE CurrentHint(key) # NoHint
      <4>1. CurrentHint(key) = hints[key] /\ hints[key] # NoHint
        BY <3>1 DEF CurrentHint
      <4>2. hints[key].remaining \in Int /\ hints[key].remaining <= 1
        BY <1>1, <4>1 DEF SerialInv, Hinted, Hint
      <4>3. ~(hints[key].remaining <= 0)
        BY <2>1, <4>1 DEF ReservationRefuses
      <4>4. hints[key].remaining = 1
        BY <4>2, <4>3
      <4>5. \A x \in Sides(key) : ~Owed(x)
        BY <1>1, <1>9, <2>1
      <4>. QED
        BY <1>1, <4>1, <4>4, <4>5 DEF SerialInv, Hinted
    <3>2. CASE CurrentHint(key) = NoHint
      <4>1. ~(Len(LocalStamps(key)) >= RESERVATION_LIMIT)
        BY <2>1, <3>2 DEF ReservationRefuses
      <4>2. /\ Trimmed(b) = LocalStamps(key) /\ b \in Buckets /\ b \in AllBuckets(key)
            /\ LimitOf(b) = RESERVATION_LIMIT
        BY <1>1, <1>a, <1>9, <3>2 DEF Sides, LimitOf
      <4>3. Len(Trimmed(b)) < LimitOf(b)
        BY <1>2, <4>1, <4>2, LenProperties, LimitsAssumption DEF Instants
      <4>. QED
        BY <1>11, <1>b, <4>2, <4>3
    <3>. QED
      BY <3>1, <3>2
  <2>3. Free(<<tok, "account">>)
    <3>. DEFINE b == <<tok, "account">>
    <3>1. /\ b \in AllBuckets(key) /\ b \in Buckets /\ LimitOf(b) = TOKEN_LIMIT
          /\ Trimmed(b) = TokenStamps(tok)
      BY <1>1, <1>a DEF AllBuckets, Buckets, LimitOf
    <3>2. ~(Len(TokenStamps(tok)) >= TOKEN_LIMIT)
      BY <2>1 DEF TokenRefuses
    <3>. HIDE DEF b
    <3>3. Len(Trimmed(b)) < LimitOf(b)
      BY <1>2, <3>1, <3>2, LenProperties, LimitsAssumption DEF Instants
    <3>4. Free(b)
      BY <1>11, <1>b, <3>1, <3>3
    <3>. QED
      BY <3>4 DEF b
  <2>. QED
    BY <1>1, <2>2, <2>3 DEF Room, AllBuckets
<1>12. Awaited'
  <2>. SUFFICES ASSUME NEW u \in Tasks, task'[u] # NoTask PROVE RoomFor(task[u])'
    BY DEF Awaited
  <2>1. CASE task' = task
    <3>1. RoomFor(task[u]) /\ task'[u] = task[u] /\ task[u] \in Request
      BY <1>1, <2>1 DEF SerialInv, Awaited
    <3>2. <<task[u].tok, task[u].res>> \in Keys
          /\ ReservationBucket(task[u]) \in Sides(<<task[u].tok, task[u].res>>)
      BY <1>1, <3>1, BucketFacts
    <3>3. ReservationBucket(task[u])' = ReservationBucket(task[u])
      BY <1>1, <2>1 DEF ReservationBucket
    <3>4. \A b \in AllBuckets(<<task[u].tok, task[u].res>>) : Free(b)' <=> Free(b)
      BY <1>9, <3>2
    <3>5. Sides(<<task[u].tok, task[u].res>>) \subseteq AllBuckets(<<task[u].tok, task[u].res>>)
      BY <1>9, <3>2
    <3>. QED
      BY <2>1, <3>1, <3>2, <3>3, <3>4, <3>5 DEF RoomFor, Room, Sides, AllBuckets
  <2>2. CASE task' # task
    <3>1. PICK kind \in Kinds, pc \in {"channel", "request"} :
              task'[u] = NewRequest(kind, pc, tok, res)
      BY <1>4, <2>2
    <3>2. /\ task'[u].pc # "answer" /\ task'[u].answer.status = "none"
          /\ <<task'[u].tok, task'[u].res>> = key
      BY <3>1 DEF NewRequest, NoAnswer, key
    <3>3. \A b \in AllBuckets(key) : Free(b)'
      BY <1>1, <1>9, <1>11, <2>2 DEF Room
    <3>4. Room(key)'
      BY <3>3 DEF Room, AllBuckets, Sides
    <3>. QED
      BY <3>2, <3>4 DEF RoomFor
  <2>. QED
    BY <2>1, <2>2
<1>. QED
  BY <1>7, <1>8, <1>10, <1>12 DEF SerialInv

\* The charge of what has been answered closes the account of its buckets; what it
\* leaves of the hint is nothing, or what the answer said.
LEMMA ChargeStep ==
    ASSUME SerialInv, TypeInv', Alone', NEW t \in Tasks,
           task[t] # NoTask, task[t].pc = "answer",
           UNCHANGED <<now, bucketVars>>, task' = [task EXCEPT ![t] = NoTask],
           \/ /\ task[t].answer.status = "ok"
              /\ RecordAndApply(task[t].tok, task[t].res, task[t].answer.headers)
           \/ /\ task[t].answer.status # "ok"
              /\ Record(task[t].tok, task[t].res)
    PROVE  SerialInv'
<1>1. PICK r \in Request : r = task[t] /\ r # NoTask
  BY DEF SerialInv, TypeInv, TypeOK
<1>. DEFINE key == <<r.tok, r.res>>
            b0 == ReservationBucket(r)
            headers == r.answer.headers
<1>2. /\ key \in Keys /\ now \in Nat /\ TypeOK /\ UNCHANGED <<now, served, uncharged, shared>>
      /\ hints \in [Keys -> Hint \cup {NoHint}]
      /\ task \in [Tasks -> Request \cup {NoTask}]
      /\ b0 \in Sides(key) /\ BucketsOf(r) \subseteq AllBuckets(key)
      /\ headers \in Hint \cup {NoHint}
      /\ \A k \in Keys : AllBuckets(k) \subseteq Buckets /\ Sides(k) \subseteq AllBuckets(k)
  BY BucketFacts DEF SerialInv, TypeInv, bucketVars, Request, Answers
<1>3. /\ RoomFor(r)
      /\ \A u \in Tasks : u # t => task[u] = NoTask
      /\ \A u \in Tasks : task'[u] = NoTask
  BY <1>1, <1>2 DEF SerialInv, Awaited, Alone
<1>4. /\ \A b \in Buckets : Owed(b) => b \in AllBuckets(key)
      /\ \A b \in Buckets : ~Owed(b)'
      /\ \A b \in Buckets : (Free(b)' <=> Free(b)) /\ Horizon(b)' = Horizon(b)
  <2>1. \A b \in Buckets : Owed(b) => b \in AllBuckets(key)
    BY <1>1, <1>2, <1>3 DEF Owed, Owes
  <2>2. \A b \in Buckets : ~Owed(b)'
    BY <1>3 DEF Owed, Owes
  <2>3. \A b \in Buckets : (Free(b)' <=> Free(b)) /\ Horizon(b)' = Horizon(b)
    BY <1>2 DEF Free, Horizon, Disturbed
  <2>. QED
    BY <2>1, <2>2, <2>3
<1>5. /\ hints'[key] = IF r.answer.status = "ok" /\ headers # NoHint THEN headers
                       ELSE HintAfterRecord(key)
      /\ \A k \in Keys : k # key => hints'[k] = hints[k]
  BY <1>1, <1>2 DEF RecordAndApply, Record
<1>a. \A b \in Buckets :
          Ledger(b)' = IF b \in AllBuckets(key) THEN Append(Ledger(b), now) ELSE Ledger(b)
  <2>1. /\ reservation \in [Keys -> Seq(Nat)] /\ token \in [Tokens -> Seq(Nat)]
        /\ r.tok \in Tokens /\ r.res \in Reservations
    BY DEF SerialInv, TypeInv, TypeOK, TrackerTypeOK, Request
  <2>2. /\ reservation' = [reservation EXCEPT ![key] = Append(@, now)]
        /\ token' = [token EXCEPT ![r.tok] = Append(@, now)]
    BY <1>1 DEF RecordAndApply, Record
  <2>. TAKE b \in Buckets
  <2>3. CASE b[2] = "account"
    <3>1. b[1] \in Tokens /\ b = <<b[1], "account">>
      BY <2>3 DEF Buckets
    <3>2. b \in AllBuckets(key) <=> b[1] = r.tok
      BY <2>3, <3>1 DEF AllBuckets, Sides
    <3>. QED
      BY <2>1, <2>2, <2>3, <3>1, <3>2 DEF Ledger
  <2>4. CASE b[2] # "account"
    <3>1. b[1] \in Keys /\ (b = <<b[1], "read">> \/ b = <<b[1], "write">>)
      BY <2>4 DEF Buckets
    <3>2. b \in AllBuckets(key) <=> b[1] = key
      BY <2>4, <3>1 DEF AllBuckets, Sides
    <3>. QED
      BY <1>2, <2>1, <2>2, <2>4, <3>1, <3>2 DEF Ledger
  <2>. QED
    BY <2>3, <2>4
<1>6. \A b \in Buckets :
          /\ InTime(served[b], now) /\ Len(served[b]) <= LimitOf(b)
          /\ Instants(served[b]) /\ Instants(Ledger(b)) /\ InTime(Ledger(b), now)
          /\ \E lag \in 0..1 : /\ lag = 1 => Owed(b)
                               /\ Covers(Ledger(b), served[b], lag, Horizon(b))
  BY <1>2, BucketFacts DEF SerialInv, Recorded, Accounted
<1>. HIDE DEF key, b0, headers
<1>8. \A b \in Buckets : Covers(Ledger(b)', served[b], 0, Horizon(b))
                         /\ InTime(Ledger(b)', now)
  <2>. TAKE b \in Buckets
  <2>1. PICK lag \in 0..1 : /\ lag = 1 => Owed(b)
                            /\ Covers(Ledger(b), served[b], lag, Horizon(b))
    BY <1>6
  <2>2. CASE b \in AllBuckets(key)
    <3>1. Instants(Ledger(b)) /\ Instants(served[b])
          /\ InTime(Ledger(b), now) /\ InTime(served[b], now)
          /\ Ledger(b)' = Append(Ledger(b), now)
      BY <1>a, <1>6, <2>2
    <3>. QED
      BY <1>2, <2>1, <3>1, ChargeCovers
  <2>3. CASE b \notin AllBuckets(key)
    <3>1. ~Owed(b)
      BY <1>4, <2>3
    <3>2. lag = 0
      BY <2>1, <3>1
    <3>. QED
      BY <1>a, <1>6, <2>1, <2>3, <3>2
  <2>. QED
    BY <2>2, <2>3
<1>9. Accounted'
  BY <1>2, <1>4, <1>8 DEF Accounted
<1>10. Recorded'
  <2>. SUFFICES ASSUME NEW b \in Buckets
                PROVE  InTime(Ledger(b)', now) /\ InTime(served[b], now)
                       /\ Len(served[b]) <= LimitOf(b)
    BY <1>2 DEF Recorded
  <2>. QED
    BY <1>6, <1>8
<1>12. Hinted'
  <2>. SUFFICES ASSUME NEW k \in Keys, hints'[k] # NoHint
                PROVE  /\ hints'[k].remaining <= 1
                       /\ hints'[k].remaining = 1 => \A b \in Sides(k) : Free(b)'
    BY DEF Hinted
  <2>0. \A b \in Sides(k) : b \in Buckets /\ (Free(b)' <=> Free(b))
    BY <1>2, <1>4
  <2>1. CASE k # key
    <3>1. \A b \in Sides(k) : b \notin AllBuckets(key)
      BY <2>1 DEF Sides, AllBuckets
    <3>2. \A b \in Sides(k) : ~Owed(b)
      BY <1>4, <2>0, <3>1
    <3>3. hints'[k] = hints[k]
      BY <1>5, <2>1
    <3>. QED
      BY <2>0, <3>2, <3>3 DEF SerialInv, Hinted
  <2>2. CASE k = key /\ r.answer.status = "ok" /\ headers # NoHint
    <3>1. /\ hints'[k] = headers /\ headers.remaining <= 1
          /\ \A b \in Sides(key) : b # b0 => Free(b)
          /\ headers.remaining = 1 => Free(b0)
      BY <1>1, <1>3, <1>5, <2>2 DEF RoomFor, key, b0, headers
    <3>. QED
      BY <2>0, <2>2, <3>1
  <2>3. CASE k = key /\ ~(r.answer.status = "ok" /\ headers # NoHint)
    <3>1. hints[k] # NoHint /\ hints'[k] = [hints[k] EXCEPT !.remaining = @ - 1]
      BY <1>5, <2>3 DEF HintAfterRecord
    <3>2. hints[k] \in Hint /\ hints[k].remaining <= 1
      BY <1>2, <3>1 DEF SerialInv, Hinted
    <3>3. hints'[k].remaining = hints[k].remaining - 1 /\ hints[k].remaining \in Int
      BY <3>1, <3>2 DEF Hint
    <3>. QED
      BY <3>2, <3>3
  <2>. QED
    BY <2>1, <2>2, <2>3
<1>13. Awaited'
  BY <1>3 DEF Awaited
<1>. QED
  BY <1>9, <1>10, <1>12, <1>13 DEF SerialInv


\* Upstream takes from a bucket what the caller will charge, or what it holds
\* against it for a window, and says only of what it has left.
LEMMA ServeStep ==
    ASSUME RESERVATION_LIMIT <= 2,
           SerialInv, TypeInv', Alone', NEW t \in Tasks, Serve(t)
    PROVE  SerialInv'
<1>1. PICK r \in Request : r = task[t] /\ r # NoTask /\ r.pc = "request"
  BY DEF SerialInv, TypeInv, TypeOK, Serve
<1>b. PICK b0, B : b0 = ReservationBucket(r) /\ B = BucketsOf(r)
  OBVIOUS
<1>. DEFINE key == <<r.tok, r.res>>
            More(b) == IF Len(served[b]) < LimitOf(b) THEN Append(served[b], now)
                       ELSE Append(Tail(served[b]), now)
<1>2. /\ key \in Keys /\ TypeOK /\ now \in Nat /\ task \in [Tasks -> Request \cup {NoTask}]
      /\ b0 \in Sides(key) /\ b0 \in B /\ B \subseteq AllBuckets(key)
      /\ \A k \in Keys : AllBuckets(k) \subseteq Buckets /\ Sides(k) \subseteq AllBuckets(k)
      /\ LimitOf(b0) = RESERVATION_LIMIT /\ RESERVATION_LIMIT \in Nat \ {0}
  BY <1>b, BucketFacts, LimitsAssumption
     DEF SerialInv, TypeInv, LimitOf, ReservationBucket
<1>0. UNCHANGED <<now, reservation, token, hints, shared>>
  BY DEF Serve, trackerVars
<1>3. /\ r.answer.status = "none" /\ Room(key)
      /\ \A u \in Tasks : u # t => task[u] = NoTask
  BY <1>1, <1>2 DEF SerialInv, Awaited, Alone, RoomFor
<1>4. \A b \in Buckets : ~Owed(b)
  BY <1>1, <1>3 DEF Owed, Owes
<1>5. ASSUME NEW status, NEW headers, NEW wait, Answered(t, status, headers, wait)
      PROVE  \E q : /\ task' = [task EXCEPT ![t] = q]
                    /\ q.tok = r.tok /\ q.res = r.res /\ q.kind = r.kind
                    /\ q.pc = "answer" /\ q.answer.status = status
                    /\ q.answer.headers = headers
  <2>. DEFINE answer == [status |-> status, headers |-> headers, retry_after |-> wait]
              q == [r EXCEPT !.pc = "answer", !.answer = answer]
  <2>1. task' = [task EXCEPT ![t] = q]
    BY <1>1, <1>2, <1>5 DEF Answered
  <2>2. /\ q.tok = r.tok /\ q.res = r.res /\ q.kind = r.kind
        /\ q.pc = "answer" /\ q.answer = answer
    BY <1>1 DEF Request
  <2>. HIDE DEF q, answer
  <2>3. q.answer.status = status /\ q.answer.headers = headers
    BY <2>2 DEF answer
  <2>. QED
    BY <2>1, <2>2, <2>3
<1>. DEFINE Outcome(q, status, headers) ==
                /\ task'[t] = q /\ \A u \in Tasks : u # t => task'[u] = NoTask
                /\ <<q.tok, q.res>> = key /\ q.kind = r.kind
                /\ q.pc = "answer" /\ q.answer.status = status /\ q.answer.headers = headers
            \* nothing spent; spent and to be charged; spent and never charged
            Unspent == served' = served /\ uncharged' = uncharged
            WillCharge(status) == /\ status = "ok" \/ r.kind = "read"
                                /\ \A b \in Buckets : uncharged'[b] = uncharged[b]
            Lost(status) == /\ status # "ok"
                            /\ \A b \in Buckets : uncharged'[b] = IF b \in B THEN now
                                                                  ELSE uncharged[b]
            Told(headers) == headers # NoHint => headers.remaining = Left(b0) - 1
            SpentAll == \A b \in Buckets :
                            served'[b] = IF b \in B THEN More(b) ELSE served[b]
<1>6. ASSUME NEW status, NEW headers, NEW wait, Answered(t, status, headers, wait)
      PROVE  \E q : Outcome(q, status, headers)
  BY <1>1, <1>2, <1>3, <1>5, <1>6
<1>7. PICK status, headers :
          /\ \E q : Outcome(q, status, headers)
          /\ status = "ok" => Told(headers)
          /\ \/ Unspent /\ status # "ok"
             \/ SpentAll /\ (WillCharge(status) \/ Lost(status))
  <2>0. /\ ReservationBucket(task[t]) = b0 /\ BucketsOf(task[t]) = B /\ task[t] = r
        /\ Spend(B) => SpentAll
    BY <1>1, <1>b DEF Spend
  <2>1. CASE Accept(t)
    <3>1. PICK resets :
              \E headers \in {NoHint} \cup
                   [remaining : {Left(b0) - 1}, reset_at : {NoReset} \cup resets] :
                 Answered(t, "ok", headers, 0)
      BY <2>0, <2>1 DEF Accept
    <3>2. PICK headers \in {NoHint} \cup
                   [remaining : {Left(b0) - 1}, reset_at : {NoReset} \cup resets] :
                 Answered(t, "ok", headers, 0)
      BY <3>1
    <3>3. Told(headers)
      OBVIOUS
    <3>4. \E q : Outcome(q, "ok", headers)
      BY <1>6, <3>2
    <3>5. Spend(B) /\ uncharged' = uncharged
      BY <2>0, <2>1 DEF Accept
    <3>. HIDE DEF Outcome, SpentAll, Told
    <3>. QED
      BY <2>0, <3>3, <3>4, <3>5
  <2>2. CASE Fail(t)
    <3>1. PICK status \in {"throttled", "failed"} : \E wait : Answered(t, status, NoHint, wait)
      BY <2>2 DEF Fail, Refuse
    <3>2. \E q : Outcome(q, status, NoHint)
      BY <1>6, <3>1
    <3>3. \/ Unspent
          \/ /\ Spend(B)
             /\ uncharged' = [b \in Buckets |-> IF b \in B /\ r.kind # "read"
                                                THEN now ELSE uncharged[b]]
      BY <2>0, <2>2 DEF Fail
    <3>4. status # "ok"
      BY <3>1
    <3>5. Unspent \/ (SpentAll /\ (WillCharge(status) \/ Lost(status)))
      <4>1. CASE r.kind = "read"
        <5>. HIDE DEF SpentAll
        <5>. QED
          BY <2>0, <3>3, <4>1
      <4>2. CASE r.kind # "read"
        <5>. HIDE DEF SpentAll
        <5>. QED
          BY <2>0, <3>3, <3>4, <4>2
      <4>. QED
        BY <4>1, <4>2
    <3>. HIDE DEF Outcome, Unspent, SpentAll, WillCharge, Lost, Told
    <3>. QED
      BY <3>2, <3>4, <3>5
  <2>. QED
    BY <2>1, <2>2 DEF Serve
<1>8. PICK q : Outcome(q, status, headers)
  BY <1>7
<1>. DEFINE owed == status = "ok" \/ r.kind = "read"
<1>9. /\ ReservationBucket(q)' = b0 /\ BucketsOf(q)' = B
      /\ task'[t] = q /\ q # NoTask
      /\ \A b \in Buckets : Owed(b)' <=> (owed /\ b \in B)
  <2>1. ReservationBucket(q)' = b0 /\ BucketsOf(q)' = B /\ task'[t] = q
    BY <1>0, <1>8, <1>b DEF ReservationBucket, BucketsOf
  <2>2. q # NoTask
    <3>1. PICK answer \in Answers :
              task' = [task EXCEPT ![t].pc = "answer", ![t].answer = answer]
      BY ServeType DEF SerialInv
    <3>2. task'[t] = [r EXCEPT !.pc = "answer", !.answer = answer]
      BY <1>1, <1>2, <3>1
    <3>3. task'[t] \in Request
      BY <1>1, <3>2 DEF Request
    <3>. QED
      BY <2>1, <3>3, NoRequestAssumption
  <2>3. \A b \in Buckets : Owes(task[t], b)' <=> (owed /\ b \in B)
    BY <1>8, <2>1, <2>2 DEF Owes, BucketsOf
  <2>4. \A b \in Buckets : Owed(b)' <=> Owes(task[t], b)'
    BY <1>8 DEF Owed, Owes
  <2>. QED
    BY <2>1, <2>2, <2>3, <2>4
<1>. DEFINE Kept(b) == served'[b] = served[b] /\ uncharged'[b] = uncharged[b]
            Counted(b) == /\ b \in B /\ served'[b] = More(b)
                          /\ uncharged'[b] = uncharged[b] /\ Owed(b)'
            Held(b) == /\ b \in B /\ served'[b] = More(b) /\ uncharged'[b] = now
<1>10. ASSUME NEW b \in Buckets
       PROVE  Kept(b) \/ Counted(b) \/ Held(b)
  <2>1. CASE Unspent
    BY <2>1
  <2>2. CASE SpentAll /\ (WillCharge(status) \/ Lost(status))
    <3>1. CASE b \notin B
      <4>. HIDE DEF More
      <4>. QED
        BY <1>7, <2>2, <3>1
    <3>2. CASE b \in B /\ WillCharge(status)
      <4>. HIDE DEF More
      <4>. QED
        BY <1>9, <2>2, <3>2
    <3>3. CASE b \in B /\ Lost(status)
      <4>. HIDE DEF More
      <4>. QED
        BY <2>2, <3>3
    <3>. HIDE DEF Kept, Counted, Held
    <3>. QED
      BY <1>7, <2>2, <3>1, <3>2, <3>3
  <2>. HIDE DEF Unspent, SpentAll, Kept, Counted, Held, WillCharge, Lost
  <2>. QED
    BY <1>7, <2>1, <2>2
<1>. HIDE DEF Outcome, Unspent, SpentAll, WillCharge, Lost, key
<1>11. ASSUME NEW b \in Buckets
       PROVE  /\ InTime(served'[b], now) /\ Len(served'[b]) <= LimitOf(b)
              /\ Covers(Ledger(b), served'[b], IF Owed(b)' THEN 1 ELSE 0, Horizon(b)')
              /\ Free(b) => Free(b)' \/ Owed(b)'
              /\ b \notin B => (Free(b) => Free(b)')
              /\ /\ LimitOf(b) = 2 /\ Counted(b)
                 /\ \A i \in 1..Len(served[b]) : served[b][i] <= Horizon(b)
                 => Free(b)'
  <2>1. /\ Instants(served[b]) /\ Instants(Ledger(b)) /\ LimitOf(b) \in Nat \ {0}
        /\ WindowOf(b) \in Nat \ {0} /\ Horizon(b) \in Int
        /\ InTime(served[b], now) /\ Len(served[b]) <= LimitOf(b) /\ InTime(Ledger(b), now)
        /\ Covers(Ledger(b), served[b], 0, Horizon(b))
    BY <1>2, <1>4, BucketFacts DEF SerialInv, Recorded, Accounted
  <2>2. now' = now
    BY <1>0
  <2>3. CASE Kept(b)
    <3>1. Horizon(b)' = Horizon(b) /\ (Free(b)' <=> Free(b)) /\ served'[b] = served[b]
      BY <2>2, <2>3 DEF Horizon, Disturbed, Free
    <3>2. Covers(Ledger(b), served[b], 1, Horizon(b))
      BY <2>1, OwedCovers
    <3>3. Covers(Ledger(b), served'[b], IF Owed(b)' THEN 1 ELSE 0, Horizon(b)')
      <4>1. CASE Owed(b)'
        BY <3>1, <3>2, <4>1
      <4>2. CASE ~Owed(b)'
        BY <2>1, <3>1, <4>2
      <4>. QED
        BY <4>1, <4>2
    <3>4. Counted(b) /\ (\A i \in 1..Len(served[b]) : served[b][i] <= Horizon(b)) => Free(b)
      <4>. SUFFICES ASSUME Counted(b), \A i \in 1..Len(served[b]) : served[b][i] <= Horizon(b)
                    PROVE  Free(b)
        OBVIOUS
      <4>1. Len(served[b]) \in Nat
        BY <2>1, LenProperties DEF Instants
      <4>2. CASE Len(served[b]) < LimitOf(b)
        BY <4>2 DEF Free, FreeAt
      <4>3. CASE ~(Len(served[b]) < LimitOf(b))
        <5>1. 1 \in 1..Len(served[b])
          BY <2>1, <4>1, <4>3
        <5>. QED
          BY <5>1 DEF Free, FreeAt
      <4>. QED
        BY <4>2, <4>3
    <3>. QED
      BY <2>1, <3>1, <3>3, <3>4
  <2>4. /\ InTime(More(b), now) /\ Len(More(b)) <= LimitOf(b) /\ Instants(More(b))
        /\ Covers(Ledger(b), More(b), 1, Horizon(b))
        /\ LimitOf(b) = 2 /\ (\A i \in 1..Len(served[b]) : served[b][i] <= Horizon(b))
              => FreeAt(More(b), LimitOf(b), Horizon(b))
    <3>1. Instants(More(b))
      <4>1. Len(served[b]) \in Nat /\ served[b] \in Seq(Nat)
        BY <2>1, LenProperties DEF Instants
      <4>2. CASE Len(served[b]) < LimitOf(b)
        BY <1>2, <4>1, <4>2, AppendProperties DEF Instants
      <4>3. CASE ~(Len(served[b]) < LimitOf(b))
        <5>1. served[b] # << >>
          BY <2>1, <4>1, <4>3, EmptySeq
        <5>2. Tail(served[b]) \in Seq(Nat)
          BY <4>1, <5>1, HeadTailProperties
        <5>. QED
          BY <1>2, <4>3, <5>2, AppendProperties DEF Instants
      <4>. QED
        BY <4>2, <4>3
    <3>. QED
      BY <1>2, <2>1, <3>1, ServedOneMore
  <2>5. CASE Counted(b)
    <3>1. Horizon(b)' = Horizon(b) /\ served'[b] = More(b) /\ Owed(b)' /\ b \in B
      BY <2>2, <2>5 DEF Horizon, Disturbed
    <3>. HIDE DEF More
    <3>2. FreeAt(More(b), LimitOf(b), Horizon(b)) => Free(b)'
      BY <3>1 DEF Free
    <3>. QED
      BY <2>4, <3>1, <3>2
  <2>6. CASE Held(b)
    <3>. HIDE DEF More
    <3>1. Horizon(b)' = now /\ served'[b] = More(b) /\ b \in B
      <4>1. uncharged'[b] = now /\ now # Never /\ now - now < WindowOf(b)
        BY <1>2, <2>1, <2>6, TrafficAssumption
      <4>. QED
        BY <2>2, <2>6, <4>1 DEF Horizon, Disturbed
    <3>2. Len(More(b)) \in Nat /\ \A k \in 1..Len(More(b)) : More(b)[k] \in Nat
      BY <2>4, LenProperties, ElementOfSeq DEF Instants
    <3>3. \A k \in 1..Len(More(b)) : More(b)[k] <= now
      BY <2>4 DEF InTime
    <3>4. FreeAt(More(b), LimitOf(b), now)
      <4>1. CASE Len(More(b)) < LimitOf(b)
        BY <4>1 DEF FreeAt
      <4>2. CASE ~(Len(More(b)) < LimitOf(b))
        <5>1. 1 \in 1..Len(More(b))
          BY <2>1, <3>2, <4>2
        <5>. QED
          BY <3>3, <5>1 DEF FreeAt
      <4>. QED
        BY <4>1, <4>2
    <3>5. \A lag : Covers(Ledger(b), More(b), lag, now)
      <4>1. \A k \in 1..Len(More(b)) : ~(More(b)[k] > now)
        BY <1>2, <3>2, <3>3
      <4>. QED
        BY <4>1 DEF Covers
    <3>6. Free(b)'
      BY <3>1, <3>4 DEF Free
    <3>. QED
      BY <2>4, <3>1, <3>5, <3>6
  <2>. HIDE DEF Kept, Counted, Held
  <2>. QED
    BY <1>10, <2>3, <2>5, <2>6
<1>12. \A b \in Buckets : Ledger(b)' = Ledger(b)
  BY <1>0 DEF Ledger
<1>13. Recorded'
  <2>. SUFFICES ASSUME NEW b \in Buckets
                PROVE  InTime(Ledger(b)', now) /\ InTime(served'[b], now)
                       /\ Len(served'[b]) <= LimitOf(b)
    BY <1>0 DEF Recorded
  <2>1. Ledger(b)' = Ledger(b) /\ InTime(Ledger(b), now)
    BY <1>12 DEF SerialInv, Recorded
  <2>. QED
    BY <1>11, <2>1
<1>14. Accounted'
  <2>. SUFFICES ASSUME NEW b \in Buckets
                PROVE  Covers(Ledger(b)', served'[b], IF Owed(b)' THEN 1 ELSE 0, Horizon(b)')
    BY DEF Accounted
  <2>1. Ledger(b)' = Ledger(b)
    BY <1>12
  <2>2. Covers(Ledger(b), served'[b], IF Owed(b)' THEN 1 ELSE 0, Horizon(b)')
    BY <1>11
  <2>. QED
    BY <2>1, <2>2
<1>15. Hinted'
  <2>. SUFFICES ASSUME NEW k \in Keys, hints[k] # NoHint
                PROVE  /\ hints[k].remaining <= 1
                       /\ hints[k].remaining = 1 =>
                             (\A b \in Sides(k) : Free(b)') \/ \E b \in Sides(k) : Owed(b)'
    BY <1>0 DEF Hinted
  <2>1. Sides(k) \subseteq Buckets
    BY <1>2
  <2>2. /\ hints[k].remaining <= 1
        /\ hints[k].remaining = 1 => \A b \in Sides(k) : Free(b)
    BY <1>4, <2>1 DEF SerialInv, Hinted
  <2>3. \A b \in Sides(k) : Free(b) => Free(b)' \/ Owed(b)'
    BY <1>11, <2>1
  <2>. QED
    BY <2>2, <2>3
<1>16. Awaited'
  <2>1. q.tok = task'[t].tok /\ q.pc = "answer" /\ q.answer.status = status
        /\ q.answer.headers = headers /\ <<q.tok, q.res>> = key
        /\ \A u \in Tasks : u # t => task'[u] = NoTask
    BY <1>8, <1>9 DEF Outcome
  <2>2. ASSUME status = "ok", NEW b \in Sides(key), b # b0 PROVE Free(b)'
    <3>1. b \in Buckets /\ Free(b) /\ b \in AllBuckets(key)
      BY <1>2, <1>3 DEF Room
    <3>2. b \notin B
      BY <1>b, <2>2 DEF BucketsOf, Sides, key
    <3>. QED
      BY <1>11, <3>1, <3>2
  <2>3. ASSUME status = "ok", headers # NoHint
        PROVE  headers.remaining <= 1 /\ (headers.remaining = 1 => Free(b0)')
    <3>1. b0 \in Buckets
      BY <1>2
    <3>2. /\ Left(b0) \in Int /\ Left(b0) <= RESERVATION_LIMIT
          /\ Left(b0) = RESERVATION_LIMIT =>
                \A i \in 1..Len(served[b0]) : served[b0][i] <= Horizon(b0)
      BY <1>2, <3>1, LeftWhenFree DEF SerialInv
    <3>3. headers.remaining = Left(b0) - 1
      BY <1>7, <2>3
    <3>4. headers.remaining = 1 => LimitOf(b0) = 2 /\ Left(b0) = RESERVATION_LIMIT
      BY <1>2, <3>2, <3>3
    <3>5. Counted(b0)
      <4>1. SpentAll /\ WillCharge(status)
        BY <1>7, <2>3 DEF Lost
      <4>2. served'[b0] = More(b0) /\ uncharged'[b0] = uncharged[b0]
        <5>. HIDE DEF More
        <5>. QED
          BY <1>2, <3>1, <4>1 DEF SpentAll, WillCharge
      <4>. HIDE DEF More
      <4>. QED
        BY <1>2, <1>9, <2>3, <3>1, <4>2
    <3>6. headers.remaining = 1 => Free(b0)'
      <4>. HIDE DEF Counted
      <4>. QED
        BY <1>11, <3>1, <3>2, <3>4, <3>5
    <3>. QED
      BY <1>2, <3>2, <3>3, <3>6
  <2>4. ReservationBucket(task[t])' = b0 /\ task'[t] = q /\ q # NoTask
    BY <1>9
  <2>5. RoomFor(task[t])'
    <3>1. \A b : b \in Sides(<<q.tok, q.res>>)' <=> b \in Sides(key)
      BY <2>1 DEF Sides
    <3>. QED
      BY <2>1, <2>2, <2>3, <2>4, <3>1 DEF RoomFor
  <2>. QED
    BY <2>1, <2>5 DEF Awaited
<1>. QED
  BY <1>13, <1>14, <1>15, <1>16 DEF SerialInv

\* A request loses no room by a step that leaves it and its buckets no worse off.
LEMMA RoomIsKept ==
    ASSUME TypeOK, UNCHANGED shared,
           NEW u \in Tasks, task'[u] = task[u], task[u] \in Request, RoomFor(task[u]),
           \A b \in Buckets : Free(b) => Free(b)'
    PROVE  RoomFor(task[u])'
<1>. DEFINE key == <<task[u].tok, task[u].res>>
<1>1. /\ key \in Keys /\ ReservationBucket(task[u]) \in Sides(key)
      /\ AllBuckets(key) \subseteq Buckets /\ Sides(key) \subseteq Buckets
  BY BucketFacts
<1>2. PICK r, b0 : r = task[u] /\ b0 = ReservationBucket(r)
  OBVIOUS
<1>3. r = task'[u] /\ ReservationBucket(r)' = b0
  BY <1>2 DEF ReservationBucket
<1>4. \A b \in AllBuckets(key) : Free(b) => Free(b)'
  BY <1>1
<1>5. b0 \in Buckets /\ \A b \in Sides(key) : Free(b) => Free(b)'
  BY <1>1, <1>2
<1>6. ASSUME r.pc # "answer" PROVE r.answer.status = "none" /\ Room(<<r.tok, r.res>>)'
  <2>1. r.answer.status = "none" /\ Room(<<r.tok, r.res>>)
    BY <1>2, <1>6 DEF RoomFor
  <2>2. \A b \in AllBuckets(<<r.tok, r.res>>) : Free(b) => Free(b)'
    BY <1>2, <1>4
  <2>. QED
    BY <2>1, <2>2 DEF Room, AllBuckets, Sides
<1>7. ASSUME r.pc = "answer", r.answer.status = "ok"
      PROVE  /\ \A b \in Sides(<<r.tok, r.res>>) : b # b0 => Free(b)'
             /\ r.answer.headers # NoHint =>
                   /\ r.answer.headers.remaining <= 1
                   /\ r.answer.headers.remaining = 1 => Free(b0)'
  <2>1. /\ \A b \in Sides(<<r.tok, r.res>>) : b # b0 => Free(b)
        /\ r.answer.headers # NoHint =>
              /\ r.answer.headers.remaining <= 1
              /\ r.answer.headers.remaining = 1 => Free(b0)
    BY <1>2, <1>7 DEF RoomFor
  <2>. QED
    BY <1>2, <1>5, <2>1
<1>. QED
  BY <1>3, <1>6, <1>7 DEF RoomFor, Sides

LEMMA TickStep == SerialInv /\ TypeInv' /\ Tick => SerialInv'
<1>. SUFFICES ASSUME SerialInv, TypeInv', Tick PROVE SerialInv'
  OBVIOUS
<1>1. /\ now \in Nat /\ now' \in Nat /\ now <= now' /\ TypeOK
      /\ uncharged \in [Buckets -> Nat \cup {Never}]
      /\ task \in [Tasks -> Request \cup {NoTask}]
      /\ \A k \in Keys : AllBuckets(k) \subseteq Buckets /\ Sides(k) \subseteq AllBuckets(k)
      /\ UNCHANGED <<reservation, token, hints, task, served, uncharged, shared>>
  BY BucketFacts DEF SerialInv, TypeInv, TypeOK, TrackerTypeOK, Tick, trackerVars, bucketVars
<1>2. ASSUME NEW b \in Buckets
      PROVE  (Owed(b)' <=> Owed(b)) /\ Ledger(b)' = Ledger(b)
  BY <1>1 DEF Owed, Owes, BucketsOf, ReservationBucket, Ledger
<1>3. ASSUME NEW b \in Buckets
      PROVE  Horizon(b) \in Int /\ Horizon(b)' \in Int /\ Horizon(b) <= Horizon(b)'
  <2>1. WindowOf(b) \in Nat /\ WindowOf(b)' = WindowOf(b)
        /\ uncharged[b] \in Nat \cup {Never}
    BY <1>1, BucketFacts DEF WindowOf
  <2>2. CASE Disturbed(b)
    <3>1. uncharged[b] \in Nat /\ Horizon(b) = uncharged[b]
      BY <2>1, <2>2 DEF Disturbed, Horizon
    <3>2. CASE Disturbed(b)'
      BY <1>1, <3>1, <3>2 DEF Horizon
    <3>3. CASE ~Disturbed(b)'
      <4>1. ~(now' - uncharged[b] < WindowOf(b))
        BY <1>1, <2>1, <2>2, <3>3 DEF Disturbed
      <4>2. Horizon(b)' = now' - WindowOf(b)
        BY <2>1, <3>3 DEF Horizon
      <4>. QED
        BY <1>1, <2>1, <3>1, <4>1, <4>2
    <3>. QED
      BY <3>2, <3>3
  <2>3. CASE ~Disturbed(b)
    <3>1. ~Disturbed(b)'
      BY <1>1, <2>1, <2>3 DEF Disturbed
    <3>2. Horizon(b) = now - WindowOf(b) /\ Horizon(b)' = now' - WindowOf(b)
      BY <2>1, <2>3, <3>1 DEF Horizon
    <3>. QED
      BY <1>1, <2>1, <3>2
  <2>. QED
    BY <2>2, <2>3
<1>4. ASSUME NEW b \in Buckets
      PROVE  /\ Free(b) => Free(b)'
             /\ \A lag \in 0..1 : Covers(Ledger(b), served[b], lag, Horizon(b))
                                     => Covers(Ledger(b), served[b], lag, Horizon(b)')
  <2>1. Instants(served[b]) /\ LimitOf(b) \in Nat \ {0}
    BY <1>1, BucketFacts
  <2>2. PICK g \in Int : g = Horizon(b)' /\ Horizon(b) <= g
    BY <1>3
  <2>3. Free(b)' <=> FreeAt(served[b], LimitOf(b), g)
    BY <1>1, <2>2 DEF Free, LimitOf
  <2>. QED
    BY <1>3, <2>1, <2>2, <2>3, LaterIsFreer DEF Free
<1>5. Recorded'
  <2>. SUFFICES ASSUME NEW b \in Buckets
                PROVE  InTime(Ledger(b)', now') /\ InTime(served[b], now')
                       /\ Len(served[b]) <= LimitOf(b)
    BY <1>1 DEF Recorded, LimitOf
  <2>1. /\ Instants(served[b]) /\ Instants(Ledger(b)) /\ Ledger(b)' = Ledger(b)
        /\ InTime(Ledger(b), now) /\ InTime(served[b], now) /\ Len(served[b]) <= LimitOf(b)
    BY <1>1, <1>2, BucketFacts DEF SerialInv, Recorded
  <2>. QED
    BY <1>1, <2>1, InTimeLater
<1>6. Accounted'
  <2>. SUFFICES ASSUME NEW b \in Buckets
                PROVE  Covers(Ledger(b)', served[b], IF Owed(b)' THEN 1 ELSE 0, Horizon(b)')
    BY <1>1 DEF Accounted
  <2>. DEFINE lag == IF Owed(b) THEN 1 ELSE 0
  <2>1. Covers(Ledger(b), served[b], lag, Horizon(b)) /\ lag \in 0..1
    BY DEF SerialInv, Accounted
  <2>2. (IF Owed(b)' THEN 1 ELSE 0) = lag /\ Ledger(b)' = Ledger(b)
    BY <1>2
  <2>. HIDE DEF lag
  <2>3. Covers(Ledger(b), served[b], lag, Horizon(b)')
    BY <1>4, <2>1
  <2>. QED
    BY <2>2, <2>3
<1>7. Hinted'
  <2>. SUFFICES ASSUME NEW k \in Keys, hints[k] # NoHint
                PROVE  /\ hints[k].remaining <= 1
                       /\ hints[k].remaining = 1 =>
                             (\A b \in Sides(k) : Free(b)') \/ \E b \in Sides(k) : Owed(b)'
    BY <1>1 DEF Hinted
  <2>1. \A b \in Sides(k) : (Free(b) => Free(b)') /\ (Owed(b) => Owed(b)')
    BY <1>1, <1>2, <1>4
  <2>2. /\ hints[k].remaining <= 1
        /\ hints[k].remaining = 1 =>
              (\A b \in Sides(k) : Free(b)) \/ \E b \in Sides(k) : Owed(b)
    BY DEF SerialInv, Hinted
  <2>. QED
    BY <2>1, <2>2
<1>8. ASSUME NEW u \in Tasks, task[u] # NoTask PROVE RoomFor(task[u])'
  <2>1. RoomFor(task[u]) /\ task'[u] = task[u] /\ task[u] \in Request
    BY <1>1, <1>8 DEF SerialInv, Awaited
  <2>2. <<task[u].tok, task[u].res>> \in Keys
        /\ ReservationBucket(task[u]) \in Sides(<<task[u].tok, task[u].res>>)
    BY <1>1, <2>1, BucketFacts
  <2>. QED
    BY <1>1, <1>4, <2>1, <2>2, RoomIsKept
<1>9. Awaited'
  BY <1>1, <1>8 DEF Awaited
<1>. QED
  BY <1>1, <1>5, <1>6, <1>7, <1>9 DEF SerialInv, Alone

LEMMA SerialInit == Init => SerialInv
<1>. SUFFICES ASSUME Init PROVE SerialInv
  OBVIOUS
<1>1. TypeInv
  BY InitType
<1>2. << >> \in Seq(Nat) /\ Len(<< >>) = 0
  BY EmptySeq
<1>3. InTime(<< >>, now) /\ \A h : Covers(<< >>, << >>, 0, h)
  BY <1>2 DEF InTime, Covers
<1>4. \A t \in Tasks : task[t] = NoTask
  BY DEF Init
<1>5. \A b \in Buckets : ~Owed(b) /\ served[b] = << >> /\ Ledger(b) = << >>
                         /\ LimitOf(b) \in Nat \ {0}
  <2>. TAKE b \in Buckets
  <2>1. Ledger(b) = << >>
    BY DEF Init, TrackerInit, Ledger, Buckets
  <2>. QED
    BY <1>1, <1>4, <2>1, BucketFacts DEF Init, Owed, Owes, TypeInv
<1>6. \A key \in Keys : hints[key] = NoHint
  BY DEF Init, TrackerInit
<1>7. Recorded
  BY <1>2, <1>3, <1>5 DEF Recorded
<1>8. Accounted
  BY <1>3, <1>5 DEF Accounted
<1>. QED
  BY <1>1, <1>4, <1>6, <1>7, <1>8 DEF SerialInv, Alone, Hinted, Awaited

\* A step after which one call or update is under way leaves one request.
LEMMA StillAlone ==
    ASSUME TypeInv', OneAtATime'
    PROVE  Alone'
<1>. DEFINE busy == {c \in Callers : task'[c] # NoTask} \cup {e \in Pollers : cycle'[e] # NoCycle}
<1>1. IsFiniteSet(busy) /\ Cardinality(busy) <= 1
  <2>1. busy \in SUBSET Tasks /\ IsFiniteSet(Tasks)
    <3>1. IsFiniteSet(Callers) /\ IsFiniteSet(Pollers)
      BY TrafficAssumption
    <3>2. IsFiniteSet(Tasks)
      BY <3>1, FS_Union DEF Tasks
    <3>. QED
      BY <3>2 DEF Tasks
  <2>2. IsFiniteSet(busy)
    BY <2>1, FS_Subset
  <2>. QED
    BY <2>2 DEF OneAtATime
<1>2. \A t \in Tasks : task'[t] # NoTask => t \in busy
  BY DEF TypeInv, PollsAreCycles, Tasks
<1>. HIDE DEF busy
<1>3. \A t, u \in Tasks : task'[t] # NoTask /\ task'[u] # NoTask => t = u
  BY <1>1, <1>2, AtMostOne
<1>. QED
  BY <1>3 DEF Alone

\* Nobody is served, and a request that is dropped owes nothing.
LEMMA ReplaceStep ==
    ASSUME SerialInv, TypeInv', Alone',
           UNCHANGED <<now, reservation, token, hints, bucketVars>>,
           \/ task' = task
           \/ \E t \in Tasks : /\ task[t] # NoTask /\ \A b : ~Owes(task[t], b)
                               /\ task' = [task EXCEPT ![t] = NoTask]
           \/ \E t \in Tasks : /\ task[t] # NoTask /\ task[t].pc = "channel"
                               /\ task' = [task EXCEPT ![t].pc = "request"]
    PROVE  SerialInv'
<1>1. /\ task \in [Tasks -> Request \cup {NoTask}] /\ TypeOK
      /\ \A t \in Tasks : task[t] # NoTask => RoomFor(task[t])
      /\ UNCHANGED <<now, served, uncharged, shared>>
  BY DEF SerialInv, TypeInv, TypeOK, Awaited, bucketVars
<1>2. ASSUME NEW b \in Buckets PROVE Free(b)' <=> Free(b)
  BY <1>1 DEF Free, Horizon, Disturbed
<1>3. ASSUME NEW u \in Tasks, task[u] # NoTask, task'[u] = task[u]
      PROVE  RoomFor(task[u])'
  <2>1. task[u] \in Request /\ RoomFor(task[u])
    BY <1>1, <1>3
  <2>. QED
    BY <1>1, <1>2, <1>3, <2>1, RoomIsKept
<1>4. ASSUME NEW u \in Tasks, task[u] # NoTask, task[u].pc = "channel",
             task' = [task EXCEPT ![u].pc = "request"]
      PROVE  task'[u].pc = "request" /\ RoomFor(task[u])'
  <2>1. PICK r \in Request : r = task[u] /\ RoomFor(r) /\ r.pc = "channel"
    BY <1>1, <1>4
  <2>2. PICK q : task'[u] = q /\ q = [r EXCEPT !.pc = "request"]
    BY <1>1, <1>4, <2>1
  <2>3. /\ q.pc = "request" /\ q.tok = r.tok /\ q.res = r.res /\ q.answer = r.answer
    BY <2>2 DEF Request
  <2>4. r.answer.status = "none" /\ Room(<<r.tok, r.res>>) /\ <<r.tok, r.res>> \in Keys
    BY <1>1, <2>1, BucketFacts DEF RoomFor
  <2>5. \A b \in AllBuckets(<<r.tok, r.res>>) : Free(b)'
    <3>1. AllBuckets(<<r.tok, r.res>>) \subseteq Buckets
      BY <1>1, <2>4, BucketFacts
    <3>. QED
      BY <1>2, <2>4, <3>1 DEF Room
  <2>6. Room(<<r.tok, r.res>>)'
    BY <2>5 DEF Room, AllBuckets, Sides
  <2>. QED
    BY <2>2, <2>3, <2>4, <2>6 DEF RoomFor
<1>5. Awaited'
  <2>. SUFFICES ASSUME NEW u \in Tasks, task'[u] # NoTask PROVE RoomFor(task[u])'
    BY DEF Awaited
  <2>1. \/ task'[u] = task[u]
        \/ task[u] # NoTask /\ task[u].pc = "channel" /\ task' = [task EXCEPT ![u].pc = "request"]
    BY <1>1
  <2>. QED
    BY <1>3, <1>4, <2>1
<1>6. ASSUME NEW b \in Buckets PROVE Owed(b)' <=> Owed(b)
  <2>1. ASSUME NEW u \in Tasks PROVE Owes(task[u], b)' <=> Owes(task[u], b)
    <3>1. CASE task'[u] = task[u]
      BY <1>1, <3>1 DEF Owes, BucketsOf, ReservationBucket
    <3>2. CASE task'[u] = NoTask /\ \A x : ~Owes(task[u], x)
      BY <3>2 DEF Owes
    <3>3. CASE /\ task[u] # NoTask /\ task[u].pc = "channel"
               /\ task' = [task EXCEPT ![u].pc = "request"]
      <4>1. task'[u].pc = "request"
        BY <1>4, <3>3
      <4>. QED
        BY <3>3, <4>1 DEF Owes
    <3>. QED
      BY <1>1, <3>1, <3>2, <3>3
  <2>. QED
    BY <2>1 DEF Owed
<1>. QED
  BY <1>5, <1>6, QuietStep

LEMMA CallerSerial ==
    ASSUME SerialInv, TypeInv', Alone', NEW c \in Callers, CallerNext(c)
    PROVE  SerialInv'
<1>1. c \in Tasks /\ task \in [Tasks -> Request \cup {NoTask}]
  BY DEF SerialInv, TypeInv, TypeOK, Tasks
<1>2. ASSUME NEW tok \in Tokens, NEW res \in Reservations,
             SendMessage(c, tok, res) \/ GetMessages(c, tok, res)
      PROVE  SerialInv'
  <2>1. /\ Check(tok, res) /\ UNCHANGED <<now, bucketVars>>
        /\ \/ task' = task
           \/ /\ CheckPasses(tok, res)
              /\ \E t \in Tasks, kind \in Kinds, pc \in {"channel", "request"} :
                    /\ task[t] = NoTask
                    /\ task' = [task EXCEPT ![t] = NewRequest(kind, pc, tok, res)]
    BY <1>1, <1>2 DEF SendMessage, GetMessages, Kinds
  <2>. QED
    BY <2>1, CheckStep
<1>3. ASSUME AssertAirbnb(c) PROVE SerialInv'
  <2>1. /\ UNCHANGED <<now, reservation, token, hints, bucketVars>>
        /\ task[c] # NoTask /\ task[c].pc = "channel"
        /\ task' = [task EXCEPT ![c].pc = "request"] \/ task' = [task EXCEPT ![c] = NoTask]
    BY <1>3 DEF AssertAirbnb, Awaits, trackerVars
  <2>2. \A b : ~Owes(task[c], b)
    BY <2>1 DEF Owes
  <2>. QED
    BY <1>1, <2>1, <2>2, ReplaceStep
<1>4. ASSUME SendReturns(c) \/ ReadReturns(c) PROVE SerialInv'
  <2>1. /\ task[c] # NoTask /\ task[c].pc = "answer"
        /\ UNCHANGED <<now, bucketVars>> /\ task' = [task EXCEPT ![c] = NoTask]
        /\ \/ /\ task[c].answer.status = "ok"
              /\ RecordAndApply(task[c].tok, task[c].res, task[c].answer.headers)
           \/ /\ task[c].answer.status # "ok"
              /\ \/ Record(task[c].tok, task[c].res)
                 \/ task[c].kind = "send" /\ UNCHANGED trackerVars
    BY <1>4 DEF SendReturns, ReadReturns, Awaits
  <2>2. CASE task[c].answer.status # "ok" /\ task[c].kind = "send" /\ UNCHANGED trackerVars
    <3>1. \A b : ~Owes(task[c], b)
      BY <2>2 DEF Owes
    <3>. QED
      BY <1>1, <2>1, <2>2, <3>1, ReplaceStep DEF trackerVars
  <2>. QED
    BY <1>1, <2>1, <2>2, ChargeStep
<1>. QED
  BY <1>2, <1>3, <1>4 DEF CallerNext

LEMMA PollerSerial ==
    ASSUME SerialInv, TypeInv', Alone', NEW e \in Pollers, PollerNext(e)
    PROVE  SerialInv'
<1>1. /\ e \in Tasks /\ e \in Tokens /\ task \in [Tasks -> Request \cup {NoTask}]
      /\ cycle \in [Pollers -> Cycle \cup {NoCycle}]
      /\ task[e] # NoTask => task[e].tok = e
  BY TrafficAssumption DEF SerialInv, TypeInv, TypeOK, Tasks, PollsAreCycles
<1>2. ASSUME UNCHANGED <<now, trackerVars, bucketVars, task>> PROVE SerialInv'
  BY <1>2, ReplaceStep DEF trackerVars
<1>3. ASSUME Running(e), cycle[e].todo # << >>
      PROVE  NextTarget(e) \in Reservations \cup {NoReservation}
  <2>1. cycle[e].todo \in Seq(Properties) /\ cycle[e].target \in Selection
    BY <1>1, <1>3 DEF Running, Cycle
  <2>2. Head(cycle[e].todo) \in Properties
    BY <1>3, <2>1, HeadTailProperties
  <2>. QED
    BY <2>1, <2>2 DEF NextTarget, Selection
<1>4. ASSUME SkipFetch(e) PROVE SerialInv'
  <2>1. CASE UNCHANGED trackerVars
    BY <1>2, <1>4, <2>1 DEF SkipFetch
  <2>2. CASE NextTarget(e) # NoReservation /\ Check(e, NextTarget(e))
    <3>1. NextTarget(e) \in Reservations
      BY <1>3, <1>4, <2>2 DEF SkipFetch
    <3>2. UNCHANGED <<now, bucketVars, task>>
      BY <1>4 DEF SkipFetch
    <3>. QED
      BY <1>1, <2>2, <3>1, <3>2, CheckStep
  <2>. QED
    BY <1>4, <2>1, <2>2 DEF SkipFetch
<1>5. ASSUME IssueFetch(e) PROVE SerialInv'
  <2>. DEFINE res == NextTarget(e)
  <2>1. res \in Reservations
    BY <1>3, <1>5 DEF IssueFetch
  <2>2. /\ Check(e, res) /\ CheckPasses(e, res) /\ UNCHANGED <<now, bucketVars>>
        /\ task[e] = NoTask
        /\ task' = [task EXCEPT ![e] = NewRequest("poll", "request", e, res)]
    BY <1>5 DEF IssueFetch, Running
  <2>. HIDE DEF res
  <2>3. \E t \in Tasks, kind \in Kinds, pc \in {"channel", "request"} :
            /\ task[t] = NoTask
            /\ task' = [task EXCEPT ![t] = NewRequest(kind, pc, e, res)]
    BY <1>1, <2>2 DEF Kinds
  <2>. QED
    BY <1>1, <2>1, <2>2, <2>3, CheckStep
<1>6. ASSUME PollReturns(e) PROVE SerialInv'
  <2>1. /\ task[e] # NoTask /\ task[e].pc = "answer" /\ task[e].tok = e
        /\ task[e].kind = "poll"
        /\ UNCHANGED <<now, bucketVars>> /\ task' = [task EXCEPT ![e] = NoTask]
        /\ \/ /\ task[e].answer.status = "ok"
              /\ RecordAndApply(e, task[e].res, task[e].answer.headers)
           \/ task[e].answer.status # "ok" /\ UNCHANGED trackerVars
    BY <1>1, <1>6 DEF PollReturns, Awaits
  <2>2. CASE task[e].answer.status # "ok" /\ UNCHANGED trackerVars
    <3>1. \A b : ~Owes(task[e], b)
      BY <2>1, <2>2 DEF Owes
    <3>. QED
      BY <1>1, <2>1, <2>2, <3>1, ReplaceStep DEF trackerVars
  <2>. QED
    BY <1>1, <2>1, <2>2, ChargeStep
<1>. QED
  BY <1>2, <1>4, <1>5, <1>6 DEF PollerNext, StartCycle, EndCycle, ReloadEntry

\* rate_limit.py: with its two requests per reservation and window, and as long as
\* no call or update overlaps another one, upstream has room for every request that
\* check() lets pass, in the reservation's bucket and in the account's, whatever is
\* answered with an error or lost and on both readings of OQ-007; unless a send or a
\* poll that failed, which is never charged, spent the bucket within its window.
THEOREM RoomForLetPass ==
    ASSUME RESERVATION_LIMIT <= 2
    PROVE  SerialSpec => []LetPassHasRoom
<1>1. SerialInv => LetPassHasRoom
  <2>. SUFFICES ASSUME SerialInv, NEW t \in Tasks, task[t] # NoTask, task[t].pc # "answer",
                       NEW b \in BucketsOf(task[t])
                PROVE  Left(b) > 0 \/ Disturbed(b)
    BY DEF LetPassHasRoom, Disturbed
  <2>1. task[t] \in Request /\ TypeOK
    BY DEF SerialInv, TypeInv, TypeOK
  <2>2. b \in AllBuckets(<<task[t].tok, task[t].res>>) /\ b \in Buckets
    BY <2>1, BucketFacts
  <2>3. Free(b)
    BY <2>2 DEF SerialInv, Awaited, RoomFor, Room
  <2>. QED
    BY <2>1, <2>2, <2>3, LeftWhenFree DEF SerialInv
<1>2. SerialInv /\ [Next /\ OneAtATime']_vars => SerialInv'
  <2>. SUFFICES ASSUME SerialInv, [Next /\ OneAtATime']_vars PROVE SerialInv'
    OBVIOUS
  <2>1. TypeInv'
    BY StepType DEF SerialInv
  <2>2. CASE UNCHANGED vars
    <3>1. Alone'
      BY <2>2 DEF vars, SerialInv, Alone
    <3>. QED
      BY <2>1, <2>2, <3>1, ReplaceStep DEF vars, trackerVars, bucketVars
  <2>3. CASE Next /\ OneAtATime'
    <3>1. Alone'
      BY <2>1, <2>3, StillAlone
    <3>. QED
      BY <2>1, <2>3, <3>1, CallerSerial, PollerSerial, ServeStep, TickStep DEF Next
  <2>. QED
    BY <2>2, <2>3
<1>. QED
  BY <1>1, <1>2, SerialInit, PTL DEF SerialSpec

-----------------------------------------------------------------------------
(* The effective floor                                                     *)

\* The number of properties that the update under way has dealt with.
Done(e) == Len(PollOrder) - Len(cycle[e].todo)

\* The rest of the order is to come, each property with a stay of its own; and
\* before the first of them no time has passed since the update began.
WorksThrough(e) ==
    /\ cycle[e].target \in OwnSelection
    /\ Done(e) >= 0
    /\ \A i \in 1..Len(cycle[e].todo) : cycle[e].todo[i] = PollOrder[Done(e) + i]
    /\ Done(e) = 0 => task[e] = NoTask /\ cycle[e].started = now

IsFirst(res) == Owner[res] = PollOrder[1]

FloorInv ==
    /\ TypeInv
    /\ \A e \in Pollers : cycle[e] # NoCycle => WorksThrough(e)
    /\ \A e \in Pollers, res \in Reservations :
          IsFirst(res) => fetcher[e].last_attempt[res] = polled[<<e, res>>]

\* No property comes twice in the order, which is that of a dictionary's keys.
FirstComesOnce == \A i \in 2..Len(PollOrder) : PollOrder[i] # PollOrder[1]

\* The effective floor, for the stays of the property that is polled first.
FirstFloor ==
    [][\A e \in Pollers, res \in Reservations :
          (IsFirst(res) /\ IssuesFetch(e, res) /\ polled[<<e, res>>] # Never) =>
              now - polled[<<e, res>>] >= MESSAGE_FETCH_FLOOR_SECONDS]_vars

\* What an update does next is about the next property of the order.
LEMMA NextInOrder ==
    ASSUME FloorInv, NEW e \in Pollers, Running(e), cycle[e].todo # << >>
    PROVE  /\ Done(e) \in Nat /\ Done(e) + 1 \in 1..Len(PollOrder)
           /\ NextTarget(e) # NoReservation =>
                 /\ NextTarget(e) \in Reservations
                 /\ Owner[NextTarget(e)] = PollOrder[Done(e) + 1]
           /\ \A c : c = [cycle[e] EXCEPT !.todo = Tail(@)] =>
                 /\ c.target = cycle[e].target
                 /\ Len(PollOrder) - Len(c.todo) = Done(e) + 1
                 /\ \A i \in 1..Len(c.todo) : c.todo[i] = PollOrder[Done(e) + 1 + i]
<1>1. /\ cycle[e] \in Cycle /\ WorksThrough(e)
      /\ PollOrder \in Seq(Properties)
  BY TrafficAssumption DEF FloorInv, TypeInv, TypeOK, Running
<1>. DEFINE todo == cycle[e].todo
<1>2. /\ todo \in Seq(Properties) /\ todo # << >> /\ cycle[e].target \in OwnSelection
      /\ Len(todo) \in Nat /\ Len(PollOrder) \in Nat
  BY <1>1, LenProperties DEF Cycle, WorksThrough
<1>3. /\ Head(todo) \in Properties /\ Head(todo) = todo[1]
      /\ Tail(todo) \in Seq(Properties) /\ Len(Tail(todo)) = Len(todo) - 1 /\ Len(todo) >= 1
      /\ \A i \in 1..Len(Tail(todo)) : Tail(todo)[i] = todo[i + 1]
  BY <1>2, HeadTailProperties, EmptySeq
<1>4. Done(e) \in Nat /\ Done(e) + 1 \in 1..Len(PollOrder)
  BY <1>1, <1>2, <1>3 DEF Done, WorksThrough
<1>5. Head(todo) = PollOrder[Done(e) + 1]
  <2>1. 1 \in 1..Len(todo)
    BY <1>2, <1>3
  <2>. QED
    BY <1>1, <1>3, <2>1 DEF WorksThrough
<1>6. NextTarget(e) # NoReservation =>
          /\ NextTarget(e) \in Reservations
          /\ Owner[NextTarget(e)] = PollOrder[Done(e) + 1]
  BY <1>2, <1>3, <1>5 DEF NextTarget, OwnSelection, Selection
<1>7. ASSUME NEW c, c = [cycle[e] EXCEPT !.todo = Tail(@)]
      PROVE  /\ c.target = cycle[e].target
             /\ Len(PollOrder) - Len(c.todo) = Done(e) + 1
             /\ \A i \in 1..Len(c.todo) : c.todo[i] = PollOrder[Done(e) + 1 + i]
  <2>1. c.target = cycle[e].target /\ c.todo = Tail(todo)
    BY <1>1, <1>7 DEF Cycle
  <2>2. Len(PollOrder) - Len(c.todo) = Done(e) + 1
    <3>1. Len(c.todo) = Len(todo) - 1 /\ Len(todo) \in Nat /\ Len(PollOrder) \in Nat
      BY <1>2, <1>3, <2>1
    <3>. QED
      BY <3>1 DEF Done
  <2>3. ASSUME NEW i \in 1..Len(c.todo) PROVE c.todo[i] = PollOrder[Done(e) + 1 + i]
    <3>1. i + 1 \in 1..Len(todo) /\ c.todo[i] = todo[i + 1]
      BY <1>2, <1>3, <2>1, <2>3
    <3>2. Done(e) + (i + 1) = Done(e) + 1 + i
      BY <1>4
    <3>. QED
      BY <1>1, <3>1, <3>2 DEF WorksThrough
  <2>. QED
    BY <2>1, <2>2, <2>3
<1>. QED
  BY <1>4, <1>6, <1>7

\* A step that leaves the update, or whether it waits, and its poll's notes alone.
LEMMA FloorKept ==
    ASSUME FloorInv, TypeInv', NEW e \in Pollers,
           cycle'[e] = cycle[e], now' = now, task[e] = NoTask => task'[e] = NoTask
    PROVE  cycle'[e] # NoCycle => WorksThrough(e)'
BY DEF FloorInv, WorksThrough, Done

LEMMA PollerFloor ==
    ASSUME FloorInv, TypeInv', FirstComesOnce, ~Reloads, NEW p \in Pollers, PollerNext(p)
    PROVE  /\ FloorInv'
           /\ \A e \in Pollers, res \in Reservations :
                 IsFirst(res) /\ IssuesFetch(e, res) /\ polled[<<e, res>>] # Never =>
                    now - polled[<<e, res>>] >= MESSAGE_FETCH_FLOOR_SECONDS
<1>1. /\ p \in Tasks /\ Pollers \subseteq Tasks
      /\ \A e \in Pollers, res \in Reservations : <<e, res>> \in Keys
      /\ task \in [Tasks -> Request \cup {NoTask}]
      /\ cycle \in [Pollers -> Cycle \cup {NoCycle}] /\ fetcher \in [Pollers -> Fetcher]
      /\ polled \in [Keys -> Nat \cup {Never}] /\ now \in Nat /\ now' = now
      /\ PollOrder \in Seq(Properties) /\ Len(PollOrder) \in Nat
  BY TrafficAssumption, LenProperties
     DEF FloorInv, TypeInv, TypeOK, TrackerTypeOK, Tasks, Keys, PollerNext, StartCycle,
         SkipFetch, IssueFetch, PollReturns, EndCycle, ReloadEntry
<1>2. \A e \in Pollers : e # p => cycle'[e] = cycle[e] /\ task'[e] = task[e]
  BY <1>1 DEF PollerNext, StartCycle, SkipFetch, IssueFetch, PollReturns, EndCycle,
              ReloadEntry
<1>3. \A e \in Pollers : e # p => (cycle'[e] # NoCycle => WorksThrough(e)')
  BY <1>1, <1>2, FloorKept
<1>4. ASSUME cycle'[p] # NoCycle => WorksThrough(p)',
             UNCHANGED polled,
             \A e \in Pollers : fetcher'[e].last_attempt = fetcher[e].last_attempt,
             task'[p] = NoTask
      PROVE  /\ FloorInv'
             /\ \A e \in Pollers, res \in Reservations : ~IssuesFetch(e, res)
  <2>1. \A e \in Pollers : cycle'[e] # NoCycle => WorksThrough(e)'
    BY <1>3, <1>4
  <2>2. \A e \in Pollers, res \in Reservations :
            IsFirst(res) => fetcher'[e].last_attempt[res] = polled'[<<e, res>>]
    BY <1>4 DEF FloorInv
  <2>. QED
    BY <1>2, <1>4, <2>1, <2>2 DEF FloorInv, IssuesFetch, IsFirst
<1>5. ASSUME NEW target \in Targets, StartCycle(p, target)
      PROVE  /\ cycle'[p] # NoCycle => WorksThrough(p)'
             /\ UNCHANGED <<polled, fetcher>> /\ task'[p] = NoTask
  <2>1. task[p] = NoTask
    BY <1>5 DEF StartCycle, FloorInv, TypeInv, PollsAreCycles
  <2>2. /\ cycle'[p] = [started |-> now, todo |-> PollOrder, target |-> target]
        /\ UNCHANGED <<now, task, polled, fetcher>>
    BY <1>1, <1>5 DEF StartCycle
  <2>3. Done(p)' = 0
    BY <1>1, <2>2 DEF Done
  <2>4. \A i \in 1..Len(PollOrder) : 0 + i = i
    BY <1>1
  <2>. QED
    BY <1>5, <2>1, <2>2, <2>3, <2>4, TargetsAssumption DEF WorksThrough
<1>6. ASSUME Running(p), cycle[p].todo # << >>, cycle' = [cycle EXCEPT ![p].todo = Tail(@)]
      PROVE  WorksThrough(p)'
  <2>1. /\ cycle'[p] = [cycle[p] EXCEPT !.todo = Tail(@)]
        /\ cycle[p] \in Cycle
    BY <1>1, <1>6 DEF Running
  <2>2. /\ cycle'[p].target = cycle[p].target
        /\ Len(PollOrder) - Len(cycle'[p].todo) = Done(p) + 1 /\ Done(p) \in Nat
        /\ \A i \in 1..Len(cycle'[p].todo) : cycle'[p].todo[i] = PollOrder[Done(p) + 1 + i]
    BY <1>6, <2>1, NextInOrder
  <2>3. Done(p)' = Done(p) + 1
    BY <2>2 DEF Done
  <2>4. Done(p)' # 0 /\ Done(p)' >= 0
    BY <2>2, <2>3
  <2>5. cycle[p].target \in OwnSelection
    BY <1>6 DEF FloorInv, WorksThrough, Running
  <2>. QED
    BY <2>2, <2>3, <2>4, <2>5 DEF WorksThrough
<1>7. ASSUME SkipFetch(p)
      PROVE  /\ cycle'[p] # NoCycle => WorksThrough(p)'
             /\ UNCHANGED <<polled, fetcher>> /\ task'[p] = NoTask
  BY <1>6, <1>7 DEF SkipFetch, Running
<1>8. ASSUME PollReturns(p)
      PROVE  /\ cycle'[p] # NoCycle => WorksThrough(p)'
             /\ UNCHANGED polled /\ task'[p] = NoTask
             /\ \A e \in Pollers : fetcher'[e].last_attempt = fetcher[e].last_attempt
  <2>1. /\ cycle' = cycle /\ polled' = polled /\ task' = [task EXCEPT ![p] = NoTask]
    BY <1>8 DEF PollReturns
  <2>2. cycle'[p] # NoCycle => WorksThrough(p)'
    BY <1>1, <2>1, FloorKept
  <2>3. \/ fetcher' = fetcher
        \/ \E q, s : fetcher' = [fetcher EXCEPT ![p].presence[q] = s]
        \/ \E q, s : fetcher' = [fetcher EXCEPT ![p].blocked_until[q] = s]
    BY <1>8 DEF PollReturns
  <2>4. \A e \in Pollers : fetcher'[e].last_attempt = fetcher[e].last_attempt
    <3>1. CASE \E q, s : fetcher' = [fetcher EXCEPT ![p].presence[q] = s]
      <4>1. PICK q, s : fetcher' = [fetcher EXCEPT ![p].presence[q] = s]
        BY <3>1
      <4>2. fetcher[p] \in Fetcher
        BY <1>1
      <4>3. fetcher'[p].last_attempt = fetcher[p].last_attempt
        BY <1>1, <4>1, <4>2 DEF Fetcher
      <4>. QED
        BY <1>1, <4>1, <4>3
    <3>2. CASE \E q, s : fetcher' = [fetcher EXCEPT ![p].blocked_until[q] = s]
      <4>1. PICK q, s : fetcher' = [fetcher EXCEPT ![p].blocked_until[q] = s]
        BY <3>2
      <4>2. fetcher[p] \in Fetcher
        BY <1>1
      <4>3. fetcher'[p].last_attempt = fetcher[p].last_attempt
        BY <1>1, <4>1, <4>2 DEF Fetcher
      <4>. QED
        BY <1>1, <4>1, <4>3
    <3>. QED
      BY <2>3, <3>1, <3>2
  <2>. QED
    BY <1>1, <2>1, <2>2, <2>4
<1>9. ASSUME EndCycle(p)
      PROVE  /\ cycle'[p] # NoCycle => WorksThrough(p)'
             /\ UNCHANGED <<polled, fetcher>> /\ task'[p] = NoTask
  BY <1>1, <1>9 DEF EndCycle, Running
<1>10. ASSUME IssueFetch(p)
       PROVE  /\ FloorInv'
              /\ \A e \in Pollers, res \in Reservations :
                    IsFirst(res) /\ IssuesFetch(e, res) /\ polled[<<e, res>>] # Never =>
                       now - polled[<<e, res>>] >= MESSAGE_FETCH_FLOOR_SECONDS
  <2>. DEFINE issued == NextTarget(p)
  <2>1. /\ Running(p) /\ cycle[p].todo # << >> /\ issued # NoReservation
        /\ FloorAllows(p, issued)
        /\ cycle' = [cycle EXCEPT ![p].todo = Tail(@)]
        /\ task' = [task EXCEPT ![p] = NewRequest("poll", "request", p, issued)]
        /\ fetcher' = [fetcher EXCEPT ![p].last_attempt[issued] = cycle[p].started]
        /\ polled' = [polled EXCEPT ![<<p, issued>>] = now]
    BY <1>10 DEF IssueFetch
  <2>2. issued \in Reservations /\ Owner[issued] = PollOrder[Done(p) + 1]
        /\ Done(p) \in Nat /\ Done(p) + 1 \in 1..Len(PollOrder)
    BY <2>1, NextInOrder
  <2>3. IsFirst(issued) => Done(p) = 0 /\ cycle[p].started = now
    <3>1. IsFirst(issued) => ~(Done(p) + 1 \in 2..Len(PollOrder))
      BY <2>2 DEF IsFirst, FirstComesOnce
    <3>2. IsFirst(issued) => Done(p) = 0
      BY <1>1, <2>2, <3>1
    <3>. QED
      BY <2>1, <3>2 DEF FloorInv, WorksThrough, Running
  <2>. HIDE DEF issued
  <2>4. \A e \in Pollers : cycle'[e] # NoCycle => WorksThrough(e)'
    BY <1>3, <1>6, <2>1
  <2>5. \A e \in Pollers, res \in Reservations :
            /\ fetcher'[e].last_attempt[res] =
                  IF e = p /\ res = issued THEN cycle[p].started
                  ELSE fetcher[e].last_attempt[res]
            /\ polled'[<<e, res>>] =
                  IF e = p /\ res = issued THEN now ELSE polled[<<e, res>>]
    BY <1>1, <2>1, <2>2 DEF Fetcher
  <2>6. \A e \in Pollers, res \in Reservations :
            IsFirst(res) => fetcher'[e].last_attempt[res] = polled'[<<e, res>>]
    BY <2>3, <2>5 DEF FloorInv
  <2>7. FloorInv'
    BY <2>4, <2>6 DEF FloorInv, IsFirst
  <2>8. ASSUME NEW e \in Pollers, NEW res \in Reservations,
               IsFirst(res), IssuesFetch(e, res), polled[<<e, res>>] # Never
        PROVE  now - polled[<<e, res>>] >= MESSAGE_FETCH_FLOOR_SECONDS
    <3>1. e = p /\ task'[p] = NewRequest("poll", "request", p, issued)
      BY <1>1, <1>2, <2>1, <2>8 DEF IssuesFetch
    <3>2. res = issued
      BY <2>8, <3>1 DEF IssuesFetch, NewRequest
    <3>3. fetcher[p].last_attempt[issued] = polled[<<p, issued>>]
      BY <2>2, <2>8, <3>1, <3>2 DEF FloorInv
    <3>4. cycle[p].started - fetcher[p].last_attempt[issued] >= MESSAGE_FETCH_FLOOR_SECONDS
      BY <2>1, <2>8, <3>1, <3>2, <3>3 DEF FloorAllows
    <3>. QED
      BY <2>3, <2>8, <3>1, <3>2, <3>3, <3>4
  <2>. QED
    BY <2>7, <2>8
<1>. QED
  BY <1>4, <1>5, <1>7, <1>8, <1>9, <1>10 DEF PollerNext, ReloadEntry

\* Calls, upstream and time: none of them sets an update going again, and time
\* passes only while every update under way waits for an answer.
LEMMA OthersFloor ==
    ASSUME FloorInv, TypeInv',
           \/ \E c \in Callers : CallerNext(c)
           \/ \E t \in Tasks : Serve(t)
           \/ Tick
           \/ UNCHANGED vars
    PROVE  FloorInv' /\ \A e \in Pollers, res \in Reservations : ~IssuesFetch(e, res)
<1>1. /\ UNCHANGED <<cycle, fetcher, polled>>
      /\ Pollers \subseteq Tasks /\ Callers \subseteq Tasks /\ Callers \cap Pollers = {}
      /\ task \in [Tasks -> Request \cup {NoTask}]
  BY TrafficAssumption DEF FloorInv, TypeInv, TypeOK, Tasks, CallerNext, SendMessage, GetMessages,
         AssertAirbnb, SendReturns, ReadReturns, Serve, Tick, vars, pollVars
<1>2. \A e \in Pollers : task[e] = NoTask => task'[e] = NoTask
  <2>1. ASSUME NEW c \in Callers, CallerNext(c) PROVE \A e \in Pollers : task'[e] = task[e]
    BY <1>1, <2>1 DEF CallerNext, SendMessage, GetMessages, AssertAirbnb, SendReturns, ReadReturns
  <2>2. ASSUME NEW t \in Tasks, Serve(t)
        PROVE  \A e \in Pollers : task[e] = NoTask => task'[e] = NoTask
    <3>1. task[t] # NoTask /\ \E a : task' = [task EXCEPT ![t].pc = "answer", ![t].answer = a]
      BY <2>2, ServeType DEF FloorInv, Serve
    <3>. QED
      BY <1>1, <3>1
  <2>. QED
    BY <2>1, <2>2 DEF Tick, vars
<1>3. ASSUME NEW e \in Pollers, cycle'[e] # NoCycle PROVE WorksThrough(e)'
  <2>1. CASE now' = now
    BY <1>1, <1>2, <1>3, <2>1, FloorKept
  <2>2. CASE now' # now
    <3>1. LoopFree /\ task' = task
      BY <2>2 DEF Tick, CallerNext, SendMessage, GetMessages, AssertAirbnb, SendReturns, ReadReturns, Serve,
                  vars
    <3>2. task[e] # NoTask /\ WorksThrough(e)
      BY <1>1, <1>3, <3>1 DEF LoopFree, Running, FloorInv
    <3>. QED
      BY <1>1, <3>1, <3>2 DEF WorksThrough, Done
  <2>. QED
    BY <2>1, <2>2
<1>. QED
  BY <1>1, <1>2, <1>3 DEF FloorInv, IssuesFetch, IsFirst

LEMMA FloorInit == Init => FloorInv
<1>. SUFFICES ASSUME Init PROVE FloorInv
  OBVIOUS
<1>1. TypeInv
  BY InitType
<1>2. ASSUME NEW e \in Pollers, NEW res \in Reservations
      PROVE  fetcher[e].last_attempt[res] = polled[<<e, res>>]
  <2>1. <<e, res>> \in Keys /\ fetcher[e] = NewFetcher
    BY TrafficAssumption DEF Keys, Init
  <2>2. NewFetcher.last_attempt[res] = Never
    BY DEF NewFetcher
  <2>. QED
    BY <2>1, <2>2 DEF Init
<1>3. \A e \in Pollers : cycle[e] = NoCycle
  BY DEF Init
<1>. QED
  BY <1>1, <1>2, <1>3 DEF FloorInv

LEMMA StepFloor ==
    ASSUME FirstComesOnce, ~Reloads, FloorInv, [Next]_vars
    PROVE  /\ FloorInv'
           /\ \A e \in Pollers, res \in Reservations :
                 IsFirst(res) /\ IssuesFetch(e, res) /\ polled[<<e, res>>] # Never =>
                    now - polled[<<e, res>>] >= MESSAGE_FETCH_FLOOR_SECONDS
<1>1. TypeInv'
  BY StepType DEF FloorInv
<1>2. CASE \E p \in Pollers : PollerNext(p)
  BY <1>1, <1>2, PollerFloor
<1>3. CASE ~\E p \in Pollers : PollerNext(p)
  BY <1>1, <1>3, OthersFloor DEF Next
<1>. QED
  BY <1>2, <1>3

\* coordinator_messages.py: however calls, updates, delays and lost answers
\* interleave, the property that is polled first has its message fetches at least
\* the floor apart on the wire, as long as the entry is not reloaded.
THEOREM FirstOnTime ==
    ASSUME FirstComesOnce, ~Reloads
    PROVE  Spec => FirstFloor
<1>1. FloorInv /\ [Next]_vars =>
          FloorInv' /\ [\A e \in Pollers, res \in Reservations :
              (IsFirst(res) /\ IssuesFetch(e, res) /\ polled[<<e, res>>] # Never) =>
                  now - polled[<<e, res>>] >= MESSAGE_FETCH_FLOOR_SECONDS]_vars
  BY StepFloor
<1>. QED
  BY <1>1, FloorInit, PTL DEF Spec, FirstFloor

\* So an entry with one property keeps the effective floor.
THEOREM FloorOfOne ==
    ASSUME Len(PollOrder) <= 1, ~Reloads
    PROVE  Spec => EffectiveFloor
<1>1. FirstComesOnce
  BY LenProperties, TrafficAssumption DEF FirstComesOnce
<1>2. ASSUME FloorInv, Next, NEW e \in Pollers, NEW res \in Reservations, IssuesFetch(e, res)
      PROVE  IsFirst(res)
  <2>1. TypeInv' /\ \E p \in Pollers : PollerNext(p)
    BY <1>2, StepType, OthersFloor DEF FloorInv, Next
  <2>2. IssueFetch(e) /\ NextTarget(e) = res
    <3>1. PICK p \in Pollers : PollerNext(p)
      BY <2>1
    <3>2. p \in Tasks /\ e \in Tasks /\ task \in [Tasks -> Request \cup {NoTask}]
      BY <1>2 DEF Tasks, FloorInv, TypeInv, TypeOK
    <3>3. task'[e] # NoTask /\ task[e] = NoTask /\ task'[e].res = res
      BY <1>2 DEF IssuesFetch
    <3>4. p = e /\ IssueFetch(p)
      BY <3>1, <3>2, <3>3 DEF PollerNext, StartCycle, SkipFetch, IssueFetch, PollReturns, EndCycle,
                              ReloadEntry
    <3>. QED
      BY <3>2, <3>3, <3>4 DEF IssueFetch, NewRequest
  <2>3. /\ Running(e) /\ cycle[e].todo # << >> /\ NextTarget(e) # NoReservation
    BY <2>2 DEF IssueFetch
  <2>4. Owner[res] = PollOrder[Done(e) + 1] /\ Done(e) + 1 \in 1..Len(PollOrder)
    BY <1>2, <2>2, <2>3, NextInOrder
  <2>5. Done(e) + 1 = 1
    BY <2>4, LenProperties, TrafficAssumption
  <2>. QED
    BY <2>4, <2>5 DEF IsFirst
<1>3. FloorInv /\ [Next]_vars =>
          FloorInv' /\ [\A e \in Pollers, res \in Reservations :
              (IssuesFetch(e, res) /\ polled[<<e, res>>] # Never) =>
                  now - polled[<<e, res>>] >= MESSAGE_FETCH_FLOOR_SECONDS]_vars
  BY <1>1, <1>2, StepFloor
<1>. QED
  BY <1>3, FloorInit, PTL DEF Spec, EffectiveFloor

=============================================================================
