-------------------------- MODULE RateLimitTracker --------------------------
(***************************************************************************)
(* The write budgets of actions' rate_limit.py: one process-wide tracker   *)
(* that every config entry shares, keyed by token and by reservation.  The *)
(* module holds the tracker's state and its operations; MessageTraffic     *)
(* composes them with the callers and with the Hospitable API.             *)
(*                                                                         *)
(* No operation of the tracker awaits, so each is atomic on Home           *)
(* Assistant's event loop.  Time is a whole number of ticks.               *)
(***************************************************************************)
EXTENDS Integers, Sequences, FiniteSets

CONSTANTS
    Tokens,                      \* digests of the access tokens in use
    Reservations,                \* reservation UUIDs
    RESERVATION_LIMIT,           \* requests per reservation ...
    RESERVATION_WINDOW_SECONDS,  \* ... in a rolling window of this length
    TOKEN_LIMIT,
    TOKEN_WINDOW_SECONDS,
    NoHint,                      \* no server hint is held / no such header
    NoReset                      \* a hint whose x-ratelimit-reset is missing

ASSUME LimitsAssumption ==
    /\ RESERVATION_LIMIT \in Nat \ {0}
    /\ TOKEN_LIMIT \in Nat \ {0}
    /\ RESERVATION_WINDOW_SECONDS \in Nat \ {0}
    /\ TOKEN_WINDOW_SECONDS \in Nat \ {0}

Hint == [remaining : Int, reset_at : Nat \cup {NoReset}]

ASSUME HintAssumption == NoHint \notin Hint /\ NoReset \notin Nat

VARIABLES
    now,          \* the wall clock the tracker reads
    reservation,  \* [Tokens \X Reservations -> recorded instants]
    token,        \* [Tokens -> recorded instants]
    hints         \* [Tokens \X Reservations -> Hint or NoHint]

trackerVars == <<reservation, token, hints>>

Keys == Tokens \X Reservations

TrackerTypeOK ==
    /\ now \in Nat
    /\ reservation \in [Keys -> Seq(Nat)]
    /\ token \in [Tokens -> Seq(Nat)]
    /\ hints \in [Keys -> Hint \cup {NoHint}]

TrackerInit ==
    /\ reservation = [key \in Keys |-> << >>]
    /\ token = [tok \in Tokens |-> << >>]
    /\ hints = [key \in Keys |-> NoHint]

-----------------------------------------------------------------------------
(* Reading the budgets                                                     *)

\* _trim pops the head while it is outside the window, and stops at the
\* first instant inside it.
Trim(stamps, window) ==
    LET popped == {i \in 1..Len(stamps) :
                      \A j \in 1..i : now - stamps[j] >= window}
    IN  SubSeq(stamps, Cardinality(popped) + 1, Len(stamps))

AppliesAt(hint, t) == hint.reset_at = NoReset \/ t < hint.reset_at

\* The hint check() still believes: an expired one, and an exhausted one that
\* names no reset time, are dropped.
CurrentHint(key) ==
    IF /\ hints[key] # NoHint
       /\ AppliesAt(hints[key], now)
       /\ hints[key].remaining > 0 \/ hints[key].reset_at # NoReset
    THEN hints[key]
    ELSE NoHint

LocalStamps(key) == Trim(reservation[key], RESERVATION_WINDOW_SECONDS)
TokenStamps(tok) == Trim(token[tok], TOKEN_WINDOW_SECONDS)

\* The reservation's budget: the server's word when there is one, the local
\* count only when there is none.
ReservationRefuses(key) ==
    IF CurrentHint(key) # NoHint
    THEN CurrentHint(key).remaining <= 0
    ELSE Len(LocalStamps(key)) >= RESERVATION_LIMIT

\* Variant: one request too many.
TokenRefusesLate(tok) == Len(TokenStamps(tok)) > TOKEN_LIMIT

TokenRefuses(tok) == Len(TokenStamps(tok)) >= TOKEN_LIMIT

CheckPasses(tok, res) == ~ReservationRefuses(<<tok, res>>) /\ ~TokenRefuses(tok)

-----------------------------------------------------------------------------
(* Changing them                                                           *)

\* Variant: the expired instants are skipped but not popped.
CheckWithoutTrim(tok, res) ==
    /\ hints' = [hints EXCEPT ![<<tok, res>>] = CurrentHint(<<tok, res>>)]
    /\ UNCHANGED <<reservation, token>>

\* check() whatever its verdict: stale hints are dropped, the deque of each
\* budget that was consulted is trimmed in place, and the token's is consulted
\* only when the reservation's does not refuse.
Check(tok, res) ==
    LET key == <<tok, res>> IN
    /\ hints' = [hints EXCEPT ![key] = CurrentHint(key)]
    /\ reservation' = IF CurrentHint(key) = NoHint
                      THEN [reservation EXCEPT ![key] = LocalStamps(key)]
                      ELSE reservation
    /\ token' = IF ReservationRefuses(key)
                THEN token
                ELSE [token EXCEPT ![tok] = TokenStamps(tok)]

\* Variant: the hint is believed until the server is heard again.
HintNotCountedDown(key) == hints[key]

\* record(): the hint counts the request down until the server is heard again.
HintAfterRecord(key) ==
    IF hints[key] = NoHint
    THEN NoHint
    ELSE [hints[key] EXCEPT !.remaining = @ - 1]

Record(tok, res) ==
    /\ reservation' = [reservation EXCEPT ![<<tok, res>>] = Append(@, now)]
    /\ token' = [token EXCEPT ![tok] = Append(@, now)]
    /\ hints' = [hints EXCEPT ![<<tok, res>>] = HintAfterRecord(<<tok, res>>)]

\* record() and then apply_headers(), which nothing separates: headers that
\* carry x-ratelimit-remaining replace the hint, others leave it.
RecordAndApply(tok, res, headers) ==
    /\ reservation' = [reservation EXCEPT ![<<tok, res>>] = Append(@, now)]
    /\ token' = [token EXCEPT ![tok] = Append(@, now)]
    /\ hints' = [hints EXCEPT ![<<tok, res>>] =
                    IF headers = NoHint THEN HintAfterRecord(<<tok, res>>)
                    ELSE headers]

=============================================================================
