------------------------------ MODULE ApiClient ------------------------------
(***************************************************************************)
(* How the REST client takes an answer: which typed error it raises, and   *)
(* what each of its paged reads makes of one page.  There is no state here *)
(* but the reader record that a read carries from page to page, and every  *)
(* operator is one synchronous piece of code between two awaits.           *)
(*                                                                         *)
(* An answer is a record: its HTTP status (0 when there is none), what a   *)
(* 403 says, whether the body is JSON and a list envelope, the two numbers *)
(* of its meta, its items and the expansion keys that the items carry.     *)
(***************************************************************************)
EXTENDS Integers, SequencesExt

CONSTANTS
    PER_PAGE_MAX, PROPERTY_BATCH_MAX,
    Unreadable  \* a last_page that is null or no number

-----------------------------------------------------------------------------
(* Lists                                                                   *)

\* The places of a list that hold what is wanted; how many there are up to one.
Places(list, wanted) == {i \in DOMAIN list : list[i] \in wanted}
Rank(list, wanted, place) == Cardinality({i \in Places(list, wanted) : i <= place})

\* The items of a list that are wanted, in their order.
Kept(list, wanted) ==
    [k \in 1..Cardinality(Places(list, wanted)) |->
        list[CHOOSE i \in Places(list, wanted) : Rank(list, wanted, i) = k]]

\* The answer that a page of a list is due, and one that deviates from it.
Proper ==
    [status |-> 200, says |-> "nothing", json |-> TRUE, envelope |-> TRUE,
     items |-> << >>, current_page |-> 1, last_page |-> 1,
     includes |-> {"guest", "properties", "listings"}]

PageOf(list, page) ==
    [Proper EXCEPT
        !.items = SubSeq(list, (page - 1) * PER_PAGE_MAX + 1,
                         IF page * PER_PAGE_MAX < Len(list) THEN page * PER_PAGE_MAX
                         ELSE Len(list)),
        !.current_page = page,
        !.last_page = IF list = << >> THEN 1
                      ELSE (Len(list) + PER_PAGE_MAX - 1) \div PER_PAGE_MAX]

Deviating(answer, deviation) ==
    [field \in DOMAIN answer |->
        IF field \in DOMAIN deviation THEN deviation[field] ELSE answer[field]]

-----------------------------------------------------------------------------
(* exceptions.py                                                           *)

HospitableErrors ==
    {"auth", "scope", "forbidden", "not_found", "rate_limit", "connection",
     "response", "include_missing", "validation"}

\* except class: ... catches the error.  A "value" error is no HospitableError.
Catches(class, error) ==
    \/ class = error
    \/ class = "response" /\ error = "include_missing"
    \/ class = "hospitable" /\ error \in HospitableErrors

-----------------------------------------------------------------------------
(* One answer                                                              *)

classify_403(says) == IF says = "scope" THEN "scope" ELSE "forbidden"

RaiseForStatus(answer) ==
    CASE answer.status = 401 -> "auth"
      [] answer.status = 403 -> classify_403(answer.says)
      [] answer.status = 404 -> "not_found"
      [] answer.status = 400 -> "validation"
      [] answer.status = 429 -> "rate_limit"
      [] OTHER -> "connection"

\* _get_with_response: "none", or the error raised.
Failure(answer) ==
    IF answer.status = 0 THEN "connection"
    ELSE IF answer.status \notin 200..299 THEN RaiseForStatus(answer)
    ELSE IF answer.json THEN "none" ELSE "response"

\* validate_list_envelope.  A body that is no object is taken for {}.
EnvelopeFailure(answer, expected_page) ==
    IF answer.envelope /\ answer.current_page = expected_page
    THEN "none" ELSE "response"

\* assert_include: an empty page honours every include.
Honoured(answer, keys) == answer.items = << >> \/ keys \subseteq answer.includes

ResolveLastPage(answer, current_page) ==
    IF answer.last_page = Unreadable \/ answer.last_page < current_page
    THEN current_page ELSE answer.last_page

\* get_reservation: an answer without data has no expansion keys either.
GetReservation(answer, require) ==
    IF Failure(answer) # "none" THEN Failure(answer)
    ELSE IF require \subseteq answer.includes THEN "none" ELSE "include_missing"

-----------------------------------------------------------------------------
(* Reading page by page                                                    *)

\* chunk_property_ids
ChunkPropertyIds(ids) ==
    LET chunks == (Len(ids) + PROPERTY_BATCH_MAX - 1) \div PROPERTY_BATCH_MAX
    IN  [i \in 1..chunks |->
            SubSeq(ids, (i - 1) * PROPERTY_BATCH_MAX + 1,
                   IF i = chunks THEN Len(ids) ELSE i * PROPERTY_BATCH_MAX)]

\* A read in progress: the batches to go, the page asked for, what it has got.
Reader(batches) ==
    [batches |-> batches, page |-> 1, got |-> << >>, error |-> "none"]

Finished(reader) == reader.batches = << >>

\* An error ends a read, and what it had got is lost.
Raised(error) == [Reader(<< >>) EXCEPT !.error = error]

PageFailure(reader, answer, keys) ==
    IF Failure(answer) # "none" THEN Failure(answer)
    ELSE IF EnvelopeFailure(answer, reader.page) # "none"
         THEN EnvelopeFailure(answer, reader.page)
    ELSE IF Honoured(answer, keys) THEN "none" ELSE "include_missing"

\* Variant: the last page is left out.
AdvanceTooEarly(reader, answer, items) ==
    LET got == reader.got \o items IN
    IF reader.page + 1 >= ResolveLastPage(answer, reader.page)
    THEN [reader EXCEPT !.batches = Tail(@), !.page = 1, !.got = got]
    ELSE [reader EXCEPT !.page = @ + 1, !.got = got]

\* Variant: the loop stops only at a page beyond the last.
AdvanceTooFar(reader, answer, items) ==
    IF reader.page > ResolveLastPage(answer, reader.page)
    THEN [reader EXCEPT !.batches = Tail(@), !.page = 1, !.got = @ \o items]
    ELSE [reader EXCEPT !.page = @ + 1, !.got = @ \o items]

Advance(reader, answer, items) ==
    LET got == reader.got \o items IN
    IF reader.page >= ResolveLastPage(answer, reader.page)
    THEN [reader EXCEPT !.batches = Tail(@), !.page = 1, !.got = got]
    ELSE [reader EXCEPT !.page = @ + 1, !.got = got]

\* One turn of the loop that all the paged reads share.
Turn(reader, answer, keys, items) ==
    LET failure == PageFailure(reader, answer, keys) IN
    IF failure # "none" THEN Raised(failure)
    ELSE Advance(reader, answer, items)

get_property_payloads(reader, answer) ==
    Turn(reader, answer, {"listings"}, answer.items)

get_properties(reader, answer) == Turn(reader, answer, {"listings"}, answer.items)

get_reservation_payloads(reader, answer) ==
    Turn(reader, answer, {"guest", "properties"}, answer.items)

\* HospitableReservation.from_api: what the flaw of an item makes it raise.
FromApi(flaw) ==
    CASE flaw = "none" -> "none"
      [] flaw = "booking_date" -> "value"
      [] flaw \in {"dates", "properties", "status"} -> "response"

\* One item that cannot be parsed fails the whole poll; of the others those
\* are kept that belong to the batch and arrive within the window.
get_reservations(reader, answer, Flaw, wanted) ==
    LET flaws == Kept([i \in DOMAIN answer.items |-> FromApi(Flaw[answer.items[i]])],
                      {"value", "response"})
    IN  IF /\ PageFailure(reader, answer, {"guest", "properties"}) = "none"
           /\ flaws # << >>
        THEN Raised(Head(flaws))
        ELSE Turn(reader, answer, {"guest", "properties"},
                  Kept(answer.items, wanted))

\* What parsed makes of an item, with the vocabularies of its own answer.
get_tasks(reader, answer, parsed) ==
    Turn(reader, answer, {}, [i \in DOMAIN answer.items |-> parsed[answer.items[i]]])

=============================================================================
