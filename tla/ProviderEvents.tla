--------------------------- MODULE ProviderEvents ---------------------------
(***************************************************************************)
(* finance.provider_events, the log of what was said to and heard from the *)
(* PSP, and the listing of it page by page.                                *)
(*                                                                         *)
(* An event is stamped with the begin of the transaction that inserts it   *)
(* and seen when that commits: a VERIFY event, booked together with its    *)
(* order, may appear behind events that were listed before it.  The clock  *)
(* need not advance between two transactions, so stamps may be equal.      *)
(***************************************************************************)
EXTENDS Integers, FiniteSets

CONSTANTS
    Events,         \* attempts to log something
    IdempotencyKey, \* what each is logged under: its order, or track id and outcome
    EventType,      \* REQUEST, VERIFY or CALLBACK
    Filters,        \* event types a listing may ask for, "" for all
    Limits,         \* page sizes a listing may ask for
    DefaultLimit, MaxLimit  \* 50 and 100 in the code

ASSUME EventsAssumption ==
    /\ Limits \subseteq Int
    /\ DefaultLimit \in Nat \ {0} /\ MaxLimit \in Nat \ {0}

VARIABLES
    logged,     \* the committed rows, [event, at]
    logging,    \* per attempt: where its transaction is, and when it began
    clock,      \* what now() returns
    listing     \* a client's walk through the pages

eventsVars == <<logged, logging, clock, listing>>

-----------------------------------------------------------------------------
EventsInit ==
    /\ logged = {}
    /\ logging = [e \in Events |-> [step |-> "new", at |-> 0]]
    /\ clock = 0
    /\ listing = [step |-> "none"]

(* provider_events_idempotency_unique: of two transactions that insert a   *)
(* key the later one waits, and fails when the first has committed.        *)
FreeKey(e) == \A r \in logged : IdempotencyKey[r.event] # IdempotencyKey[e]

Create(e, at) ==
    /\ FreeKey(e)
    /\ logging' = [logging EXCEPT ![e] = [step |-> "done", at |-> at]]
    /\ logged' = logged \cup {[event |-> e, at |-> at]}

(* created_at defaults to now(): the stamp of one transaction is that of   *)
(* the one before, or a later one.                                         *)
Now == {clock, clock + 1}

(* A request or a callback is logged by a statement of its own; that it    *)
(* fails is ignored.                                                       *)
LogEvent(e) ==
    /\ EventType[e] # "VERIFY"
    /\ logging[e].step = "new"
    /\ clock' \in Now
    /\ Create(e, clock')
    /\ UNCHANGED listing

(* A verification begins its transaction, in which it books the order ...  *)
BeginVerify(e) ==
    /\ EventType[e] = "VERIFY"
    /\ logging[e].step = "new"
    /\ clock' \in Now
    /\ logging' = [logging EXCEPT ![e] = [step |-> "begun", at |-> clock']]
    /\ UNCHANGED <<logged, listing>>

(* ... and commits with its event.                                         *)
LogVerify(e) ==
    /\ logging[e].step = "begun"
    /\ Create(e, logging[e].at)
    /\ UNCHANGED <<clock, listing>>

(* The key is taken, another error, or a crash.                            *)
RollbackLog(e) ==
    /\ logging[e].step = "begun"
    /\ logging' = [logging EXCEPT ![e].step = "done"]
    /\ UNCHANGED <<logged, clock, listing>>

-----------------------------------------------------------------------------
(* ListProviderEvents: bounded limit, COUNT, then the page, newest first.  *)

Bounded(limit) ==
    IF limit < 1 THEN DefaultLimit ELSE IF limit > MaxLimit THEN MaxLimit ELSE limit

Matching(filter) == {r \in logged : filter \in {"", EventType[r.event]}}

FromPage(page, limit) == page * limit

Offset(page, limit) == (page - 1) * limit

(* What LIMIT n may return: n rows (or all) no other row is newer than.    *)
(* ORDER BY created_at DESC leaves open which of two with one stamp comes  *)
(* first, in every query anew.                                             *)
Newest(n, rows) ==
    {S \in SUBSET rows :
        /\ Cardinality(S) = n \/ (S = rows /\ Cardinality(S) < n)
        /\ \A r \in S, q \in rows \ S : r.at >= q.at}

(* The pages the query may return; OFFSET skips the newest rows.           *)
Pages(filter, page, limit) ==
    LET rows == Matching(filter) IN
    UNION {Newest(limit, rows \ skipped) : skipped \in Newest(Offset(page, limit), rows)}

CountedAll(filter) == Cardinality(logged)

Counted(filter) == Cardinality(Matching(filter))

(* A client asks for page 1, with a filter and a limit of its choice ...   *)
StartListing(filter, limit) ==
    /\ listing.step = "none"
    /\ listing' = [step |-> "count", filter |-> filter, limit |-> Bounded(limit), page |-> 1,
                   total |-> 0, items |-> {}, seen |-> {}, began |-> Matching(filter)]
    /\ UNCHANGED <<logged, logging, clock>>

CountEvents ==
    /\ listing.step = "count"
    /\ listing' = [listing EXCEPT !.step = "page", !.total = Counted(listing.filter)]
    /\ UNCHANGED <<logged, logging, clock>>

ListPage ==
    /\ listing.step = "page"
    /\ \E items \in Pages(listing.filter, listing.page, listing.limit) :
          listing' = [listing EXCEPT !.step = "listed", !.items = items, !.seen = @ \cup items]
    /\ UNCHANGED <<logged, logging, clock>>

(* ... and for the next one until a page is not full.                      *)
Full == Cardinality(listing.items) = listing.limit

NextPage ==
    /\ listing.step = "listed" /\ Full
    /\ listing' = [listing EXCEPT !.step = "count", !.page = @ + 1]
    /\ UNCHANGED <<logged, logging, clock>>

-----------------------------------------------------------------------------
EventsNext ==
    \/ \E e \in Events : LogEvent(e) \/ BeginVerify(e) \/ LogVerify(e) \/ RollbackLog(e)
    \/ \E filter \in Filters, limit \in Limits : StartListing(filter, limit)
    \/ CountEvents \/ ListPage \/ NextPage

EventsSpec == EventsInit /\ [][EventsNext]_eventsVars

-----------------------------------------------------------------------------
(* Properties.                                                             *)

(* Who pages to the end misses an event there was when the walk began only *)
(* for another one with the very same stamp, although events are added in  *)
(* front, and late, behind it, while the pages are counted from the front  *)
(* (OFFSET).  Of two with one stamp the order by created_at alone may give *)
(* the same one on two pages and the other on none.                        *)
PagesMissNothing ==
    listing.step = "listed" /\ ~Full =>
        \A r \in listing.began : r \in listing.seen \/ \E q \in listing.seen : q.at = r.at

(* A page that is not full is the last by its total too, which was counted *)
(* in a query of its own before the page was read (List).                  *)
TotalIsReached ==
    listing.step = "listed" /\ ~Full =>
        Offset(listing.page, listing.limit) + Cardinality(listing.items) >= listing.total
=============================================================================
