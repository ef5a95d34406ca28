---------------------------- MODULE Idempotency ----------------------------
(***************************************************************************)
(* The interceptor every gRPC call passes and the idempotency guard it     *)
(* puts before the methods of its table (internal/delivery/grpc and its    *)
(* idempotency package, internal/usecase/idempotency): a row per key in    *)
(* Postgres, a copy of completed answers in Redis.  Every access to either *)
(* is a step of its own; the handler is one step that commits its effect   *)
(* or fails without one (GuardedCredit opens it up for promo credit).      *)
(*                                                                         *)
(* An answer is named by the call whose handler produced it.               *)
(***************************************************************************)
EXTENDS Integers, FiniteSets, Service

CONSTANTS
    Calls,      \* gRPC calls, retries included
    Keys,
    Key,        \* the idempotency key each call carries, None if it has none
    Method,     \* the method each call invokes
    None

ASSUME IdempotencyAssumption ==
    /\ Key \in [Calls -> Keys \cup {None}]
    /\ Method \in [Calls -> Methods]
    /\ None \notin Calls \cup Keys

VARIABLES
    records,    \* finance.idempotency_records
    cache,      \* Redis: idempotency:{key}
    pc,         \* per call: its next step
    answer,     \* per call: the replayed or fresh answer, None before or without one
    committed,  \* history: calls whose handler committed its effect
    owners      \* history: calls that inserted the record of their key

vars == <<records, cache, pc, answer, committed, owners>>

GuardSteps == {"begin", "lookup", "handler", "complete", "store", "rollback"}
Steps == {"new", "direct"} \cup GuardSteps
Ends == {"answered", "conflict", "failed", "lost"}

NoRecord == [status |-> "NONE", snapshot |-> None]
Processing == [status |-> "PROCESSING", snapshot |-> None]
CompletedEmpty(c) == [status |-> "COMPLETED", snapshot |-> None]
Completed(c) == [status |-> "COMPLETED", snapshot |-> c]

TypeOK ==
    /\ records \in [Keys -> {NoRecord, Processing}
                               \cup [status : {"COMPLETED"}, snapshot : Calls]]
    /\ cache \in [Keys -> Calls \cup {None}]
    /\ pc \in [Calls -> Steps \cup Ends]
    /\ answer \in [Calls -> Calls \cup {None}]
    /\ committed \subseteq Calls
    /\ owners \subseteq Calls

Init ==
    /\ records = [k \in Keys |-> NoRecord]
    /\ cache = [k \in Keys |-> None]
    /\ pc = [c \in Calls |-> "new"]
    /\ answer = [c \in Calls |-> None]
    /\ committed = {}
    /\ owners = {}

-----------------------------------------------------------------------------
Goto(c, step) == pc' = [pc EXCEPT ![c] = step]

Answer(c, snapshot) == Goto(c, "answered") /\ answer' = [answer EXCEPT ![c] = snapshot]

(* snapshotToResponse looks up the method stored with a snapshot under a   *)
(* name that contains the caller's own method.                             *)
StoredMethod(snapshot, method) == IF Method[snapshot] = method THEN method ELSE ""

SnapshotMatches(snapshot, method) == StoredMethod(snapshot, method) \in {"", method}

Replay(c, snapshot) ==
    IF SnapshotMatches(snapshot, Method[c]) THEN Answer(c, snapshot)
    ELSE Goto(c, "failed") /\ UNCHANGED answer

Guarded(c) == Method[c] \in mutatingMethods

(* The interceptor passes a method that is not in its table on unguarded,  *)
(* whatever key the request carries.                                       *)
Bypass(c) ==
    /\ pc[c] = "new"
    /\ ~Guarded(c)
    /\ Goto(c, "direct")
    /\ UNCHANGED <<records, cache, answer, committed, owners>>

(* ErrKeyRequired.                                                         *)
RefuseWithoutKey(c) ==
    /\ pc[c] = "new"
    /\ Guarded(c) /\ Key[c] = None
    /\ Goto(c, "failed")
    /\ UNCHANGED <<records, cache, answer, committed, owners>>

(* Guard.Begin: first Redis ...                                            *)
CacheGet(c) ==
    /\ pc[c] = "new"
    /\ Guarded(c) /\ Key[c] # None
    /\ IF cache[Key[c]] # None THEN Replay(c, cache[Key[c]])
       ELSE Goto(c, "begin") /\ UNCHANGED answer
    /\ UNCHANGED <<records, cache, committed, owners>>

CanTakeOver(record) == record.status # "COMPLETED"

CanBegin(record) == record.status = "NONE"

(* ... then INSERT ... ON CONFLICT DO NOTHING ...                          *)
TryBeginProcessing(c) ==
    /\ pc[c] = "begin"
    /\ IF CanBegin(records[Key[c]])
       THEN /\ records' = [records EXCEPT ![Key[c]] = Processing]
            /\ owners' = owners \cup {c}
            /\ Goto(c, "handler")
       ELSE /\ UNCHANGED <<records, owners>>
            /\ Goto(c, "lookup")
    /\ UNCHANGED <<cache, answer, committed>>

(* ... and, in a second query, the row that was in the way: it may be gone *)
(* by now.  A completed one is copied to Redis, an error is ignored.       *)
GetByKey(c) ==
    LET record == records[Key[c]] IN
    /\ pc[c] = "lookup"
    /\ CASE record.status = "NONE" -> Goto(c, "failed") /\ UNCHANGED <<cache, answer>>
         [] record.status = "PROCESSING" -> Goto(c, "conflict") /\ UNCHANGED <<cache, answer>>
         [] record.status = "COMPLETED" ->
                /\ Replay(c, record.snapshot)
                /\ \/ cache' = [cache EXCEPT ![Key[c]] = record.snapshot]
                   \/ UNCHANGED cache
    /\ UNCHANGED <<records, committed, owners>>

-----------------------------------------------------------------------------
(* The handler, and what the interceptor does with its result.             *)

Effect(c) == {d \in {c} : Method[d] \in Commands}

StoreFirst == "store"
AfterSuccess == "complete"

HandlerSucceeds(c) ==
    /\ pc[c] = "handler"
    /\ committed' = committed \cup Effect(c)
    /\ Goto(c, AfterSuccess)
    /\ UNCHANGED <<records, cache, answer, owners>>

DirectSucceeds(c) ==
    /\ pc[c] = "direct"
    /\ committed' = committed \cup Effect(c)
    /\ Answer(c, c)
    /\ UNCHANGED <<records, cache, owners>>

DirectFails(c) ==
    /\ pc[c] = "direct"
    /\ Goto(c, "failed")
    /\ UNCHANGED <<records, cache, answer, committed, owners>>

IgnoreError == "complete"
AfterError == "rollback"

HandlerFails(c) ==
    /\ pc[c] = "handler"
    /\ Goto(c, AfterError)
    /\ UNCHANGED <<records, cache, answer, committed, owners>>

Complete(c) ==
    /\ pc[c] = "complete"
    /\ IF records[Key[c]].status = "PROCESSING"
       THEN records' = [records EXCEPT ![Key[c]] = Completed(c)] /\ Goto(c, "store")
       ELSE UNCHANGED records /\ Goto(c, "failed")
    /\ UNCHANGED <<cache, answer, committed, owners>>

CacheSet(c) ==
    /\ pc[c] = "store"
    /\ cache' = [cache EXCEPT ![Key[c]] = c]
    /\ Answer(c, c)
    /\ UNCHANGED <<records, committed, owners>>

Kept(record) == record

DeleteProcessing(record) == IF record.status = "PROCESSING" THEN NoRecord ELSE record

Rollback(c) ==
    /\ pc[c] = "rollback"
    /\ records' = [records EXCEPT ![Key[c]] = DeleteProcessing(@)]
    /\ Goto(c, "failed")
    /\ UNCHANGED <<cache, answer, committed, owners>>

(* A database or Redis error, a cancelled context (the rollback runs under *)
(* the caller's) or a crash: the call ends where it stands.                *)
Lose(c) ==
    /\ pc[c] \in Steps \ {"new"}
    /\ Goto(c, "lost")
    /\ UNCHANGED <<records, cache, answer, committed, owners>>

(* The time to live of a cached answer ends.                               *)
Expire(k) ==
    /\ cache[k] # None
    /\ cache' = [cache EXCEPT ![k] = None]
    /\ UNCHANGED <<records, pc, answer, committed, owners>>

(* What the interceptor and the guard do around a handler.                 *)
GuardStep(c) ==
    \/ Bypass(c) \/ RefuseWithoutKey(c)
    \/ CacheGet(c) \/ TryBeginProcessing(c) \/ GetByKey(c)
    \/ Complete(c) \/ CacheSet(c) \/ Rollback(c)

Step(c) ==
    \/ GuardStep(c)
    \/ HandlerSucceeds(c) \/ HandlerFails(c)
    \/ DirectSucceeds(c) \/ DirectFails(c)

Next == (\E c \in Calls : Step(c) \/ Lose(c)) \/ (\E k \in Keys : Expire(k))

(* A call that has begun and is not lost is carried on by its goroutine.   *)
Fairness == \A c \in Calls : WF_vars(pc[c] # "new" /\ Step(c))

Spec == Init /\ [][Next]_vars

FairSpec == Spec /\ Fairness

-----------------------------------------------------------------------------
(* Properties.                                                             *)

(* Commands the table leaves out: what they do is not guarded at all.      *)
Unguarded == {"ApproveWithdrawal", "MarkWithdrawalSent", "SettleWithdrawal",
              "FailWithdrawal", "RunReconciliation"}

(* Of all calls of commands with one key at most one takes effect, however *)
(* they overlap, whichever is lost and whenever the cache forgets          *)
(* (TryBeginProcessing, Rollback), the five commands the table leaves out  *)
(* excepted; and none without a key does.                                  *)
AtMostOnce ==
    \A c \in committed : Method[c] \in Commands \ Unguarded =>
        /\ Key[c] # None
        /\ \A d \in committed :
              Method[d] \in Commands \ Unguarded /\ Key[c] = Key[d] => c = d

(* docs/tasks/F8-idempotency-report.md:67: every answer to a key, fresh or *)
(* replayed, is that of the one call with this key that took effect.       *)
SameAnswer ==
    \A c \in Calls : answer[c] # None /\ Method[c] \in Commands =>
        answer[c] \in committed /\ Key[answer[c]] = Key[c]

(* Redis never knows more, or anything else, than the completed record:    *)
(* an answer served from it can be relied on (Guard.Complete, Guard.Begin) *)
CacheIsRecord ==
    \A k \in Keys : cache[k] # None => records[k] = Completed(cache[k])

(* A key is not blocked for ever unless the call that runs its handler is  *)
(* lost: its record is completed, or removed so that a retry may run.      *)
KeyIsFreed ==
    \A k \in Keys :
        records[k] = Processing
            ~> \/ records[k] # Processing
               \/ \E c \in owners : Key[c] = k /\ pc[c] = "lost"

(* snapshot.go:45 "snapshot method mismatch": an answer is never replayed  *)
(* to a call of another method.                                            *)
ReplaySameMethod ==
    \A c \in Calls : answer[c] # None => Method[answer[c]] = Method[c]
=============================================================================
