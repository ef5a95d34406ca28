------------------------- MODULE Idempotency_proofs -------------------------
(* Proofs about module Idempotency, for any calls, keys and methods.       *)
EXTENDS Idempotency, TLAPS

(* A call that runs its handler, or has yet to settle the outcome, holds   *)
(* its key alone.                                                          *)
Holding == {"handler", "complete", "rollback"}

HoldsKey ==
    \A c \in Calls : pc[c] \in Holding =>
        /\ records[Key[c]] = Processing
        /\ \A d \in Calls : pc[d] \in Holding /\ Key[d] = Key[c] => d = c

(* Behind the guard are only calls of its table that carry a key, and what *)
(* the interceptor let pass is not of its table.                           *)
Entered ==
    \A c \in Calls :
        /\ pc[c] \in GuardSteps => Guarded(c) /\ Key[c] \in Keys
        /\ pc[c] = "direct" => ~Guarded(c)

(* A key under which a guarded call committed an effect has a record from  *)
(* then on, and only the call that committed may still hold it.            *)
Effective ==
    \A c \in committed : Guarded(c) =>
        /\ Key[c] \in Keys
        /\ records[Key[c]] # NoRecord
        /\ \A d \in Calls : pc[d] \in Holding /\ Key[d] = Key[c] => d = c /\ pc[d] = "complete"

(* What is to be completed or stored has been committed.                   *)
Settling ==
    \A c \in Calls :
        /\ pc[c] = "complete" => c \in committed
        /\ pc[c] = "store" => records[Key[c]] = Completed(c)

(* A completed record names a call of its key that took effect.            *)
Truthful ==
    \A k \in Keys : records[k].status = "COMPLETED" =>
        records[k].snapshot \in committed /\ Key[records[k].snapshot] = k

IInv ==
    /\ TypeOK /\ Entered /\ HoldsKey /\ Effective /\ Settling /\ Truthful
    /\ AtMostOnce /\ SameAnswer /\ CacheIsRecord

-----------------------------------------------------------------------------
(* The table has commands only, and all of them but the five of Unguarded. *)
LEMMA TableCovers ==
    mutatingMethods \subseteq Commands /\ Commands \ Unguarded \subseteq mutatingMethods
BY DEF mutatingMethods, Commands, Unguarded, EscrowCommands, PaymentCommands,
       WithdrawalCommands, ReconciliationCommands, CreditCommands

(* A guarded handler that succeeds commits one effect, its own.            *)
LEMMA GuardedEffect == ASSUME NEW c \in Calls, Guarded(c) PROVE Effect(c) = {c}
BY TableCovers DEF Guarded, Effect

LEMMA InitIInv == Init => IInv
<1> SUFFICES ASSUME Init PROVE IInv
  OBVIOUS
<1>1. TypeOK /\ Entered
  BY DEF Init, TypeOK, Entered, Steps, GuardSteps
<1>2. HoldsKey /\ Effective /\ Settling /\ Truthful
  BY IdempotencyAssumption DEF Init, HoldsKey, Holding, Effective, Settling,
         Truthful, NoRecord
<1>3. AtMostOnce /\ SameAnswer /\ CacheIsRecord
  BY DEF Init, AtMostOnce, SameAnswer, CacheIsRecord
<1> QED BY <1>1, <1>2, <1>3 DEF IInv

(* A call the table does not hold goes past the guard.                     *)
LEMMA BypassKeeps == ASSUME IInv, NEW c \in Calls, Bypass(c) PROVE IInv'
<1> USE IdempotencyAssumption
<1>1. TypeOK' /\ Entered'
  BY DEF IInv, Bypass, Goto, TypeOK, Entered, Guarded, GuardSteps, Steps,
         Ends
<1>2. HoldsKey' /\ Effective'
  BY DEF IInv, Bypass, Goto, Entered, HoldsKey, Holding, Effective,
         Guarded, GuardSteps, TypeOK
<1>3. Settling' /\ Truthful'
  BY DEF IInv, Bypass, Goto, Settling, Truthful, TypeOK
<1>4. AtMostOnce'
  BY DEF IInv, Bypass, AtMostOnce
<1>5. SameAnswer'
  BY DEF IInv, Bypass, SameAnswer
<1>6. CacheIsRecord'
  BY DEF IInv, Bypass, CacheIsRecord
<1> QED BY <1>1, <1>2, <1>3, <1>4, <1>5, <1>6 DEF IInv

(* A guarded call without a key ends at once.                              *)
LEMMA RefuseKeeps == ASSUME IInv, NEW c \in Calls, RefuseWithoutKey(c) PROVE IInv'
<1> USE IdempotencyAssumption
<1>1. TypeOK' /\ Entered'
  BY DEF IInv, RefuseWithoutKey, Goto, TypeOK, Entered, Guarded,
         GuardSteps, Steps, Ends
<1>2. HoldsKey' /\ Effective'
  BY DEF IInv, RefuseWithoutKey, Goto, Entered, HoldsKey, Holding,
         Effective, Guarded, GuardSteps, TypeOK
<1>3. Settling' /\ Truthful'
  BY DEF IInv, RefuseWithoutKey, Goto, Settling, Truthful, TypeOK
<1>4. AtMostOnce'
  BY DEF IInv, RefuseWithoutKey, AtMostOnce
<1>5. SameAnswer'
  BY DEF IInv, RefuseWithoutKey, SameAnswer
<1>6. CacheIsRecord'
  BY DEF IInv, RefuseWithoutKey, CacheIsRecord
<1> QED BY <1>1, <1>2, <1>3, <1>4, <1>5, <1>6 DEF IInv

(* An answer from Redis is that of the record, which names an effective call.*)
LEMMA CacheGetKeeps == ASSUME IInv, NEW c \in Calls, CacheGet(c) PROVE IInv'
<1> USE IdempotencyAssumption
<1>1. TypeOK' /\ Entered'
  BY DEF IInv, CacheGet, Replay, Answer, Goto, TypeOK, Entered, Guarded,
         GuardSteps, Steps, Ends
<1>2. HoldsKey' /\ Effective'
  BY DEF IInv, CacheGet, Replay, Answer, Goto, Entered, HoldsKey, Holding,
         Effective, Guarded, GuardSteps, TypeOK
<1>3. Settling' /\ Truthful'
  BY DEF IInv, CacheGet, Replay, Answer, Goto, Settling, Truthful, TypeOK
<1>4. AtMostOnce'
  BY DEF IInv, CacheGet, AtMostOnce
<1>5. SameAnswer'
  BY DEF IInv, CacheGet, Replay, Answer, SameAnswer, CacheIsRecord,
         Truthful, TypeOK, Completed
<1>6. CacheIsRecord'
  BY DEF IInv, CacheGet, CacheIsRecord
<1> QED BY <1>1, <1>2, <1>3, <1>4, <1>5, <1>6 DEF IInv

(* Who inserts the record of a key finds nobody holding it.                *)
LEMMA TryBeginKeeps == ASSUME IInv, NEW c \in Calls, TryBeginProcessing(c) PROVE IInv'
<1> USE IdempotencyAssumption
<1>1. TypeOK' /\ Entered'
  BY DEF IInv, TryBeginProcessing, CanBegin, Goto, TypeOK, Entered,
         Guarded, GuardSteps, Steps, Ends, Processing, NoRecord
<1>2. HoldsKey' /\ Effective'
  BY DEF IInv, TryBeginProcessing, CanBegin, Goto, Entered, HoldsKey,
         Holding, Effective, Guarded, GuardSteps, TypeOK, Processing,
         NoRecord
<1>3. Settling' /\ Truthful'
  BY DEF IInv, TryBeginProcessing, CanBegin, Goto, Settling, Truthful,
         TypeOK, Processing, Completed, Entered, GuardSteps
<1>4. AtMostOnce'
  BY DEF IInv, TryBeginProcessing, AtMostOnce
<1>5. SameAnswer'
  BY DEF IInv, TryBeginProcessing, SameAnswer
<1>6. CacheIsRecord'
  BY DEF IInv, TryBeginProcessing, CanBegin, CacheIsRecord, TypeOK,
         Completed, Entered, GuardSteps
<1> QED BY <1>1, <1>2, <1>3, <1>4, <1>5, <1>6 DEF IInv

(* A replayed record names an effective call, also when it is cached.      *)
LEMMA GetByKeyKeeps == ASSUME IInv, NEW c \in Calls, GetByKey(c) PROVE IInv'
<1> USE IdempotencyAssumption
<1> DEFINE record == records[Key[c]]
<1>0. Key[c] \in Keys
  BY DEF IInv, Entered, GuardSteps, GetByKey
<1>1. record.status \in {"NONE", "PROCESSING", "COMPLETED"}
  BY <1>0 DEF IInv, TypeOK, NoRecord, Processing
<1>2. /\ pc[c] = "lookup"
      /\ \E step \in {"failed", "conflict", "answered"} : pc' = [pc EXCEPT ![c] = step]
      /\ UNCHANGED <<records, committed, owners>>
  BY <1>1 DEF GetByKey, Replay, Answer, Goto
<1>3. \/ UNCHANGED <<cache, answer>>
      \/ /\ record.status = "COMPLETED"
         /\ cache' \in {cache, [cache EXCEPT ![Key[c]] = record.snapshot]}
         /\ answer' \in {answer, [answer EXCEPT ![c] = record.snapshot]}
  BY <1>1 DEF GetByKey, Replay, Answer
<1>4. record.status = "COMPLETED" =>
        /\ record.snapshot \in committed /\ Key[record.snapshot] = Key[c]
        /\ record = Completed(record.snapshot)
  BY <1>0 DEF IInv, Truthful, TypeOK, NoRecord, Processing, Completed
<1> HIDE DEF record
<1>5. TypeOK' /\ Entered'
  BY <1>0, <1>2, <1>3, <1>4 DEF IInv, TypeOK, Ends, Entered, Guarded, GuardSteps
<1>6. HoldsKey' /\ Effective'
  BY <1>2 DEF IInv, HoldsKey, Holding, Effective, Guarded
<1>7. Settling' /\ Truthful'
  BY <1>2 DEF IInv, Settling, Truthful
<1>8. AtMostOnce' /\ SameAnswer'
  BY <1>2, <1>3, <1>4 DEF IInv, AtMostOnce, SameAnswer, TypeOK
<1>9. CacheIsRecord'
  BY <1>0, <1>2, <1>3, <1>4 DEF IInv, CacheIsRecord, TypeOK, record
<1> QED BY <1>5, <1>6, <1>7, <1>8, <1>9 DEF IInv

(* The call that commits holds its key alone, so no other has committed.   *)
LEMMA HandlerSucceedsKeeps == ASSUME IInv, NEW c \in Calls, HandlerSucceeds(c) PROVE IInv'
<1> USE IdempotencyAssumption
<1>0. Guarded(c) /\ Key[c] \in Keys /\ committed' = committed \cup {c}
  BY GuardedEffect DEF IInv, Entered, GuardSteps, HandlerSucceeds
<1>1. TypeOK' /\ Entered'
  BY <1>0 DEF IInv, HandlerSucceeds, AfterSuccess, Goto, TypeOK, Entered,
         Guarded, GuardSteps, Steps, Ends
<1>2. HoldsKey' /\ Effective'
  BY <1>0 DEF IInv, HandlerSucceeds, AfterSuccess, Goto, Entered,
         HoldsKey, Holding, Effective, Guarded, GuardSteps, TypeOK,
         NoRecord, Processing
<1>3. Settling' /\ Truthful'
  BY <1>0 DEF IInv, HandlerSucceeds, AfterSuccess, Goto, Settling,
         Truthful, TypeOK
<1>4. AtMostOnce'
  BY <1>0, TableCovers DEF IInv, HandlerSucceeds, AtMostOnce, Effective,
         Holding, Guarded
<1>5. SameAnswer'
  BY <1>0 DEF IInv, HandlerSucceeds, SameAnswer
<1>6. CacheIsRecord'
  BY DEF IInv, HandlerSucceeds, CacheIsRecord
<1> QED BY <1>1, <1>2, <1>3, <1>4, <1>5, <1>6 DEF IInv

(* What goes past the guard is not of its table and answers for itself.    *)
LEMMA DirectSucceedsKeeps == ASSUME IInv, NEW c \in Calls, DirectSucceeds(c) PROVE IInv'
<1> USE IdempotencyAssumption
<1>0. committed' \subseteq committed \cup {c} /\ committed \subseteq committed'
  BY DEF DirectSucceeds, Effect
<1>7. ~Guarded(c)
  BY DEF IInv, Entered, DirectSucceeds
<1>1. TypeOK' /\ Entered'
  BY <1>0, <1>7 DEF IInv, DirectSucceeds, Answer, Goto, TypeOK, Entered,
         Guarded, GuardSteps, Steps, Ends
<1>2. HoldsKey' /\ Effective'
  BY <1>0, <1>7 DEF IInv, DirectSucceeds, Answer, Goto, Entered, HoldsKey,
         Holding, Effective, Guarded, GuardSteps, TypeOK
<1>3. Settling' /\ Truthful'
  BY <1>0 DEF IInv, DirectSucceeds, Answer, Goto, Settling, Truthful,
         TypeOK
<1>4. AtMostOnce'
  BY <1>0, <1>7, TableCovers DEF IInv, DirectSucceeds, AtMostOnce, Guarded
<1>5. SameAnswer'
  BY <1>0 DEF IInv, DirectSucceeds, Answer, Effect, SameAnswer, TypeOK
<1>6. CacheIsRecord'
  BY DEF IInv, DirectSucceeds, CacheIsRecord
<1> QED BY <1>1, <1>2, <1>3, <1>4, <1>5, <1>6 DEF IInv

(* A call that fails there leaves nothing.                                 *)
LEMMA DirectFailsKeeps == ASSUME IInv, NEW c \in Calls, DirectFails(c) PROVE IInv'
<1> USE IdempotencyAssumption
<1>1. TypeOK' /\ Entered'
  BY DEF IInv, DirectFails, Goto, TypeOK, Entered, Guarded, GuardSteps,
         Steps, Ends
<1>2. HoldsKey' /\ Effective'
  BY DEF IInv, DirectFails, Goto, Entered, HoldsKey, Holding, Effective,
         Guarded, GuardSteps, TypeOK
<1>3. Settling' /\ Truthful'
  BY DEF IInv, DirectFails, Goto, Settling, Truthful, TypeOK
<1>4. AtMostOnce'
  BY DEF IInv, DirectFails, AtMostOnce
<1>5. SameAnswer'
  BY DEF IInv, DirectFails, SameAnswer
<1>6. CacheIsRecord'
  BY DEF IInv, DirectFails, CacheIsRecord
<1> QED BY <1>1, <1>2, <1>3, <1>4, <1>5, <1>6 DEF IInv

(* A failing handler committed nothing; its call still holds the key.       *)
LEMMA HandlerFailsKeeps == ASSUME IInv, NEW c \in Calls, HandlerFails(c) PROVE IInv'
<1> USE IdempotencyAssumption
<1>1. TypeOK' /\ Entered'
  BY DEF IInv, HandlerFails, AfterError, Goto, TypeOK, Entered, Guarded,
         GuardSteps, Steps, Ends
<1>2. HoldsKey' /\ Effective'
  BY DEF IInv, HandlerFails, AfterError, Goto, Entered, HoldsKey, Holding,
         Effective, Guarded, GuardSteps, TypeOK
<1>3. Settling' /\ Truthful'
  BY DEF IInv, HandlerFails, AfterError, Goto, Settling, Truthful, TypeOK
<1>4. AtMostOnce'
  BY DEF IInv, HandlerFails, AtMostOnce
<1>5. SameAnswer'
  BY DEF IInv, HandlerFails, SameAnswer
<1>6. CacheIsRecord'
  BY DEF IInv, HandlerFails, CacheIsRecord
<1> QED BY <1>1, <1>2, <1>3, <1>4, <1>5, <1>6 DEF IInv

(* The completed record names the call that committed.                     *)
LEMMA CompleteKeeps == ASSUME IInv, NEW c \in Calls, Complete(c) PROVE IInv'
<1> USE IdempotencyAssumption
<1>0. Key[c] \in Keys
  BY DEF IInv, Entered, GuardSteps, Complete
<1>1. TypeOK' /\ Entered'
  BY <1>0 DEF IInv, Complete, Goto, TypeOK, Entered, Guarded, GuardSteps,
         Steps, Ends, Completed
<1>2. HoldsKey' /\ Effective'
  BY <1>0 DEF IInv, Complete, Goto, Entered, HoldsKey, Holding, Effective,
         Guarded, GuardSteps, TypeOK, NoRecord, Completed
<1>3. Settling' /\ Truthful'
  <2>1. CASE records[Key[c]].status = "PROCESSING"
    <3>1. /\ records' = [records EXCEPT ![Key[c]] = Completed(c)]
          /\ pc' = [pc EXCEPT ![c] = "store"] /\ c \in committed
          /\ UNCHANGED committed
      BY <2>1 DEF IInv, Complete, Goto, Settling
    <3>5. Completed(c).snapshot = c
      BY DEF Completed
    <3>2. Truthful'
      BY <1>0, <3>1, <3>5 DEF IInv, Truthful, TypeOK
    <3>3. ASSUME NEW d \in Calls, pc[d] = "store" PROVE Key[d] # Key[c]
      <4>1. records[Key[d]] = Completed(d)
        BY <3>3 DEF IInv, Settling
      <4> QED BY <2>1, <4>1 DEF Completed
    <3>4. Settling'
      BY <1>0, <3>1, <3>3 DEF IInv, Settling, TypeOK
    <3> QED BY <3>2, <3>4
  <2>2. CASE records[Key[c]].status # "PROCESSING"
    BY <2>2 DEF IInv, Complete, Goto, Settling, Truthful, TypeOK
  <2> QED BY <2>1, <2>2
<1>4. AtMostOnce'
  BY DEF IInv, Complete, AtMostOnce
<1>5. SameAnswer'
  BY DEF IInv, Complete, SameAnswer
<1>6. CacheIsRecord'
  BY <1>0 DEF IInv, Complete, CacheIsRecord, TypeOK, Completed
<1> QED BY <1>1, <1>2, <1>3, <1>4, <1>5, <1>6 DEF IInv

(* What is stored in Redis and answered is what the record just completed.  *)
LEMMA CacheSetKeeps == ASSUME IInv, NEW c \in Calls, CacheSet(c) PROVE IInv'
<1> USE IdempotencyAssumption
<1>0. Key[c] \in Keys
  BY DEF IInv, Entered, GuardSteps, CacheSet
<1>7. c \in committed
  <2>1. records[Key[c]] = Completed(c)
    BY DEF IInv, CacheSet, Settling
  <2> QED BY <1>0, <2>1 DEF IInv, Truthful, Completed
<1>1. TypeOK' /\ Entered'
  BY <1>0 DEF IInv, CacheSet, Answer, Goto, TypeOK, Entered, Guarded,
         GuardSteps, Steps, Ends
<1>2. HoldsKey' /\ Effective'
  BY <1>0 DEF IInv, CacheSet, Answer, Goto, Entered, HoldsKey, Holding,
         Effective, Guarded, GuardSteps, TypeOK
<1>3. Settling' /\ Truthful'
  BY <1>0 DEF IInv, CacheSet, Answer, Goto, Settling, Truthful, TypeOK
<1>4. AtMostOnce'
  BY DEF IInv, CacheSet, AtMostOnce
<1>5. SameAnswer'
  BY <1>7 DEF IInv, CacheSet, Answer, SameAnswer, TypeOK
<1>6. CacheIsRecord'
  BY <1>0 DEF IInv, CacheSet, CacheIsRecord, Settling, TypeOK
<1> QED BY <1>1, <1>2, <1>3, <1>4, <1>5, <1>6 DEF IInv

(* A record is only removed by a call that holds it and has no effect.     *)
LEMMA RollbackKeeps == ASSUME IInv, NEW c \in Calls, Rollback(c) PROVE IInv'
<1> USE IdempotencyAssumption
<1>0. Key[c] \in Keys
  BY DEF IInv, Entered, GuardSteps, Rollback
<1>1. TypeOK' /\ Entered'
  BY <1>0 DEF IInv, Rollback, Goto, TypeOK, Entered, Guarded, GuardSteps,
         Steps, Ends, DeleteProcessing
<1>2. HoldsKey' /\ Effective'
  BY <1>0 DEF IInv, Rollback, Goto, Entered, HoldsKey, Holding, Effective,
         Guarded, GuardSteps, TypeOK
<1>3. Settling' /\ Truthful'
  BY <1>0 DEF IInv, Rollback, Goto, Settling, Truthful, TypeOK,
         DeleteProcessing, NoRecord, Completed
<1>4. AtMostOnce'
  BY DEF IInv, Rollback, AtMostOnce
<1>5. SameAnswer'
  BY DEF IInv, Rollback, SameAnswer
<1>6. CacheIsRecord'
  BY <1>0 DEF IInv, Rollback, CacheIsRecord, HoldsKey, Holding,
         Processing, Completed
<1> QED BY <1>1, <1>2, <1>3, <1>4, <1>5, <1>6 DEF IInv

(* A lost call only stops holding: its record stays as it is.              *)
LEMMA LoseKeeps == ASSUME IInv, NEW c \in Calls, Lose(c) PROVE IInv'
<1> USE IdempotencyAssumption
<1>1. TypeOK' /\ Entered'
  BY DEF IInv, Lose, Goto, TypeOK, Entered, Guarded, GuardSteps, Steps,
         Ends
<1>2. HoldsKey' /\ Effective'
  BY DEF IInv, Lose, Goto, Entered, HoldsKey, Holding, Effective, Guarded,
         GuardSteps, TypeOK
<1>3. Settling' /\ Truthful'
  BY DEF IInv, Lose, Goto, Settling, Truthful, TypeOK
<1>4. AtMostOnce'
  BY DEF IInv, Lose, AtMostOnce
<1>5. SameAnswer'
  BY DEF IInv, Lose, SameAnswer
<1>6. CacheIsRecord'
  BY DEF IInv, Lose, CacheIsRecord
<1> QED BY <1>1, <1>2, <1>3, <1>4, <1>5, <1>6 DEF IInv

(* A forgotten copy leaves the record.                                     *)
LEMMA ExpireKeeps == ASSUME IInv, NEW k \in Keys, Expire(k) PROVE IInv'
BY DEF IInv, Expire, TypeOK, Entered, HoldsKey, Effective, Settling, Truthful,
       AtMostOnce, SameAnswer, CacheIsRecord

LEMMA NextIInv == IInv /\ [Next]_vars => IInv'
<1> SUFFICES ASSUME IInv, [Next]_vars PROVE IInv'
  OBVIOUS
<1>1. ASSUME NEW c \in Calls, Step(c) PROVE IInv'
  BY <1>1, BypassKeeps, RefuseKeeps, CacheGetKeeps, TryBeginKeeps, GetByKeyKeeps,
     HandlerSucceedsKeeps, HandlerFailsKeeps, DirectSucceedsKeeps, DirectFailsKeeps,
     CompleteKeeps, CacheSetKeeps, RollbackKeeps DEF Step, GuardStep
<1>2. ASSUME NEW c \in Calls, Lose(c) PROVE IInv'
  BY <1>2, LoseKeeps
<1>3. ASSUME NEW k \in Keys, Expire(k) PROVE IInv'
  BY <1>3, ExpireKeeps
<1>4. CASE UNCHANGED vars
  BY <1>4 DEF vars, IInv, TypeOK, Entered, HoldsKey, Effective, Settling, Truthful,
         AtMostOnce, SameAnswer, CacheIsRecord
<1> QED BY <1>1, <1>2, <1>3, <1>4 DEF Next

(* Every reachable state of the guard satisfies the inductive invariant.   *)
THEOREM Invariant == Spec => []IInv
BY InitIInv, NextIInv, PTL DEF Spec

(* Records, cache, answers and steps are always of their types.            *)
THEOREM TypeCorrect == Spec => []TypeOK
<1>1. IInv => TypeOK
  BY DEF IInv
<1> QED BY Invariant, <1>1, PTL

(* At most one of all calls with a key takes effect, whatever overlaps and *)
(* whatever is lost: what TryBeginProcessing and Rollback promise.         *)
THEOREM Once == Spec => []AtMostOnce
<1>1. IInv => AtMostOnce
  BY DEF IInv
<1> QED BY Invariant, <1>1, PTL

(* Every answer to a key, fresh or replayed, is that of the one call that  *)
(* took effect.                                                            *)
THEOREM Replays == Spec => []SameAnswer
<1>1. IInv => SameAnswer
  BY DEF IInv
<1> QED BY Invariant, <1>1, PTL

(* What Redis answers is what the completed record holds.                  *)
THEOREM CacheCoherent == Spec => []CacheIsRecord
<1>1. IInv => CacheIsRecord
  BY DEF IInv
<1> QED BY Invariant, <1>1, PTL
=============================================================================
