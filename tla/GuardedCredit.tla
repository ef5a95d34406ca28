---------------------------- MODULE GuardedCredit ----------------------------
(***************************************************************************)
(* Promo credit behind the idempotency guard: the two steps a GrantCredit  *)
(* or ReverseCreditGrant handler takes (module Credit) run where module    *)
(* Idempotency has one handler step, each gRPC call being a session of     *)
(* Credit and the idempotency key naming the grant (the handler passes the *)
(* key of the request context on to the credit_grants row).                *)
(*                                                                         *)
(* What the interceptor takes for a failure without effect is, for promo   *)
(* credit, a rollback that leaves the grant's row behind.  The balance and *)
(* list queries of the service touch neither side and are left out.        *)
(***************************************************************************)
EXTENDS Idempotency

CONSTANTS
    Users, Shipments, Amounts,  \* of module Credit
    Payee, Amount,              \* whom and how much a GrantCredit call grants
    Target                      \* the grant a ReverseCreditGrant call reverses

VARIABLES ledger, grants, tx, severed

C == INSTANCE Credit WITH Sessions <- Calls, Grants <- Keys

ASSUME GuardedCreditAssumption ==
    /\ C!CreditAssumption
    /\ Method \in [Calls -> CreditCommands]
    /\ Payee \in [Calls -> Users] /\ Amount \in [Calls -> Amounts]
    /\ Target \in [Calls -> Keys]

creditVars == <<ledger, grants, tx, severed>>

allVars == <<vars, creditVars>>

GuardedInit == Init /\ C!Init

-----------------------------------------------------------------------------
(* A handler begins; its call stays at "handler".                          *)

GrantCredit(c) ==
    /\ pc[c] = "handler" /\ Method[c] = "GrantCredit"
    /\ C!GrantCredit(c, Key[c], Payee[c], Amount[c])
    /\ UNCHANGED vars

ReverseCreditGrant(c) ==
    /\ pc[c] = "handler" /\ Method[c] = "ReverseCreditGrant"
    /\ C!ReverseCreditGrant(c, Target[c])
    /\ UNCHANGED vars

MarkReversed(c) ==
    /\ C!MarkReversed(c)
    /\ UNCHANGED vars

(* It commits its journal, and the interceptor goes on with its answer.    *)
Commits(c) ==
    /\ C!GrantCreditCommit(c) \/ C!ReverseCreditCommit(c)
    /\ HandlerSucceeds(c)

(* It fails before it has opened its transaction (ErrInvalidInput,         *)
(* ErrDuplicateGrant, ErrNotFound, ErrAlreadyReversed) or after.           *)
Refuses(c) ==
    /\ tx[c] = C!Idle
    /\ HandlerFails(c)
    /\ UNCHANGED creditVars

RollsBack(c) ==
    /\ C!Abort(c)
    /\ HandlerFails(c)

Around(c) == GuardStep(c) /\ UNCHANGED creditVars

(* A call that is lost in its handler leaves a transaction that is rolled  *)
(* back with its connection.                                               *)
LoseCall(c) ==
    /\ Lose(c)
    /\ IF tx[c] = C!Idle THEN UNCHANGED creditVars ELSE C!Abort(c)

GuardedStep(c) ==
    \/ GrantCredit(c) \/ ReverseCreditGrant(c) \/ MarkReversed(c)
    \/ Commits(c) \/ Refuses(c) \/ RollsBack(c) \/ Around(c)

Environment ==
    \/ \E k \in Keys : Expire(k) /\ UNCHANGED creditVars
    \/ /\ \E u \in Users, s \in Shipments, n \in Amounts : C!PayFromWallet(u, s, n)
       /\ UNCHANGED vars

GuardedNext == (\E c \in Calls : GuardedStep(c) \/ LoseCall(c)) \/ Environment

GuardedSpec == GuardedInit /\ [][GuardedNext]_allVars

-----------------------------------------------------------------------------
(* Properties.                                                             *)

(* The journal of a call is posted.                                        *)
Booked(c) ==
    IF Method[c] = "GrantCredit" THEN C!IsGranted(Key[c]) ELSE C!IsReversed(Target[c])

(* An answer to GrantCredit or ReverseCreditGrant, fresh or replayed from  *)
(* either store, is backed by the ledger: the journal of the call it names *)
(* is posted (Complete after the handler, Rollback, Replay).               *)
AnsweredIsBooked == \A c \in Calls : answer[c] # None => Booked(answer[c])

(* The properties of module Credit, for the sessions the guard admits.     *)
CreditTypeOK == C!TypeOK
ExpenseExplained == C!ExpenseExplained
OneReverser == C!OneReverser
StatusTellsLedger == C!StatusTellsLedger
=============================================================================
