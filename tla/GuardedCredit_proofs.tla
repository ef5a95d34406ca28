------------------------ MODULE GuardedCredit_proofs ------------------------
(* Proofs about promo credit behind the guard, for any calls, keys and     *)
(* amounts.                                                                *)
EXTENDS GuardedCredit, Idempotency_proofs

(* Rows and sessions have their types: what is read from them is defined.  *)
Typed ==
    /\ grants \in [Keys -> C!Row]
    /\ tx \in [Calls -> C!Session]

(* A session with an open transaction is a call in its handler, and works  *)
(* on the grant the call names.                                            *)
InHandler ==
    \A c \in Calls :
        /\ tx[c].pc # "idle" => pc[c] = "handler"
        /\ tx[c].pc = "grant" => Method[c] = "GrantCredit" /\ tx[c].id = Key[c]
        /\ tx[c].pc \in {"mark", "reverse"} =>
              Method[c] = "ReverseCreditGrant" /\ tx[c].id = Target[c]

(* A handler that reported success has posted its journal.                 *)
CommittedBooked == \A c \in committed : Booked(c)

GInv == Typed /\ InHandler /\ CommittedBooked

-----------------------------------------------------------------------------
(* The guard sees the steps of module Idempotency and nothing else.        *)

LEMMA StepsRefine == ASSUME [GuardedNext]_allVars PROVE [Next]_vars
<1>1. ASSUME NEW c \in Calls, GuardedStep(c) PROVE [Next]_vars
  <2>1. CASE GrantCredit(c) \/ ReverseCreditGrant(c) \/ MarkReversed(c)
    BY <2>1 DEF GrantCredit, ReverseCreditGrant, MarkReversed
  <2>2. CASE Commits(c) \/ Refuses(c) \/ RollsBack(c) \/ Around(c)
    BY <2>2 DEF Commits, Refuses, RollsBack, Around, Next, Step
  <2> QED BY <1>1, <2>1, <2>2 DEF GuardedStep
<1>2. ASSUME NEW c \in Calls, LoseCall(c) PROVE [Next]_vars
  BY <1>2 DEF LoseCall, Next
<1>3. CASE Environment
  BY <1>3 DEF Environment, Next
<1>4. CASE UNCHANGED allVars
  BY <1>4 DEF allVars
<1> QED BY <1>1, <1>2, <1>3, <1>4 DEF GuardedNext

(* Promo credit behind the guard implements the guard: opening the handler *)
(* up changes nothing the interceptor relies on.                           *)
THEOREM GuardRefined == GuardedSpec => Spec
<1>1. GuardedInit => Init
  BY DEF GuardedInit
<1> QED BY <1>1, StepsRefine, PTL DEF GuardedSpec, Spec

-----------------------------------------------------------------------------
LEMMA InitGInv == ASSUME GuardedInit PROVE GInv
<1>1. Typed
  BY DEF GuardedInit, C!Init, Typed, C!Row, C!NoRow, C!Session, C!Idle
<1>2. InHandler
  BY DEF GuardedInit, C!Init, InHandler, C!Idle
<1>3. CommittedBooked
  BY DEF GuardedInit, Init, CommittedBooked
<1> QED BY <1>1, <1>2, <1>3 DEF GInv

(* Posting keeps what was posted.                                          *)
LEMMA PostKeeps == ASSUME NEW j, ledger' = C!Post(ledger, j)
                   PROVE  /\ ledger'.posted = ledger.posted \cup {j.ref}
                          /\ \A c \in Calls : Booked(c) => Booked(c)'
<1>1. ledger'.posted = ledger.posted \cup {j.ref}
  BY DEF C!Post
<1> QED BY <1>1 DEF Booked, C!IsGranted, C!IsReversed

LEMMA Keeps == ASSUME GInv, IInv, [GuardedNext]_allVars PROVE GInv'
<1> USE IdempotencyAssumption, GuardedCreditAssumption DEF GInv
<1>1. ASSUME NEW c \in Calls, GrantCredit(c) PROVE GInv'
  <2>1. Key[c] \in Keys
    BY <1>1 DEF GrantCredit, IInv, Entered, GuardSteps
  <2>2. Typed' /\ InHandler'
    BY <1>1, <2>1 DEF GrantCredit, C!GrantCredit, C!CreateGrant, vars, Typed, InHandler,
       C!Row, C!Session, C!CreditAssumption
  <2>3. CommittedBooked'
    BY <1>1 DEF GrantCredit, C!GrantCredit, vars, CommittedBooked, Booked, C!IsGranted,
       C!IsReversed
  <2> QED BY <2>2, <2>3
<1>2. ASSUME NEW c \in Calls, ReverseCreditGrant(c) PROVE GInv'
  <2>1. Typed' /\ InHandler'
    BY <1>2 DEF ReverseCreditGrant, C!ReverseCreditGrant, C!GetGrantByID, vars, Typed, InHandler,
       C!Session
  <2>2. CommittedBooked'
    BY <1>2 DEF ReverseCreditGrant, C!ReverseCreditGrant, vars, CommittedBooked, Booked,
       C!IsGranted, C!IsReversed
  <2> QED BY <2>1, <2>2
<1>3. ASSUME NEW c \in Calls, MarkReversed(c) PROVE GInv'
  <2>1. Typed' /\ InHandler'
    <3>1. /\ tx[c].pc = "mark" /\ tx' = [tx EXCEPT ![c].pc = "reverse"]
          /\ grants' = [grants EXCEPT ![tx[c].id] = [@ EXCEPT !.status = "REVERSED"]]
          /\ UNCHANGED pc
      BY <1>3 DEF MarkReversed, C!MarkReversed, C!Marked, vars
    <3>2. tx[c].id \in Keys
      BY <3>1 DEF InHandler
    <3>3. [grants[tx[c].id] EXCEPT !.status = "REVERSED"] \in C!Row
      BY <3>2 DEF Typed, C!Row
    <3>4. [tx[c] EXCEPT !.pc = "reverse"] \in C!Session
      BY DEF Typed, C!Session
    <3>5. Typed'
      BY <3>1, <3>2, <3>3, <3>4 DEF Typed
    <3>6. InHandler'
      BY <3>1 DEF InHandler, Typed, C!Session
    <3> QED BY <3>5, <3>6
  <2>2. CommittedBooked'
    BY <1>3 DEF MarkReversed, C!MarkReversed, vars, CommittedBooked, Booked,
       C!IsGranted, C!IsReversed
  <2> QED BY <2>1, <2>2
<1>4. ASSUME NEW c \in Calls, Commits(c) PROVE GInv'
  <2>1. committed' \subseteq committed \cup {c} /\ pc' = [pc EXCEPT ![c] = "complete"]
    BY <1>4 DEF Commits, HandlerSucceeds, Effect, Goto, AfterSuccess
  <2>2. /\ tx' = [tx EXCEPT ![c] = C!Idle] /\ UNCHANGED grants
        /\ \E j : ledger' = C!Post(ledger, j)
    BY <1>4 DEF Commits, C!GrantCreditCommit, C!ReverseCreditCommit, C!CommitJournal
  <2>3. Typed'
    BY <2>2 DEF Typed, C!Session, C!Idle, C!Row, C!NoRow
  <2>4. InHandler'
    BY <2>1, <2>2 DEF InHandler, Typed, C!Idle, IInv, TypeOK
  <2>5. Booked(c)'
    <3>1. CASE C!GrantCreditCommit(c)
      BY <3>1, PostKeeps DEF C!GrantCreditCommit, C!CommitJournal, C!Granting, C!Journal,
         InHandler, Booked, C!IsGranted
    <3>2. CASE C!ReverseCreditCommit(c)
      BY <3>2, PostKeeps DEF C!ReverseCreditCommit, C!CommitJournal, C!Reversing, C!Journal,
         InHandler, Booked, C!IsReversed
    <3> QED BY <1>4, <3>1, <3>2 DEF Commits
  <2>6. CommittedBooked'
    BY <2>1, <2>2, <2>5, PostKeeps DEF CommittedBooked, IInv, TypeOK
  <2> QED BY <2>3, <2>4, <2>6
<1>5. ASSUME NEW c \in Calls, Refuses(c) PROVE GInv'
  <2>1. Typed' /\ InHandler'
    BY <1>5 DEF Refuses, HandlerFails, Goto, creditVars, Typed, InHandler, C!Idle, IInv, TypeOK
  <2>2. CommittedBooked'
    BY <1>5 DEF Refuses, HandlerFails, creditVars, CommittedBooked, Booked, C!IsGranted,
       C!IsReversed
  <2> QED BY <2>1, <2>2
<1>6. ASSUME NEW c \in Calls, C!Abort(c), \E step : Goto(c, step), UNCHANGED committed
      PROVE GInv'
  <2>1. Typed' /\ InHandler'
    BY <1>6 DEF C!Abort, Goto, Typed, InHandler, C!Idle, C!Session, C!Row, C!NoRow, IInv,
       TypeOK
  <2>2. CommittedBooked'
    BY <1>6 DEF C!Abort, CommittedBooked, Booked, C!IsGranted, C!IsReversed
  <2> QED BY <2>1, <2>2
<1>7. ASSUME NEW c \in Calls, Around(c) PROVE GInv'
  <2>1. pc[c] # "handler" /\ UNCHANGED committed /\ \E step : Goto(c, step)
    <3>1. CASE GetByKey(c)
      <4>1. records[Key[c]].status \in {"NONE", "PROCESSING", "COMPLETED"}
        BY <3>1 DEF GetByKey, IInv, TypeOK, Entered, GuardSteps, NoRecord, Processing
      <4> QED BY <3>1, <4>1 DEF GetByKey, Replay, Answer
    <3>2. CASE ~GetByKey(c)
      BY <1>7, <3>2 DEF Around, GuardStep, Bypass, RefuseWithoutKey, CacheGet,
         TryBeginProcessing, Complete, CacheSet, Rollback, Replay, Answer
    <3> QED BY <3>1, <3>2
  <2>2. Typed' /\ InHandler'
    BY <1>7, <2>1 DEF Around, creditVars, Goto, Typed, InHandler, IInv, TypeOK
  <2>3. CommittedBooked'
    BY <1>7, <2>1 DEF Around, creditVars, CommittedBooked, Booked, C!IsGranted, C!IsReversed
  <2> QED BY <2>2, <2>3
<1>8. ASSUME NEW c \in Calls, LoseCall(c) PROVE GInv'
  <2>1. CASE tx[c] = C!Idle
    <3>1. Typed' /\ InHandler'
      BY <1>8, <2>1 DEF LoseCall, Lose, Goto, creditVars, Typed, InHandler, C!Idle, IInv, TypeOK
    <3>2. CommittedBooked'
      BY <1>8, <2>1 DEF LoseCall, Lose, creditVars, CommittedBooked, Booked, C!IsGranted,
         C!IsReversed
    <3> QED BY <3>1, <3>2
  <2>2. CASE tx[c] # C!Idle
    BY <1>6, <1>8, <2>2 DEF LoseCall, Lose
  <2> QED BY <2>1, <2>2
<1>9. CASE Environment
  <2>1. CASE \E k \in Keys : Expire(k) /\ UNCHANGED creditVars
    BY <2>1 DEF Expire, creditVars, Typed, InHandler, CommittedBooked, Booked, C!IsGranted,
       C!IsReversed
  <2>2. ASSUME NEW u \in Users, NEW s \in Shipments, NEW n \in Amounts,
               C!PayFromWallet(u, s, n), UNCHANGED vars
        PROVE  GInv'
    <3>1. Typed' /\ InHandler'
      BY <2>2 DEF C!PayFromWallet, vars, Typed, InHandler
    <3>2. CommittedBooked'
      BY <2>2, PostKeeps DEF C!PayFromWallet, vars, CommittedBooked, IInv, TypeOK
    <3> QED BY <3>1, <3>2
  <2> QED BY <1>9, <2>1, <2>2 DEF Environment
<1>10. CASE UNCHANGED allVars
  BY <1>10 DEF allVars, vars, creditVars, Typed, InHandler, CommittedBooked, Booked,
     C!IsGranted, C!IsReversed
<1>11. ASSUME NEW c \in Calls, RollsBack(c) PROVE GInv'
  BY <1>6, <1>11 DEF RollsBack, HandlerFails
<1> QED
  BY <1>1, <1>2, <1>3, <1>4, <1>5, <1>7, <1>8, <1>9, <1>10, <1>11 DEF GuardedNext, GuardedStep

(* Whatever is answered to a promo credit command is in the ledger: the    *)
(* guard answers only with what was committed, and credit reports success  *)
(* only after its journal.                                                 *)
THEOREM AnswersBooked == GuardedSpec => []AnsweredIsBooked
<1>1. GInv /\ IInv => AnsweredIsBooked
  <2>1. CreditCommands \subseteq Commands
    BY DEF Commands
  <2> QED BY <2>1, GuardedCreditAssumption
          DEF GInv, IInv, SameAnswer, CommittedBooked, AnsweredIsBooked
<1>2. GuardedSpec => []IInv
  BY GuardRefined, Invariant, PTL
<1> QED BY <1>1, <1>2, InitGInv, Keeps, PTL DEF GuardedSpec

(* With the handlers opened up, at most one of all calls with a key takes  *)
(* effect, all are given its answer, and Redis agrees with Postgres.       *)
THEOREM OnceOpenedUp == GuardedSpec => [](AtMostOnce /\ SameAnswer /\ CacheIsRecord)
<1>1. IInv => AtMostOnce /\ SameAnswer /\ CacheIsRecord
  BY DEF IInv
<1> QED BY <1>1, GuardRefined, Invariant, PTL

-----------------------------------------------------------------------------
(* Behind the guard promo credit does what module Credit says, no more.    *)

LEMMA CreditStep ==
    ASSUME IInv, [GuardedNext]_allVars
    PROVE  [C!Next]_creditVars
<1> USE IdempotencyAssumption, GuardedCreditAssumption
<1>1. ASSUME NEW c \in Calls, GrantCredit(c) PROVE C!Next
  <2>1. Key[c] \in Keys
    BY <1>1 DEF GrantCredit, IInv, Entered, GuardSteps
  <2>2. Payee[c] \in Users /\ Amount[c] \in Amounts
    OBVIOUS
  <2> QED BY <1>1, <2>1, <2>2 DEF GrantCredit, C!Next
<1>2. ASSUME NEW c \in Calls, ReverseCreditGrant(c) PROVE C!Next
  <2>1. Target[c] \in Keys
    OBVIOUS
  <2> QED BY <1>2, <2>1 DEF ReverseCreditGrant, C!Next
<1>3. ASSUME NEW c \in Calls, MarkReversed(c) \/ Commits(c) \/ RollsBack(c) PROVE C!Next
  BY <1>3 DEF MarkReversed, Commits, RollsBack, C!Next
<1>4. ASSUME NEW c \in Calls, Refuses(c) \/ Around(c) PROVE UNCHANGED creditVars
  BY <1>4 DEF Refuses, Around
<1>5. ASSUME NEW c \in Calls, LoseCall(c) PROVE C!Next \/ UNCHANGED creditVars
  BY <1>5 DEF LoseCall, C!Next
<1>6. CASE Environment
  BY <1>6 DEF Environment, C!Next
<1>7. CASE UNCHANGED allVars
  BY <1>7 DEF allVars
<1> QED BY <1>1, <1>2, <1>3, <1>4, <1>5, <1>6, <1>7 DEF GuardedNext, GuardedStep

(* Promo credit behind the guard implements promo credit: the guard lets   *)
(* through nothing that module Credit does not do.                         *)
THEOREM CreditRefined == GuardedSpec => C!Spec
<1>1. GuardedInit => C!Init
  BY DEF GuardedInit
<1>2. IInv /\ [GuardedNext]_allVars => [C!Next]_creditVars
  BY CreditStep
<1>3. GuardedSpec => []IInv
  BY GuardRefined, Invariant, PTL
<1>4. [C!Next]_creditVars => [C!Next]_(C!vars)
  BY DEF creditVars, C!vars
<1> QED BY <1>1, <1>2, <1>3, <1>4, PTL DEF GuardedSpec, C!Spec

-----------------------------------------------------------------------------
(* Credit_proofs for the calls the guard admits.  Its module's definitions *)
(* are those of the instance GuardedCredit is written over.                *)
CP == INSTANCE Credit_proofs WITH Sessions <- Calls, Grants <- Keys

LEMMA SameSums == \A f : CP!SumFunction(f) = C!SumFunction(f)
BY DEF CP!SumFunction, C!SumFunction, CP!SumFunctionOnSet, C!SumFunctionOnSet,
       CP!FoldFunctionOnSet, C!FoldFunctionOnSet, CP!MapThenFoldSet, C!MapThenFoldSet

LEMMA SamePosting ==
    ASSUME NEW l, NEW j
    PROVE  /\ CP!CanPost(l, j) <=> C!CanPost(l, j)
           /\ CP!Post(l, j) = C!Post(l, j)
<1>2. \A x : CP!TotalDebit(x) = C!TotalDebit(x) /\ CP!TotalCredit(x) = C!TotalCredit(x)
  BY SameSums DEF CP!TotalDebit, C!TotalDebit, CP!TotalCredit, C!TotalCredit
<1>3. CP!ValidateLines(j.lines) <=> C!ValidateLines(j.lines)
  BY <1>2 DEF CP!ValidateLines, C!ValidateLines, CP!ValidLine, C!ValidLine
<1> QED BY <1>3 DEF CP!CanPost, C!CanPost, CP!Post, C!Post

LEMMA SameJournals ==
    ASSUME NEW g, NEW row, NEW u, NEW s, NEW n
    PROVE  /\ CP!Granting(g, row) = C!Granting(g, row)
           /\ CP!Reversing(g, row) = C!Reversing(g, row)
           /\ CP!Paying(s, u, n) = C!Paying(s, u, n)
BY DEF CP!Granting, C!Granting, CP!Reversing, C!Reversing, CP!Paying, C!Paying, CP!Journal,
       C!Journal, CP!Shift, C!Shift, CP!Debit, C!Debit, CP!Credit, C!Credit, CP!Account,
       C!Account, CP!UserPromoCredit, C!UserPromoCredit, CP!ShipmentEscrow, C!ShipmentEscrow

LEMMA SameSpec == C!Spec => CP!Spec
<1>1. CP!Idle = C!Idle /\ CP!NoRow = C!NoRow
  BY DEF CP!Idle, C!Idle, CP!NoRow, C!NoRow
<1>2. C!Init => CP!Init
  <2>1. CP!Accounts = C!Accounts
    BY DEF CP!Accounts, C!Accounts, CP!SystemAccounts, C!SystemAccounts
  <2> QED BY <1>1, <2>1 DEF CP!Init, C!Init
<1>3. \A c \in Calls : \A j : C!CommitJournal(c, j) => CP!CommitJournal(c, j)
  BY <1>1, SamePosting DEF CP!CommitJournal, C!CommitJournal
<1>4. ASSUME C!Next PROVE CP!Next
  <2>1. ASSUME NEW c \in Calls, NEW g \in Keys, NEW u \in Users, NEW n \in Amounts,
               C!GrantCredit(c, g, u, n)
        PROVE  CP!GrantCredit(c, g, u, n)
    BY <1>1, <2>1 DEF CP!GrantCredit, C!GrantCredit, CP!CreateGrant, C!CreateGrant
  <2>2. ASSUME NEW c \in Calls, NEW g \in Keys, C!ReverseCreditGrant(c, g)
        PROVE  CP!ReverseCreditGrant(c, g)
    BY <1>1, <2>2 DEF CP!ReverseCreditGrant, C!ReverseCreditGrant, CP!GetGrantByID, C!GetGrantByID
  <2>3. ASSUME NEW c \in Calls, C!GrantCreditCommit(c) \/ C!ReverseCreditCommit(c)
        PROVE  CP!GrantCreditCommit(c) \/ CP!ReverseCreditCommit(c)
    BY <1>3, <2>3, SameJournals DEF CP!GrantCreditCommit, C!GrantCreditCommit,
       CP!ReverseCreditCommit, C!ReverseCreditCommit
  <2>4. ASSUME NEW c \in Calls, C!MarkReversed(c) \/ C!Abort(c)
        PROVE  CP!MarkReversed(c) \/ CP!Abort(c)
    BY <1>1, <2>4 DEF CP!MarkReversed, C!MarkReversed, CP!Abort, C!Abort, CP!ByIdAndActive,
       C!ByIdAndActive, CP!Marked, C!Marked
  <2>5. ASSUME NEW u \in Users, NEW s \in Shipments, NEW n \in Amounts,
               C!PayFromWallet(u, s, n)
        PROVE  CP!PayFromWallet(u, s, n)
    BY <2>5, SamePosting, SameJournals DEF CP!PayFromWallet, C!PayFromWallet, CP!SumByAccount,
       C!SumByAccount, CP!UserPromoCredit, C!UserPromoCredit
  <2> QED BY <1>4, <2>1, <2>2, <2>3, <2>4, <2>5 DEF CP!Next, C!Next
<1>5. [C!Next]_(C!vars) => [CP!Next]_(CP!vars)
  BY <1>4 DEF CP!vars, C!vars
<1> QED BY <1>2, <1>5, PTL DEF C!Spec, CP!Spec

(* Of all reversals of a grant that are let through at once one is about   *)
(* to post (MarkReversed).                                                 *)
THEOREM GuardedGrants == GuardedSpec => []OneReverser
<1>1. CP!CreditAssumption
  BY GuardedCreditAssumption DEF CP!CreditAssumption, C!CreditAssumption, CP!IsFiniteSet,
         C!IsFiniteSet
<1>2. CP!Spec => [](CP!TypeOK /\ CP!OneReverser /\ CP!StatusTellsLedger)
  BY <1>1, CP!GrantsTellLedger
<1>3. CP!OneReverser => OneReverser
  BY DEF OneReverser, C!OneReverser, CP!OneReverser, C!IsReversed, CP!IsReversed
<1> QED BY <1>2, <1>3, CreditRefined, SameSpec, PTL

(* A grant nobody works on says what the ledger holds unless a handler was *)
(* cut off after its row (MarkReversed, CreateGrant).                      *)
THEOREM GuardedStatuses == GuardedSpec => []StatusTellsLedger
<1>1. CP!CreditAssumption
  BY GuardedCreditAssumption DEF CP!CreditAssumption, C!CreditAssumption, CP!IsFiniteSet,
         C!IsFiniteSet
<1>2. CP!Spec => [](CP!TypeOK /\ CP!OneReverser /\ CP!StatusTellsLedger)
  BY <1>1, CP!GrantsTellLedger
<1>3. CP!StatusTellsLedger => StatusTellsLedger
  BY DEF StatusTellsLedger, C!StatusTellsLedger, CP!StatusTellsLedger, C!IsGranted,
         CP!IsGranted, C!IsReversed, CP!IsReversed
<1> QED BY <1>2, <1>3, CreditRefined, SameSpec, PTL

(* Behind the guard too, promo expense is what was granted less what was   *)
(* taken back, however often calls are repeated, rolled back or lost.      *)
THEOREM GuardedExpense == GuardedSpec => []ExpenseExplained
<1>1. CP!CreditAssumption
  BY GuardedCreditAssumption DEF CP!CreditAssumption, C!CreditAssumption, CP!IsFiniteSet,
         C!IsFiniteSet
<1>2. CP!Spec => []CP!ExpenseExplained
  BY <1>1, CP!GrantsExplainExpense
<1>3. CP!ExpenseExplained => ExpenseExplained
  BY SameSums DEF ExpenseExplained, C!ExpenseExplained, CP!ExpenseExplained, C!IsGranted,
       CP!IsGranted, C!IsReversed, CP!IsReversed, C!Account, CP!Account
<1> QED BY <1>2, <1>3, CreditRefined, SameSpec, PTL
=============================================================================
