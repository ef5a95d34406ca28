# A verification model of airbar-finance

airbar-finance is the payment service of a shipping market: a double-entry
ledger in Postgres, escrows for shipments, payment orders at the PSP Zibal,
wallets with withdrawals, promotional credit, and an idempotency layer in front
of every mutating gRPC call. This directory holds TLA+ modules of it, TLC
configurations that check them on small instances, and proofs for TLAPS.

Run `tlc -config X.cfg M` for a configuration below and `tlapm M_proofs.tla` for
the proofs. Paths are relative to `src/`.

## The system

| Part | State | Operations | What makes it hard |
|---|---|---|---|
| Ledger (`internal/domain/ledger`, `usecase/ledger`) | journals, lines, unique (ref_type, ref_id) | PostJournal, SumByAccount, SumGlobal | the unique reference is the only lock many use cases have |
| Escrow (`usecase/escrow`) | one row per shipment, audit events | Create, Fund, PayFromWallet, MarkDelivered, Freeze, Release, Refund, PartialRefund | rows are read without a lock and written back whole, WHERE id only; balances are read on another connection |
| Payment (`usecase/payment`) | payment orders, provider events | create order, create top-up, verify, fail, HTTP callback | Zibal is asked between two reads of the order; callbacks repeat and come late; failing an order has no transaction |
| Withdrawal (`usecase/withdrawal`) | requests, reserve and reversal journals | Create, Approve, MarkSent, Settle, Fail, Process, Reject | two ways to finish, each from a status read earlier |
| Promo credit (`usecase/credit`) | grants, their journals | Grant, Reverse | the repository ignores the transaction: grants are committed before their journal |
| Idempotency (`usecase/idempotency`, `delivery/grpc/idempotency`) | record per key, Redis copy | Begin, Complete, Rollback | duplicates overlap, calls get lost, the cache forgets, five commands are not guarded |
| Wallet (`usecase/wallet`) | account rows | EnsureForLines, GetWallet, ListTransactions | rows are upserted apart from the journal; balance and transactions are two queries |
| Treasury summary (`usecase/treasury`) | none | GetTreasurySummary | eight balances read one after the other |
| Reconciliation (`usecase/reconciliation`) | run rows | RunReconciliation | reads while postings are under way |
| Provider events (`usecase/payment`, `repository/provider_event.go`) | log of what Zibal said | Create, List | OFFSET pages of a log that grows at the front and, late, behind it; stamps may be equal and nothing else orders it |
| Server process (`cmd/server`, `config`, `infrastructure/postgres`) | listeners, connection pool, shutdown deadline | load settings, open, serve, drain, close | transactions take a second connection while they hold one; draining waits for calls without a deadline |
| Zibal client and mock (`infrastructure/zibal`) | the mock's orders | request, pay, verify | the number of orders is read outside the lock |
| Audit events | event log | appended by escrow and withdrawal handlers | sometimes in the transaction, sometimes a later statement |

Use cases meet in the ledger. FundEscrow, PayFromWallet, top-ups, withdrawals and
grants all move the same wallet and promo accounts; VerifyOrder runs FundEscrow
inside its own transaction (`pg.TxFromContext`). Postgres runs at READ COMMITTED
and nothing says FOR UPDATE, so two handlers interleave query by query.

What should hold, per part:
- ledger: debits equal credits; a reference is posted once;
- escrow: the escrow account holds what the status promises; a status has its
  journal; payments do not overdraw; promo credit comes back as promo credit;
- payment: an order is CONFIRMED only with its money booked, once, and stays so;
- withdrawal: what is reserved is paid out or given back, never both;
- credit: expense equals what users were given; one reversal per grant;
- idempotency: one effect per key, one answer for all who use it; what is
  answered is booked;
- wallet, treasury, reconciliation: a statement explains the balance, a summary
  nothing was posted into balances, a reconciliation passes at every moment;
- provider events: who pages to the end misses nothing, but for an event that shares
  its stamp with another;
- server: the pool gets back what was taken; requests end and a signalled process
  exits unless the pool stalls; a clean exit cuts nothing off.

## How code becomes steps

A *session* is a gRPC request (or callback) being served. Each query of a
handler is a step that reads what is committed at that moment. The statements
between BEGIN and COMMIT become visible together, so they are one step at the
commit, guarded by what can make them fail (line validation, a taken reference)
and computed from what the session read earlier. Writes outside a transaction
are steps of their own. A refusal by a handler's first checks changes nothing
and is a stuttering step; any later error, a crash or a lost connection is the
action Abort (Lose in Idempotency), possible between any two steps.

Races for a unique reference are resolved at the commit: whichever commits first
wins, as Postgres has the later INSERT wait and fail. `Books` shows that this is
sound for journals: there the INSERT and the COMMIT are two steps, an INSERT waits
for the transaction that has the reference, and `ImplementsLedger` says that the
rows change balances and references as one valid posting after the other, which is
how the other modules see the ledger.

History variables record what no table does: `overlapped` (shipments or
withdrawals two sessions worked on at once), `severed` (grants whose row was cut off
from its journal), `racedPayers`, `contended`, `callbacks`, `captured`,
`committed`, `owners`, the mock's `before`, and the `from` and `began` fields of
the readers. No action's guard reads one.

## Modules

| Module | Models | Correspondence |
|---|---|---|
| `DoubleEntry` | what a journal may be and what posting does | the chart of accounts; `ValidateLines`, `CanPost`, `Post` follow journal.go and post_journal.go |
| `SharedLedger` | the ledger the use cases share, over `DoubleEntry` | `balance` is SUM(credit) - SUM(debit) per account, `posted` the unique index |
| `Books` | the stored rows and their readers | `journals`, `posting` (a writer's transaction: begun, wallets ensured, inserted, done), `registered` = wallet_accounts, `summary`, `statement`, `check`, `runs`; `ImplementsLedger` ties it to `DoubleEntry` |
| `Escrow` | escrow use cases over `SharedLedger` | `escrow` = finance.escrows, `events` = audit log, `tx` = what each request has read; `GetByShipmentID` .. `PartialRefundEscrowCommit` are the queries in order |
| `EscrowContract` | abstract | per shipment a status and the money held; every operation one atomic step |
| `Payment` | payment orders over `Escrow` | `orders`, `verified` (VERIFY events), `call` (where a payment call stands); verification drives `FundEscrow` and commits with it |
| `Withdrawal` | withdrawal use cases over `SharedLedger` | like `Escrow`, rows are stale copies written back whole |
| `WithdrawalContract` | abstract | money is in the wallet, reserved, paid out or given back |
| `Credit` | grants over `SharedLedger` | the row commits on its own, then the journal |
| `Service` | the gRPC methods, which write and which are guarded | the method tables of delivery/grpc and `mutatingMethods` of methods.go |
| `Idempotency` | guard and interceptor over `Service` | one step per access to Postgres or Redis; the handler is one step that commits or does not |
| `GuardedCredit` | `Credit` inside `Idempotency` | a call is a session of `Credit`: its row and its journal are two commits where `Idempotency` has one handler step |
| `Server` | the process and its pool, over `Service` | `stage` follows main.go (config, pool, redis, listen, serve, select, draining, shutdown, closing, exited), `held` the connections; a request is a series of `Turns`, each with the queries it nests |
| `ProviderEvents` | the event log and its listing | `logged` = finance.provider_events, `logging` the transactions, `listing` a client's walk: COUNT, page, next page; `Now` lets two transactions have one stamp, and `Newest` is every order a query may give to equal ones |
| `ZibalMock` | mock_server.go and its client | `mockOrders`, one step per locked section and one for the unlocked read before it |
| `MC*` | instances for TLC | |
| `Escrow_proofs`, `Payment_proofs`, `Withdrawal_proofs`, `Credit_proofs`, `Idempotency_proofs`, `GuardedCredit_proofs` | proofs about the module they are named for | |
| `Operations_proofs` | proofs about `Server`, `ZibalMock`, `ProviderEvents` and `Books` | |
| `SumTheorems` | what the proofs compute with: sums over finite sets | |

## Runs

| Run | Bounds | Shows |
|---|---|---|
| `MCEscrowShared` | 2 shipments of one payer with amounts 3 and 1, 2 sessions, requests for one shipment do not overlap | TypeOK, EscrowBacked, PromoConserved, NoOverdraft: shipments that share a wallet do not disturb each other, whatever aborts |
| `MCEscrowOverlap` | 1 shipment of amount 2, 2 sessions, full overlap | Reconciles, StatusHasJournal, EachReferenceOnce hold even when requests race; ImplementsContract: without a race the escrow is its contract |
| `MCPayment` | 2 orders, 1 shipment or top-ups, 2 sessions, full overlap | orders, VERIFY events, Zibal and ledger agree; one order funds; late callbacks do not undo |
| `MCWithdrawalOverlap` | 2 withdrawals of one wallet, one with racing administrators | clearing explained, refusals returned, receipts kept, no overdraft, contract |
| `MCGuardedCredit` | a grant, its retry under the same key, 2 reversals under keys of their own; amounts 1 and 2 | ExpenseExplained, OneReverser, StatusTellsLedger, AnsweredIsBooked, TypeOK, SameAnswer, CacheIsRecord: a handler that commits in two parts keeps its promises behind the guard |
| `MCOperations` | 5 calls of one key (one of another method, one without a key, one unguarded); 3 requests over a pool of 2 connections; 2 writers and 2 reconciliation runs; 4 provider events with pages of 1 and 2; 3 clients of the mock | see below |

`MCOperations` checks components that share no variable: the first state picks one
(and, for Books, one reader) and the behaviour runs it. It shows

- Idempotency: AtMostOnce, and KeyIsFreed (liveness);
- Server: ServerTypeOK, Accounted, CleanExit, and Served and SignalledExits
  (liveness); the pool is one connection too small, so stalls occur;
- Books: SummaryBalances, StatementExplains, RunsPassed, ImplementsLedger; the
  inputs include an unbalanced journal and two that take the same reference;
- ProviderEvents: PagesMissNothing, TotalIsReached, with equal and with distinct stamps;
- ZibalMock: MockKeepsApart.

Runs that refute what the repository says of itself (`findings` in PROJECT.json
quotes each line):

| Run | Statement | What happens |
|---|---|---|
| `MCEscrowFrozen` | FROZEN blocks release | freeze, refund a part, release the rest |
| `MCEscrowRemainder` | RefundEscrow returns the full remainder | after a refund of half, the other half has the same reference |
| `MCWithdrawalProcessed` | Process completes without double spend | a rejection commits between its SELECT and its UPDATE |
| `MCCreditConsumed` | a grant is reversed if not consumed | a spent grant is reversed, the balance is negative |
| `MCIdempotencyMethod` | method mismatch is refused | the stored method is looked up under the caller's own |
| `MCPaymentReported` | an order fails when the callback reports failure | Zibal confirms, booking fails, the order is marked FAILED and cannot be verified again |

**Why the bounds are enough.** Every race in this code is between two requests
that read and one that writes first, so two sessions show it; three guarded
calls per key in Idempotency give an owner, a duplicate and a retry after a
rollback. A pool of two with two requests that nest queries is the smallest that
stalls only when they overlap, and the third request is the bystander that starves. Four events over
pages of one and two make a walk of several pages with one event in front of it,
one late behind it, a repeated callback and equal stamps at the border of two pages; three clients of the mock give two
that overlap and one that comes after them. Amounts are the smallest that split
into promo and wallet, into unequal and equal refunds and into fee and rest;
FeePercent 50 leaves a fee of zero for amount 1, which the ledger refuses as the
code does. One seed has a grant that was reversed after an earlier shipment spent
it, so the payer starts with negative promo credit.

**Exclusions in properties.** Several properties speak only of shipments or
orders that never had two overlapping requests. That is not a bound of the
model: in every run but `MCEscrowShared` (which trades overlap on one shipment for
a second shipment) the overlapping behaviours are explored, and what survives them
is what the other properties say. A hazard whose properties leave something out this way
has a note in PROJECT.json that says what. Without the exclusion EscrowBacked, NoOverdraft and
BookedStaysConfirmed are false of this code, since nothing locks the row.

**Fairness** is assumed where something in the code runs on by itself, and nowhere else.
- Idempotency: a call that has begun is carried on by its goroutine to the end of
  the interceptor, so its own steps are weakly fair. `Lose` needs none and may come
  instead at any step; KeyIsFreed excuses exactly the keys whose owner was lost.
- Server: weakly fair are the steps of main and the passing of its deadline (`Stops`)
  and, per request, the answers of Postgres (`Proceed`) and of a closed pool
  (`Refused`); strongly fair is `Acquire`, as pgxpool serves who waits in
  order. Callers that come or give up, signals, failing listeners and startup are not
  fair. Served and SignalledExits excuse a pool that has stalled, which nothing in
  the code prevents.

The use cases have no worker or sweeper, so no other liveness is claimed. Deadlock
checking is off because clients may stop sending and one-shot ids run out.

## Proofs

Every safety property and action property of the passing runs is also a theorem,
for all values of the constants; `theorems` in PROJECT.json lists which states
which. Liveness alone is left to TLC: KeyIsFreed, Served and SignalledExits are
about fairness, which the prover cannot reason about.

**Assumptions.** Theorems rest on the ASSUMEs of the modules, which TLC evaluates in
the runs. They say that constants have their types and
- that the sets summed over are finite (users, shipments, withdrawals, grants,
  requests, the lines of a journal), as rows of a table are;
- `EscrowAssumption`: a ledger before the first of these escrows balances and holds
  no money on their accounts; `WithdrawalAssumption`: nothing is reserved before the
  first of these withdrawals. Both tables start with the rows the model starts with;
- amounts are positive, as the handlers check and the tables do (`CHECK (... > 0)`);
- `EventsAssumption`: default and maximal page size are positive, as they are in
  provider_event.go; requested limits are any integers;
- `BooksAssumption`: a journal offered to PostJournal has lines on accounts of the
  chart with integer columns. That it balances is not assumed.

`SumTheorems`: what a change of one summand, a new row, a union of disjoint sets or a
renaming of the rows does to a sum, and when sums are natural or zero. The library's
induction cannot be used, so they are proved by smallest counterexample: strict
inclusion is well-founded on the subsets of a finite set.

`Escrow_proofs`:
- **TypeCorrect**, **Backing** (EscrowBacked) and **Refinement** (ImplementsContract, by
  initial state and step by step). EscrowBacked is not inductive: a commit uses
  a row and a balance read earlier. `IInv` adds that, for a shipment never
  overlapped, at most one session is between its read and its commit, the copy it
  holds *is* the row, the balance it read *is* the account, and an account whose
  status does not hold money is empty. Steps of other shipments leave the account
  alone because their journals name other accounts.
- **LedgerReconciles** (Reconciles): a journal whose totals are equal leaves the sum of
  all balances as it was, and each use case's journal has equal totals or is refused.
- **StatusesAreBooked** (StatusHasJournal), with no exclusion of races: `EvidenceInv` adds
  that the copies sessions hold have their journals too, as a stale one may be
  written back at any time, and that posted references stay.
- **ReferencesMoveOnce** (EachReferenceOnce), with no exclusion of races: `ReferenceInv`
  accounts for an escrow as funded less refunded less released, by its references,
  and adds that a session about to release has read no more than was funded.
- **PaymentsAreCovered** (NoOverdraft): `WalletInv` says that what a payment has read of its
  payer's accounts is still a lower bound: others only add to them.
- **PromoIsConserved** (PromoConserved): each write moves some promo credit between the
  escrow's row and the payer's account (`MovesPromo`), the sums follow, and a refund
  takes no more of it than the row has.

`Payment_proofs`, about `Payment`, which is `Escrow` with orders on top:
- a payment step is a step of Escrow or leaves escrows alone, so Escrow's `IInv` and its
  guarantees carry over: **PaymentsKeepBooks** (Reconciles, EscrowBacked);
- **PaymentTypeCorrect**, **MoneyIsVerified** (MoneyFollowsVerification), **ConfirmedStays**
  (BookedStaysConfirmed), **EscrowNamesItsOrder** (OneOrderFunds), **SuccessIsBooked**
  (SuccessMeansBooked). `PaymentInv` adds what a call has in hand (`Calls`: a copy of an
  order may be behind in its status, never in amount, user or shipment; a call in
  the transaction has Zibal's confirmation; one about to mark an order FAILED, alone,
  has a current copy that is not CONFIRMED), that CONFIRMED, the VERIFY event and the
  reference say the same (`Bookings`), that the clearing account is the sum of the
  verified orders (`Clearing`), and that the escrow of a verified order stays as the order
  left it (`FundedByOrder`).

`Withdrawal_proofs`:
- **TypeCorrect**, **Receipts** (PaidHasReceipt), **Refusals** (RefusedIsReturned) and
  **Refinement** (ImplementsContract). `IInv` adds what rows and stale copies have in
  common (`Serving`) and, for withdrawals without overlap, that one session is at
  work (`Alone`), its copy is the row (`Fresh`) and the reversals in the ledger are those
  the status names (`Told`). Without `Serving` an unguarded UPDATE could bring in a
  row without a receipt; without `Fresh` a commit need not be a step of the contract.
- **ClearingIsExplained** (ClearingExplained), whatever overlaps: the amount of a
  row is never rewritten, even from a stale copy (`Copies`), and each reversal
  reference is for a row that exists (`NothingYet`).
- **WalletsAreCovered** (NoOverdraft): who has not raced has one request under way
  (`OneAsks`), and the balance it checked is still there (`Affordable`).

`Credit_proofs`:
- **GrantsTellLedger** (TypeOK, OneReverser, StatusTellsLedger). `IInv` adds that a
  posted journal has its row (`PostedHasRow`), that a row has its journal or a
  session about to post it unless it was cut off (`RowHasJournal`), and that such a
  session is the only one (`OneWriter`, by the conditions of INSERT and UPDATE).
- **GrantsExplainExpense**: promo expense is the sum of the grants not taken back.

`Idempotency_proofs`:
- **Once** (AtMostOnce), **Replays** (SameAnswer), **CacheCoherent** (CacheIsRecord),
  **TypeCorrect**. `IInv` adds: who runs a handler or has yet to complete or roll back
  holds its key alone, under a PROCESSING record; a key under which something
  committed keeps a record for good and is held by nobody but the call that
  committed; a completed record names such a call.

`GuardedCredit_proofs`:
- **GuardRefined** and **CreditRefined**: the composition implements `Idempotency` and
  `Credit`. By them the theorems of both carry over: **OnceOpenedUp** (AtMostOnce,
  SameAnswer, CacheIsRecord), **GuardedGrants** (OneReverser), **GuardedStatuses**
  (StatusTellsLedger) and **GuardedExpense** (ExpenseExplained).
- **AnswersBooked** (AnsweredIsBooked): a call that reported success has posted, and what
  is posted stays; with SameAnswer, so has whoever is replayed.

`Operations_proofs`:
- Server: **ServerTypeCorrect**, **PoolAccounted** (Accounted), **ExitsCleanly** (CleanExit)
  and **NeverStalls**: with fewer requests that nest queries than connections the pool
  cannot stall. `SInv` adds that a request at work has turns left (`TurnsLeft`), that
  only methods that nest wait for a second connection (`OnlyNested`), and Accounted
  connection by connection (`HeldRight`); CleanExit adds how a stopped process got
  there (`Stopped`).
- Mock: **MockIsFaithful** (MockKeepsApart). `MockInv` adds that ids are given from 1 up
  without a gap (`NumberedTo`), so a request that begins after another got its
  id reads a larger number of orders (`BeganAfter`).
- Provider events: **PagingIsComplete** (PagesMissNothing), **PagingReachesTotal**
  (TotalIsReached), for any log: stamps may repeat, each query may order equal ones
  differently, and the proof does not need the clock to advance. The rank of a row is the
  number of newer ones; later rows only raise it. For each row of the beginning
  whose rank is within the offset its stamp has been seen (`Swept`), though perhaps on
  another row: a page holds the stamp of every row that ranks in it (`PageReaches`).
- Books: **RowsAreLedger** (ImplementsLedger): the accounts summed from the stored rows
  are the ledger of `DoubleEntry`, posting by posting. **ReconciliationPasses** (RunsPassed):
  the sums a run has read never exceed what would be read now (`ChecksInv`).
  **StatementsExplain** (StatementExplains): the balance read is the sum over the journals of
  that moment, each seen as one entry of the account. **SummariesBalance**
  (SummaryBalances): the eight figures count every account of the chart once, so with
  nothing posted in between they are the sum of balanced journals.

## Observed and not stated as findings

Where code and model agree and no document says otherwise:
- five commands (approve, mark sent, settle and fail a withdrawal, run a
  reconciliation) are not in the interceptor's table; AtMostOnce leaves them out;
- the shutdown deadline of ten seconds is set before GracefulStop, which does not heed
  it: calls may use it up and the callbacks are then cut off;
- the pool has to be larger than the number of requests at once that nest queries;
- the treasury summary can show a total of no moment while journals are posted;
- provider events are ordered by created_at alone, the begin of their transaction. Two
  of them with one stamp at the border of two pages may change places between two
  queries: one is listed twice, the other never. PagesMissNothing says that nothing
  else is missed;
- overlapping requests to the mock may be given one track id.

## Not modelled

- the generated protobuf code: messages and reflection data;
- parsing of requests, error codes, mapping of rows to responses, and the listings
  of grants, withdrawals and reconciliation runs and the getters, which read one
  committed state and change none;
- int64 overflow of amounts and the rounding of the float64 fee above 2^53; TLC's
  integers end below the first;
- payload hashes, which the guard stores and does not compare;
- the query with which MarkReversed finds out why its UPDATE matched no row
  (repository/credit.go:149): it reads only, and ends in an error either way;
- a handler that commits and is told that it did not (a connection lost during COMMIT):
  the handler of `Idempotency` commits and goes on, fails and rolls back, or is lost, so
  AtMostOnce does not cover a Rollback after a commit that was taken for a failure;
- the credit account row GrantCredit ensures (as a connection it is in `Server`);
- in `GuardedCredit` the key of the request's metadata and the key in its body are
  taken to be the same. The interceptor prefers the former, credit_grants keeps the
  latter.

## Plan

Done: every module of the table above, its runs, and proofs of the safety
properties they check.

Next, in order:
1. one ledger under Escrow, Withdrawal and Credit together: NoOverdraft across
   use cases, for users without overlapping requests (a payment and a withdrawal
   of one user read the same wallet);
2. lemmas on the pure operators the proofs now expand in place: the fee is a part of
   the amount, a refund's allocation and a payer's split add up;
3. the safety core of the liveness properties: what KeyIsFreed and Served need
   besides fairness, as invariants.
