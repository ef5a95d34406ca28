----------------------------- MODULE Withdrawal -----------------------------
(***************************************************************************)
(* The withdrawal use cases (internal/usecase/withdrawal): a wallet        *)
(* balance is reserved for a payout, and the request is approved, sent and *)
(* settled or failed, or processed or rejected, by administrators who may  *)
(* act at the same time.  Sessions are as in module Escrow: one query or   *)
(* one commit per step, nothing locked in between.                         *)
(***************************************************************************)
EXTENDS SharedLedger

CONSTANTS
    Sessions,     \* requests that can be in flight at once
    Withdrawals,  \* withdrawal ids
    Amounts,      \* amounts users ask for
    MayOverlap,   \* bound: withdrawals that may be handled by overlapping requests
    Seeds         \* ledger balances that may exist before the first withdrawal

ASSUME WithdrawalAssumption ==
    /\ IsFiniteSet(Withdrawals)
    /\ Amounts \subseteq Nat \ {0}
    /\ MayOverlap \subseteq Withdrawals
    /\ None \notin Withdrawals \cup Users
    /\ Seeds \subseteq [Accounts -> Int]
    /\ \A seed \in Seeds : seed[Account("IR_PAYOUT_CLEARING")] = 0

VARIABLES
    withdrawals,  \* finance.withdrawals
    events,       \* finance.finance_events: <<withdrawal, status>> recorded
    tx,           \* per session: the request it serves and what it has read
    overlapped,   \* history: withdrawals with two requests in flight at once
    racedUsers    \* history: users with two CreateWithdrawal in flight at once

vars == <<ledger, withdrawals, events, tx, overlapped, racedUsers>>

-----------------------------------------------------------------------------
(* Rows and status guards.  "receipt" stands for provider_ref,             *)
(* payout_channel and receipt_url, which are always written together.      *)

Statuses == {"NONE", "PENDING", "APPROVED", "SENT_TO_BANK", "SETTLED", "FAILED",
             "COMPLETED", "REJECTED"}

Row == [status : Statuses, user : Users \cup {None}, amount : Nat, receipt : BOOLEAN]

NoRow == [status |-> "NONE", user |-> None, amount |-> 0, receipt |-> FALSE]

CanFailSettled(status) == status \in {"APPROVED", "SENT_TO_BANK", "SETTLED"}

(* The status each operation requires of the row it has read.              *)
CanApprove(status) == status = "PENDING"
CanMarkSent(status) == status = "APPROVED"
CanSettle(status) == status = "SENT_TO_BANK"
CanFail(status) == status \in {"APPROVED", "SENT_TO_BANK"}
CanProcess(status) == status = "PENDING"
CanReject(status) == status = "PENDING"

Unchecked(n, balance) == TRUE

SufficientWallet(n, balance) == balance >= n

-----------------------------------------------------------------------------
(* Journals.                                                               *)

Between(from, to, n) == [a \in {from, to} |-> IF a = from THEN Debit(n) ELSE Credit(n)]

Reserve(w, u, n) ==
    Journal(<<"WITHDRAWAL_RESERVE", w, "reserve">>,
            Between(UserWallet(u), Account("IR_PAYOUT_CLEARING"), n))

SharedReversal(w, row, kind) ==
    Journal(<<"WITHDRAWAL_REJECT_REVERSAL", w, "reversal">>,
            Between(Account("IR_PAYOUT_CLEARING"), UserWallet(row.user), row.amount))

(* "kind" is reject or fail: the two reversals have references of their own *)
Reversal(w, row, kind) ==
    Journal(<<"WITHDRAWAL_REJECT_REVERSAL", w, kind>>,
            Between(Account("IR_PAYOUT_CLEARING"), UserWallet(row.user), row.amount))

Refs == {"WITHDRAWAL_RESERVE", "WITHDRAWAL_REJECT_REVERSAL"}
            \X Withdrawals \X {"reserve", "reject", "fail"}

-----------------------------------------------------------------------------
(* Sessions.                                                               *)

Ops == {"CreateWithdrawal", "ApproveWithdrawal", "MarkWithdrawalSent", "SettleWithdrawal",
        "FailWithdrawal", "ProcessWithdrawal", "RejectWithdrawal"}

(* "row": the withdrawal, or for CreateWithdrawal the balance, is read and *)
(* has passed its check; "emit": the row is written, its event is not.     *)
Session == [pc : {"idle", "row", "emit"}, op : Ops \cup {"none"},
            id : Withdrawals \cup {None}, row : Row]

Idle == [pc |-> "idle", op |-> "none", id |-> None, row |-> NoRow]

At(p, op, pc) == tx[p].op = op /\ tx[p].pc = pc

Handling(p, w) == tx[p].id = w /\ tx[p].pc = "row"

TypeOK ==
    /\ ledger \in [balance : [Accounts -> Int], posted : SUBSET Refs]
    /\ withdrawals \in [Withdrawals -> Row]
    /\ events \subseteq Withdrawals \X Statuses
    /\ tx \in [Sessions -> Session]
    /\ overlapped \subseteq Withdrawals
    /\ racedUsers \subseteq Users

Init ==
    /\ \E seed \in Seeds : ledger = [balance |-> seed, posted |-> {}]
    /\ withdrawals = [w \in Withdrawals |-> NoRow]
    /\ events = {}
    /\ tx = [p \in Sessions |-> Idle]
    /\ overlapped = {}
    /\ racedUsers = {}

(* SELECT of the row, which must have a status the operation accepts.      *)
GetByID(p, op, w) ==
    /\ tx[p] = Idle
    /\ w \in MayOverlap \/ \A q \in Sessions : ~Handling(q, w)
    /\ tx' = [tx EXCEPT ![p] = [pc |-> "row", op |-> op, id |-> w, row |-> withdrawals[w]]]
    /\ overlapped' = overlapped \cup {x \in {w} : \E q \in Sessions \ {p} : Handling(q, x)}
    /\ UNCHANGED <<ledger, withdrawals, events, racedUsers>>

(* UPDATE ... WHERE id, whatever the row holds by now.                     *)
Update(p, row) == withdrawals' = [withdrawals EXCEPT ![tx[p].id] = row]

(* COMMIT of a journal, the row and the audit event of one transaction.    *)
CommitTx(p, l, row) ==
    /\ ledger' = l
    /\ Update(p, row)
    /\ events' = events \cup {<<tx[p].id, row.status>>}
    /\ tx' = [tx EXCEPT ![p] = Idle]
    /\ UNCHANGED <<overlapped, racedUsers>>

(* An UPDATE outside any transaction; the audit event is a later statement *)
AutoCommit(p, row) ==
    /\ Update(p, row)
    /\ tx' = [tx EXCEPT ![p] = [pc |-> "emit", op |-> tx[p].op, id |-> tx[p].id, row |-> row]]
    /\ UNCHANGED <<ledger, events, overlapped, racedUsers>>

EmitWithdrawalStatusChanged(p) ==
    /\ tx[p].pc = "emit"
    /\ events' = events \cup {<<tx[p].id, tx[p].row.status>>}
    /\ tx' = [tx EXCEPT ![p] = Idle]
    /\ UNCHANGED <<ledger, withdrawals, overlapped, racedUsers>>

(* An error return with rollback, a crash, or a dropped audit error.       *)
Abort(p) ==
    /\ tx[p] # Idle
    /\ tx' = [tx EXCEPT ![p] = Idle]
    /\ UNCHANGED <<ledger, withdrawals, events, overlapped, racedUsers>>

-----------------------------------------------------------------------------
(* CreateWithdrawal: the balance is read before the transaction begins.    *)

CreateWithdrawal(p, u, n) ==
    /\ tx[p] = Idle
    /\ SufficientWallet(n, SumByAccount(UserWallet(u)))
    /\ tx' = [tx EXCEPT ![p] =
                 [pc |-> "row", op |-> "CreateWithdrawal", id |-> None,
                  row |-> [status |-> "PENDING", user |-> u, amount |-> n, receipt |-> FALSE]]]
    /\ racedUsers' = racedUsers \cup
           {x \in {u} : \E q \in Sessions \ {p} :
                           At(q, "CreateWithdrawal", "row") /\ tx[q].row.user = x}
    /\ UNCHANGED <<ledger, withdrawals, events, overlapped>>

Create(w, row) ==
    /\ withdrawals[w] = NoRow
    /\ withdrawals' = [withdrawals EXCEPT ![w] = row]

CreateWithdrawalCommit(p, w) ==
    LET row == tx[p].row IN
    /\ At(p, "CreateWithdrawal", "row")
    /\ Create(w, row)
    /\ CanPost(ledger, Reserve(w, row.user, row.amount))
    /\ ledger' = Post(ledger, Reserve(w, row.user, row.amount))
    /\ events' = events \cup {<<w, row.status>>}
    /\ tx' = [tx EXCEPT ![p] = Idle]
    /\ UNCHANGED <<overlapped, racedUsers>>

(* The operations that move no money: a SELECT and an UPDATE each.         *)

ApproveWithdrawal(p, w) ==
    GetByID(p, "ApproveWithdrawal", w) /\ CanApprove(withdrawals[w].status)

ApproveWithdrawalUpdate(p) ==
    /\ At(p, "ApproveWithdrawal", "row")
    /\ AutoCommit(p, [tx[p].row EXCEPT !.status = "APPROVED"])

WithoutReceipt(row) == [row EXCEPT !.status = "SENT_TO_BANK"]

Dispatched(row) == [row EXCEPT !.status = "SENT_TO_BANK", !.receipt = TRUE]

MarkWithdrawalSent(p, w) ==
    GetByID(p, "MarkWithdrawalSent", w) /\ CanMarkSent(withdrawals[w].status)

MarkWithdrawalSentUpdate(p) ==
    /\ At(p, "MarkWithdrawalSent", "row")
    /\ AutoCommit(p, Dispatched(tx[p].row))

SettleWithdrawal(p, w) ==
    GetByID(p, "SettleWithdrawal", w) /\ CanSettle(withdrawals[w].status)

SettleWithdrawalUpdate(p) ==
    /\ At(p, "SettleWithdrawal", "row")
    /\ AutoCommit(p, [tx[p].row EXCEPT !.status = "SETTLED"])

ProcessWithdrawal(p, w) ==
    GetByID(p, "ProcessWithdrawal", w) /\ CanProcess(withdrawals[w].status)

ProcessWithdrawalUpdate(p) ==
    /\ At(p, "ProcessWithdrawal", "row")
    /\ AutoCommit(p, [tx[p].row EXCEPT !.status = "COMPLETED", !.receipt = TRUE])

(* The operations that give the money back, in one transaction.            *)

RefuseOnly(p, kind, status) == CommitTx(p, ledger, [tx[p].row EXCEPT !.status = status])

GiveBack(p, kind, status) ==
    LET j == Reversal(tx[p].id, tx[p].row, kind) IN
    /\ CanPost(ledger, j)
    /\ CommitTx(p, Post(ledger, j), [tx[p].row EXCEPT !.status = status])

FailWithdrawal(p, w) ==
    GetByID(p, "FailWithdrawal", w) /\ CanFail(withdrawals[w].status)

FailWithdrawalCommit(p) ==
    At(p, "FailWithdrawal", "row") /\ GiveBack(p, "fail", "FAILED")

RejectWithdrawal(p, w) ==
    GetByID(p, "RejectWithdrawal", w) /\ CanReject(withdrawals[w].status)

RejectWithdrawalCommit(p) ==
    At(p, "RejectWithdrawal", "row") /\ GiveBack(p, "reject", "REJECTED")

-----------------------------------------------------------------------------

Request(p, w) ==
    \/ ApproveWithdrawal(p, w) \/ MarkWithdrawalSent(p, w) \/ SettleWithdrawal(p, w)
    \/ ProcessWithdrawal(p, w) \/ FailWithdrawal(p, w) \/ RejectWithdrawal(p, w)

Continue(p) ==
    \/ ApproveWithdrawalUpdate(p) \/ MarkWithdrawalSentUpdate(p) \/ SettleWithdrawalUpdate(p)
    \/ ProcessWithdrawalUpdate(p) \/ FailWithdrawalCommit(p) \/ RejectWithdrawalCommit(p)
    \/ EmitWithdrawalStatusChanged(p) \/ Abort(p)

Next ==
    \E p \in Sessions :
        \/ \E u \in Users, n \in Amounts : CreateWithdrawal(p, u, n)
        \/ \E w \in Withdrawals : CreateWithdrawalCommit(p, w) \/ Request(p, w)
        \/ Continue(p)

Spec == Init /\ [][Next]_vars

-----------------------------------------------------------------------------
(* Properties.                                                             *)

Reversals(w) ==
    {r \in ledger.posted : r[1] = "WITHDRAWAL_REJECT_REVERSAL" /\ r[2] = w}

(* Whatever overlaps and whatever is aborted, the payout clearing account  *)
(* is what was reserved less what was reversed, each reference once and    *)
(* for the amount of its own withdrawal (CreateWithdrawal, Reject, Fail).  *)
ClearingExplained ==
    ledger.balance[Account("IR_PAYOUT_CLEARING")] =
        SumFunction([w \in Withdrawals |->
                        withdrawals[w].amount * (1 - Cardinality(Reversals(w)))])

(* Whatever overlaps, a row says REJECTED or FAILED, and an event reports  *)
(* it, only when that very reversal is in the ledger: no refusal is        *)
(* recorded without the money going back.                                  *)
RefusedIsReturned ==
    \A w \in Withdrawals :
        LET says(status) == withdrawals[w].status = status \/ <<w, status>> \in events IN
        /\ says("REJECTED") => \E r \in Reversals(w) : r[3] = "reject"
        /\ says("FAILED") => \E r \in Reversals(w) : r[3] = "fail"

(* Whatever overlaps, a payout that is with the bank, settled or completed *)
(* carries its provider reference, channel and receipt: the unguarded      *)
(* UPDATEs of stale copies can take a row back, but not to such a status   *)
(* without the receipt (MarkWithdrawalSent, ProcessWithdrawal, Settle).    *)
PaidHasReceipt ==
    \A w \in Withdrawals :
        withdrawals[w].status \in {"SENT_TO_BANK", "SETTLED", "COMPLETED"}
            => withdrawals[w].receipt

(* Seen from outside, a withdrawal whose requests never overlapped is paid *)
(* out or given back, never both, and its status says which.               *)
Payout == [w \in Withdrawals |->
              IF w \in overlapped THEN [status |-> "VOID", returned |-> 0]
              ELSE [status |-> withdrawals[w].status, returned |-> Cardinality(Reversals(w))]]

Contract == INSTANCE WithdrawalContract WITH payout <- Payout

ImplementsContract == Contract!Spec

(* CreateWithdrawal never reserves more than a wallet holds, for a user    *)
(* whose own withdrawal requests never overlapped.                         *)
NoOverdraft ==
    [][\A u \in Users \ racedUsers' :
          ledger'.balance[UserWallet(u)] < ledger.balance[UserWallet(u)]
              => ledger'.balance[UserWallet(u)] >= 0]_vars

(* docs/tasks/F6-withdrawal-report.md:60 "Process marks COMPLETED without  *)
(* double-spend": a completed payout was not also given back.              *)
CompletedNotReversed ==
    \A w \in Withdrawals : withdrawals[w].status = "COMPLETED" => Reversals(w) = {}
=============================================================================
