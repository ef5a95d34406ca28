---------------------------- MODULE DoubleEntry ----------------------------
(***************************************************************************)
(* The chart of accounts and the rules of a journal                        *)
(* (internal/domain/ledger, internal/usecase/ledger): what may be posted   *)
(* and what posting does to a ledger value [balance, posted], the balance  *)
(* of each account and the references posted so far.                       *)
(***************************************************************************)
EXTENDS Integers, FiniteSets, Functions

CONSTANTS
    Users,       \* wallet and promo-credit owners
    Shipments,   \* one escrow liability account per shipment
    None         \* "no value": the owner of a system account, an empty column

-----------------------------------------------------------------------------
(* The chart of accounts.                                                  *)

Account(name) == <<name, None>>
UserWallet(u) == <<"WALLET_LIABILITY", u>>
UserPromoCredit(u) == <<"PROMO_CREDIT_LIABILITY", u>>
ShipmentEscrow(s) == <<"ESCROW", s>>

SystemAccounts == {"IR_PSP_CLEARING", "IR_BANK_MAIN", "IR_PAYOUT_CLEARING",
                   "AIRBAR_FEE_REVENUE", "AIRBAR_PROMO_EXPENSE"}

Accounts ==
    ({"WALLET_LIABILITY", "PROMO_CREDIT_LIABILITY"} \X Users)
        \cup ({"ESCROW"} \X Shipments)
        \cup (SystemAccounts \X {None})

-----------------------------------------------------------------------------
(* Lines.  A journal's lines are a function from the accounts it touches   *)
(* (no caller names an account twice) to the two columns of the line.      *)

Debit(n) == [debit |-> n, credit |-> 0]
Credit(n) == [debit |-> 0, credit |-> n]

TotalDebit(lines) == SumFunction([a \in DOMAIN lines |-> lines[a].debit])
TotalCredit(lines) == SumFunction([a \in DOMAIN lines |-> lines[a].credit])

(* Both columns of a line are non-negative and exactly one is positive.    *)
ValidLine(line) ==
    /\ line.debit >= 0 /\ line.credit >= 0
    /\ (line.debit > 0) # (line.credit > 0)

UncheckedTotals(lines) ==
    /\ DOMAIN lines # {}
    /\ \A a \in DOMAIN lines : ValidLine(lines[a])

ValidateLines(lines) ==
    /\ DOMAIN lines # {}
    /\ \A a \in DOMAIN lines : ValidLine(lines[a])
    /\ TotalDebit(lines) = TotalCredit(lines)

-----------------------------------------------------------------------------
(* Posting.  A use case posts its journals one after the other inside one  *)
(* transaction, so posting is an operator on ledger values: the handler    *)
(* threads the value through its journals and commits the last one.  The   *)
(* unique index on (ref_type, ref_id) refuses a reference already there    *)
(* and the refusal aborts the whole transaction.                           *)

Journal(ref, lines) == [ref |-> ref, lines |-> lines]

IgnoringReference(l, j) == ValidateLines(j.lines)

CanPost(l, j) ==
    /\ ValidateLines(j.lines)
    /\ j.ref \notin l.posted

Post(l, j) ==
    [balance |-> [a \in DOMAIN l.balance |->
                     IF a \in DOMAIN j.lines
                     THEN l.balance[a] + j.lines[a].credit - j.lines[a].debit
                     ELSE l.balance[a]],
     posted |-> l.posted \cup {j.ref}]
=============================================================================
