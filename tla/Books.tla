------------------------------- MODULE Books --------------------------------
(***************************************************************************)
(* The stored journals and what the service reads from them without a      *)
(* transaction: the treasury summary, wallets and their statements, and    *)
(* reconciliation runs.                                                    *)
(*                                                                         *)
(* A journal and its lines are inserted in one transaction, so a query     *)
(* sees all of a journal or none of it; queries of one request see the     *)
(* journals of different moments.                                          *)
(***************************************************************************)
EXTENDS Integers, Sequences, FiniteSets, Functions

CONSTANTS
    Users, Shipments,
    Writers,    \* requests that post a journal each
    Inputs,     \* what callers ask PostJournal to post
    Checks      \* RunReconciliation calls

D == INSTANCE DoubleEntry WITH None <- "airbar"

(* A journal names finitely many accounts of the chart, each with two      *)
(* integer columns.                                                        *)
ASSUME BooksAssumption ==
    \A j \in Inputs :
        /\ IsFiniteSet(DOMAIN j.lines)
        /\ DOMAIN j.lines \subseteq D!Accounts
        /\ \A a \in DOMAIN j.lines : j.lines[a] \in [debit : Int, credit : Int]

VARIABLES
    journals,   \* finance.ledger_journals and their ledger_entries, committed
    posting,    \* per writer: how far it is, and with which journal
    registered, \* finance.wallet_accounts: the users that have a row
    now,        \* the clock reconciliation runs are stamped with
    summary,    \* the figures GetTreasurySummary has read, and when it began
    statement,  \* a wallet's balance, then its transactions
    check,      \* per RunReconciliation call: what it has so far
    runs        \* finance.reconciliation_runs

booksVars == <<journals, posting, registered, now, summary, statement, check, runs>>

readVars == <<summary, statement, check, runs>>

-----------------------------------------------------------------------------
(* Sums over ledger_entries.                                               *)

LinesIn(j, accounts) == Restrict(j.lines, accounts \cap DOMAIN j.lines)

SumWhere(accounts) ==
    [debit |-> SumFunction([j \in journals |-> D!TotalDebit(LinesIn(j, accounts))]),
     credit |-> SumFunction([j \in journals |-> D!TotalCredit(LinesIn(j, accounts))])]

SumByAccount(a) == SumWhere({a})

SumByAccountLike(pattern) == SumWhere({a \in D!Accounts : a[1] = pattern})

SumOfAll == SumWhere(D!Accounts)

(* How each figure of the summary reads: assets and expense as debit less  *)
(* credit, revenue and the liabilities, summed by pattern, the other way.  *)
DebitLessCredit(s) == s.debit - s.credit
CreditLessDebit(s) == s.credit - s.debit

assetBalance(code) == DebitLessCredit(SumByAccount(D!Account(code)))
expenseBalance(code) == DebitLessCredit(SumByAccount(D!Account(code)))
revenueBalance(code) == CreditLessDebit(SumByAccount(D!Account(code)))
liabilityBalance(pattern) == CreditLessDebit(SumByAccountLike(pattern))

Figures == <<"IR_PSP_CLEARING", "IR_BANK_MAIN", "IR_PAYOUT_CLEARING", "AIRBAR_FEE_REVENUE",
             "AIRBAR_PROMO_EXPENSE", "WALLET_LIABILITY", "ESCROW", "PROMO_CREDIT_LIABILITY">>

FigureOf(f) ==
    CASE f \in {"IR_PSP_CLEARING", "IR_BANK_MAIN", "IR_PAYOUT_CLEARING"} -> assetBalance(f)
      [] f = "AIRBAR_PROMO_EXPENSE" -> expenseBalance(f)
      [] f = "AIRBAR_FEE_REVENUE" -> revenueBalance(f)
      [] OTHER -> liabilityBalance(f)

-----------------------------------------------------------------------------
Unread == [from |-> {}, read |-> <<>>]
NoStatement == [from |-> {}, balance |-> 0, entries |-> {}, step |-> "none"]
Unchecked == [step |-> "new"]

BooksInit ==
    /\ journals = {}
    /\ posting = [w \in Writers |-> [step |-> "new"]]
    /\ registered = {}
    /\ now = 0
    /\ summary = Unread
    /\ statement = NoStatement
    /\ check = [r \in Checks |-> Unchecked]
    /\ runs = <<>>

-----------------------------------------------------------------------------
(* PostJournal.Execute and CreateJournal.                                  *)

(* NewJournal refuses lines that are not valid; a transaction is begun.    *)
PostJournal(w, j) ==
    /\ posting[w].step = "new"
    /\ D!ValidateLines(j.lines)
    /\ posting' = [posting EXCEPT ![w] = [step |-> "begun", journal |-> j]]
    /\ UNCHANGED <<journals, registered, now, readVars>>

(* The owner of a wallet account, read off its code; no other account has  *)
(* one.                                                                    *)
ParseUserIDFromWalletAccount(a) == {u \in Users : a = D!UserWallet(u)}

(* Wallets are registered on their first ledger touch, by upserts that are *)
(* committed whatever becomes of the journal.                              *)
EnsureForLines(w) ==
    /\ posting[w].step = "begun"
    /\ registered' = registered \cup
           UNION {ParseUserIDFromWalletAccount(a) : a \in DOMAIN posting[w].journal.lines}
    /\ posting' = [posting EXCEPT ![w].step = "ensured"]
    /\ UNCHANGED <<journals, now, readVars>>

AnyReference(ref) == TRUE

(* The unique index: an INSERT waits for a transaction that has inserted   *)
(* the reference and fails once that one has committed.                    *)
FreeReference(ref) ==
    /\ \A j \in journals : j.ref # ref
    /\ \A w \in Writers : posting[w].step = "inserted" => posting[w].journal.ref # ref

CreateJournal(w) ==
    /\ posting[w].step = "ensured"
    /\ FreeReference(posting[w].journal.ref)
    /\ posting' = [posting EXCEPT ![w].step = "inserted"]
    /\ UNCHANGED <<journals, registered, now, readVars>>

CommitPosting(w) ==
    /\ posting[w].step = "inserted"
    /\ journals' = journals \cup {posting[w].journal}
    /\ posting' = [posting EXCEPT ![w] = [step |-> "done"]]
    /\ UNCHANGED <<registered, now, readVars>>

(* ErrDuplicateJournal, any other error, or a crash.                       *)
RollbackPosting(w) ==
    /\ posting[w].step \in {"begun", "ensured", "inserted"}
    /\ posting' = [posting EXCEPT ![w] = [step |-> "done"]]
    /\ UNCHANGED <<journals, registered, now, readVars>>

-----------------------------------------------------------------------------
(* GetTreasurySummary: eight queries one after the other.                  *)

GetTreasurySummary ==
    /\ Len(summary.read) < Len(Figures)
    /\ summary' = [from |-> IF summary.read = <<>> THEN journals ELSE summary.from,
                   read |-> Append(summary.read, FigureOf(Figures[Len(summary.read) + 1]))]
    /\ UNCHANGED <<journals, posting, registered, now, statement, check, runs>>

-----------------------------------------------------------------------------
(* A wallet's balance and, in another call, its transactions.              *)

GetBalance(u) == CreditLessDebit(SumByAccount(D!UserWallet(u)))

GetWallet(u) ==
    /\ statement.step = "none"
    /\ statement' = [from |-> journals, user |-> u, balance |-> GetBalance(u),
                     entries |-> {}, step |-> "balance"]
    /\ UNCHANGED <<journals, posting, registered, now, summary, check, runs>>

CreditsOnly(a) ==
    {[ref |-> j.ref, line |-> j.lines[a]] :
        j \in {k \in journals : a \in DOMAIN k.lines /\ k.lines[a].credit > 0}}

ListByAccount(a) ==
    {[ref |-> j.ref, line |-> j.lines[a]] : j \in {k \in journals : a \in DOMAIN k.lines}}

ListWalletTransactions ==
    /\ statement.step = "balance"
    /\ statement' = [statement EXCEPT !.entries = ListByAccount(D!UserWallet(statement.user)),
                                      !.step = "listed"]
    /\ UNCHANGED <<journals, posting, registered, now, summary, check, runs>>

-----------------------------------------------------------------------------
(* RunReconciliation: the clock is read, the sums, the clock again, and    *)
(* the row is inserted.                                                    *)

StartRun(r) ==
    /\ check[r].step = "new"
    /\ now' = now + 1
    /\ check' = [check EXCEPT ![r] = [step |-> "sum", started |-> now + 1]]
    /\ UNCHANGED <<journals, posting, registered, summary, statement, runs>>

StatusFor(sums) == IF sums.debit - sums.credit = 0 THEN "PASSED" ELSE "FAILED"

SumGlobal(r) ==
    /\ check[r].step = "sum"
    /\ check' = [check EXCEPT ![r] =
                    [step |-> "create", started |-> check[r].started, completed |-> now,
                     status |-> StatusFor(SumOfAll), debit |-> SumOfAll.debit]]
    /\ UNCHANGED <<journals, posting, registered, now, summary, statement, runs>>

CreateRun(r) ==
    /\ check[r].step = "create"
    /\ runs' = Append(runs, check[r])
    /\ check' = [check EXCEPT ![r].step = "done"]
    /\ UNCHANGED <<journals, posting, registered, now, summary, statement>>

-----------------------------------------------------------------------------
BooksNext ==
    \/ \E w \in Writers :
          \/ \E j \in Inputs : PostJournal(w, j)
          \/ EnsureForLines(w) \/ CreateJournal(w) \/ CommitPosting(w) \/ RollbackPosting(w)
    \/ GetTreasurySummary
    \/ \E u \in Users : GetWallet(u)
    \/ ListWalletTransactions
    \/ \E r \in Checks : StartRun(r) \/ SumGlobal(r) \/ CreateRun(r)

BooksSpec == BooksInit /\ [][BooksNext]_booksVars

-----------------------------------------------------------------------------
(* Properties.                                                             *)

(* The ledger value the other modules keep, as the rows give it.           *)
AsLedger ==
    [balance |-> [a \in D!Accounts |-> CreditLessDebit(SumByAccount(a))],
     posted |-> {j.ref : j \in journals}]

(* The rows implement the ledger the other modules are written over: what  *)
(* concurrent writers insert, line by line, changes balances and           *)
(* references as one valid posting after the other (createJournal).        *)
ImplementsLedger ==
    [][\E j \in journals' \ journals :
            D!CanPost(AsLedger, j) /\ AsLedger' = D!Post(AsLedger, j)]_journals

(* What the accounts on one side of the chart sum to in a summary.         *)
Total(names) ==
    SumFunctionOnSet(summary.read, {i \in DOMAIN Figures : Figures[i] \in names})

DebitSide == {"IR_PSP_CLEARING", "IR_BANK_MAIN", "IR_PAYOUT_CLEARING", "AIRBAR_PROMO_EXPENSE"}

CreditSide == {Figures[i] : i \in DOMAIN Figures} \ DebitSide

(* A treasury summary during which nothing was posted balances: its eight  *)
(* figures count every account of the chart once and on its own side       *)
(* (GetTreasurySummary).                                                   *)
SummaryBalances ==
    Len(summary.read) = Len(Figures) /\ summary.from = journals =>
        Total(DebitSide) = Total(CreditSide)

(* The transactions listed for a wallet explain the balance shown before,  *)
(* whatever was posted in between, which only adds to the list; who has    *)
(* any is registered (GetBalance, ListByAccount, post_journal.go:25        *)
(* "lazily created on first ledger touch").                                *)
StatementExplains ==
    statement.step = "listed" =>
        /\ statement.entries # {} => statement.user \in registered
        /\ LET before == {e \in statement.entries : \E j \in statement.from : j.ref = e.ref}
           IN  statement.balance = SumFunction([e \in before |-> CreditLessDebit(e.line)])

(* Reconciliation passes at every moment, in the middle of postings too,   *)
(* and a run that begins when another is complete never sees fewer debits  *)
(* (F7-treasury-reconciliation-report.md:44, RunReconciliation).           *)
RunsPassed ==
    \A i, k \in DOMAIN runs :
        /\ runs[i].status = "PASSED"
        /\ runs[i].completed < runs[k].started => runs[i].debit <= runs[k].debit
=============================================================================
