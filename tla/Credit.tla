------------------------------- MODULE Credit -------------------------------
(***************************************************************************)
(* Promo credit grants (internal/usecase/credit).  The handlers open a     *)
(* transaction, but the credit repository writes through the pool: the     *)
(* grant row commits on its own, and a rollback or a crash before the      *)
(* journal commits leaves the row without its journal.                     *)
(*                                                                         *)
(* Grant ids are fresh and idempotency keys unique, so a grant is named by *)
(* its key.  Audit events commit with the journals and are not kept apart. *)
(***************************************************************************)
EXTENDS SharedLedger

CONSTANTS
    Sessions,   \* requests that can be in flight at once
    Grants,     \* idempotency keys of GrantCredit
    Amounts     \* amounts granted, and paid from promo credit

CreditAssumption ==
    /\ IsFiniteSet(Grants)
    /\ Amounts \subseteq Nat \ {0}
    /\ None \notin Grants \cup Users

VARIABLES
    grants,     \* finance.credit_grants
    tx,         \* per session: the grant it works on and how far it is
    severed     \* history: grants whose row outlived an aborted transaction

vars == <<ledger, grants, tx, severed>>

Row == [status : {"NONE", "ACTIVE", "REVERSED"}, user : Users \cup {None}, amount : Nat]

NoRow == [status |-> "NONE", user |-> None, amount |-> 0]

-----------------------------------------------------------------------------
(* Journals.                                                               *)

Shift(from, to, n) == [a \in {from, to} |-> IF a = from THEN Debit(n) ELSE Credit(n)]

GrantingByUser(g, row) ==
    Journal(<<"PROMO_CREDIT_GRANT", row.user>>,
            Shift(Account("AIRBAR_PROMO_EXPENSE"), UserPromoCredit(row.user), row.amount))

Granting(g, row) ==
    Journal(<<"PROMO_CREDIT_GRANT", g>>,
            Shift(Account("AIRBAR_PROMO_EXPENSE"), UserPromoCredit(row.user), row.amount))

GrantingAgain(g, row) ==
    Journal(<<"PROMO_CREDIT_REVERSE", g>>,
            Shift(Account("AIRBAR_PROMO_EXPENSE"), UserPromoCredit(row.user), row.amount))

Reversing(g, row) ==
    Journal(<<"PROMO_CREDIT_REVERSE", g>>,
            Shift(UserPromoCredit(row.user), Account("AIRBAR_PROMO_EXPENSE"), row.amount))

(* A PayFromWallet that promo credit covers alone.                         *)
Paying(s, u, n) ==
    Journal(<<"PROMO_CREDIT_TO_ESCROW", s>>,
            Shift(UserPromoCredit(u), ShipmentEscrow(s), n))

Refs == ({"PROMO_CREDIT_GRANT", "PROMO_CREDIT_REVERSE"} \X Grants)
            \cup ({"PROMO_CREDIT_TO_ESCROW"} \X Shipments)

-----------------------------------------------------------------------------
(* "grant": the row is inserted, its journal is not posted; "mark": an     *)
(* active row is read; "reverse": the row is REVERSED, its journal is not  *)
(* posted.                                                                 *)
Session == [pc : {"idle", "grant", "mark", "reverse"}, id : Grants \cup {None}, row : Row]

Idle == [pc |-> "idle", id |-> None, row |-> NoRow]

TypeOK ==
    /\ ledger \in [balance : [Accounts -> Int], posted : SUBSET Refs]
    /\ grants \in [Grants -> Row]
    /\ tx \in [Sessions -> Session]
    /\ severed \subseteq Grants

Init ==
    /\ ledger = [balance |-> [a \in Accounts |-> 0], posted |-> {}]
    /\ grants = [g \in Grants |-> NoRow]
    /\ tx = [p \in Sessions |-> Idle]
    /\ severed = {}

-----------------------------------------------------------------------------
(* GrantCredit: the INSERT commits at once; a key that is taken is refused *)
(* (ErrDuplicateGrant), also when the earlier attempt never got further.   *)

CreateGrant(g, row) ==
    /\ grants[g] = NoRow
    /\ grants' = [grants EXCEPT ![g] = row]

GrantCredit(p, g, u, n) ==
    LET row == [status |-> "ACTIVE", user |-> u, amount |-> n] IN
    /\ tx[p] = Idle
    /\ CreateGrant(g, row)
    /\ tx' = [tx EXCEPT ![p] = [pc |-> "grant", id |-> g, row |-> row]]
    /\ UNCHANGED <<ledger, severed>>

(* COMMIT of the one journal of a transaction.                             *)
CommitJournal(p, j) ==
    /\ CanPost(ledger, j)
    /\ ledger' = Post(ledger, j)
    /\ tx' = [tx EXCEPT ![p] = Idle]
    /\ UNCHANGED <<grants, severed>>

GrantCreditCommit(p) ==
    tx[p].pc = "grant" /\ CommitJournal(p, Granting(tx[p].id, tx[p].row))

(* ReverseCreditGrant: the row is read before the transaction; MarkReversed *)
(* updates it where it is still ACTIVE, and commits at once.               *)

GetGrantByID(g) == grants[g]

ReverseCreditGrant(p, g) ==
    LET row == GetGrantByID(g) IN
    /\ tx[p] = Idle
    /\ row.status = "ACTIVE"
    /\ tx' = [tx EXCEPT ![p] = [pc |-> "mark", id |-> g, row |-> row]]
    /\ UNCHANGED <<ledger, grants, severed>>

ById(row) == row.status # "NONE"

ByIdAndActive(row) == row.status = "ACTIVE"

Unmarked(row) == row

Marked(row) == [row EXCEPT !.status = "REVERSED"]

MarkReversed(p) ==
    LET g == tx[p].id IN
    /\ tx[p].pc = "mark"
    /\ ByIdAndActive(grants[g])
    /\ grants' = [grants EXCEPT ![g] = Marked(@)]
    /\ tx' = [tx EXCEPT ![p].pc = "reverse"]
    /\ UNCHANGED <<ledger, severed>>

ReverseCreditCommit(p) ==
    tx[p].pc = "reverse" /\ CommitJournal(p, Reversing(tx[p].id, tx[p].row))

(* An error return or a crash: only the journal is rolled back.            *)
Abort(p) ==
    /\ tx[p] # Idle
    /\ tx' = [tx EXCEPT ![p] = Idle]
    /\ severed' = severed \cup {g \in {tx[p].id} : tx[p].pc \in {"grant", "reverse"}}
    /\ UNCHANGED <<ledger, grants>>

(* The escrow component spends promo credit (see module Escrow), here in   *)
(* one step and only as much as there is.                                  *)
PayFromWallet(u, s, n) ==
    /\ n <= SumByAccount(UserPromoCredit(u))
    /\ CanPost(ledger, Paying(s, u, n))
    /\ ledger' = Post(ledger, Paying(s, u, n))
    /\ UNCHANGED <<grants, tx, severed>>

Next ==
    \/ \E p \in Sessions :
          \/ \E g \in Grants, u \in Users, n \in Amounts : GrantCredit(p, g, u, n)
          \/ \E g \in Grants : ReverseCreditGrant(p, g)
          \/ GrantCreditCommit(p) \/ MarkReversed(p) \/ ReverseCreditCommit(p) \/ Abort(p)
    \/ \E u \in Users, s \in Shipments, n \in Amounts : PayFromWallet(u, s, n)

Spec == Init /\ [][Next]_vars

-----------------------------------------------------------------------------
(* Properties.                                                             *)

IsGranted(g) == <<"PROMO_CREDIT_GRANT", g>> \in ledger.posted
IsReversed(g) == <<"PROMO_CREDIT_REVERSE", g>> \in ledger.posted

(* Whatever interleaves and aborts, promo expense is the grants posted     *)
(* less the reversals posted, each once and in full (GrantCredit,          *)
(* ReverseCreditGrant).                                                    *)
ExpenseExplained ==
    - ledger.balance[Account("AIRBAR_PROMO_EXPENSE")] =
        SumFunction([g \in Grants |->
            grants[g].amount * ((IF IsGranted(g) THEN 1 ELSE 0)
                                    - (IF IsReversed(g) THEN 1 ELSE 0))])

(* Between concurrent reversals of a grant the conditional UPDATE picks    *)
(* one: whoever is about to post the reversal is alone, and first.         *)
OneReverser ==
    \A p \in Sessions : tx[p].pc = "reverse" =>
        /\ ~IsReversed(tx[p].id)
        /\ \A q \in Sessions : tx[q].pc = "reverse" /\ tx[q].id = tx[p].id => q = p

(* Once nobody works on a grant its status tells what the ledger holds,    *)
(* unless a transaction that had already written the row was aborted.      *)
StatusTellsLedger ==
    \A g \in Grants \ severed : (\A p \in Sessions : tx[p].id # g) =>
        /\ (grants[g].status # "NONE") <=> IsGranted(g)
        /\ (grants[g].status = "REVERSED") <=> IsReversed(g)

(* reverse_credit.go:24 "reverses an active promo credit grant if not      *)
(* consumed": what a reversal takes back was still there.                  *)
ReversedOnlyUnconsumed ==
    [][\A g \in Grants : IsReversed(g)' /\ ~IsReversed(g)
          => ledger'.balance[UserPromoCredit(grants[g].user)] >= 0]_vars
=============================================================================
