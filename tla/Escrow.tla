------------------------------- MODULE Escrow -------------------------------
(***************************************************************************)
(* The escrow use cases (internal/usecase/escrow) as the database sees     *)
(* them.  A session is one gRPC request being served.  Every query of a    *)
(* handler is a step of its session and reads what is committed at that    *)
(* moment (READ COMMITTED, no row lock, and balances through the pool);    *)
(* the writes of a transaction become visible together when it commits.    *)
(*                                                                         *)
(* A request refused by its first checks changes nothing and is a          *)
(* stuttering step; every later error return, a crash of the process and   *)
(* a lost connection are Abort.                                            *)
(***************************************************************************)
EXTENDS SharedLedger

CONSTANTS
    Sessions,    \* requests that can be in flight at once
    Orders,      \* payment order ids
    Payer, Carrier, Gross,  \* per shipment: what CreateEscrow was told
    FeePercent,  \* PLATFORM_FEE_PERCENT
    MayOverlap,  \* bound: shipments whose callers may send overlapping requests
    Seeds        \* ledger balances that may exist before the first escrow

(* Before the first of these escrows the books balance and none of their   *)
(* accounts holds any money.                                               *)
ASSUME EscrowAssumption ==
    /\ IsFiniteSet(Users) /\ IsFiniteSet(Shipments)
    /\ Payer \in [Shipments -> Users]
    /\ Carrier \in [Shipments -> Users]
    /\ Gross \in [Shipments -> Nat \ {0}]
    /\ FeePercent \in Int
    /\ Seeds \subseteq [Accounts -> Int]
    /\ \A seed \in Seeds : /\ SumFunction(seed) = 0
                           /\ \A s \in Shipments : seed[ShipmentEscrow(s)] = 0
    /\ MayOverlap \subseteq Shipments
    /\ None \notin Shipments

VARIABLES
    escrow,      \* finance.escrows, one row per shipment
    events,      \* finance.finance_events: <<shipment, status>> recorded
    tx,          \* per session: the request it serves and what it has read
    overlapped,  \* history: shipments that had two requests in flight at once
    racedPayers  \* history: payers with two wallet payments in flight at once

vars == <<ledger, escrow, events, tx, overlapped, racedPayers>>

-----------------------------------------------------------------------------
(* Escrow rows and their status guards.                                    *)

Statuses == {"NONE", "CREATED", "FUNDED", "LOCKED", "DISPUTE_WINDOW", "FROZEN",
             "RELEASED", "REFUNDED", "PARTIALLY_REFUNDED"}

FundingSources == {"", "PSP", "WALLET", "PROMO_CREDIT", "MIXED"}

(* The mutable columns; "stamps" are the lifecycle timestamps that are set *)
EscrowRow == [status : Statuses, source : FundingSources, order : Orders \cup {None},
              promo : Int, stamps : SUBSET {"funded_at", "released_at", "refunded_at"}]

NoRow == [status |-> "NONE", source |-> "", order |-> None, promo |-> 0, stamps |-> {}]

CanPayFromWallet(status) == status = "CREATED"
CanFundTwice(status) == status \in {"CREATED", "FUNDED"}
CanFund(status) == status = "CREATED"
CanDeliverUnpaid(status) == status \in {"CREATED", "FUNDED"}
CanMarkDelivered(status) == status = "FUNDED"
CanFreeze(status) == status \in {"DISPUTE_WINDOW", "LOCKED"}
CanReleaseFrozen(status) == status \in {"DISPUTE_WINDOW", "PARTIALLY_REFUNDED", "FROZEN"}
CanRelease(status) == status \in {"DISPUTE_WINDOW", "PARTIALLY_REFUNDED"}
CanRefund(status) ==
    status \in {"FUNDED", "DISPUTE_WINDOW", "FROZEN", "PARTIALLY_REFUNDED"}
CanPartialRefund(status) == CanRefund(status)

-----------------------------------------------------------------------------
(* Pure parts of the handlers.                                             *)

AtMost(bound, n) == IF n > bound THEN bound ELSE n
AtLeast(bound, n) == IF n < bound THEN bound ELSE n

CalcPlatformFee(amount) ==
    IF amount <= 0 THEN 0
    ELSE AtMost(amount, AtLeast(0, (amount * FeePercent) \div 100))

(* Promo credit first; a negative promo balance is passed on as it is.     *)
ResolvePayerFundingSplit(amount, promoBalance) ==
    LET promoUsed == AtMost(amount, promoBalance)
    IN  [promo |-> promoUsed, wallet |-> amount - promoUsed]

FundsIgnored(split, walletBalance) == walletBalance >= 0

SufficientFunds(split, walletBalance) == walletBalance >= split.wallet

FundingSourceForSplit(split) ==
    CASE split.promo > 0 /\ split.wallet > 0 -> "MIXED"
      [] split.promo > 0 /\ split.wallet <= 0 -> "PROMO_CREDIT"
      [] OTHER -> "WALLET"

RefTypeForEscrowPay(split) ==
    IF split.promo > 0 THEN "PROMO_CREDIT_TO_ESCROW" ELSE "WALLET_TO_ESCROW"

(* A debit line for each source that pays something, one credit line.      *)
EscrowPayLines(s, split) ==
    LET promo == UserPromoCredit(Payer[s])
        wallet == UserWallet(Payer[s])
        sources == {a \in {promo, wallet} :
                       IF a = promo THEN split.promo > 0 ELSE split.wallet > 0}
    IN  [a \in sources \cup {ShipmentEscrow(s)} |->
            IF a = promo THEN Debit(split.promo)
            ELSE IF a = wallet THEN Debit(split.wallet)
            ELSE Credit(split.promo + split.wallet)]

AllToWallet(amount, promoRemaining) == [promo |-> 0, wallet |-> amount]

RefundAllocation(amount, promoRemaining) ==
    LET promo == IF amount <= 0 \/ promoRemaining <= 0 THEN 0
                 ELSE AtMost(promoRemaining, amount)
    IN  [promo |-> promo, wallet |-> amount - promo]

Move(from, to, n) ==
    [a \in {from, to} |-> IF a = from THEN Debit(n) ELSE Credit(n)]

-----------------------------------------------------------------------------
(* Journals.  A reference is (ref_type, shipment : kind : argument).       *)

RefTypes == {"PSP_TO_WALLET", "WALLET_TO_ESCROW", "PROMO_CREDIT_TO_ESCROW",
             "ESCROW_RELEASE", "ESCROW_REFUND_PROMO_CREDIT", "ESCROW_REFUND_WALLET"}

Refs ==
    (RefTypes \X Shipments \X {"psp-wallet", "wallet-escrow"} \X Orders)
        \cup (RefTypes \X Shipments \X {"wallet-pay", "release"} \X {None})
        \cup (RefTypes \X Shipments \X {"refund-promo", "refund-wallet"} \X Int)

PSPToWallet(s, o) ==
    Journal(<<"PSP_TO_WALLET", s, "psp-wallet", o>>,
            Move(Account("IR_PSP_CLEARING"), UserWallet(Payer[s]), Gross[s]))

WalletToEscrow(s, o) ==
    Journal(<<"WALLET_TO_ESCROW", s, "wallet-escrow", o>>,
            Move(UserWallet(Payer[s]), ShipmentEscrow(s), Gross[s]))

EscrowPay(s, split) ==
    Journal(<<RefTypeForEscrowPay(split), s, "wallet-pay", None>>,
            EscrowPayLines(s, split))

EscrowRelease(s, balance) ==
    LET fee == CalcPlatformFee(balance)
    IN  Journal(<<"ESCROW_RELEASE", s, "release", None>>,
                [a \in {ShipmentEscrow(s), Account("AIRBAR_FEE_REVENUE"),
                        UserWallet(Carrier[s])} |->
                    IF a = ShipmentEscrow(s) THEN Debit(balance)
                    ELSE IF a = UserWallet(Carrier[s]) THEN Credit(balance - fee)
                    ELSE Credit(fee)])

RefundPromo(s, n) ==
    Journal(<<"ESCROW_REFUND_PROMO_CREDIT", s, "refund-promo", n>>,
            Move(ShipmentEscrow(s), UserPromoCredit(Payer[s]), n))

RefundWalletUnkeyed(s, n) ==
    Journal(<<"ESCROW_REFUND_WALLET", s, "refund-wallet", None>>,
            Move(ShipmentEscrow(s), UserWallet(Payer[s]), n))

RefundWallet(s, n) ==
    Journal(<<"ESCROW_REFUND_WALLET", s, "refund-wallet", n>>,
            Move(ShipmentEscrow(s), UserWallet(Payer[s]), n))

(* Both refund journals of one transaction: a part of zero posts nothing.  *)
CanPostRefund(l, s, part) ==
    /\ part.promo > 0 => CanPost(l, RefundPromo(s, part.promo))
    /\ part.wallet > 0 => CanPost(l, RefundWallet(s, part.wallet))

PostRefund(l, s, part) ==
    LET afterPromo == IF part.promo > 0 THEN Post(l, RefundPromo(s, part.promo)) ELSE l
    IN  IF part.wallet > 0 THEN Post(afterPromo, RefundWallet(s, part.wallet))
        ELSE afterPromo

-----------------------------------------------------------------------------
(* Sessions.                                                               *)

Ops == {"CreateEscrow", "FundEscrow", "PayFromWallet", "MarkDelivered", "FreezeEscrow",
        "ReleaseEscrow", "RefundEscrow", "PartialRefundEscrow"}

(* "row": the escrow row is read; "promo", "funds": the promo balance and  *)
(* then the wallet or escrow balance are read; "emit": the row is written  *)
(* and the audit event is not.                                             *)
Session == [pc : {"idle", "row", "promo", "funds", "emit"}, op : Ops \cup {"none"},
            ship : Shipments \cup {None}, arg : Orders \cup {None} \cup Int,
            row : EscrowRow, promo : Int, funds : Int]

Idle == [pc |-> "idle", op |-> "none", ship |-> None, arg |-> None,
         row |-> NoRow, promo |-> 0, funds |-> 0]

(* The row is written; its audit event is the next statement.              *)
OwingEvent(op, s, row) ==
    [pc |-> "emit", op |-> op, ship |-> s, arg |-> None,
     row |-> row, promo |-> 0, funds |-> 0]

At(p, op, pc) == tx[p].op = op /\ tx[p].pc = pc

Busy(p, s) == tx[p].ship = s /\ tx[p].pc \in {"row", "promo", "funds"}

TypeOK ==
    /\ ledger \in [balance : [Accounts -> Int], posted : SUBSET Refs]
    /\ escrow \in [Shipments -> EscrowRow]
    /\ events \subseteq Shipments \X Statuses
    /\ tx \in [Sessions -> Session]
    /\ overlapped \subseteq Shipments
    /\ racedPayers \subseteq Users

(* The ledger may already hold wallet top-ups, promo grants and clawbacks. *)
Init ==
    /\ \E seed \in Seeds : ledger = [balance |-> seed, posted |-> {}]
    /\ escrow = [s \in Shipments |-> NoRow]
    /\ events = {}
    /\ tx = [p \in Sessions |-> Idle]
    /\ overlapped = {}
    /\ racedPayers = {}

-----------------------------------------------------------------------------
(* Database access of a session.                                           *)

(* SELECT of the escrow row: from here on the session works on its copy.   *)
GetByShipmentID(p, op, s, arg) ==
    /\ tx[p] = Idle
    /\ escrow[s].status # "NONE"
    /\ s \in MayOverlap \/ \A q \in Sessions : ~Busy(q, s)
    /\ tx' = [tx EXCEPT ![p] = [pc |-> "row", op |-> op, ship |-> s, arg |-> arg,
                                row |-> escrow[s], promo |-> 0, funds |-> 0]]
    /\ overlapped' = overlapped \cup {x \in {s} : \E q \in Sessions \ {p} : Busy(q, x)}
    /\ UNCHANGED <<ledger, escrow, events>>

(* UPDATE ... WHERE id: every mutable column, from the session's copy.     *)
Update(p, row) == escrow' = [escrow EXCEPT ![tx[p].ship] = row]

(* COMMIT of the journals, the row and the audit event of one transaction. *)
CommitTx(p, l, row) ==
    /\ ledger' = l
    /\ Update(p, row)
    /\ events' = events \cup {<<tx[p].ship, row.status>>}
    /\ tx' = [tx EXCEPT ![p] = Idle]
    /\ UNCHANGED <<overlapped, racedPayers>>

(* An UPDATE outside any transaction; the audit event is a later statement *)
AutoCommit(p, row) ==
    /\ Update(p, row)
    /\ tx' = [tx EXCEPT ![p] = OwingEvent(tx[p].op, tx[p].ship, row)]
    /\ UNCHANGED <<ledger, events, overlapped, racedPayers>>

EmitEscrowStatus(p) ==
    /\ tx[p].pc = "emit"
    /\ events' = events \cup {<<tx[p].ship, tx[p].row.status>>}
    /\ tx' = [tx EXCEPT ![p] = Idle]
    /\ UNCHANGED <<ledger, escrow, overlapped, racedPayers>>

(* An error return with rollback, a crash, or an audit insert that failed  *)
(* and whose error is dropped.                                             *)
Abort(p) ==
    /\ tx[p] # Idle
    /\ tx' = [tx EXCEPT ![p] = Idle]
    /\ UNCHANGED <<ledger, escrow, events, overlapped, racedPayers>>

-----------------------------------------------------------------------------
(* CreateEscrow: one INSERT, refused for a shipment that has a row.        *)

CreateEscrow(p, s) ==
    LET row == [NoRow EXCEPT !.status = "CREATED"] IN
    /\ tx[p] = Idle
    /\ escrow[s].status = "NONE"
    /\ escrow' = [escrow EXCEPT ![s] = row]
    /\ tx' = [tx EXCEPT ![p] = OwingEvent("CreateEscrow", s, row)]
    /\ UNCHANGED <<ledger, events, overlapped, racedPayers>>

(* FundEscrow: PSP money through the payer's wallet into escrow.           *)

FundEscrow(p, s, o) ==
    /\ GetByShipmentID(p, "FundEscrow", s, o)
    /\ CanFund(escrow[s].status)
    /\ UNCHANGED racedPayers

FundEscrowCommit(p) ==
    LET s == tx[p].ship
        o == tx[p].arg
        credited == Post(ledger, PSPToWallet(s, o))
    IN
    /\ At(p, "FundEscrow", "row")
    /\ CanPost(ledger, PSPToWallet(s, o))
    /\ CanPost(credited, WalletToEscrow(s, o))
    /\ CommitTx(p, Post(credited, WalletToEscrow(s, o)),
                [tx[p].row EXCEPT !.status = "FUNDED", !.order = o, !.source = "PSP",
                                  !.stamps = @ \cup {"funded_at"}])

(* PayFromWallet: promo credit first, then wallet, in one journal.         *)

PayFromWallet(p, s, u, amount) ==
    /\ GetByShipmentID(p, "PayFromWallet", s, None)
    /\ u = Payer[s]
    /\ amount = Gross[s]
    /\ CanPayFromWallet(escrow[s].status)
    /\ racedPayers' = racedPayers \cup
           {x \in {u} : \E q \in Sessions \ {p} :
                           /\ tx[q].op = "PayFromWallet"
                           /\ Payer[tx[q].ship] = x}

ReadPromoBalance(p) ==
    /\ At(p, "PayFromWallet", "row")
    /\ tx' = [tx EXCEPT ![p].pc = "promo",
                        ![p].promo = SumByAccount(UserPromoCredit(Payer[tx[p].ship]))]
    /\ UNCHANGED <<ledger, escrow, events, overlapped, racedPayers>>

ReadWalletBalance(p) ==
    /\ At(p, "PayFromWallet", "promo")
    /\ tx' = [tx EXCEPT ![p].pc = "funds",
                        ![p].funds = SumByAccount(UserWallet(Payer[tx[p].ship]))]
    /\ UNCHANGED <<ledger, escrow, events, overlapped, racedPayers>>

PayFromWalletCommit(p) ==
    LET s == tx[p].ship
        split == ResolvePayerFundingSplit(Gross[s], tx[p].promo)
    IN
    /\ At(p, "PayFromWallet", "funds")
    /\ SufficientFunds(split, tx[p].funds)
    /\ CanPost(ledger, EscrowPay(s, split))
    /\ CommitTx(p, Post(ledger, EscrowPay(s, split)),
                [tx[p].row EXCEPT !.status = "FUNDED", !.source = FundingSourceForSplit(split),
                                  !.promo = split.promo, !.stamps = @ \cup {"funded_at"}])

(* MarkDelivered and FreezeEscrow: a SELECT and an UPDATE, no transaction. *)

MarkDelivered(p, s) ==
    /\ GetByShipmentID(p, "MarkDelivered", s, None)
    /\ CanMarkDelivered(escrow[s].status)
    /\ UNCHANGED racedPayers

MarkDeliveredUpdate(p) ==
    /\ At(p, "MarkDelivered", "row")
    /\ AutoCommit(p, [tx[p].row EXCEPT !.status = "DISPUTE_WINDOW"])

FreezeEscrow(p, s) ==
    /\ GetByShipmentID(p, "FreezeEscrow", s, None)
    /\ CanFreeze(escrow[s].status)
    /\ UNCHANGED racedPayers

FreezeEscrowUpdate(p) ==
    /\ At(p, "FreezeEscrow", "row")
    /\ AutoCommit(p, [tx[p].row EXCEPT !.status = "FROZEN"])

(* ReleaseEscrow, RefundEscrow, PartialRefundEscrow: row, balance, journal. *)

EscrowBalance(p) ==
    /\ tx[p].pc = "row"
    /\ tx[p].op \in {"ReleaseEscrow", "RefundEscrow", "PartialRefundEscrow"}
    /\ SumByAccount(ShipmentEscrow(tx[p].ship)) > 0
    /\ tx' = [tx EXCEPT ![p].pc = "funds",
                        ![p].funds = SumByAccount(ShipmentEscrow(tx[p].ship))]
    /\ UNCHANGED <<ledger, escrow, events, overlapped, racedPayers>>

ReleaseEscrow(p, s) ==
    /\ GetByShipmentID(p, "ReleaseEscrow", s, None)
    /\ CanRelease(escrow[s].status)
    /\ UNCHANGED racedPayers

ReleaseEscrowCommit(p) ==
    LET j == EscrowRelease(tx[p].ship, tx[p].funds) IN
    /\ At(p, "ReleaseEscrow", "funds")
    /\ CanPost(ledger, j)
    /\ CommitTx(p, Post(ledger, j),
                [tx[p].row EXCEPT !.status = "RELEASED", !.stamps = @ \cup {"released_at"}])

(* Refund "amount" of the balance read, promo part first.                  *)
CommitRefund(p, amount, status) ==
    LET s == tx[p].ship
        part == RefundAllocation(amount, tx[p].row.promo)
    IN
    /\ CanPostRefund(ledger, s, part)
    /\ CommitTx(p, PostRefund(ledger, s, part),
                [tx[p].row EXCEPT !.status = status,
                                  !.promo = AtLeast(0, @ - part.promo),
                                  !.stamps = @ \cup {"refunded_at"}])

RefundEscrow(p, s) ==
    /\ GetByShipmentID(p, "RefundEscrow", s, None)
    /\ CanRefund(escrow[s].status)
    /\ UNCHANGED racedPayers

RefundEscrowCommit(p) ==
    /\ At(p, "RefundEscrow", "funds")
    /\ CommitRefund(p, tx[p].funds, "REFUNDED")

PartialRefundEscrow(p, s, amount) ==
    /\ GetByShipmentID(p, "PartialRefundEscrow", s, amount)
    /\ amount > 0
    /\ CanPartialRefund(escrow[s].status)
    /\ UNCHANGED racedPayers

PartialRefundEscrowCommit(p) ==
    /\ At(p, "PartialRefundEscrow", "funds")
    /\ tx[p].arg <= tx[p].funds
    /\ CommitRefund(p, tx[p].arg,
                    IF tx[p].arg = tx[p].funds THEN "REFUNDED" ELSE "PARTIALLY_REFUNDED")

-----------------------------------------------------------------------------
(* Requests arrive in any order, for any shipment.                         *)

Request(p, s) ==
    \/ CreateEscrow(p, s)
    \/ \E o \in Orders : FundEscrow(p, s, o)
    \/ \E u \in Users, n \in 1 .. Gross[s] : PayFromWallet(p, s, u, n)
    \/ MarkDelivered(p, s)
    \/ FreezeEscrow(p, s)
    \/ ReleaseEscrow(p, s)
    \/ RefundEscrow(p, s)
    \/ \E n \in 1 .. Gross[s] : PartialRefundEscrow(p, s, n)

Continue(p) ==
    \/ FundEscrowCommit(p)
    \/ ReadPromoBalance(p) \/ ReadWalletBalance(p) \/ PayFromWalletCommit(p)
    \/ MarkDeliveredUpdate(p) \/ FreezeEscrowUpdate(p) \/ EmitEscrowStatus(p)
    \/ EscrowBalance(p) \/ ReleaseEscrowCommit(p)
    \/ RefundEscrowCommit(p) \/ PartialRefundEscrowCommit(p)
    \/ Abort(p)

Next == \E p \in Sessions : Continue(p) \/ \E s \in Shipments : Request(p, s)

Spec == Init /\ [][Next]_vars

-----------------------------------------------------------------------------
(* Properties.                                                             *)

(* Reconciliation passes at every moment: whatever the requests do, the    *)
(* committed ledger's debits equal its credits (RunReconciliation).        *)
Reconciles == SumGlobal = 0

(* A status in the row, or reported by an audit event, has its journal,    *)
(* even when requests for the shipment overlap: an escrow is FUNDED or     *)
(* later only with a funding journal, RELEASED only with the release       *)
(* journal, REFUNDED or PARTIALLY_REFUNDED only with a refund journal; a   *)
(* CREATED row has none.                                                   *)
Posted(s, kinds) == \E r \in ledger.posted : r[2] = s /\ r[3] \in kinds

Evidence(s, status) ==
    /\ status \notin {"NONE", "CREATED"} => Posted(s, {"wallet-escrow", "wallet-pay"})
    /\ status = "RELEASED" => Posted(s, {"release"})
    /\ status \in {"REFUNDED", "PARTIALLY_REFUNDED"}
           => Posted(s, {"refund-promo", "refund-wallet"})

StatusHasJournal ==
    /\ \A s \in Shipments :
          /\ Evidence(s, escrow[s].status)
          /\ escrow[s].status \in {"NONE", "CREATED"} => \A r \in ledger.posted : r[2] # s
    /\ \A e \in events : Evidence(e[1], e[2])

(* Seen from outside, a shipment whose requests never overlapped is an     *)
(* escrow whose status and money move together, whatever happens to other  *)
(* shipments and to the payer's wallet meanwhile.                          *)
Deal == [s \in Shipments |->
            IF s \in overlapped THEN [status |-> "VOID", held |-> 0]
            ELSE [status |-> escrow[s].status, held |-> ledger.balance[ShipmentEscrow(s)]]]

Contract == INSTANCE EscrowContract WITH deal <- Deal

ImplementsContract == Contract!Spec

(* The escrow account holds what the status says (see EscrowContract).     *)
EscrowBacked == Contract!Backed

(* A payment never takes wallet or promo credit below zero, for a payer    *)
(* whose wallet payments never overlapped.                                 *)
NoOverdraft ==
    [][\A u \in Users \ racedPayers' : \A a \in {UserWallet(u), UserPromoCredit(u)} :
          ledger'.balance[a] < ledger.balance[a] => ledger'.balance[a] >= 0]_vars

(* Promo credit is spent and returned as promo credit: what users hold and *)
(* what escrows record as promo_credit_funded stays what it was (here      *)
(* nothing is granted), and an escrow never records more of it than the    *)
(* money it still holds.                                                   *)
Promo == SumFunction([u \in Users |-> ledger.balance[UserPromoCredit(u)]])
             + SumFunction([s \in Shipments |-> escrow[s].promo])

PromoBacked ==
    \A s \in Shipments : escrow[s].status # "RELEASED" =>
        escrow[s].promo \in 0 .. ledger.balance[ShipmentEscrow(s)]

PromoConserved == [][overlapped' = {} => Promo' = Promo /\ PromoBacked']_vars

(* Whatever overlaps, the escrow account is explained by its references:   *)
(* every funding and every refund reference moved its amount exactly once, *)
(* and the one release took no more than was ever funded.                  *)
Of(s, kinds) == {r \in ledger.posted : r[2] = s /\ r[3] \in kinds}

EachReferenceOnce ==
    \A s \in Shipments :
        LET funded == Gross[s] * Cardinality(Of(s, {"wallet-escrow", "wallet-pay"}))
            refunds == Of(s, {"refund-promo", "refund-wallet"})
            released == funded - SumFunction([r \in refunds |-> r[4]])
                               - ledger.balance[ShipmentEscrow(s)]
        IN  IF Of(s, {"release"}) = {} THEN released = 0 ELSE released \in 1 .. funded

(* docs/tasks/F3-escrow-report.md:52,62 "FROZEN -> REFUNDED only           *)
(* (ReleaseEscrow blocked)": an escrow once frozen is never released.      *)
FrozenNeverReleased ==
    \A s \in Shipments : <<s, "FROZEN">> \in events => escrow[s].status # "RELEASED"

(* refund_escrow.go:19 "credits the full remaining escrow balance": an     *)
(* escrow that may be refunded and holds money can post that refund.       *)
RemainderRefundable ==
    \A s \in Shipments \ overlapped :
        LET held == ledger.balance[ShipmentEscrow(s)] IN
        CanRefund(escrow[s].status) /\ held > 0
            => CanPostRefund(ledger, s, RefundAllocation(held, escrow[s].promo))
=============================================================================
