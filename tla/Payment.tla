------------------------------ MODULE Payment ------------------------------
(***************************************************************************)
(* Payment orders (internal/usecase/payment) on top of the escrow          *)
(* component: a payer is sent to the PSP (Zibal) and comes back through    *)
(* the HTTP callback or a gRPC verification; a verified order funds its    *)
(* escrow or tops up a wallet.                                             *)
(*                                                                         *)
(* VerifyOrder runs FundEscrow inside its own transaction, so a payment    *)
(* call drives the FundEscrow steps of module Escrow and commits together  *)
(* with them.  Of the other escrow requests those that matter until an     *)
(* escrow is funded are included: CreateEscrow and PayFromWallet.          *)
(*                                                                         *)
(* Zibal is external: a verification may be confirmed or refused, also a   *)
(* second time.  An amount that differs from the order's is a refusal.     *)
(***************************************************************************)
EXTENDS Escrow

CONSTANT TopupAmounts   \* amounts users top up their wallet with

ASSUME PaymentAssumption ==
    /\ TopupAmounts \subseteq Nat \ {0}
    /\ None \notin Orders \cup Users

VARIABLES
    orders,      \* finance.payment_orders
    verified,    \* finance.provider_events: keys zibal:verify:{order}
    captured,    \* external: orders whose payment Zibal has confirmed to us
    call,        \* per session: the payment call it serves
    callbacks,   \* history: <<order, "failure">> for a callback that reported one,
                 \* <<order, "success">> for a payer sent on to the success page
    contended    \* history: orders that two payment calls worked on at once

payment == <<orders, verified, captured, call, callbacks, contended>>

allVars == <<vars, payment>>

OrderStatuses == {"NONE", "PENDING", "CONFIRMED", "FAILED"}

(* "authority" is the trackId Zibal gave the order, which is then known.   *)
OrderRow == [status : OrderStatuses, ship : Shipments \cup {None},
             user : Users \cup {None}, amount : Nat, authority : BOOLEAN]

NoOrder == [status |-> "NONE", ship |-> None, user |-> None, amount |-> 0,
            authority |-> FALSE]

(* "request": the order is inserted, Zibal is asked for a session;         *)
(* "verify": the order is loaded, Zibal is asked; "tx": Zibal confirmed;   *)
(* "apply": the order is read again, in the transaction; "fail", "failing":*)
(* the order is to be marked failed, before and after it is loaded.        *)
Call == [pc : {"idle", "request", "verify", "tx", "apply", "fail", "failing"},
         order : Orders \cup {None}, row : OrderRow, callback : BOOLEAN]

NoCall == [pc |-> "idle", order |-> None, row |-> NoOrder, callback |-> FALSE]

PaymentRefs == Refs \cup ({"WALLET_TOPUP"} \X {None} \X {"topup"} \X Orders)

PaymentTypeOK ==
    /\ ledger.posted \subseteq PaymentRefs
    /\ orders \in [Orders -> OrderRow]
    /\ verified \subseteq Orders
    /\ captured \subseteq Orders
    /\ call \in [Sessions -> Call]
    /\ callbacks \subseteq Orders \X {"failure", "success"}
    /\ contended \subseteq Orders

PaymentInit ==
    /\ Init
    /\ orders = [o \in Orders |-> NoOrder]
    /\ verified = {}
    /\ captured = {}
    /\ call = [p \in Sessions |-> NoCall]
    /\ callbacks = {}
    /\ contended = {}

-----------------------------------------------------------------------------
Free(p) == tx[p] = Idle /\ call[p] = NoCall

Working(p, o) == call[p].order = o

Begin(p, pc, o, row, callback) ==
    /\ call' = [call EXCEPT ![p] = [pc |-> pc, order |-> o, row |-> row,
                                    callback |-> callback]]
    /\ contended' = contended \cup {x \in {o} : \E q \in Sessions \ {p} : Working(q, x)}

(* UPDATE ... WHERE id, from the call's copy of the order.                 *)
UpdateOrder(o, row) == orders' = [orders EXCEPT ![o] = row]

Finish(p) == call' = [call EXCEPT ![p] = NoCall]

(* The answer to a callback is a redirect, to a gRPC call the order.       *)
Succeeded(o, callback) ==
    callbacks' = callbacks \cup {<<x, "success">> : x \in {y \in {o} : callback}}

-----------------------------------------------------------------------------
(* CreatePaymentOrder and CreateWalletTopupOrder: nobody knows the order   *)
(* before Zibal gave it a trackId, so the checks and the INSERT are a step *)

Create(o, row) ==
    /\ orders[o] = NoOrder
    /\ UpdateOrder(o, row)

CreatePaymentOrder(p, o, s) ==
    LET row == [NoOrder EXCEPT !.status = "PENDING", !.ship = s, !.user = Payer[s],
                               !.amount = Gross[s]]
    IN
    /\ Free(p)
    /\ escrow[s].status # "NONE" /\ CanFund(escrow[s].status)
    /\ Create(o, row)
    /\ Begin(p, "request", o, row, FALSE)
    /\ UNCHANGED <<vars, verified, captured, callbacks>>

CreateWalletTopupOrder(p, o, u, n) ==
    LET row == [NoOrder EXCEPT !.status = "PENDING", !.user = u, !.amount = n] IN
    /\ Free(p)
    /\ Create(o, row)
    /\ Begin(p, "request", o, row, FALSE)
    /\ UNCHANGED <<vars, verified, captured, callbacks>>

(* Zibal's answer is stored: a trackId, or an error.                       *)
Requested(row) == {[row EXCEPT !.authority = TRUE], [row EXCEPT !.status = "FAILED"]}

ZibalRequest(p) ==
    /\ call[p].pc = "request"
    /\ \E row \in Requested(call[p].row) : UpdateOrder(call[p].order, row)
    /\ Finish(p)
    /\ UNCHANGED <<vars, verified, captured, callbacks, contended>>

-----------------------------------------------------------------------------
(* VerifyOrder, from gRPC or from a callback with success=1.               *)

TrustCallback == "tx"
AfterLoad == "verify"

VerifyOrder(p, o, callback) ==
    /\ Free(p)
    /\ orders[o].authority
    /\ CASE orders[o].status = "PENDING" ->
                Begin(p, AfterLoad, o, orders[o], callback) /\ UNCHANGED callbacks
         [] orders[o].status = "FAILED" ->
                /\ callback
                /\ Begin(p, "fail", o, orders[o], callback)
                /\ UNCHANGED callbacks
         [] orders[o].status = "CONFIRMED" ->
                /\ Succeeded(o, callback)
                /\ UNCHANGED <<call, contended>>
    /\ UNCHANGED <<vars, orders, verified, captured>>

ZibalVerify(p) ==
    /\ call[p].pc = "verify"
    /\ captured' = captured \cup {call[p].order}
    /\ call' = [call EXCEPT ![p].pc = "tx"]
    /\ UNCHANGED <<vars, orders, verified, callbacks, contended>>

(* In the transaction only CONFIRMED is looked at again.                   *)
MayApplyPending(status) == status = "PENDING"

MayApply(status) == status # "CONFIRMED"

RereadOrder(p) ==
    LET o == call[p].order IN
    /\ call[p].pc = "tx"
    /\ IF MayApply(orders[o].status)
       THEN /\ call' = [call EXCEPT ![p].pc = "apply", ![p].row = orders[o]]
            /\ UNCHANGED callbacks
       ELSE Finish(p) /\ Succeeded(o, call[p].callback)
    /\ UNCHANGED <<vars, orders, verified, captured, contended>>

(* A shipment order: the first query of FundEscrow.                        *)
FundFromOrder(p) ==
    /\ call[p].pc = "apply"
    /\ call[p].row.ship # None
    /\ FundEscrow(p, call[p].row.ship, call[p].order)
    /\ UNCHANGED payment

TopupByUser(o, row) ==
    Journal(<<"WALLET_TOPUP", None, "topup", row.user>>,
            Move(Account("IR_PSP_CLEARING"), UserWallet(row.user), row.amount))

WalletTopup(o, row) ==
    Journal(<<"WALLET_TOPUP", None, "topup", o>>,
            Move(Account("IR_PSP_CLEARING"), UserWallet(row.user), row.amount))

Confirmed(row) == [row EXCEPT !.status = "CONFIRMED"]

(* The order and the VERIFY provider event, whose key must be new.         *)
CreateVerifyEvent(o) ==
    /\ o \notin verified
    /\ verified' = verified \cup {o}

ConfirmOrder(p) ==
    LET o == call[p].order IN
    /\ CreateVerifyEvent(o)
    /\ UpdateOrder(o, Confirmed(call[p].row))
    /\ Finish(p)
    /\ Succeeded(o, call[p].callback)
    /\ UNCHANGED <<captured, contended>>

ConfirmShipmentOrder(p) ==
    /\ call[p].pc = "apply"
    /\ FundEscrowCommit(p)
    /\ ConfirmOrder(p)

ConfirmTopupOrder(p) ==
    LET j == WalletTopup(call[p].order, call[p].row) IN
    /\ call[p].pc = "apply"
    /\ call[p].row.ship = None
    /\ CanPost(ledger, j)
    /\ ledger' = Post(ledger, j)
    /\ ConfirmOrder(p)
    /\ UNCHANGED <<escrow, events, tx, overlapped, racedPayers>>

(* An error at any point before the commit: Zibal refuses, the escrow is   *)
(* not fundable, a reference is taken.  The transaction is rolled back and *)
(* a callback goes on to fail the order.                                   *)
VerifyError(p) ==
    /\ call[p].pc \in {"verify", "tx", "apply"}
    /\ IF call[p].callback THEN call' = [call EXCEPT ![p].pc = "fail"] ELSE Finish(p)
    /\ tx' = [tx EXCEPT ![p] = Idle]
    /\ UNCHANGED <<ledger, escrow, events, overlapped, racedPayers,
                   orders, verified, captured, callbacks, contended>>

-----------------------------------------------------------------------------
(* FailPaymentOrder: a callback without success=1, or one whose            *)
(* verification failed.  No transaction: a SELECT and an UPDATE.           *)

CallbackFailed(p, o) ==
    /\ Free(p)
    /\ orders[o].authority
    /\ Begin(p, "fail", o, orders[o], TRUE)
    /\ callbacks' = callbacks \cup {<<o, "failure">>}
    /\ UNCHANGED <<vars, orders, verified, captured>>

MayFailAlways(status) == TRUE

MayFail(status) == status # "CONFIRMED"

LoadFailedOrder(p) ==
    LET o == call[p].order IN
    /\ call[p].pc = "fail"
    /\ IF MayFail(orders[o].status)
       THEN call' = [call EXCEPT ![p].pc = "failing", ![p].row = orders[o]]
       ELSE Finish(p)
    /\ UNCHANGED <<vars, orders, verified, captured, callbacks, contended>>

FailPaymentOrder(p) ==
    /\ call[p].pc = "failing"
    /\ UpdateOrder(call[p].order, [call[p].row EXCEPT !.status = "FAILED"])
    /\ Finish(p)
    /\ UNCHANGED <<vars, verified, captured, callbacks, contended>>

(* A crash, or an error nothing follows.                                   *)
AbortCall(p) ==
    /\ call[p] # NoCall
    /\ Finish(p)
    /\ tx' = [tx EXCEPT ![p] = Idle]
    /\ UNCHANGED <<ledger, escrow, events, overlapped, racedPayers,
                   orders, verified, captured, callbacks, contended>>

-----------------------------------------------------------------------------
EscrowRequest(p) ==
    /\ call[p] = NoCall
    /\ \/ \E s \in Shipments :
             CreateEscrow(p, s) \/ PayFromWallet(p, s, Payer[s], Gross[s])
       \/ ReadPromoBalance(p) \/ ReadWalletBalance(p) \/ PayFromWalletCommit(p)
       \/ EmitEscrowStatus(p) \/ Abort(p)
    /\ UNCHANGED payment

PaymentRequest(p, o) ==
    \/ \E s \in Shipments : CreatePaymentOrder(p, o, s)
    \/ \E u \in Users, n \in TopupAmounts : CreateWalletTopupOrder(p, o, u, n)
    \/ \E callback \in BOOLEAN : VerifyOrder(p, o, callback)
    \/ CallbackFailed(p, o)

PaymentContinue(p) ==
    \/ ZibalRequest(p) \/ ZibalVerify(p) \/ RereadOrder(p) \/ FundFromOrder(p)
    \/ ConfirmShipmentOrder(p) \/ ConfirmTopupOrder(p) \/ VerifyError(p)
    \/ LoadFailedOrder(p) \/ FailPaymentOrder(p) \/ AbortCall(p)

PaymentNext ==
    \E p \in Sessions :
        EscrowRequest(p) \/ PaymentContinue(p) \/ \E o \in Orders : PaymentRequest(p, o)

PaymentSpec == PaymentInit /\ [][PaymentNext]_allVars

-----------------------------------------------------------------------------
(* Properties.                                                             *)

(* An order is booked when the ledger holds its credit to a wallet.        *)
Booked(o) == \E r \in ledger.posted : r[3] \in {"psp-wallet", "topup"} /\ r[4] = o

(* The order, its VERIFY event and the ledger agree, however calls for one *)
(* order overlap (VerifyOrder): an order is booked exactly when it has its *)
(* event, was confirmed by Zibal then, took its amount from the clearing   *)
(* account once, and is never CONFIRMED otherwise.                         *)
MoneyFollowsVerification ==
    /\ \A o \in Orders :
          /\ o \in verified <=> Booked(o)
          /\ Booked(o) => o \in captured
          /\ orders[o].status = "CONFIRMED" => Booked(o)
    /\ \E seed \in Seeds :
          ledger.balance[Account("IR_PSP_CLEARING")] =
              seed[Account("IR_PSP_CLEARING")]
                  - SumFunction([o \in verified |-> orders[o].amount])

(* A booked order that one call at a time worked on stays CONFIRMED: late  *)
(* and repeated callbacks do not undo it (FailPaymentOrder).               *)
BookedStaysConfirmed ==
    \A o \in Orders \ contended : o \in verified => orders[o].status = "CONFIRMED"

(* However many orders are paid for a shipment, and even if its payer also *)
(* pays from the wallet: the one order that is verified is the one its     *)
(* escrow names, unless requests for the shipment overlapped (FundEscrow). *)
OneOrderFunds ==
    \A o \in verified :
        LET s == orders[o].ship IN
        s # None /\ s \notin overlapped
            => escrow[s].order = o /\ escrow[s].source = "PSP"

(* A payer is sent to the success page only for an order that is booked    *)
(* (HandleCallback).                                                       *)
SuccessMeansBooked ==
    \A o \in Orders : <<o, "success">> \in callbacks => Booked(o)

(* verify_order.go:229 "marks the order failed when Zibal callback reports *)
(* failure": of what Zibal confirmed, only such an order becomes FAILED.   *)
FailedWasReported ==
    \A o \in captured : orders[o].status = "FAILED" => <<o, "failure">> \in callbacks
=============================================================================
