--------------------------- MODULE Payment_proofs ---------------------------
(***************************************************************************)
(* Theorems about Payment, for every number of orders, sessions, users and *)
(* shipments, and however many calls work on one order at once.            *)
(***************************************************************************)
EXTENDS Payment, Escrow_proofs

-----------------------------------------------------------------------------
(* The inductive invariant.                                                *)

(* A call's copy of an order may be behind in its status, never in what    *)
(* the order is for.                                                       *)
SameOrder(a, b) ==
    /\ a.ship = b.ship /\ a.user = b.user /\ a.amount = b.amount
    /\ a.authority = b.authority
    /\ a.status # "NONE" /\ b.status # "NONE"

PaymentTyped ==
    /\ orders \in [Orders -> OrderRow]
    /\ verified \subseteq Orders /\ IsFiniteSet(verified)
    /\ captured \subseteq Orders
    /\ call \in [Sessions -> Call]
    /\ callbacks \subseteq Orders \X {"failure", "success"}
    /\ contended \subseteq Orders

(* What a session's call c and its escrow request t have in common.        *)
CallFits(c, t) ==
    /\ c.pc = "idle" => c = NoCall
    /\ c.pc # "idle" => c.order \in Orders /\ SameOrder(c.row, orders[c.order])
    /\ c.pc = "request" => c.row = orders[c.order] /\ c.row.status = "PENDING"
    /\ c.pc \notin {"idle", "request"} <=> c.row.authority
    /\ c.pc \in {"tx", "apply"} => c.order \in captured
    /\ c.pc = "failing" /\ c.order \notin contended =>
          c.row = orders[c.order] /\ c.row.status # "CONFIRMED"
    /\ t.op = "FundEscrow" =>
          c.pc = "apply" /\ t.pc = "row" /\ t.ship = c.row.ship /\ t.arg = c.order

Calls == \A p \in Sessions : CallFits(call[p], tx[p])

(* Only orders that Zibal knows are worked on by two calls at once.        *)
Contention ==
    \A p, q \in Sessions :
        p # q /\ call[p].order = call[q].order /\ call[p].order # None =>
            call[p].order \in contended /\ orders[call[p].order].authority

(* An order is for a shipment, with its payer and amount, or for a user.   *)
OrderFits(row) ==
    /\ row.authority => row.status # "NONE"
    /\ row.status # "NONE" =>
          IF row.ship = None THEN row.user \in Users
          ELSE row.user = Payer[row.ship] /\ row.amount = Gross[row.ship]

OrdersFit ==
    \A o \in Orders : OrderFits(orders[o]) /\ (o \in verified => orders[o].authority)

Bookings ==
    \A o \in Orders :
        /\ o \in verified <=> Booked(o)
        /\ Booked(o) => o \in captured
        /\ orders[o].status = "CONFIRMED" => Booked(o)
        /\ <<o, "success">> \in callbacks => Booked(o)

Clearing ==
    \E seed \in Seeds :
        ledger.balance[Account("IR_PSP_CLEARING")] =
            seed[Account("IR_PSP_CLEARING")] - SumFunction([o \in verified |-> orders[o].amount])

(* The escrow of a verified order: nothing before delivery changes it.     *)
FundedByOrder ==
    \A o \in verified :
        LET s == orders[o].ship IN
        s # None /\ s \notin overlapped =>
            escrow[s].order = o /\ escrow[s].source = "PSP" /\ escrow[s].status = "FUNDED"

PaymentInv ==
    /\ PaymentTyped /\ Calls /\ Contention /\ OrdersFit /\ Bookings /\ Clearing
    /\ BookedStaysConfirmed /\ FundedByOrder

-----------------------------------------------------------------------------
(* The escrow component keeps its invariant: a payment call drives it by   *)
(* its own steps, and a top-up does not touch escrow accounts.             *)

LEMMA FundStepIsEscrowStep ==
    ASSUME IInv, PaymentInv, NEW p \in Sessions, FundFromOrder(p)
    PROVE  /\ call[p].order \in Orders /\ call[p].row.ship \in Shipments
           /\ Request(p, call[p].row.ship)
<1>1. call[p].order \in Orders /\ call[p].row.ship \in Shipments
  BY DEF FundFromOrder, PaymentInv, PaymentTyped, Calls, CallFits, Call, OrderRow
<1> QED BY <1>1 DEF FundFromOrder, Request

LEMMA EscrowRequestIsStep ==
    ASSUME NEW p \in Sessions, EscrowRequest(p)
    PROVE  Next
<1>1. CASE \E s \in Shipments : CreateEscrow(p, s)
  BY <1>1 DEF Next, Request
<1>2. ASSUME NEW s \in Shipments, PayFromWallet(p, s, Payer[s], Gross[s]) PROVE Next
  <2>1. Payer[s] \in Users /\ Gross[s] \in 1 .. Gross[s]
    BY Parties
  <2> QED BY <1>2, <2>1 DEF Next, Request
<1>3. CASE \/ ReadPromoBalance(p) \/ ReadWalletBalance(p) \/ PayFromWalletCommit(p)
           \/ EmitEscrowStatus(p) \/ Abort(p)
  BY <1>3 DEF Next, Continue
<1> QED BY <1>1, <1>2, <1>3 DEF EscrowRequest

LEMMA PaymentStep ==
    ASSUME IInv, PaymentInv, [PaymentNext]_allVars
    PROVE  \/ [Next]_vars
           \/ \E p \in Sessions : ConfirmTopupOrder(p)
<1>1. CASE UNCHANGED allVars
  BY <1>1 DEF allVars
<1>2. ASSUME NEW p \in Sessions, EscrowRequest(p) PROVE [Next]_vars
  BY <1>2, EscrowRequestIsStep
<1>3. ASSUME NEW p \in Sessions, NEW o \in Orders, PaymentRequest(p, o) PROVE [Next]_vars
  BY <1>3 DEF PaymentRequest, CreatePaymentOrder, CreateWalletTopupOrder, VerifyOrder,
     CallbackFailed
<1>4. ASSUME NEW p \in Sessions, PaymentContinue(p), ~ ConfirmTopupOrder(p)
      PROVE  [Next]_vars
  <2>1. CASE ZibalRequest(p) \/ ZibalVerify(p) \/ RereadOrder(p) \/ LoadFailedOrder(p)
             \/ FailPaymentOrder(p)
    BY <2>1 DEF ZibalRequest, ZibalVerify, RereadOrder, LoadFailedOrder, FailPaymentOrder
  <2>2. CASE FundFromOrder(p)
    BY <2>2, FundStepIsEscrowStep DEF Next
  <2>3. CASE ConfirmShipmentOrder(p)
    BY <2>3 DEF ConfirmShipmentOrder, Next, Continue
  <2>4. CASE VerifyError(p) \/ AbortCall(p)
    <3>1. /\ tx' = [tx EXCEPT ![p] = Idle]
          /\ UNCHANGED <<ledger, escrow, events, overlapped, racedPayers>>
      BY <2>4 DEF VerifyError, AbortCall
    <3>2. CASE tx[p] = Idle
      BY <3>1, <3>2 DEF vars, IInv, Typed
    <3>3. CASE tx[p] # Idle
      BY <3>1, <3>3 DEF Abort, Continue, Next
    <3> QED BY <3>2, <3>3
  <2> QED BY <1>4, <2>1, <2>2, <2>3, <2>4 DEF PaymentContinue
<1> QED BY <1>1, <1>2, <1>3, <1>4 DEF PaymentNext, PaymentContinue

LEMMA TopupEffect ==
    ASSUME IInv, PaymentInv, NEW p \in Sessions, ConfirmTopupOrder(p)
    PROVE  LET o == call[p].order
               n == call[p].row.amount
               u == call[p].row.user
           IN  /\ o \in Orders /\ u \in Users /\ n \in Int
               /\ Shifts(ledger, ledger', [a \in {Account("IR_PSP_CLEARING"), UserWallet(u)} |->
                                              IF a = Account("IR_PSP_CLEARING") THEN - n ELSE n])
               /\ Adds(ledger, ledger', {<<"WALLET_TOPUP", None, "topup", o>>})
               /\ ledger' \in LedgerType
               /\ SumFunction(ledger'.balance) = SumFunction(ledger.balance)
<1> DEFINE o == call[p].order
           n == call[p].row.amount
           u == call[p].row.user
           c == Account("IR_PSP_CLEARING")
           w == UserWallet(u)
           j == WalletTopup(o, call[p].row)
<1>1. o \in Orders /\ call[p].row \in OrderRow /\ SameOrder(call[p].row, orders[o])
      /\ call[p].row.ship = None
  BY DEF ConfirmTopupOrder, PaymentInv, PaymentTyped, Calls, CallFits, Call
<1>2. u \in Users /\ n \in Int
  <2>1. orders[o].ship = None /\ orders[o].status # "NONE" /\ u = orders[o].user
    BY <1>1 DEF SameOrder
  <2>2. OrderFits(orders[o])
    BY <1>1 DEF PaymentInv, OrdersFit
  <2>3. n \in Nat
    BY <1>1 DEF OrderRow
  <2> QED BY <2>1, <2>2, <2>3 DEF OrderFits
<1>3. c \in Accounts /\ w \in Accounts /\ c # w
  BY <1>2 DEF Account, UserWallet, Accounts, SystemAccounts
<1>4. ledger \in LedgerType /\ CanPost(ledger, j) /\ ledger' = Post(ledger, j)
  BY DEF ConfirmTopupOrder, IInv, Typed
<1>5. j.ref = <<"WALLET_TOPUP", None, "topup", o>> /\ j.ref \in AnyRefs
  BY <1>1 DEF WalletTopup, Journal, AnyRefs
<1>6. /\ JournalType(j) /\ DOMAIN j.lines = {c, w}
      /\ \A a \in Accounts : Added(j, a) = IF a = c THEN - n ELSE IF a = w THEN n ELSE 0
  <2>1. DOMAIN j.lines = {c, w}
    BY DEF WalletTopup, Journal, Move
  <2> QED BY <1>2, <1>3, <1>5, <2>1, MoveLines DEF WalletTopup, Journal
<1> HIDE DEF j, c, w, o, n, u
<1>7. /\ ledger' \in LedgerType
      /\ \A a \in Accounts : ledger'.balance[a] = ledger.balance[a] + Added(j, a)
      /\ SumFunction(ledger'.balance) = SumFunction(ledger.balance)
  <2>1. DOMAIN j.lines \subseteq Accounts
    BY <1>3, <1>6
  <2> QED BY <1>4, <1>6, <2>1, PostAdds, PostBalances
<1>8. Adds(ledger, ledger', {j.ref})
  BY <1>4 DEF Adds, CanPost, Post
<1>9. Shifts(ledger, ledger', [a \in {c, w} |-> IF a = c THEN - n ELSE n])
  BY <1>3, <1>6, <1>7 DEF Shifts
<1> QED BY <1>1, <1>2, <1>5, <1>7, <1>8, <1>9 DEF c, w, o, n, u

LEMMA TopupKeepsEscrows ==
    ASSUME IInv, PaymentInv, NEW p \in Sessions, ConfirmTopupOrder(p)
    PROVE  IInv'
<1>1. PICK u \in Users, n \in Int :
         /\ Shifts(ledger, ledger', [a \in {Account("IR_PSP_CLEARING"), UserWallet(u)} |->
                                        IF a = Account("IR_PSP_CLEARING") THEN - n ELSE n])
         /\ ledger' \in LedgerType
  BY TopupEffect
<1>2. UNCHANGED <<escrow, events, tx, overlapped, racedPayers>>
  BY DEF ConfirmTopupOrder
<1>3. \A s \in Shipments : ledger'.balance[ShipmentEscrow(s)] = ledger.balance[ShipmentEscrow(s)]
  <2> DEFINE d == [a \in {Account("IR_PSP_CLEARING"), UserWallet(u)} |->
                      IF a = Account("IR_PSP_CLEARING") THEN - n ELSE n]
  <2>1. \A s \in Shipments : ShipmentEscrow(s) \in Accounts /\ ShipmentEscrow(s) \notin DOMAIN d
    BY DEF ShipmentEscrow, Accounts, Account, UserWallet
  <2>2. Shifts(ledger, ledger', d) /\ ledger \in LedgerType
    BY <1>1 DEF IInv, Typed
  <2> HIDE DEF d
  <2> QED BY <2>1, <2>2, ShiftsAt
<1> QED BY <1>1, <1>2, <1>3 DEF IInv, Typed, Serving, Alone, Fresh, Covered

LEMMA PaymentKeepsEscrows ==
    ASSUME IInv, PaymentInv, [PaymentNext]_allVars
    PROVE  IInv'
BY PaymentStep, TopupKeepsEscrows, NextIInv

-----------------------------------------------------------------------------
(* Steps that book nothing.  Session p's call becomes what it is after the *)
(* step; an order is left alone, marked failed by p from p's copy, or is   *)
(* one that Zibal does not know yet and that only p works on.              *)

Fails(p, o) ==
    /\ call[p].order = o /\ SameOrder(orders'[o], orders[o])
    /\ orders'[o].status # "CONFIRMED"
    /\ o \notin contended => orders[o].status # "CONFIRMED"

Grows(p, o) ==
    /\ ~ orders[o].authority /\ \A q \in Sessions \ {p} : call[q].order # o
    /\ OrderFits(orders'[o]) /\ orders'[o].status # "CONFIRMED"

BooksNothing ==
    /\ UNCHANGED verified
    /\ ledger'.balance[Account("IR_PSP_CLEARING")] = ledger.balance[Account("IR_PSP_CLEARING")]
    /\ \A o \in Orders : Booked(o)' <=> Booked(o)
    /\ callbacks' \subseteq Orders \X {"failure", "success"}
    /\ \A o \in Orders : <<o, "success">> \in callbacks' \ callbacks => Booked(o)

LeavesFunded ==
    /\ overlapped \subseteq overlapped'
    /\ \A s \in Shipments \ overlapped' : escrow[s].status = "FUNDED" => escrow'[s] = escrow[s]

CallStep(p) ==
    /\ call' \in [Sessions -> Call]
    /\ \A q \in Sessions \ {p} : call'[q] = call[q] /\ tx'[q] = tx[q]
    /\ captured \subseteq captured' /\ captured' \subseteq Orders
    /\ contended \subseteq contended' /\ contended' \subseteq Orders
    /\ CallFits(call[p], tx[p])'
    /\ LET o == call'[p].order IN
          \/ o \in {None, call[p].order}
          \/ \A q \in Sessions \ {p} :
                call[q].order = o => o \in contended' /\ orders[o].authority

Quiet(p) ==
    /\ CallStep(p) /\ BooksNothing /\ LeavesFunded
    /\ orders' \in [Orders -> OrderRow]
    /\ \A o \in Orders : orders'[o] = orders[o] \/ Fails(p, o) \/ Grows(p, o)

LEMMA OthersFit ==
    ASSUME IInv, PaymentInv, NEW p \in Sessions, CallStep(p),
           \A o \in Orders : \/ orders'[o] = orders[o]
                             \/ Grows(p, o)
                             \/ call[p].order = o /\ SameOrder(orders'[o], orders[o])
    PROVE  Calls' /\ Contention'
<1>1. ASSUME NEW q \in Sessions \ {p}
      PROVE  CallFits(call[q], tx[q])'
  <2>1. call'[q] = call[q] /\ tx'[q] = tx[q]
    BY DEF CallStep
  <2>2. CallFits(call[q], tx[q]) /\ call[q] \in Call
    BY DEF PaymentInv, Calls, PaymentTyped
  <2>3. CASE call[q].pc = "idle"
    BY <2>1, <2>2, <2>3 DEF CallFits, NoCall, NoOrder
  <2>4. CASE call[q].pc # "idle"
    <3>1. PICK o \in Orders : o = call[q].order /\ SameOrder(call[q].row, orders[o])
      BY <2>2, <2>4 DEF CallFits
    <3>2. ~ Grows(p, o)
      BY <3>1 DEF Grows
    <3>3. SameOrder(orders'[o], orders[o])
      BY <3>1, <3>2 DEF SameOrder
    <3>4. orders'[o] # orders[o] => o \in contended /\ orders[o].authority
      <4>1. o # None
        BY PaymentAssumption
      <4>2. orders'[o] # orders[o] => call[p].order = o
        BY <3>2
      <4> QED BY <3>1, <4>1, <4>2 DEF PaymentInv, Contention
    <3>5. SameOrder(call[q].row, orders'[o])
      BY <3>1, <3>3 DEF SameOrder
    <3>6. call[q].pc = "request" => orders'[o] = orders[o]
      BY <2>2, <3>1, <3>4 DEF CallFits, SameOrder
    <3>7. o \notin contended' => o \notin contended /\ orders'[o] = orders[o]
      BY <3>4 DEF CallStep
    <3>8. o \in captured => o \in captured'
      BY DEF CallStep
    <3> QED BY <2>1, <2>2, <2>4, <3>1, <3>5, <3>6, <3>7, <3>8 DEF CallFits
  <2> QED BY <2>3, <2>4
<1>2. Calls'
  BY <1>1 DEF Calls, CallStep
<1>3. ASSUME NEW q \in Sessions, NEW r \in Sessions, q # r,
             call'[q].order = call'[r].order, call'[q].order # None
      PROVE  call'[q].order \in contended' /\ orders'[call'[q].order].authority
  <2>1. PICK o \in Orders : o = call'[q].order
    BY <1>3 DEF CallStep, Call
  <2>2. PICK x \in Sessions \ {p} : x \in {q, r} /\ call[x].order = o
    BY <1>3, <2>1 DEF CallStep
  <2>3. o \in contended' /\ orders[o].authority
    <3>1. CASE q # p /\ r # p
      BY <1>3, <2>1, <3>1 DEF PaymentInv, Contention, CallStep
    <3>2. CASE q = p \/ r = p
      <4>1. call'[p].order = o /\ o # None
        BY <1>3, <2>1, <3>2
      <4>2. CASE call[p].order = o
        BY <2>2, <4>1, <4>2 DEF PaymentInv, Contention, CallStep
      <4>3. CASE call[p].order # o
        BY <2>2, <4>1, <4>3 DEF CallStep
      <4> QED BY <4>2, <4>3
    <3> QED BY <3>1, <3>2
  <2>4. orders'[o].authority
    BY <2>3 DEF Grows, SameOrder
  <2> QED BY <2>1, <2>3, <2>4
<1>4. Contention'
  BY <1>3 DEF Contention
<1> QED BY <1>2, <1>4

LEMMA SumOfAmounts ==
    ASSUME PaymentInv, orders' \in [Orders -> OrderRow],
           NEW S, S \subseteq Orders, IsFiniteSet(S),
           \A o \in S : orders'[o].amount = orders[o].amount
    PROVE  /\ SumFunction([o \in S |-> orders[o].amount]) \in Int
           /\ SumFunction([o \in S |-> orders'[o].amount])
                  = SumFunction([o \in S |-> orders[o].amount])
<1> DEFINE f == [o \in S |-> orders[o].amount]
           g == [o \in S |-> orders'[o].amount]
<1>1. DOMAIN f = S /\ DOMAIN g = S /\ \A o \in S : g[o] = f[o] /\ f[o] \in Int
  BY DEF PaymentInv, PaymentTyped, OrderRow
<1> HIDE DEF f, g
<1>2. SumFunction(f) \in Int /\ SumFunction(g) = SumFunction(f)
  BY <1>1, SumSame, SumType DEF SumFunction
<1> QED BY <1>2 DEF f, g

LEMMA QuietKeeps ==
    ASSUME IInv, PaymentInv, NEW p \in Sessions, Quiet(p)
    PROVE  PaymentInv'
<1>1. Calls' /\ Contention'
  BY OthersFit DEF Quiet, Fails
<1>2. PaymentTyped'
  BY DEF PaymentInv, PaymentTyped, Quiet, CallStep, BooksNothing
<1>3. \A o \in verified : orders'[o] = orders[o] \/ Fails(p, o)
  BY DEF PaymentInv, PaymentTyped, OrdersFit, Quiet, Grows
<1>4. ASSUME NEW o \in Orders
      PROVE  OrderFits(orders[o])' /\ (o \in verified' => orders'[o].authority)
  <2>1. OrderFits(orders[o]) /\ (o \in verified => orders[o].authority)
    BY DEF PaymentInv, OrdersFit
  <2>2. CASE orders'[o] = orders[o]
    BY <2>1, <2>2 DEF Quiet, BooksNothing, OrderFits
  <2>3. CASE Fails(p, o)
    BY <2>1, <2>3 DEF Quiet, BooksNothing, OrderFits, Fails, SameOrder
  <2>4. CASE Grows(p, o)
    BY <2>1, <2>4 DEF Quiet, BooksNothing, OrderFits, Grows
  <2> QED BY <2>2, <2>3, <2>4 DEF Quiet
<1>5. OrdersFit'
  BY <1>4 DEF OrdersFit
<1>6. Bookings'
  <2>1. \A o \in Orders : orders'[o].status = "CONFIRMED" => orders[o].status = "CONFIRMED"
    BY DEF Quiet, Fails, Grows
  <2> QED BY <2>1 DEF PaymentInv, Bookings, Quiet, CallStep, BooksNothing
<1>7. Clearing'
  <2>1. PICK seed \in Seeds :
           ledger.balance[Account("IR_PSP_CLEARING")] =
               seed[Account("IR_PSP_CLEARING")]
                   - SumFunction([o \in verified |-> orders[o].amount])
    BY DEF PaymentInv, Clearing
  <2>2. \A o \in verified : orders'[o].amount = orders[o].amount
    BY <1>3 DEF Fails, SameOrder
  <2>3. SumFunction([o \in verified |-> orders'[o].amount])
            = SumFunction([o \in verified |-> orders[o].amount])
    BY <2>2, SumOfAmounts DEF PaymentInv, PaymentTyped, Quiet
  <2> QED BY <2>1, <2>3 DEF Clearing, Quiet, BooksNothing
<1>8. BookedStaysConfirmed'
  BY <1>3 DEF PaymentInv, BookedStaysConfirmed, Quiet, Fails, CallStep, BooksNothing
<1>9. FundedByOrder'
  <2> SUFFICES ASSUME NEW o \in verified', orders'[o].ship # None,
                      orders'[o].ship \notin overlapped'
               PROVE  /\ escrow'[orders'[o].ship].order = o
                      /\ escrow'[orders'[o].ship].source = "PSP"
                      /\ escrow'[orders'[o].ship].status = "FUNDED"
    BY DEF FundedByOrder
  <2>1. o \in verified /\ o \in Orders /\ orders'[o].ship = orders[o].ship
    BY <1>3 DEF Quiet, BooksNothing, Fails, SameOrder, PaymentInv, PaymentTyped
  <2>2. PICK s \in Shipments : s = orders[o].ship
    BY <2>1 DEF PaymentInv, PaymentTyped, OrderRow
  <2>3. escrow[s].order = o /\ escrow[s].source = "PSP" /\ escrow[s].status = "FUNDED"
    BY <2>1, <2>2 DEF PaymentInv, FundedByOrder, Quiet, LeavesFunded
  <2>4. escrow'[s] = escrow[s]
    BY <2>1, <2>2, <2>3 DEF Quiet, LeavesFunded
  <2> QED BY <2>1, <2>2, <2>3, <2>4
<1> QED BY <1>1, <1>2, <1>5, <1>6, <1>7, <1>8, <1>9 DEF PaymentInv

-----------------------------------------------------------------------------
(* The actions that book nothing, one lemma each.                          *)

LEMMA SameLedger ==
    ASSUME PaymentInv, UNCHANGED <<ledger, verified, callbacks>>
    PROVE  BooksNothing
BY DEF PaymentInv, PaymentTyped, BooksNothing, Booked

LEMMA SameRows ==
    ASSUME UNCHANGED <<escrow, overlapped>>
    PROVE  LeavesFunded
BY DEF LeavesFunded

LEMMA Callers ==
    ASSUME PaymentInv, NEW p \in Sessions
    PROVE  /\ call \in [Sessions -> Call] /\ orders \in [Orders -> OrderRow]
           /\ call[p] \in Call /\ CallFits(call[p], tx[p])
           /\ captured \subseteq Orders /\ contended \subseteq Orders
           /\ NoCall \in Call /\ NoOrder \in OrderRow
BY DEF PaymentInv, PaymentTyped, Calls, NoCall, NoOrder, Call, OrderRow, OrderStatuses

(* A session that serves no call and no escrow request.                    *)
LEMMA IdleCallFits ==
    ASSUME NEW t, t.op # "FundEscrow"
    PROVE  CallFits(NoCall, t)
BY DEF CallFits, NoCall, NoOrder

(* A call that starts on an order Zibal knows, or that is just created.    *)
LEMMA BeginStep ==
    ASSUME IInv, PaymentInv, NEW p \in Sessions, NEW o \in Orders,
           NEW pc \in {"request", "verify", "fail"}, NEW row \in OrderRow, NEW callback \in BOOLEAN,
           Free(p), Begin(p, pc, o, row, callback), UNCHANGED <<tx, captured>>,
           SameOrder(row, orders'[o]),
           pc = "request" => row = orders'[o] /\ row.status = "PENDING",
           pc # "request" <=> row.authority,
           orders[o].authority \/ \A q \in Sessions : call[q].order # o
    PROVE  CallStep(p)
<1> DEFINE c == [pc |-> pc, order |-> o, row |-> row, callback |-> callback]
<1>1. c \in Call /\ call' = [call EXCEPT ![p] = c]
  BY DEF Begin, Call
<1>2. call'[p] = c /\ call' \in [Sessions -> Call] /\ \A q \in Sessions \ {p} : call'[q] = call[q]
  BY <1>1, Callers
<1>3. contended' = contended \cup {x \in {o} : \E q \in Sessions \ {p} : call[q].order = x}
  BY DEF Begin, Working
<1>4. tx'[p].op # "FundEscrow"
  BY DEF Free, Idle
<1>5. CallFits(call[p], tx[p])'
  BY <1>2, <1>4 DEF CallFits
<1>6. contended \subseteq contended' /\ contended' \subseteq Orders
  BY <1>3, Callers
<1> QED BY <1>2, <1>3, <1>5, <1>6, Callers DEF CallStep

(* A call that goes on with its order, or ends.                            *)
LEMMA ContinueStep ==
    ASSUME IInv, PaymentInv, NEW p \in Sessions, NEW c \in Call,
           call' = [call EXCEPT ![p] = c], c.order \in {None, call[p].order},
           \A q \in Sessions \ {p} : tx'[q] = tx[q],
           captured \subseteq captured', captured' \subseteq Orders, UNCHANGED contended,
           CallFits(call[p], tx[p])'
    PROVE  CallStep(p)
<1>1. call'[p] = c /\ call' \in [Sessions -> Call] /\ \A q \in Sessions \ {p} : call'[q] = call[q]
  BY Callers
<1> QED BY <1>1, Callers DEF CallStep

LEMMA CreateOrderKeeps ==
    ASSUME IInv, PaymentInv, NEW p \in Sessions, NEW o \in Orders,
           NEW row \in OrderRow, row.status = "PENDING", ~ row.authority, OrderFits(row),
           Free(p), Create(o, row), Begin(p, "request", o, row, FALSE),
           UNCHANGED <<vars, verified, captured, callbacks>>
    PROVE  PaymentInv'
<1>1. orders[o] = NoOrder /\ orders' = [orders EXCEPT ![o] = row]
  BY DEF Create, UpdateOrder
<1>2. orders'[o] = row /\ \A x \in Orders \ {o} : orders'[x] = orders[x]
  BY <1>1, Callers
<1>3. \A q \in Sessions : call[q].order # o
  BY <1>1, Callers, PaymentAssumption DEF CallFits, NoCall, SameOrder, NoOrder
<1>4. CallStep(p)
  <2>1. SameOrder(row, orders'[o])
    BY <1>2 DEF SameOrder
  <2>2. UNCHANGED <<tx, captured>>
    BY DEF vars
  <2> QED BY <1>2, <1>3, <2>1, <2>2, BeginStep
<1>5. Grows(p, o)
  BY <1>1, <1>2, <1>3 DEF Grows, NoOrder
<1>6. orders' \in [Orders -> OrderRow]
  BY <1>1, Callers
<1>7. BooksNothing /\ LeavesFunded
  BY SameLedger, SameRows DEF vars
<1>8. Quiet(p)
  BY <1>2, <1>4, <1>5, <1>6, <1>7 DEF Quiet
<1> QED BY <1>8, QuietKeeps

LEMMA PaymentRequestKeeps ==
    ASSUME IInv, PaymentInv, NEW p \in Sessions, NEW o \in Orders, PaymentRequest(p, o)
    PROVE  PaymentInv'
<1>1. ASSUME NEW s \in Shipments, CreatePaymentOrder(p, o, s) PROVE PaymentInv'
  <2> DEFINE row == [NoOrder EXCEPT !.status = "PENDING", !.ship = s, !.user = Payer[s],
                                    !.amount = Gross[s]]
  <2>1. row \in OrderRow /\ row.status = "PENDING" /\ ~ row.authority /\ OrderFits(row)
    BY Parties, EscrowAssumption DEF NoOrder, OrderRow, OrderStatuses, OrderFits
  <2> HIDE DEF row
  <2> QED BY <1>1, <2>1, CreateOrderKeeps DEF CreatePaymentOrder, row
<1>2. ASSUME NEW u \in Users, NEW n \in TopupAmounts, CreateWalletTopupOrder(p, o, u, n)
      PROVE  PaymentInv'
  <2> DEFINE row == [NoOrder EXCEPT !.status = "PENDING", !.user = u, !.amount = n]
  <2>1. row \in OrderRow /\ row.status = "PENDING" /\ ~ row.authority /\ OrderFits(row)
    BY PaymentAssumption DEF NoOrder, OrderRow, OrderStatuses, OrderFits
  <2> HIDE DEF row
  <2> QED BY <1>2, <2>1, CreateOrderKeeps DEF CreateWalletTopupOrder, row
<1>3. ASSUME orders[o].authority, UNCHANGED <<vars, orders, verified, captured>>,
             NEW pc \in {"verify", "fail"}, NEW callback \in BOOLEAN, Free(p),
             Begin(p, pc, o, orders[o], callback),
             callbacks' \in {callbacks, callbacks \cup {<<o, "failure">>}}
      PROVE  PaymentInv'
  <2>1. orders[o] \in OrderRow /\ orders[o].status # "NONE"
    BY <1>3, Callers DEF PaymentInv, OrdersFit, OrderFits
  <2>2. CallStep(p)
    <3>1. SameOrder(orders[o], orders'[o])
      BY <1>3, <2>1 DEF SameOrder
    <3>2. UNCHANGED <<tx, captured>>
      BY <1>3 DEF vars
    <3> QED BY <1>3, <2>1, <3>1, <3>2, BeginStep
  <2>3. BooksNothing /\ LeavesFunded
    BY <1>3, SameRows DEF vars, BooksNothing, Booked, PaymentInv, PaymentTyped
  <2>4. Quiet(p)
    BY <1>3, <2>2, <2>3, Callers DEF Quiet
  <2> QED BY <2>4, QuietKeeps
<1>4. ASSUME NEW callback \in BOOLEAN, VerifyOrder(p, o, callback) PROVE PaymentInv'
  <2>1. CASE orders[o].status = "PENDING"
    BY <1>3, <1>4, <2>1 DEF VerifyOrder, AfterLoad
  <2>2. CASE orders[o].status = "FAILED"
    BY <1>3, <1>4, <2>2 DEF VerifyOrder
  <2>3. CASE orders[o].status = "CONFIRMED"
    <3>1. /\ Succeeded(o, callback)
          /\ UNCHANGED <<vars, orders, verified, captured, call, contended>>
      BY <1>4, <2>3 DEF VerifyOrder
    <3>2. Booked(o)
      BY <2>3 DEF PaymentInv, Bookings
    <3>3. BooksNothing /\ LeavesFunded
      BY <3>1, <3>2, SameRows DEF vars, BooksNothing, Booked, PaymentInv, PaymentTyped, Succeeded
    <3>4. CallFits(call[p], tx[p])'
      BY <3>1, Callers DEF vars, CallFits
    <3>5. CallStep(p)
      BY <3>1, <3>4, Callers DEF vars, CallStep
    <3>6. Quiet(p)
      BY <3>1, <3>3, <3>5, Callers DEF Quiet
    <3> QED BY <3>6, QuietKeeps
  <2> QED BY <1>4, <2>1, <2>2, <2>3, Callers DEF VerifyOrder, OrderRow, OrderStatuses, PaymentInv,
                                                 OrdersFit, OrderFits
<1>5. ASSUME CallbackFailed(p, o) PROVE PaymentInv'
  BY <1>3, <1>5 DEF CallbackFailed
<1> QED BY <1>1, <1>2, <1>4, <1>5 DEF PaymentRequest

LEMMA ZibalRequestKeeps ==
    ASSUME IInv, PaymentInv, NEW p \in Sessions, ZibalRequest(p)
    PROVE  PaymentInv'
<1>1. PICK o \in Orders : /\ o = call[p].order /\ call[p].row = orders[o]
                          /\ orders[o].status = "PENDING" /\ ~ orders[o].authority
  BY Callers DEF ZibalRequest, CallFits
<1>2. PICK row \in Requested(orders[o]) : orders' = [orders EXCEPT ![o] = row]
  BY <1>1 DEF ZibalRequest, UpdateOrder
<1>3. /\ row \in OrderRow /\ row.status \in {"PENDING", "FAILED"} /\ OrderFits(row)
      /\ orders' \in [Orders -> OrderRow]
      /\ orders'[o] = row /\ \A x \in Orders \ {o} : orders'[x] = orders[x]
  <2>1. row \in OrderRow /\ row.status \in {"PENDING", "FAILED"}
    BY <1>1, <1>2, Callers DEF Requested, OrderRow, OrderStatuses
  <2>2. row.ship = orders[o].ship /\ row.user = orders[o].user /\ row.amount = orders[o].amount
    BY <1>1, <1>2, Callers DEF Requested, OrderRow
  <2>3. OrderFits(row)
    BY <1>1, <2>1, <2>2 DEF PaymentInv, OrdersFit, OrderFits
  <2> QED BY <1>2, <2>1, <2>3, Callers
<1>4. \A q \in Sessions \ {p} : call[q].order # o
  BY <1>1, PaymentAssumption DEF PaymentInv, Contention
<1>5. Grows(p, o)
  BY <1>1, <1>3, <1>4 DEF Grows
<1>6. /\ call' = [call EXCEPT ![p] = NoCall]
      /\ UNCHANGED <<vars, verified, captured, callbacks, contended>>
  BY DEF ZibalRequest, Finish
<1>7. CallFits(call[p], tx[p])'
  <2>1. call[p].pc # "apply" /\ tx'[p] = tx[p]
    BY <1>6 DEF ZibalRequest, vars
  <2>2. tx'[p].op # "FundEscrow" /\ call'[p] = NoCall
    BY <1>6, <2>1, Callers DEF CallFits
  <2> QED BY <2>2 DEF CallFits, NoCall, NoOrder
<1>8. CallStep(p)
  BY <1>6, <1>7, Callers, ContinueStep DEF vars, NoCall
<1>9. BooksNothing /\ LeavesFunded
  BY <1>6, SameLedger, SameRows DEF vars
<1>10. Quiet(p)
  BY <1>3, <1>5, <1>8, <1>9 DEF Quiet
<1> QED BY <1>10, QuietKeeps

(* A call that only moves on or ends: the orders and the books stay.       *)
LEMMA MovesOnKeeps ==
    ASSUME IInv, PaymentInv, NEW p \in Sessions, NEW c \in Call,
           call' = [call EXCEPT ![p] = c], c.order \in {None, call[p].order},
           \A q \in Sessions \ {p} : tx'[q] = tx[q],
           captured \subseteq captured', captured' \subseteq Orders,
           UNCHANGED <<ledger, escrow, overlapped, orders, verified, contended>>,
           callbacks' \subseteq Orders \X {"failure", "success"},
           \A o \in Orders : <<o, "success">> \in callbacks' \ callbacks => Booked(o),
           CallFits(call[p], tx[p])'
    PROVE  PaymentInv'
<1>1. CallStep(p)
  BY ContinueStep
<1>2. BooksNothing /\ LeavesFunded
  BY SameRows DEF BooksNothing, Booked
<1>3. Quiet(p)
  BY <1>1, <1>2, Callers DEF Quiet
<1> QED BY <1>3, QuietKeeps

LEMMA ZibalVerifyKeeps ==
    ASSUME IInv, PaymentInv, NEW p \in Sessions, ZibalVerify(p)
    PROVE  PaymentInv'
<1> DEFINE c == [call[p] EXCEPT !.pc = "tx"]
<1>1. /\ call' = [call EXCEPT ![p] = c]
      /\ captured' = captured \cup {call[p].order}
      /\ UNCHANGED <<vars, orders, verified, callbacks, contended>>
  BY Callers DEF ZibalVerify
<1>2. call[p].pc = "verify" /\ call[p].order \in Orders
  BY Callers DEF ZibalVerify, CallFits
<1>3. c \in Call /\ c.order = call[p].order /\ c.row = call[p].row /\ c.pc = "tx"
  BY Callers DEF Call
<1> HIDE DEF c
<1>4. call'[p] = c
  BY <1>1, Callers
<1>5. CallFits(call[p], tx[p])'
  BY <1>1, <1>2, <1>3, <1>4, Callers DEF CallFits, vars
<1> QED BY <1>1, <1>2, <1>3, <1>5, Callers, MovesOnKeeps DEF vars, PaymentInv, PaymentTyped

LEMMA RereadOrderKeeps ==
    ASSUME IInv, PaymentInv, NEW p \in Sessions, RereadOrder(p)
    PROVE  PaymentInv'
<1>1. PICK o \in Orders : o = call[p].order
  BY Callers DEF RereadOrder, CallFits
<1>2. /\ UNCHANGED <<vars, orders, verified, captured, contended>>
      /\ tx'[p] = tx[p] /\ tx[p].op # "FundEscrow" /\ call[p].pc = "tx"
  BY Callers DEF RereadOrder, vars, CallFits
<1>3. CASE MayApply(orders[o].status)
  <2> DEFINE c == [call[p] EXCEPT !.pc = "apply", !.row = orders[o]]
  <2>1. call' = [call EXCEPT ![p] = c] /\ UNCHANGED callbacks
    BY <1>1, <1>3, Callers DEF RereadOrder
  <2>2. c \in Call /\ c.order = o /\ c.row = orders[o] /\ c.pc = "apply"
    BY <1>1, Callers DEF Call
  <2> HIDE DEF c
  <2>3. call'[p] = c
    BY <2>1, Callers
  <2>4. CallFits(call[p], tx[p])'
    BY <1>1, <1>2, <2>2, <2>3, Callers DEF CallFits, SameOrder
  <2> QED BY <1>1, <1>2, <2>1, <2>2, <2>4, Callers, MovesOnKeeps DEF vars, PaymentInv, PaymentTyped
<1>4. CASE ~ MayApply(orders[o].status)
  <2>1. call' = [call EXCEPT ![p] = NoCall] /\ Succeeded(o, call[p].callback)
    BY <1>1, <1>4 DEF RereadOrder, Finish
  <2>2. Booked(o)
    BY <1>4 DEF MayApply, PaymentInv, Bookings
  <2>3. /\ callbacks' \subseteq Orders \X {"failure", "success"}
        /\ \A x \in Orders : <<x, "success">> \in callbacks' \ callbacks => Booked(x)
    BY <2>1, <2>2 DEF Succeeded, PaymentInv, PaymentTyped
  <2>4. CallFits(call[p], tx[p])'
    BY <1>2, <2>1, Callers DEF CallFits, NoCall, NoOrder
  <2> QED BY <1>2, <2>1, <2>3, <2>4, Callers, MovesOnKeeps DEF vars, NoCall
<1> QED BY <1>3, <1>4

LEMMA LoadFailedOrderKeeps ==
    ASSUME IInv, PaymentInv, NEW p \in Sessions, LoadFailedOrder(p)
    PROVE  PaymentInv'
<1>1. PICK o \in Orders : o = call[p].order
  BY Callers DEF LoadFailedOrder, CallFits
<1>2. /\ UNCHANGED <<vars, orders, verified, captured, callbacks, contended>>
      /\ tx'[p] = tx[p] /\ tx[p].op # "FundEscrow" /\ call[p].pc = "fail"
  BY Callers DEF LoadFailedOrder, vars, CallFits
<1>3. CASE MayFail(orders[o].status)
  <2> DEFINE c == [call[p] EXCEPT !.pc = "failing", !.row = orders[o]]
  <2>1. call' = [call EXCEPT ![p] = c]
    BY <1>1, <1>3, Callers DEF LoadFailedOrder
  <2>2. c \in Call /\ c.order = o /\ c.row = orders[o] /\ c.pc = "failing"
    BY <1>1, Callers DEF Call
  <2> HIDE DEF c
  <2>3. call'[p] = c
    BY <2>1, Callers
  <2>4. CallFits(call[p], tx[p])'
    BY <1>1, <1>2, <1>3, <2>2, <2>3, Callers DEF CallFits, SameOrder, MayFail
  <2> QED BY <1>1, <1>2, <2>1, <2>2, <2>4, Callers, MovesOnKeeps DEF vars, PaymentInv, PaymentTyped
<1>4. CASE ~ MayFail(orders[o].status)
  <2>1. call' = [call EXCEPT ![p] = NoCall]
    BY <1>1, <1>4 DEF LoadFailedOrder, Finish
  <2>2. CallFits(call[p], tx[p])'
    BY <1>2, <2>1, Callers DEF CallFits, NoCall, NoOrder
  <2> QED BY <1>2, <2>1, <2>2, Callers, MovesOnKeeps DEF vars, NoCall, PaymentInv, PaymentTyped
<1> QED BY <1>3, <1>4

LEMMA FailPaymentOrderKeeps ==
    ASSUME IInv, PaymentInv, NEW p \in Sessions, FailPaymentOrder(p)
    PROVE  PaymentInv'
<1>1. PICK o \in Orders : o = call[p].order /\ SameOrder(call[p].row, orders[o])
  BY Callers DEF FailPaymentOrder, CallFits
<1> DEFINE row == [call[p].row EXCEPT !.status = "FAILED"]
<1>2. /\ orders' = [orders EXCEPT ![o] = row] /\ call' = [call EXCEPT ![p] = NoCall]
      /\ UNCHANGED <<vars, verified, captured, callbacks, contended>>
      /\ call[p].pc = "failing"
  BY <1>1 DEF FailPaymentOrder, UpdateOrder, Finish
<1>3. row \in OrderRow /\ row.status = "FAILED" /\ SameOrder(row, orders[o])
  BY <1>1, Callers DEF Call, OrderRow, OrderStatuses, SameOrder
<1> HIDE DEF row
<1>4. /\ orders'[o] = row /\ \A x \in Orders \ {o} : orders'[x] = orders[x]
      /\ orders' \in [Orders -> OrderRow]
  BY <1>2, <1>3, Callers
<1>5. Fails(p, o)
  BY <1>1, <1>2, <1>3, <1>4, Callers DEF Fails, CallFits
<1>6. CallFits(call[p], tx[p])'
  <2>1. tx[p].op # "FundEscrow" /\ tx'[p] = tx[p]
    BY <1>2, Callers DEF CallFits, vars
  <2> QED BY <1>2, <2>1, Callers DEF CallFits, NoCall, NoOrder
<1>7. CallStep(p)
  BY <1>2, <1>6, Callers, ContinueStep DEF vars, NoCall
<1>8. BooksNothing /\ LeavesFunded
  BY <1>2, SameLedger, SameRows DEF vars
<1>9. Quiet(p)
  BY <1>4, <1>5, <1>7, <1>8 DEF Quiet
<1> QED BY <1>9, QuietKeeps

LEMMA CallEndsKeeps ==
    ASSUME IInv, PaymentInv, NEW p \in Sessions, VerifyError(p) \/ AbortCall(p)
    PROVE  PaymentInv'
<1>1. /\ tx' = [tx EXCEPT ![p] = Idle]
      /\ UNCHANGED <<ledger, escrow, overlapped, orders, verified, captured, callbacks, contended>>
  BY DEF VerifyError, AbortCall
<1>2. tx'[p] = Idle /\ Idle.op # "FundEscrow" /\ \A q \in Sessions \ {p} : tx'[q] = tx[q]
  BY <1>1 DEF IInv, Typed, Idle
<1>3. CASE call' = [call EXCEPT ![p] = NoCall]
  <2>1. CallFits(call[p], tx[p])'
    BY <1>2, <1>3, Callers DEF CallFits, NoCall, NoOrder
  <2> QED BY <1>1, <1>2, <1>3, <2>1, Callers, MovesOnKeeps DEF NoCall, PaymentInv, PaymentTyped
<1>4. CASE VerifyError(p) /\ call' = [call EXCEPT ![p].pc = "fail"]
  <2> DEFINE c == [call[p] EXCEPT !.pc = "fail"]
  <2>1. call' = [call EXCEPT ![p] = c]
    BY <1>4, Callers
  <2>2. c \in Call /\ c.order = call[p].order /\ c.row = call[p].row /\ c.pc = "fail"
    BY Callers DEF Call
  <2> HIDE DEF c
  <2>3. call'[p] = c /\ call[p].pc \in {"verify", "tx", "apply"}
    BY <1>4, <2>1, Callers DEF VerifyError
  <2>4. CallFits(call[p], tx[p])'
    BY <1>1, <1>2, <2>2, <2>3, Callers DEF CallFits
  <2> QED BY <1>1, <1>2, <2>1, <2>2, <2>4, Callers, MovesOnKeeps DEF PaymentInv, PaymentTyped
<1> QED BY <1>3, <1>4 DEF VerifyError, AbortCall, Finish

LEMMA FundFromOrderKeeps ==
    ASSUME IInv, PaymentInv, NEW p \in Sessions, FundFromOrder(p)
    PROVE  PaymentInv'
<1>1. PICK s \in Shipments, o \in Orders : s = call[p].row.ship /\ o = call[p].order
  BY FundStepIsEscrowStep
<1>2. /\ tx' = [tx EXCEPT ![p] = [pc |-> "row", op |-> "FundEscrow", ship |-> s, arg |-> o,
                                  row |-> escrow[s], promo |-> 0, funds |-> 0]]
      /\ overlapped \subseteq overlapped'
      /\ UNCHANGED <<ledger, escrow, payment>> /\ call[p].pc = "apply"
  BY <1>1 DEF FundFromOrder, FundEscrow, GetByShipmentID
<1>3. /\ tx'[p].ship = s /\ tx'[p].arg = o /\ tx'[p].pc = "row"
      /\ \A q \in Sessions \ {p} : tx'[q] = tx[q]
  BY <1>2 DEF IInv, Typed
<1>4. CallFits(call[p], tx[p])'
  BY <1>1, <1>2, <1>3, Callers DEF CallFits, payment
<1>5. CallStep(p)
  BY <1>2, <1>3, <1>4, Callers DEF CallStep, payment
<1>6. BooksNothing /\ LeavesFunded
  BY <1>2, SameLedger DEF payment, LeavesFunded
<1>7. Quiet(p)
  BY <1>2, <1>5, <1>6, Callers DEF Quiet, payment
<1> QED BY <1>7, QuietKeeps

(* A wallet payment books no order and leaves the clearing account alone.  *)
LEMMA PayBooksNothing ==
    ASSUME IInv, PaymentInv, NEW p \in Sessions, PayFromWalletCommit(p), UNCHANGED payment
    PROVE  BooksNothing /\ LeavesFunded
<1>1. PICK s \in Shipments : s = tx[p].ship
  BY PayFromWalletEffect
<1>2. PICK split \in [promo : Nat, wallet : Nat] : Paid(ledger, ledger', s, split)
  BY <1>1, PayFromWalletEffect DEF Paid
<1> DEFINE d == [a \in {ShipmentEscrow(s), UserPromoCredit(Payer[s]), UserWallet(Payer[s])} |->
                    IF a = ShipmentEscrow(s) THEN Gross[s]
                    ELSE IF a = UserPromoCredit(Payer[s]) THEN - split.promo
                    ELSE - split.wallet]
           c == Account("IR_PSP_CLEARING")
<1>3. Shifts(ledger, ledger', d) /\ ledger \in LedgerType
  BY <1>2 DEF Paid, IInv, Typed
<1>4. c \in Accounts /\ c \notin DOMAIN d
  BY DEF Account, Accounts, SystemAccounts, ShipmentEscrow, UserPromoCredit, UserWallet
<1> HIDE DEF d, c
<1>5. ledger'.balance[c] = ledger.balance[c]
  BY <1>3, <1>4, ShiftsAt
<1>6. ledger'.posted = ledger.posted \cup {PayRef(s, split)}
  BY <1>2 DEF Paid, Adds
<1>7. PayRef(s, split)[3] = "wallet-pay"
  BY DEF PayRef
<1>8. \A o \in Orders : Booked(o)' <=> Booked(o)
  BY <1>6, <1>7 DEF Booked
<1>9. BooksNothing
  BY <1>5, <1>8 DEF BooksNothing, payment, c, PaymentInv, PaymentTyped
<1>10. s \notin overlapped => escrow[s].status = "CREATED"
  <2>1. InFlight(tx[p], s) /\ tx[p].op = "PayFromWallet"
    BY <1>1 DEF PayFromWalletCommit, At, InFlight
  <2> QED BY <2>1, BeforeWrite DEF UpToDate, Allowed, CanPayFromWallet
<1>11. /\ UNCHANGED overlapped
       /\ \A t \in Shipments \ {s} : escrow'[t] = escrow[t]
  BY <1>1 DEF PayFromWalletCommit, CommitTx, Update, IInv, Typed
<1> QED BY <1>9, <1>10, <1>11 DEF LeavesFunded

LEMMA EscrowRequestKeeps ==
    ASSUME IInv, PaymentInv, NEW p \in Sessions, EscrowRequest(p)
    PROVE  PaymentInv'
<1>1. call[p] = NoCall /\ UNCHANGED payment
  BY DEF EscrowRequest
<1>2. BooksNothing /\ LeavesFunded
  <2>1. ASSUME UNCHANGED ledger PROVE BooksNothing
    BY <1>1, <2>1, SameLedger DEF payment
  <2>2. ASSUME NEW s \in Shipments, CreateEscrow(p, s) PROVE BooksNothing /\ LeavesFunded
    BY <2>1, <2>2 DEF CreateEscrow, LeavesFunded, IInv, Typed
  <2>3. ASSUME NEW s \in Shipments, PayFromWallet(p, s, Payer[s], Gross[s])
        PROVE  BooksNothing /\ LeavesFunded
    BY <2>1, <2>3 DEF PayFromWallet, GetByShipmentID, LeavesFunded
  <2>4. CASE ReadPromoBalance(p) \/ ReadWalletBalance(p) \/ EmitEscrowStatus(p) \/ Abort(p)
    BY <2>1, <2>4, SameRows DEF ReadPromoBalance, ReadWalletBalance, EmitEscrowStatus, Abort
  <2> QED BY <1>1, <2>2, <2>3, <2>4, PayBooksNothing DEF EscrowRequest
<1>3. \A q \in Sessions \ {p} : tx'[q] = tx[q]
  BY DEF EscrowRequest, CreateEscrow, PayFromWallet, GetByShipmentID, ReadPromoBalance,
         ReadWalletBalance, PayFromWalletCommit, CommitTx, EmitEscrowStatus, Abort, IInv, Typed
<1>4. tx'[p].op # "FundEscrow"
  <2>1. tx \in [Sessions -> Session] /\ tx[p] \in Session
    BY DEF IInv, Typed
  <2>2. CASE \E s \in Shipments : CreateEscrow(p, s) \/ PayFromWallet(p, s, Payer[s], Gross[s])
    BY <2>1, <2>2 DEF CreateEscrow, OwingEvent, PayFromWallet, GetByShipmentID
  <2>3. CASE ReadPromoBalance(p) \/ ReadWalletBalance(p)
    <3>1. tx[p].op = "PayFromWallet"
      BY <2>3 DEF ReadPromoBalance, ReadWalletBalance, At
    <3> QED BY <2>1, <2>3, <3>1 DEF ReadPromoBalance, ReadWalletBalance, Session
  <2>4. CASE PayFromWalletCommit(p) \/ EmitEscrowStatus(p) \/ Abort(p)
    BY <2>1, <2>4 DEF PayFromWalletCommit, CommitTx, EmitEscrowStatus, Abort, Idle
  <2> QED BY <2>2, <2>3, <2>4 DEF EscrowRequest
<1>5. CallFits(call[p], tx[p])'
  BY <1>1, <1>4 DEF payment, CallFits, NoCall, NoOrder
<1>6. CallStep(p)
  BY <1>1, <1>3, <1>5, Callers DEF payment, CallStep
<1>7. Quiet(p)
  BY <1>1, <1>2, <1>6, Callers DEF payment, Quiet
<1> QED BY <1>7, QuietKeeps

-----------------------------------------------------------------------------
(* The two actions that book an order.                                     *)

Books(o, n) ==
    /\ ledger'.balance[Account("IR_PSP_CLEARING")] = ledger.balance[Account("IR_PSP_CLEARING")] - n
    /\ \A x \in Orders : Booked(x)' <=> Booked(x) \/ x = o

LEMMA ConfirmKeeps ==
    ASSUME IInv, PaymentInv, NEW p \in Sessions, call[p].pc = "apply", ConfirmOrder(p),
           \A q \in Sessions \ {p} : tx'[q] = tx[q], tx'[p].op # "FundEscrow",
           Books(call[p].order, call[p].row.amount),
           FundedByOrder'
    PROVE  PaymentInv'
<1>1. PICK o \in Orders : /\ o = call[p].order /\ SameOrder(call[p].row, orders[o])
                          /\ o \in captured /\ call[p].row.authority
  BY Callers DEF CallFits
<1> DEFINE row == Confirmed(call[p].row)
<1>2. /\ row \in OrderRow /\ row.status = "CONFIRMED" /\ SameOrder(row, orders[o])
      /\ row.amount = call[p].row.amount
  BY <1>1, Callers DEF Confirmed, Call, OrderRow, OrderStatuses, SameOrder
<1>3. /\ orders' = [orders EXCEPT ![o] = row] /\ call' = [call EXCEPT ![p] = NoCall]
      /\ o \notin verified /\ verified' = verified \cup {o}
      /\ UNCHANGED <<captured, contended>>
      /\ callbacks' \subseteq callbacks \cup {<<o, "success">>}
  BY <1>1 DEF ConfirmOrder, CreateVerifyEvent, UpdateOrder, Finish, Succeeded
<1> HIDE DEF row
<1>4. /\ orders'[o] = row /\ \A x \in Orders \ {o} : orders'[x] = orders[x]
      /\ orders' \in [Orders -> OrderRow]
  BY <1>2, <1>3, Callers
<1>5. CallStep(p)
  <2>1. CallFits(call[p], tx[p])'
    BY <1>3, Callers DEF CallFits, NoCall, NoOrder
  <2> QED BY <1>3, <2>1, Callers, ContinueStep DEF NoCall
<1>6. Calls' /\ Contention'
  BY <1>1, <1>2, <1>4, <1>5, OthersFit
<1>7. PaymentTyped'
  <2>1. IsFiniteSet(verified')
    BY <1>3, FS_AddElement DEF PaymentInv, PaymentTyped
  <2> QED BY <1>3, <1>4, <1>5, <2>1 DEF PaymentInv, PaymentTyped, CallStep
<1>8. OrdersFit'
  BY <1>1, <1>2, <1>3, <1>4 DEF PaymentInv, OrdersFit, OrderFits, SameOrder
<1>9. Bookings'
  BY <1>1, <1>2, <1>3, <1>4 DEF PaymentInv, Bookings, Books
<1>10. Clearing'
  <2>1. PICK seed \in Seeds :
           ledger.balance[Account("IR_PSP_CLEARING")] =
               seed[Account("IR_PSP_CLEARING")]
                   - SumFunction([x \in verified |-> orders[x].amount])
    BY DEF PaymentInv, Clearing
  <2>2. seed[Account("IR_PSP_CLEARING")] \in Int
    <3>1. Account("IR_PSP_CLEARING") \in Accounts
      BY DEF Account, Accounts, SystemAccounts
    <3> QED BY <3>1, EscrowAssumption
  <2>3. verified \subseteq Orders /\ IsFiniteSet(verified)
    BY DEF PaymentInv, PaymentTyped
  <2>4. /\ SumFunction([x \in verified |-> orders[x].amount]) \in Int
        /\ SumFunction([x \in verified |-> orders'[x].amount])
               = SumFunction([x \in verified |-> orders[x].amount])
    <3>1. \A x \in verified : orders'[x].amount = orders[x].amount
      BY <1>3, <1>4, <2>3
    <3> QED BY <1>4, <2>3, <3>1, SumOfAmounts
  <2> DEFINE f == [x \in verified |-> orders'[x].amount]
             g == [x \in verified \cup {o} |-> orders'[x].amount]
             n == call[p].row.amount
  <2>5. /\ DOMAIN f = verified /\ DOMAIN g = verified \cup {o}
        /\ \A x \in verified : g[x] = f[x] /\ g[x] \in Int
        /\ g[o] = n /\ n \in Int
    BY <1>2, <1>4, <2>3 DEF OrderRow
  <2>6. SumFunction(f) = SumFunction([x \in verified |-> orders[x].amount])
    BY <2>4
  <2> HIDE DEF f, g, n
  <2>7. SumFunctionOnSet(g, verified \cup {o}) = SumFunctionOnSet(g, verified) + g[o]
    BY <1>3, <2>3, <2>5, SumAdd
  <2>8. SumFunctionOnSet(g, verified) = SumFunctionOnSet(f, verified)
    BY <2>3, <2>5, SumSame
  <2>9. SumFunction(g) = SumFunction([x \in verified |-> orders[x].amount]) + n
    BY <2>5, <2>6, <2>7, <2>8 DEF SumFunction
  <2>10. ledger'.balance[Account("IR_PSP_CLEARING")] =
             ledger.balance[Account("IR_PSP_CLEARING")] - n
    BY DEF Books, n
  <2>11. ledger'.balance[Account("IR_PSP_CLEARING")] =
             seed[Account("IR_PSP_CLEARING")] - SumFunction(g)
    BY <2>1, <2>2, <2>4, <2>5, <2>9, <2>10
  <2>12. SumFunction(g) = SumFunction([x \in verified' |-> orders'[x].amount])
    BY <1>3 DEF g
  <2> QED BY <2>11, <2>12 DEF Clearing
<1>11. BookedStaysConfirmed'
  BY <1>2, <1>3, <1>4 DEF PaymentInv, BookedStaysConfirmed
<1> QED BY <1>6, <1>7, <1>8, <1>9, <1>10, <1>11 DEF PaymentInv

LEMMA BookedAdds ==
    ASSUME NEW refs, ledger'.posted = ledger.posted \cup refs, NEW x
    PROVE  Booked(x)' <=>
              Booked(x) \/ \E r \in refs : r[3] \in {"psp-wallet", "topup"} /\ r[4] = x
BY DEF Booked

LEMMA ConfirmedOrder ==
    ASSUME PaymentInv, NEW p \in Sessions, call[p].pc = "apply", ConfirmOrder(p),
           NEW o \in Orders, o = call[p].order
    PROVE  /\ verified' = verified \cup {o}
           /\ orders'[o].ship = call[p].row.ship
           /\ \A x \in Orders \ {o} : orders'[x] = orders[x]
<1>1. orders' = [orders EXCEPT ![o] = Confirmed(call[p].row)]
  BY DEF ConfirmOrder, UpdateOrder
<1>2. Confirmed(call[p].row).ship = call[p].row.ship
  BY Callers DEF Confirmed, Call, OrderRow
<1> QED BY <1>1, <1>2, Callers DEF ConfirmOrder, CreateVerifyEvent

LEMMA ConfirmShipmentOrderKeeps ==
    ASSUME IInv, PaymentInv, NEW p \in Sessions, ConfirmShipmentOrder(p)
    PROVE  PaymentInv'
<1>1. call[p].pc = "apply" /\ FundEscrowCommit(p) /\ ConfirmOrder(p)
  BY DEF ConfirmShipmentOrder
<1>2. tx[p].op = "FundEscrow" /\ tx[p].pc = "row"
  BY <1>1 DEF FundEscrowCommit, At
<1>3. PICK s \in Shipments, o \in Orders :
         /\ s = tx[p].ship /\ o = tx[p].arg /\ s = call[p].row.ship /\ o = call[p].order
         /\ Funded(ledger, ledger', s, o)
  BY <1>1, <1>2, FundEscrowEffect, Callers DEF CallFits
<1>4. call[p].row.amount = Gross[s] /\ Gross[s] \in Int
  <2>1. SameOrder(call[p].row, orders[o]) /\ OrderFits(orders[o])
    BY <1>1, <1>3, Callers DEF CallFits, PaymentInv, OrdersFit
  <2> QED BY <1>3, <2>1, EscrowAssumption, Parties DEF SameOrder, OrderFits
<1>5. Books(o, Gross[s])
  <2> DEFINE c == Account("IR_PSP_CLEARING")
             e == ShipmentEscrow(s)
  <2>1. c \in Accounts /\ c # e /\ ledger.balance[c] \in Int
    BY DEF Account, Accounts, SystemAccounts, ShipmentEscrow, IInv, Typed, LedgerType
  <2>2. ledger'.balance[c] = ledger.balance[c] - Gross[s]
    <3>1. Shifts(ledger, ledger', [a \in {e, c} |-> IF a = e THEN Gross[s] ELSE - Gross[s]])
      BY <1>3 DEF Funded
    <3> HIDE DEF c, e
    <3> QED BY <1>4, <2>1, <3>1 DEF Shifts
  <2>3. ledger'.posted = ledger.posted \cup FundRefs(s, o)
    BY <1>3 DEF Funded, Adds
  <2>4. \A x \in Orders : Booked(x)' <=> Booked(x) \/ x = o
    <3>1. \A x \in Orders :
             (\E r \in FundRefs(s, o) : r[3] \in {"psp-wallet", "topup"} /\ r[4] = x) <=> x = o
      BY DEF FundRefs
    <3> QED BY <2>3, <3>1, BookedAdds
  <2> QED BY <2>2, <2>4 DEF Books
<1>6. /\ tx' = [tx EXCEPT ![p] = Idle] /\ UNCHANGED overlapped
      /\ escrow' = [escrow EXCEPT ![s] = [tx[p].row EXCEPT !.status = "FUNDED", !.order = o,
                                             !.source = "PSP", !.stamps = @ \cup {"funded_at"}]]
  BY <1>1, <1>3 DEF FundEscrowCommit, CommitTx, Update
<1>7. tx'[p].op # "FundEscrow" /\ \A q \in Sessions \ {p} : tx'[q] = tx[q]
  BY <1>6 DEF IInv, Typed, Idle
<1>8. InFlight(tx[p], s)
  BY <1>2, <1>3 DEF InFlight
<1>9. /\ escrow'[s].order = o /\ escrow'[s].source = "PSP" /\ escrow'[s].status = "FUNDED"
      /\ \A t \in Shipments \ {s} : escrow'[t] = escrow[t]
  <2>1. tx[p].row \in EscrowRow
    BY <1>8, BeforeWrite
  <2> QED BY <1>6, <2>1 DEF IInv, Typed, EscrowRow
<1>10. s \notin overlapped => escrow[s].status = "CREATED"
  BY <1>2, <1>8, BeforeWrite DEF UpToDate, Allowed, CanFund
<1>11. FundedByOrder'
  <2>1. /\ verified' = verified \cup {o} /\ orders'[o].ship = s
        /\ \A x \in Orders \ {o} : orders'[x] = orders[x]
    BY <1>1, <1>3, ConfirmedOrder
  <2>2. verified \subseteq Orders /\ \A x \in verified : orders[x].ship \in Shipments \cup {None}
    BY DEF PaymentInv, PaymentTyped, OrderRow
  <2>3. ASSUME NEW x \in verified', orders'[x].ship # None, orders'[x].ship \notin overlapped'
        PROVE  /\ escrow'[orders'[x].ship].order = x
               /\ escrow'[orders'[x].ship].source = "PSP"
               /\ escrow'[orders'[x].ship].status = "FUNDED"
    <3>1. CASE x = o
      BY <1>9, <2>1, <3>1
    <3>2. CASE x # o
      <4>1. /\ x \in verified /\ orders'[x] = orders[x]
            /\ orders[x].ship \in Shipments \ overlapped
        BY <1>6, <2>1, <2>2, <2>3, <3>2
      <4>2. LET t == orders[x].ship IN
            escrow[t].order = x /\ escrow[t].source = "PSP" /\ escrow[t].status = "FUNDED"
        BY <2>3, <4>1 DEF PaymentInv, FundedByOrder
      <4>3. orders[x].ship # s
        BY <1>10, <4>1, <4>2
      <4> QED BY <1>9, <4>1, <4>2, <4>3
    <3> QED BY <3>1, <3>2
  <2> QED BY <2>3 DEF FundedByOrder
<1> QED BY <1>1, <1>3, <1>4, <1>5, <1>7, <1>11, ConfirmKeeps

LEMMA ConfirmTopupOrderKeeps ==
    ASSUME IInv, PaymentInv, NEW p \in Sessions, ConfirmTopupOrder(p)
    PROVE  PaymentInv'
<1>1. /\ call[p].pc = "apply" /\ ConfirmOrder(p) /\ call[p].row.ship = None
      /\ UNCHANGED <<escrow, tx, overlapped>>
  BY DEF ConfirmTopupOrder
<1>2. PICK o \in Orders, u \in Users, n \in Int :
         /\ o = call[p].order /\ n = call[p].row.amount
         /\ Shifts(ledger, ledger', [a \in {Account("IR_PSP_CLEARING"), UserWallet(u)} |->
                                        IF a = Account("IR_PSP_CLEARING") THEN - n ELSE n])
         /\ Adds(ledger, ledger', {<<"WALLET_TOPUP", None, "topup", o>>})
  BY TopupEffect
<1>3. Books(o, n)
  <2> DEFINE c == Account("IR_PSP_CLEARING")
  <2>1. c \in Accounts /\ ledger.balance[c] \in Int
    BY DEF Account, Accounts, SystemAccounts, IInv, Typed, LedgerType
  <2>2. ledger'.balance[c] = ledger.balance[c] - n
    <3>1. Shifts(ledger, ledger', [a \in {c, UserWallet(u)} |-> IF a = c THEN - n ELSE n])
      BY <1>2
    <3> HIDE DEF c
    <3> QED BY <2>1, <3>1 DEF Shifts
  <2>3. ledger'.posted = ledger.posted \cup {<<"WALLET_TOPUP", None, "topup", o>>}
    BY <1>2 DEF Adds
  <2>4. \A x \in Orders : Booked(x)' <=> Booked(x) \/ x = o
    <3> DEFINE refs == {<<"WALLET_TOPUP", None, "topup", o>>}
    <3>1. \A x \in Orders :
             (\E r \in refs : r[3] \in {"psp-wallet", "topup"} /\ r[4] = x) <=> x = o
      OBVIOUS
    <3>2. ledger'.posted = ledger.posted \cup refs
      BY <2>3
    <3> HIDE DEF refs
    <3> QED BY <3>1, <3>2, BookedAdds
  <2> QED BY <2>2, <2>4 DEF Books
<1>4. tx'[p].op # "FundEscrow"
  <2>1. SameOrder(call[p].row, orders[o]) /\ CallFits(call[p], tx[p])
    BY <1>1, <1>2, Callers DEF CallFits
  <2>2. tx[p].op = "FundEscrow" => FALSE
    <3>1. tx[p].op = "FundEscrow" => tx[p].ship = None /\ tx[p].pc = "row"
      BY <1>1, <2>1 DEF CallFits
    <3>2. tx[p].pc = "row" => tx[p].ship \in Shipments
      BY ShipInFlight
    <3> QED BY <3>1, <3>2, EscrowAssumption
  <2> QED BY <1>1, <2>2
<1>5. FundedByOrder'
  <2>1. /\ verified' = verified \cup {o} /\ orders'[o].ship = None
        /\ \A x \in Orders \ {o} : orders'[x] = orders[x]
    BY <1>1, <1>2, ConfirmedOrder
  <2>2. verified \subseteq Orders
    BY DEF PaymentInv, PaymentTyped
  <2> QED BY <1>1, <2>1, <2>2 DEF PaymentInv, FundedByOrder
<1> QED BY <1>1, <1>2, <1>3, <1>4, <1>5, ConfirmKeeps

-----------------------------------------------------------------------------
(* Theorems.                                                               *)

LEMMA InitPaymentInv == PaymentInit => IInv /\ PaymentInv
<1> SUFFICES ASSUME PaymentInit PROVE IInv /\ PaymentInv
  OBVIOUS
<1>1. Init /\ IInv
  BY InitIInv DEF PaymentInit
<1>2. PaymentTyped
  <2>1. IsFiniteSet(verified)
    BY FS_EmptySet DEF PaymentInit
  <2> QED BY <2>1 DEF PaymentInit, PaymentTyped, NoCall, NoOrder, Call, OrderRow, OrderStatuses
<1>3. Calls /\ Contention /\ OrdersFit
  BY <1>1 DEF PaymentInit, Init, Idle, Calls, CallFits, Contention, OrdersFit, OrderFits, NoCall,
              NoOrder
<1>4. PICK seed \in Seeds : ledger = [balance |-> seed, posted |-> {}]
  BY <1>1 DEF Init
<1>5. Bookings
  BY <1>4 DEF PaymentInit, Bookings, Booked, NoOrder
<1>6. Clearing
  <2>1. seed[Account("IR_PSP_CLEARING")] \in Int
    <3>1. Account("IR_PSP_CLEARING") \in Accounts
      BY DEF Account, Accounts, SystemAccounts
    <3> QED BY <3>1, EscrowAssumption
  <2> DEFINE f == [o \in verified |-> orders[o].amount]
  <2>2. DOMAIN f = {}
    BY DEF PaymentInit
  <2> HIDE DEF f
  <2>3. SumFunction(f) = 0
    BY <2>2, SumEmpty DEF SumFunction
  <2>4. ledger.balance[Account("IR_PSP_CLEARING")] =
            seed[Account("IR_PSP_CLEARING")] - SumFunction(f)
    BY <1>4, <2>1, <2>3
  <2> QED BY <2>4 DEF Clearing, f
<1>7. BookedStaysConfirmed /\ FundedByOrder
  BY DEF PaymentInit, BookedStaysConfirmed, FundedByOrder
<1> QED BY <1>1, <1>2, <1>3, <1>5, <1>6, <1>7 DEF PaymentInv

LEMMA NextPaymentInv == IInv /\ PaymentInv /\ [PaymentNext]_allVars => (IInv /\ PaymentInv)'
<1> SUFFICES ASSUME IInv, PaymentInv, [PaymentNext]_allVars PROVE PaymentInv'
  BY PaymentKeepsEscrows
<1>1. CASE UNCHANGED allVars
  <2>1. UNCHANGED <<ledger, escrow, tx, overlapped, orders, verified, captured, call,
                    callbacks, contended>>
    BY <1>1 DEF allVars, vars, payment
  <2>2. PaymentTyped' /\ Contention' /\ OrdersFit' /\ BookedStaysConfirmed' /\ FundedByOrder'
    BY <2>1 DEF PaymentInv, PaymentTyped, Contention, OrdersFit, BookedStaysConfirmed,
                FundedByOrder
  <2>3. Calls'
    BY <2>1 DEF PaymentInv, Calls, CallFits
  <2>4. Bookings' /\ Clearing'
    BY <2>1 DEF PaymentInv, Bookings, Booked, Clearing
  <2> QED BY <2>2, <2>3, <2>4 DEF PaymentInv
<1>2. ASSUME NEW p \in Sessions, PaymentContinue(p) PROVE PaymentInv'
  BY <1>2, ZibalRequestKeeps, ZibalVerifyKeeps, RereadOrderKeeps, FundFromOrderKeeps,
     ConfirmShipmentOrderKeeps, ConfirmTopupOrderKeeps, CallEndsKeeps, LoadFailedOrderKeeps,
     FailPaymentOrderKeeps
     DEF PaymentContinue
<1> QED BY <1>1, <1>2, EscrowRequestKeeps, PaymentRequestKeeps DEF PaymentNext

THEOREM PaymentInvariant == PaymentSpec => [](IInv /\ PaymentInv)
BY InitPaymentInv, NextPaymentInv, PTL DEF PaymentSpec

(* Orders, calls, provider events and callbacks keep their types.          *)
THEOREM PaymentTypeCorrect == PaymentSpec => []PaymentTypeOK
<1>1. IInv /\ PaymentInv => PaymentTypeOK
  BY DEF IInv, Typed, LedgerType, AnyRefs, PaymentInv, PaymentTyped, PaymentTypeOK, PaymentRefs
<1> QED BY <1>1, PaymentInvariant, PTL

(* However calls for one order overlap, abort and repeat (verify_order.go):*)
(* an order has its VERIFY event exactly when it is booked, is booked only *)
(* after Zibal confirmed it, is never CONFIRMED otherwise, and the         *)
(* clearing account has paid each verified order's amount once.            *)
THEOREM MoneyIsVerified == PaymentSpec => []MoneyFollowsVerification
<1>1. PaymentInv => MoneyFollowsVerification
  BY DEF PaymentInv, Bookings, Clearing, MoneyFollowsVerification
<1> QED BY <1>1, PaymentInvariant, PTL

(* A booked order that calls worked on one at a time stays CONFIRMED,      *)
(* whatever late or repeated callbacks report (FailPaymentOrder).          *)
THEOREM ConfirmedStays == PaymentSpec => []BookedStaysConfirmed
<1>1. PaymentInv => BookedStaysConfirmed
  BY DEF PaymentInv
<1> QED BY <1>1, PaymentInvariant, PTL

(* Of all the orders paid for a shipment whose requests did not overlap,   *)
(* the one that is verified is the one its escrow names (FundEscrow).      *)
THEOREM EscrowNamesItsOrder == PaymentSpec => []OneOrderFunds
<1>1. PaymentInv => OneOrderFunds
  BY DEF PaymentInv, FundedByOrder, OneOrderFunds
<1> QED BY <1>1, PaymentInvariant, PTL

(* Nobody is redirected to the success page for an order that is not       *)
(* booked (HandleCallback).                                                *)
THEOREM SuccessIsBooked == PaymentSpec => []SuccessMeansBooked
<1>1. PaymentInv => SuccessMeansBooked
  BY DEF PaymentInv, Bookings, SuccessMeansBooked
<1> QED BY <1>1, PaymentInvariant, PTL

(* What Escrow guarantees on its own still holds when its FundEscrow is    *)
(* driven by VerifyOrder and the same wallets are topped up: the books     *)
(* balance and every escrow account holds what its status says.            *)
THEOREM PaymentsKeepBooks == PaymentSpec => [](Reconciles /\ EscrowBacked)
<1>1. IInv => EscrowBacked
  BY CoveredIsBacked DEF IInv
<1>2. PaymentInit => Reconciles
  <2> SUFFICES ASSUME PaymentInit PROVE Reconciles
    OBVIOUS
  <2>1. PICK seed \in Seeds : ledger = [balance |-> seed, posted |-> {}]
    BY DEF PaymentInit, Init
  <2>2. SumFunction(seed) = 0
    BY EscrowAssumption
  <2> QED BY <2>1, <2>2 DEF Reconciles, SumGlobal
<1>3. IInv /\ PaymentInv /\ Reconciles /\ [PaymentNext]_allVars => Reconciles'
  <2> SUFFICES ASSUME IInv, PaymentInv, Reconciles, [PaymentNext]_allVars PROVE Reconciles'
    OBVIOUS
  <2>1. SumFunction(ledger'.balance) = SumFunction(ledger.balance)
    <3>1. CASE [Next]_vars
      BY <3>1, OtherStepsPostNothing, FundEscrowEffect, PayFromWalletEffect,
         ReleaseEscrowEffect, RefundEscrowEffect
    <3>2. ASSUME NEW p \in Sessions, ConfirmTopupOrder(p)
          PROVE  SumFunction(ledger'.balance) = SumFunction(ledger.balance)
      BY <3>2, TopupEffect
    <3> QED BY <3>1, <3>2, PaymentStep
  <2> QED BY <2>1 DEF Reconciles, SumGlobal
<1> QED BY <1>1, <1>2, <1>3, PaymentInvariant, PTL DEF PaymentSpec
=============================================================================
