--------------------------- MODULE Escrow_proofs ---------------------------
(***************************************************************************)
(* Theorems about Escrow, for every number of users, shipments, sessions   *)
(* and payment orders, every amount and fee, and every overlap of requests.*)
(***************************************************************************)
EXTENDS Escrow, SumTheorems, TLAPS

-----------------------------------------------------------------------------
(* What the journals do to the ledger.                                     *)

(* The references of this component's journals, and of the payment         *)
(* component's top-ups, which share the ledger with them.                  *)
AnyRefs == Refs \cup ({"WALLET_TOPUP"} \X {None} \X {"topup"} \X Orders)

LedgerType == [balance : [Accounts -> Int], posted : SUBSET AnyRefs]

JournalType(j) ==
    /\ j.ref \in AnyRefs
    /\ \A a \in DOMAIN j.lines : j.lines[a] \in [debit : Int, credit : Int]

(* m is l except for the journals of shipment s, which changed the balance *)
(* of its escrow account by d and of no other escrow account.              *)
Moves(l, m, s, d) ==
    /\ m \in LedgerType
    /\ \A t \in Shipments :
          m.balance[ShipmentEscrow(t)] =
              l.balance[ShipmentEscrow(t)] + (IF t = s THEN d ELSE 0)

(* How much a journal adds to an account.                                  *)
Added(j, a) == IF a \in DOMAIN j.lines THEN j.lines[a].credit - j.lines[a].debit ELSE 0

LEMMA EscrowAccounts ==
    ASSUME NEW s \in Shipments
    PROVE  /\ ShipmentEscrow(s) \in Accounts
           /\ \A t \in Shipments : ShipmentEscrow(s) = ShipmentEscrow(t) <=> s = t
           /\ \A u : ShipmentEscrow(s) # UserWallet(u) /\ ShipmentEscrow(s) # UserPromoCredit(u)
           /\ \A n : n # "ESCROW" => ShipmentEscrow(s) # Account(n)
BY DEF ShipmentEscrow, UserWallet, UserPromoCredit, Account, Accounts

(* Posting a well-typed journal adds to every account what it says.        *)
LEMMA PostAdds ==
    ASSUME NEW l \in LedgerType, NEW j, JournalType(j)
    PROVE  /\ Post(l, j) \in LedgerType
           /\ \A a \in Accounts : Post(l, j).balance[a] = l.balance[a] + Added(j, a)
<1> DEFINE after == [a \in DOMAIN l.balance |->
                        IF a \in DOMAIN j.lines
                        THEN l.balance[a] + j.lines[a].credit - j.lines[a].debit
                        ELSE l.balance[a]]
<1>1. DOMAIN l.balance = Accounts /\ \A a \in Accounts : l.balance[a] \in Int
  BY DEF LedgerType
<1>2. after \in [Accounts -> Int]
  BY <1>1 DEF JournalType
<1>3. l.posted \cup {j.ref} \in SUBSET AnyRefs
  BY DEF LedgerType, JournalType
<1>4. Post(l, j) = [balance |-> after, posted |-> l.posted \cup {j.ref}]
  BY DEF Post
<1>5. ASSUME NEW a \in Accounts
      PROVE  after[a] = l.balance[a] + Added(j, a)
  BY <1>1 DEF Added, JournalType
<1> HIDE DEF after
<1> QED BY <1>2, <1>3, <1>4, <1>5 DEF LedgerType

(* A journal that touches the escrow account of s and no other one.        *)
LEMMA PostMoves ==
    ASSUME NEW l \in LedgerType, NEW j, JournalType(j), NEW s \in Shipments,
           \A t \in Shipments : t # s => Added(j, ShipmentEscrow(t)) = 0
    PROVE  Moves(l, Post(l, j), s, Added(j, ShipmentEscrow(s)))
<1>1. \A t \in Shipments : ShipmentEscrow(t) \in Accounts
  BY EscrowAccounts
<1>2. \A t \in Shipments : l.balance[ShipmentEscrow(t)] \in Int
  BY <1>1 DEF LedgerType
<1> QED BY <1>1, <1>2, PostAdds DEF Moves

LEMMA MovesTwice ==
    ASSUME NEW l \in LedgerType, NEW m, NEW n, NEW s \in Shipments,
           NEW d \in Int, NEW e \in Int, Moves(l, m, s, d), Moves(m, n, s, e)
    PROVE  Moves(l, n, s, d + e)
<1>1. \A t \in Shipments : l.balance[ShipmentEscrow(t)] \in Int
  BY EscrowAccounts DEF LedgerType
<1> QED BY <1>1 DEF Moves

(* A transfer between two distinct accounts.                               *)
LEMMA MoveLines ==
    ASSUME NEW from, NEW to, from # to, NEW n \in Int, NEW ref \in AnyRefs
    PROVE  LET j == Journal(ref, Move(from, to, n)) IN
           /\ JournalType(j)
           /\ \A a : Added(j, a) = IF a = from THEN -n ELSE IF a = to THEN n ELSE 0
BY DEF Journal, Move, Debit, Credit, JournalType, Added

LEMMA PartiesAreUsers ==
    \A s \in Shipments : Gross[s] \in Nat /\ Gross[s] > 0
BY EscrowAssumption

(* FundEscrow's two journals bring the agreed amount into escrow.          *)
LEMMA FundMoves ==
    ASSUME NEW l \in LedgerType, NEW s \in Shipments, NEW o \in Orders
    PROVE  Moves(l, Post(Post(l, PSPToWallet(s, o)), WalletToEscrow(s, o)), s, Gross[s])
<1> DEFINE in == PSPToWallet(s, o)
           out == WalletToEscrow(s, o)
<1>1. Gross[s] \in Int
  BY PartiesAreUsers
<1>2. in.ref \in AnyRefs /\ out.ref \in AnyRefs
  BY DEF PSPToWallet, WalletToEscrow, Journal, AnyRefs, Refs, RefTypes
<1>3. /\ JournalType(in)
      /\ \A t \in Shipments : Added(in, ShipmentEscrow(t)) = 0
  <2>1. Account("IR_PSP_CLEARING") # UserWallet(Payer[s])
    BY DEF Account, UserWallet
  <2> QED BY <1>1, <1>2, <2>1, MoveLines, EscrowAccounts DEF PSPToWallet, Journal
<1>4. /\ JournalType(out)
      /\ \A t \in Shipments :
            Added(out, ShipmentEscrow(t)) = IF t = s THEN Gross[s] ELSE 0
  BY <1>1, <1>2, MoveLines, EscrowAccounts DEF WalletToEscrow, Journal
<1> HIDE DEF in, out
<1>5. Moves(l, Post(l, in), s, 0)
  BY <1>3, PostMoves
<1>6. Moves(Post(l, in), Post(Post(l, in), out), s, Gross[s])
  BY <1>4, <1>5, PostMoves DEF Moves
<1>7. Moves(l, Post(Post(l, in), out), s, 0 + Gross[s])
  BY <1>1, <1>5, <1>6, MovesTwice
<1> QED BY <1>1, <1>7 DEF in, out

(* PayFromWallet's journal brings both parts of the split into escrow.     *)
LEMMA PayMoves ==
    ASSUME NEW l \in LedgerType, NEW s \in Shipments,
           NEW split \in [promo : Int, wallet : Int]
    PROVE  Moves(l, Post(l, EscrowPay(s, split)), s, split.promo + split.wallet)
<1> DEFINE j == EscrowPay(s, split)
<1>1. j.ref \in AnyRefs
  BY DEF EscrowPay, Journal, RefTypeForEscrowPay, AnyRefs, Refs, RefTypes
<1>2. \A a \in DOMAIN j.lines : j.lines[a] \in [debit : Int, credit : Int]
  BY DEF EscrowPay, Journal, EscrowPayLines, Debit, Credit
<1>3. \A t \in Shipments :
         Added(j, ShipmentEscrow(t)) = IF t = s THEN split.promo + split.wallet ELSE 0
  BY EscrowAccounts DEF EscrowPay, Journal, EscrowPayLines, Debit, Credit, Added
<1> QED BY <1>1, <1>2, <1>3, PostMoves DEF JournalType

(* ReleaseEscrow's journal takes the balance it read out of escrow.        *)
LEMMA ReleaseMoves ==
    ASSUME NEW l \in LedgerType, NEW s \in Shipments, NEW n \in Int
    PROVE  Moves(l, Post(l, EscrowRelease(s, n)), s, -n)
<1> DEFINE j == EscrowRelease(s, n)
<1>1. CalcPlatformFee(n) \in Int
  BY EscrowAssumption DEF CalcPlatformFee, AtMost, AtLeast
<1>2. j.ref \in AnyRefs
  BY DEF EscrowRelease, Journal, AnyRefs, Refs, RefTypes
<1>3. \A a \in DOMAIN j.lines : j.lines[a] \in [debit : Int, credit : Int]
  BY <1>1 DEF EscrowRelease, Journal, Debit, Credit
<1>4. \A t \in Shipments : Added(j, ShipmentEscrow(t)) = IF t = s THEN -n ELSE 0
  BY <1>1, EscrowAccounts DEF EscrowRelease, Journal, Debit, Credit, Added
<1> QED BY <1>2, <1>3, <1>4, PostMoves DEF JournalType

(* A refund takes its two parts out of escrow, a part of zero included.    *)
LEMMA RefundMoves ==
    ASSUME NEW l \in LedgerType, NEW s \in Shipments, NEW part \in [promo : Nat, wallet : Nat]
    PROVE  Moves(l, PostRefund(l, s, part), s, -(part.promo + part.wallet))
<1> DEFINE promo == RefundPromo(s, part.promo)
           wallet == RefundWallet(s, part.wallet)
           between == IF part.promo > 0 THEN Post(l, promo) ELSE l
<1>1. promo.ref \in AnyRefs /\ wallet.ref \in AnyRefs
  BY DEF RefundPromo, RefundWallet, Journal, AnyRefs, Refs, RefTypes
<1>2. /\ JournalType(promo)
      /\ \A t \in Shipments : Added(promo, ShipmentEscrow(t)) = IF t = s THEN -part.promo ELSE 0
  BY <1>1, MoveLines, EscrowAccounts DEF RefundPromo, Journal
<1>3. /\ JournalType(wallet)
      /\ \A t \in Shipments :
            Added(wallet, ShipmentEscrow(t)) = IF t = s THEN -part.wallet ELSE 0
  BY <1>1, MoveLines, EscrowAccounts DEF RefundWallet, Journal
<1>4. \A t \in Shipments : l.balance[ShipmentEscrow(t)] \in Int
  BY EscrowAccounts DEF LedgerType
<1> HIDE DEF promo, wallet
<1>5. Moves(l, between, s, -part.promo)
  <2>1. CASE part.promo > 0
    BY <1>2, <2>1, PostMoves
  <2>2. CASE part.promo = 0
    BY <1>4, <2>2 DEF Moves
  <2> QED BY <2>1, <2>2
<1> DEFINE after == IF part.wallet > 0 THEN Post(between, wallet) ELSE between
<1>6. between \in LedgerType /\ \A t \in Shipments : between.balance[ShipmentEscrow(t)] \in Int
  BY <1>5, EscrowAccounts DEF Moves, LedgerType
<1> HIDE DEF between
<1>7. Moves(between, after, s, -part.wallet)
  <2>1. CASE part.wallet > 0
    BY <1>3, <1>6, <2>1, PostMoves
  <2>2. CASE part.wallet = 0
    BY <1>6, <2>2 DEF Moves
  <2> QED BY <2>1, <2>2
<1>8. Moves(l, after, s, (-part.promo) + (-part.wallet))
  <2> HIDE DEF after
  <2> QED BY <1>5, <1>7, MovesTwice
<1>9. after = PostRefund(l, s, part)
  BY DEF after, between, promo, wallet, PostRefund
<1>10. (-part.promo) + (-part.wallet) = -(part.promo + part.wallet)
  OBVIOUS
<1> QED BY <1>8, <1>9, <1>10

-----------------------------------------------------------------------------
(* The inductive invariant.  Its core: while requests for a shipment do    *)
(* not overlap, the copy a handler works on is still the row, the balance  *)
(* it read is still the balance, and so its status check still holds when  *)
(* it writes.                                                              *)

Typed ==
    /\ ledger \in LedgerType
    /\ escrow \in [Shipments -> EscrowRow]
    /\ events \subseteq Shipments \X Statuses
    /\ tx \in [Sessions -> Session]
    /\ overlapped \subseteq Shipments
    /\ racedPayers \subseteq Users

BalanceOps == {"ReleaseEscrow", "RefundEscrow", "PartialRefundEscrow"}

(* What a session carries whatever overlaps.                               *)
WellFormed(t) ==
    /\ t.pc # "idle" => t.ship \in Shipments
    /\ t.op = "FundEscrow" => t.arg \in Orders
    /\ t.op = "PartialRefundEscrow" => t.arg \in Nat /\ t.arg > 0
    /\ t.op \in BalanceOps /\ t.pc = "funds" => t.funds > 0

Allowed(op, status) ==
    /\ status # "NONE"
    /\ op = "FundEscrow" => CanFund(status)
    /\ op = "PayFromWallet" => CanPayFromWallet(status)
    /\ op = "MarkDelivered" => CanMarkDelivered(status)
    /\ op = "FreezeEscrow" => CanFreeze(status)
    /\ op = "ReleaseEscrow" => CanRelease(status)
    /\ op = "RefundEscrow" => CanRefund(status)
    /\ op = "PartialRefundEscrow" => CanPartialRefund(status)

InFlight(t, s) == t.ship = s /\ t.pc \in {"row", "promo", "funds"}

Serving == \A p \in Sessions : WellFormed(tx[p])

Alone ==
    \A p, q \in Sessions : \A s \in Shipments \ overlapped :
        InFlight(tx[p], s) /\ InFlight(tx[q], s) => p = q

UpToDate(t, row, held) ==
    /\ t.row = row
    /\ Allowed(t.op, t.row.status)
    /\ t.op \in BalanceOps /\ t.pc = "funds" => t.funds = held

Fresh ==
    \A p \in Sessions : \A s \in Shipments \ overlapped :
        InFlight(tx[p], s) =>
            UpToDate(tx[p], escrow[s], ledger.balance[ShipmentEscrow(s)])

Holds(s, status, held) ==
    /\ status \in {"NONE", "CREATED", "RELEASED", "REFUNDED"} => held = 0
    /\ status \in {"FUNDED", "DISPUTE_WINDOW", "FROZEN"} => held = Gross[s]
    /\ status = "PARTIALLY_REFUNDED" => held \in 1 .. Gross[s] - 1
    /\ status # "LOCKED"

Covered ==
    \A s \in Shipments \ overlapped :
        Holds(s, escrow[s].status, ledger.balance[ShipmentEscrow(s)])

IInv == Typed /\ Serving /\ Alone /\ Fresh /\ Covered

LEMMA CoveredIsBacked == Covered => EscrowBacked
BY DEF Covered, Holds, EscrowBacked, Contract!Backed, Deal

LEMMA IdleTyped ==
    /\ NoRow \in EscrowRow
    /\ Idle \in Session
    /\ WellFormed(Idle)
    /\ \A s : ~InFlight(Idle, s)
BY DEF NoRow, EscrowRow, Statuses, FundingSources, Idle, Session, Ops, WellFormed,
       InFlight, BalanceOps

LEMMA InitIInv == Init => IInv
<1> SUFFICES ASSUME Init PROVE IInv
  OBVIOUS
<1>1. PICK seed \in Seeds : ledger = [balance |-> seed, posted |-> {}]
  BY DEF Init
<1>2. /\ seed \in [Accounts -> Int]
      /\ \A s \in Shipments : seed[ShipmentEscrow(s)] = 0
  BY EscrowAssumption
<1>3. Typed
  BY <1>1, <1>2, IdleTyped DEF Init, Typed, LedgerType
<1>4. Serving /\ Alone /\ Fresh
  BY IdleTyped DEF Init, Serving, Alone, Fresh
<1>5. Covered
  BY <1>1, <1>2 DEF Init, Covered, Holds, NoRow
<1> QED BY <1>3, <1>4, <1>5 DEF IInv

(* A request that arrives and passes its first checks.                     *)
LEMMA BeginKeeps ==
    ASSUME IInv, NEW p \in Sessions, NEW s \in Shipments, NEW op \in Ops,
           NEW arg \in Orders \cup {None} \cup Int,
           GetByShipmentID(p, op, s, arg), Allowed(op, escrow[s].status),
           op = "FundEscrow" => arg \in Orders,
           op = "PartialRefundEscrow" => arg \in Nat /\ arg > 0,
           racedPayers' \subseteq Users
    PROVE  IInv'
<1> DEFINE t == [pc |-> "row", op |-> op, ship |-> s, arg |-> arg,
                 row |-> escrow[s], promo |-> 0, funds |-> 0]
<1>1. /\ tx \in [Sessions -> Session]
      /\ escrow[s] \in EscrowRow
      /\ tx' = [tx EXCEPT ![p] = t]
      /\ overlapped \subseteq Shipments /\ overlapped \subseteq overlapped'
      /\ overlapped' \subseteq Shipments
      /\ UNCHANGED <<ledger, escrow, events>>
  BY DEF GetByShipmentID, IInv, Typed
<1>2. /\ tx'[p] = t
      /\ \A q \in Sessions \ {p} : tx'[q] = tx[q]
  BY <1>1
<1>3. t \in Session
  BY <1>1 DEF Session
<1>4. Typed'
  BY <1>1, <1>3 DEF IInv, Typed
<1>5. Serving'
  BY <1>2 DEF IInv, Serving, WellFormed, BalanceOps
<1>6. Alone'
  <2>1. \A q \in Sessions \ {p} : InFlight(tx[q], s) => s \in overlapped'
    BY DEF GetByShipmentID, InFlight, Busy
  <2>2. \A x : InFlight(t, x) => x = s
    BY DEF InFlight
  <2> HIDE DEF t
  <2> QED BY <1>1, <1>2, <2>1, <2>2 DEF IInv, Alone
<1>7. Fresh'
  <2>1. UpToDate(t, escrow[s], ledger.balance[ShipmentEscrow(s)])
    BY DEF UpToDate, BalanceOps
  <2>2. \A x : InFlight(t, x) => x = s
    BY DEF InFlight
  <2> HIDE DEF t
  <2> QED BY <1>1, <1>2, <2>1, <2>2 DEF IInv, Fresh
<1>8. Covered'
  BY <1>1 DEF IInv, Covered
<1> QED BY <1>4, <1>5, <1>6, <1>7, <1>8 DEF IInv

(* A step that only advances or ends a session.                            *)
LEMMA SessionStepKeeps ==
    ASSUME IInv, NEW p \in Sessions, NEW t \in Session,
           tx' = [tx EXCEPT ![p] = t], WellFormed(t),
           \A s \in Shipments : InFlight(t, s) =>
               /\ InFlight(tx[p], s)
               /\ s \notin overlapped =>
                      UpToDate(t, escrow[s], ledger.balance[ShipmentEscrow(s)]),
           events' \subseteq Shipments \X Statuses,
           UNCHANGED <<ledger, escrow, overlapped, racedPayers>>
    PROVE  IInv'
<1>1. tx' \in [Sessions -> Session]
  BY DEF IInv, Typed
<1>2. tx'[p] = t /\ \A q \in Sessions \ {p} : tx'[q] = tx[q]
  BY DEF IInv, Typed
<1>3. Typed'
  BY <1>1 DEF IInv, Typed
<1>4. Serving'
  BY <1>2 DEF IInv, Serving
<1>5. Alone' /\ Fresh'
  BY <1>2 DEF IInv, Alone, Fresh
<1>6. Covered'
  BY DEF IInv, Covered
<1> QED BY <1>3, <1>4, <1>5, <1>6 DEF IInv

(* How a write may change the status and the money of a shipment whose     *)
(* requests do not overlap: the transitions of EscrowContract.             *)
Transition(s, from, held, to, after) ==
    \/ from = "NONE" /\ to = "CREATED" /\ after = held
    \/ from = "CREATED" /\ to = "FUNDED" /\ after = Gross[s]
    \/ from = "FUNDED" /\ to = "DISPUTE_WINDOW" /\ after = held
    \/ from = "DISPUTE_WINDOW" /\ to = "FROZEN" /\ after = held
    \/ CanRelease(from) /\ to = "RELEASED" /\ after = 0
    \/ CanRefund(from) /\ to = "REFUNDED" /\ after = 0
    \/ /\ CanRefund(from) /\ to = "PARTIALLY_REFUNDED"
       /\ \E n \in Int : n > 0 /\ n < held /\ after = held - n

LEMMA TransitionKeepsHolds ==
    ASSUME NEW s \in Shipments, NEW from, NEW held \in Int, NEW to, NEW after,
           Holds(s, from, held), Transition(s, from, held, to, after)
    PROVE  Holds(s, to, after)
<1>1. Gross[s] \in Nat /\ Gross[s] > 0
  BY PartiesAreUsers
<1> QED BY <1>1 DEF Holds, Transition, CanRelease, CanRefund

(* A step that writes the row and the journals of shipment s and ends the  *)
(* session's work on it.  No other session works on s unless requests for  *)
(* s have overlapped.                                                      *)
Writes(p, s) ==
    /\ \E t \in Session :
          tx' = [tx EXCEPT ![p] = t] /\ WellFormed(t) /\ \A x : ~InFlight(t, x)
    /\ \E row \in EscrowRow :
          /\ escrow' = [escrow EXCEPT ![s] = row]
          /\ s \notin overlapped =>
                /\ \A q \in Sessions \ {p} : ~InFlight(tx[q], s)
                /\ Transition(s, escrow[s].status, ledger.balance[ShipmentEscrow(s)],
                              row.status, ledger'.balance[ShipmentEscrow(s)])
    /\ \E d \in Int : Moves(ledger, ledger', s, d)
    /\ events' \subseteq Shipments \X Statuses
    /\ UNCHANGED <<overlapped, racedPayers>>

LEMMA WriteKeeps ==
    ASSUME IInv, NEW p \in Sessions, NEW s \in Shipments, Writes(p, s)
    PROVE  IInv'
<1>1. PICK t \in Session :
         tx' = [tx EXCEPT ![p] = t] /\ WellFormed(t) /\ \A x : ~InFlight(t, x)
  BY DEF Writes
<1>2. PICK row \in EscrowRow :
         /\ escrow' = [escrow EXCEPT ![s] = row]
         /\ s \notin overlapped =>
               /\ \A q \in Sessions \ {p} : ~InFlight(tx[q], s)
               /\ Transition(s, escrow[s].status, ledger.balance[ShipmentEscrow(s)],
                             row.status, ledger'.balance[ShipmentEscrow(s)])
  BY DEF Writes
<1>3. tx' \in [Sessions -> Session] /\ escrow' \in [Shipments -> EscrowRow]
  BY <1>1, <1>2 DEF IInv, Typed
<1>4. tx'[p] = t /\ \A q \in Sessions \ {p} : tx'[q] = tx[q]
  BY <1>1 DEF IInv, Typed
<1>5. escrow'[s] = row /\ \A x \in Shipments \ {s} : escrow'[x] = escrow[x]
  BY <1>2 DEF IInv, Typed
<1>6. \A x \in Shipments : ledger.balance[ShipmentEscrow(x)] \in Int
  BY EscrowAccounts DEF IInv, Typed, LedgerType
<1>7. /\ ledger' \in LedgerType
      /\ \A x \in Shipments \ {s} :
            ledger'.balance[ShipmentEscrow(x)] = ledger.balance[ShipmentEscrow(x)]
  BY <1>6 DEF Writes, Moves
<1>8. Typed'
  BY <1>3, <1>7 DEF IInv, Typed, LedgerType, Writes
<1>9. Serving'
  BY <1>1, <1>4 DEF IInv, Serving
<1>10. Alone'
  BY <1>1, <1>2, <1>4 DEF IInv, Alone, Writes
<1>11. Fresh'
  BY <1>1, <1>2, <1>4, <1>5, <1>7 DEF IInv, Fresh, Writes
<1>12. Covered'
  <2>1. s \notin overlapped =>
            Holds(s, row.status, ledger'.balance[ShipmentEscrow(s)])
    BY <1>2, <1>6, TransitionKeepsHolds DEF IInv, Covered
  <2> QED BY <1>5, <1>7, <2>1 DEF IInv, Covered, Writes
<1> QED BY <1>8, <1>9, <1>10, <1>11, <1>12 DEF IInv

(* What every handler can rely on when it is about to write.               *)
LEMMA BeforeWrite ==
    ASSUME IInv, NEW p \in Sessions, NEW s \in Shipments, InFlight(tx[p], s)
    PROVE  /\ tx[p] \in Session /\ tx[p].row \in EscrowRow /\ WellFormed(tx[p])
           /\ tx[p].ship = s
           /\ ledger \in LedgerType /\ ledger.balance[ShipmentEscrow(s)] \in Int
           /\ s \notin overlapped =>
                 /\ UpToDate(tx[p], escrow[s], ledger.balance[ShipmentEscrow(s)])
                 /\ Holds(s, tx[p].row.status, ledger.balance[ShipmentEscrow(s)])
                 /\ \A q \in Sessions \ {p} : ~InFlight(tx[q], s)
<1>1. tx[p] \in Session /\ tx[p].row \in EscrowRow /\ WellFormed(tx[p])
  BY DEF IInv, Typed, Session, Serving
<1>2. ledger \in LedgerType /\ ledger.balance[ShipmentEscrow(s)] \in Int
  BY EscrowAccounts DEF IInv, Typed, LedgerType
<1>3. tx[p].ship = s
  BY DEF InFlight
<1>4. ASSUME s \notin overlapped
      PROVE  /\ UpToDate(tx[p], escrow[s], ledger.balance[ShipmentEscrow(s)])
             /\ Holds(s, tx[p].row.status, ledger.balance[ShipmentEscrow(s)])
             /\ \A q \in Sessions \ {p} : ~InFlight(tx[q], s)
  BY <1>4 DEF IInv, Fresh, UpToDate, Covered, Alone
<1> QED BY <1>1, <1>2, <1>3, <1>4

(* The transactions: journals, row and event together.                     *)
LEMMA CommitTxWrites ==
    ASSUME IInv, NEW p \in Sessions, NEW s \in Shipments, InFlight(tx[p], s),
           NEW l, NEW row \in EscrowRow, NEW d \in Int, Moves(ledger, l, s, d),
           s \notin overlapped =>
               Transition(s, escrow[s].status, ledger.balance[ShipmentEscrow(s)],
                          row.status, l.balance[ShipmentEscrow(s)]),
           CommitTx(p, l, row)
    PROVE  Writes(p, s)
<1>1. tx[p].ship = s /\ row.status \in Statuses
  BY DEF InFlight, EscrowRow
<1>2. events' \subseteq Shipments \X Statuses
  BY <1>1 DEF CommitTx, IInv, Typed
<1>3. escrow' = [escrow EXCEPT ![s] = row]
  BY <1>1 DEF CommitTx, Update
<1>4. s \notin overlapped => \A q \in Sessions \ {p} : ~InFlight(tx[q], s)
  BY BeforeWrite
<1>5. /\ ledger' = l
      /\ tx' = [tx EXCEPT ![p] = Idle]
      /\ UNCHANGED <<overlapped, racedPayers>>
  BY DEF CommitTx
<1> QED BY <1>2, <1>3, <1>4, <1>5, IdleTyped DEF Writes

(* The updates outside a transaction: the row, and an event owed.          *)
LEMMA NothingMoves ==
    ASSUME IInv, NEW s \in Shipments, UNCHANGED ledger
    PROVE  \E d \in Int : Moves(ledger, ledger', s, d)
<1>1. \A t \in Shipments : ledger.balance[ShipmentEscrow(t)] \in Int
  BY EscrowAccounts DEF IInv, Typed, LedgerType
<1>2. Moves(ledger, ledger', s, 0)
  BY <1>1 DEF IInv, Typed, Moves, LedgerType
<1> QED BY <1>2

LEMMA OwingEventTyped ==
    ASSUME NEW s \in Shipments, NEW row \in EscrowRow,
           NEW op \in {"CreateEscrow", "MarkDelivered", "FreezeEscrow"}
    PROVE  LET t == OwingEvent(op, s, row)
           IN  t \in Session /\ WellFormed(t) /\ \A x : ~InFlight(t, x)
BY DEF OwingEvent, Session, Ops, WellFormed, BalanceOps, InFlight

LEMMA AutoCommitWrites ==
    ASSUME IInv, NEW p \in Sessions, NEW s \in Shipments, InFlight(tx[p], s),
           tx[p].op \in {"MarkDelivered", "FreezeEscrow"}, NEW row \in EscrowRow,
           s \notin overlapped =>
               Transition(s, escrow[s].status, ledger.balance[ShipmentEscrow(s)],
                          row.status, ledger.balance[ShipmentEscrow(s)]),
           AutoCommit(p, row)
    PROVE  Writes(p, s)
<1>1. /\ tx' = [tx EXCEPT ![p] = OwingEvent(tx[p].op, s, row)]
      /\ escrow' = [escrow EXCEPT ![s] = row]
  BY DEF AutoCommit, Update, InFlight
<1>2. \E d \in Int : Moves(ledger, ledger', s, d)
  BY NothingMoves DEF AutoCommit
<1>3. events' \subseteq Shipments \X Statuses
  BY DEF AutoCommit, IInv, Typed
<1>4. s \notin overlapped => \A q \in Sessions \ {p} : ~InFlight(tx[q], s)
  BY BeforeWrite
<1>5. UNCHANGED <<ledger, overlapped, racedPayers>>
  BY DEF AutoCommit
<1> QED BY <1>1, <1>2, <1>3, <1>4, <1>5, OwingEventTyped DEF Writes

-----------------------------------------------------------------------------
(* The handlers' writes, one lemma each.                                   *)

LEMMA ShipInFlight ==
    ASSUME IInv, NEW p \in Sessions, tx[p].pc \in {"row", "promo", "funds"}
    PROVE  tx[p].ship \in Shipments /\ InFlight(tx[p], tx[p].ship)
BY DEF IInv, Serving, WellFormed, InFlight

LEMMA CreateEscrowWrites ==
    ASSUME IInv, NEW p \in Sessions, NEW s \in Shipments, CreateEscrow(p, s)
    PROVE  Writes(p, s)
<1> DEFINE row == [NoRow EXCEPT !.status = "CREATED"]
<1>1. row \in EscrowRow /\ row.status = "CREATED"
  BY IdleTyped DEF EscrowRow, Statuses
<1>2. \E d \in Int : Moves(ledger, ledger', s, d)
  BY NothingMoves DEF CreateEscrow
<1>3. s \notin overlapped => \A q \in Sessions \ {p} : ~InFlight(tx[q], s)
  BY DEF CreateEscrow, IInv, Fresh, UpToDate, Allowed
<1>4. Transition(s, escrow[s].status, ledger.balance[ShipmentEscrow(s)],
                 row.status, ledger'.balance[ShipmentEscrow(s)])
  BY <1>1 DEF CreateEscrow, Transition
<1>5. events' \subseteq Shipments \X Statuses
  BY DEF CreateEscrow, IInv, Typed
<1>6. /\ tx' = [tx EXCEPT ![p] = OwingEvent("CreateEscrow", s, row)]
      /\ escrow' = [escrow EXCEPT ![s] = row]
      /\ UNCHANGED <<overlapped, racedPayers>>
  BY DEF CreateEscrow
<1> HIDE DEF row
<1> QED BY <1>1, <1>2, <1>3, <1>4, <1>5, <1>6, OwingEventTyped DEF Writes

LEMMA FundEscrowWrites ==
    ASSUME IInv, NEW p \in Sessions, FundEscrowCommit(p)
    PROVE  \E s \in Shipments : Writes(p, s)
<1> DEFINE s == tx[p].ship
           o == tx[p].arg
           l == Post(Post(ledger, PSPToWallet(s, o)), WalletToEscrow(s, o))
           row == [tx[p].row EXCEPT !.status = "FUNDED", !.order = o, !.source = "PSP",
                                    !.stamps = @ \cup {"funded_at"}]
<1>1. s \in Shipments /\ InFlight(tx[p], s) /\ tx[p].op = "FundEscrow"
  BY ShipInFlight DEF FundEscrowCommit, At
<1>2. /\ tx[p].row \in EscrowRow /\ WellFormed(tx[p]) /\ ledger \in LedgerType
      /\ ledger.balance[ShipmentEscrow(s)] \in Int
      /\ s \notin overlapped =>
            /\ UpToDate(tx[p], escrow[s], ledger.balance[ShipmentEscrow(s)])
            /\ Holds(s, tx[p].row.status, ledger.balance[ShipmentEscrow(s)])
  BY <1>1, BeforeWrite
<1>3. o \in Orders
  BY <1>1, <1>2 DEF WellFormed
<1>4. row \in EscrowRow /\ row.status = "FUNDED"
  BY <1>2, <1>3 DEF EscrowRow, Statuses, FundingSources
<1>5. Moves(ledger, l, s, Gross[s]) /\ Gross[s] \in Int
  BY <1>1, <1>2, <1>3, FundMoves, PartiesAreUsers
<1>6. l.balance[ShipmentEscrow(s)] = ledger.balance[ShipmentEscrow(s)] + Gross[s]
  BY <1>1, <1>5 DEF Moves
<1>7. s \notin overlapped =>
          Transition(s, escrow[s].status, ledger.balance[ShipmentEscrow(s)],
                     row.status, l.balance[ShipmentEscrow(s)])
  BY <1>1, <1>2, <1>4, <1>5, <1>6 DEF UpToDate, Allowed, CanFund, Holds, Transition
<1>8. CommitTx(p, l, row)
  BY DEF FundEscrowCommit
<1> HIDE DEF row, l, s, o
<1> QED BY <1>1, <1>4, <1>5, <1>7, <1>8, CommitTxWrites

(* Both parts of the split add up to the agreed amount, whatever the promo *)
(* balance read was.                                                       *)
LEMMA SplitAddsUp ==
    ASSUME NEW amount \in Int, NEW promoBalance \in Int
    PROVE  LET split == ResolvePayerFundingSplit(amount, promoBalance) IN
           /\ split \in [promo : Int, wallet : Int]
           /\ split.promo + split.wallet = amount
           /\ FundingSourceForSplit(split) \in FundingSources
BY DEF ResolvePayerFundingSplit, AtMost, FundingSourceForSplit, FundingSources

LEMMA PayFromWalletWrites ==
    ASSUME IInv, NEW p \in Sessions, PayFromWalletCommit(p)
    PROVE  \E s \in Shipments : Writes(p, s)
<1> DEFINE s == tx[p].ship
           split == ResolvePayerFundingSplit(Gross[s], tx[p].promo)
           l == Post(ledger, EscrowPay(s, split))
           row == [tx[p].row EXCEPT !.status = "FUNDED", !.source = FundingSourceForSplit(split),
                                    !.promo = split.promo, !.stamps = @ \cup {"funded_at"}]
<1>1. s \in Shipments /\ InFlight(tx[p], s) /\ tx[p].op = "PayFromWallet"
  BY ShipInFlight DEF PayFromWalletCommit, At
<1>2. /\ tx[p] \in Session /\ tx[p].row \in EscrowRow /\ ledger \in LedgerType
      /\ ledger.balance[ShipmentEscrow(s)] \in Int
      /\ s \notin overlapped =>
            /\ UpToDate(tx[p], escrow[s], ledger.balance[ShipmentEscrow(s)])
            /\ Holds(s, tx[p].row.status, ledger.balance[ShipmentEscrow(s)])
  BY <1>1, BeforeWrite
<1>3. Gross[s] \in Int /\ tx[p].promo \in Int
  BY <1>1, <1>2, PartiesAreUsers DEF Session
<1>4. /\ split \in [promo : Int, wallet : Int]
      /\ split.promo + split.wallet = Gross[s]
      /\ FundingSourceForSplit(split) \in FundingSources
  BY <1>3, SplitAddsUp
<1> HIDE DEF split
<1>5. row \in EscrowRow /\ row.status = "FUNDED"
  BY <1>2, <1>4 DEF EscrowRow, Statuses
<1>6. Moves(ledger, l, s, Gross[s])
  BY <1>1, <1>2, <1>4, PayMoves
<1>7. l.balance[ShipmentEscrow(s)] = ledger.balance[ShipmentEscrow(s)] + Gross[s]
  BY <1>1, <1>6 DEF Moves
<1>8. s \notin overlapped =>
          Transition(s, escrow[s].status, ledger.balance[ShipmentEscrow(s)],
                     row.status, l.balance[ShipmentEscrow(s)])
  BY <1>1, <1>2, <1>3, <1>5, <1>7 DEF UpToDate, Allowed, CanPayFromWallet, Holds, Transition
<1>9. CommitTx(p, l, row)
  BY DEF PayFromWalletCommit, split
<1> HIDE DEF row, l, s
<1> QED BY <1>1, <1>3, <1>5, <1>6, <1>8, <1>9, CommitTxWrites

LEMMA MarkDeliveredWrites ==
    ASSUME IInv, NEW p \in Sessions, MarkDeliveredUpdate(p)
    PROVE  \E s \in Shipments : Writes(p, s)
<1> DEFINE s == tx[p].ship
           row == [tx[p].row EXCEPT !.status = "DISPUTE_WINDOW"]
<1>1. s \in Shipments /\ InFlight(tx[p], s) /\ tx[p].op = "MarkDelivered"
  BY ShipInFlight DEF MarkDeliveredUpdate, At
<1>2. row \in EscrowRow /\ row.status = "DISPUTE_WINDOW"
  BY <1>1, BeforeWrite DEF EscrowRow, Statuses
<1>3. s \notin overlapped =>
          Transition(s, escrow[s].status, ledger.balance[ShipmentEscrow(s)],
                     row.status, ledger.balance[ShipmentEscrow(s)])
  BY <1>1, <1>2, BeforeWrite DEF UpToDate, Allowed, CanMarkDelivered, Transition
<1>4. AutoCommit(p, row)
  BY DEF MarkDeliveredUpdate
<1> HIDE DEF row, s
<1> QED BY <1>1, <1>2, <1>3, <1>4, AutoCommitWrites

LEMMA FreezeEscrowWrites ==
    ASSUME IInv, NEW p \in Sessions, FreezeEscrowUpdate(p)
    PROVE  \E s \in Shipments : Writes(p, s)
<1> DEFINE s == tx[p].ship
           row == [tx[p].row EXCEPT !.status = "FROZEN"]
<1>1. s \in Shipments /\ InFlight(tx[p], s) /\ tx[p].op = "FreezeEscrow"
  BY ShipInFlight DEF FreezeEscrowUpdate, At
<1>2. row \in EscrowRow /\ row.status = "FROZEN"
  BY <1>1, BeforeWrite DEF EscrowRow, Statuses
<1>3. s \notin overlapped =>
          Transition(s, escrow[s].status, ledger.balance[ShipmentEscrow(s)],
                     row.status, ledger.balance[ShipmentEscrow(s)])
  BY <1>1, <1>2, BeforeWrite DEF UpToDate, Allowed, CanFreeze, Holds, Transition
<1>4. AutoCommit(p, row)
  BY DEF FreezeEscrowUpdate
<1> HIDE DEF row, s
<1> QED BY <1>1, <1>2, <1>3, <1>4, AutoCommitWrites

LEMMA ReleaseEscrowWrites ==
    ASSUME IInv, NEW p \in Sessions, ReleaseEscrowCommit(p)
    PROVE  \E s \in Shipments : Writes(p, s)
<1> DEFINE s == tx[p].ship
           n == tx[p].funds
           l == Post(ledger, EscrowRelease(s, n))
           row == [tx[p].row EXCEPT !.status = "RELEASED",
                                    !.stamps = @ \cup {"released_at"}]
<1>1. s \in Shipments /\ InFlight(tx[p], s) /\ tx[p].op = "ReleaseEscrow" /\ tx[p].pc = "funds"
  BY ShipInFlight DEF ReleaseEscrowCommit, At
<1>2. /\ tx[p] \in Session /\ tx[p].row \in EscrowRow /\ ledger \in LedgerType
      /\ ledger.balance[ShipmentEscrow(s)] \in Int
      /\ s \notin overlapped =>
            UpToDate(tx[p], escrow[s], ledger.balance[ShipmentEscrow(s)])
  BY <1>1, BeforeWrite
<1>3. n \in Int
  BY <1>2 DEF Session
<1>4. row \in EscrowRow /\ row.status = "RELEASED"
  BY <1>2 DEF EscrowRow, Statuses
<1>5. Moves(ledger, l, s, -n)
  BY <1>1, <1>2, <1>3, ReleaseMoves
<1>6. l.balance[ShipmentEscrow(s)] = ledger.balance[ShipmentEscrow(s)] - n
  BY <1>1, <1>2, <1>3, <1>5 DEF Moves
<1>7. s \notin overlapped =>
          Transition(s, escrow[s].status, ledger.balance[ShipmentEscrow(s)],
                     row.status, l.balance[ShipmentEscrow(s)])
  BY <1>1, <1>2, <1>3, <1>4, <1>6 DEF UpToDate, Allowed, BalanceOps, Transition
<1>8. -n \in Int
  BY <1>3
<1>9. CommitTx(p, l, row)
  BY DEF ReleaseEscrowCommit
<1> HIDE DEF row, l, s, n
<1> QED BY <1>1, <1>4, <1>5, <1>7, <1>8, <1>9, CommitTxWrites

(* The two parts of a refund add up to it, and neither is negative.        *)
LEMMA RefundAddsUp ==
    ASSUME NEW amount \in Nat, amount > 0, NEW promoRemaining \in Int
    PROVE  LET part == RefundAllocation(amount, promoRemaining) IN
           /\ part \in [promo : Nat, wallet : Nat]
           /\ part.promo + part.wallet = amount
BY DEF RefundAllocation, AtMost

(* A refund of n: the whole balance, or less of it.                        *)
LEMMA RefundWrites ==
    ASSUME IInv, NEW p \in Sessions, NEW n \in Nat, n > 0, NEW status \in Statuses,
           tx[p].op \in {"RefundEscrow", "PartialRefundEscrow"}, tx[p].pc = "funds",
           \/ status = "REFUNDED" /\ n = tx[p].funds
           \/ status = "PARTIALLY_REFUNDED" /\ n < tx[p].funds,
           CommitRefund(p, n, status)
    PROVE  \E s \in Shipments : Writes(p, s)
<1> DEFINE s == tx[p].ship
           part == RefundAllocation(n, tx[p].row.promo)
           l == PostRefund(ledger, s, part)
           row == [tx[p].row EXCEPT !.status = status,
                                    !.promo = AtLeast(0, @ - part.promo),
                                    !.stamps = @ \cup {"refunded_at"}]
<1>1. s \in Shipments /\ InFlight(tx[p], s)
  BY ShipInFlight
<1>2. /\ tx[p] \in Session /\ tx[p].row \in EscrowRow /\ ledger \in LedgerType
      /\ ledger.balance[ShipmentEscrow(s)] \in Int
      /\ s \notin overlapped =>
            UpToDate(tx[p], escrow[s], ledger.balance[ShipmentEscrow(s)])
  BY <1>1, BeforeWrite
<1>3. /\ part \in [promo : Nat, wallet : Nat]
      /\ part.promo + part.wallet = n
  BY <1>2, RefundAddsUp DEF EscrowRow
<1> HIDE DEF part
<1>4. row \in EscrowRow /\ row.status = status
  <2>1. AtLeast(0, tx[p].row.promo - part.promo) \in Int
    BY <1>2, <1>3 DEF EscrowRow, AtLeast
  <2> QED BY <1>2, <2>1 DEF EscrowRow
<1>5. Moves(ledger, l, s, -n)
  BY <1>1, <1>2, <1>3, RefundMoves
<1>6. l.balance[ShipmentEscrow(s)] = ledger.balance[ShipmentEscrow(s)] - n
  BY <1>1, <1>2, <1>5 DEF Moves
<1>7. s \notin overlapped =>
          Transition(s, escrow[s].status, ledger.balance[ShipmentEscrow(s)],
                     row.status, l.balance[ShipmentEscrow(s)])
  BY <1>1, <1>2, <1>4, <1>6
     DEF UpToDate, Allowed, CanPartialRefund, BalanceOps, Transition
<1>8. -n \in Int
  OBVIOUS
<1>9. CommitTx(p, l, row)
  BY DEF CommitRefund, part
<1> HIDE DEF row, l, s
<1> QED BY <1>1, <1>4, <1>5, <1>7, <1>8, <1>9, CommitTxWrites

LEMMA RefundEscrowWrites ==
    ASSUME IInv, NEW p \in Sessions,
           RefundEscrowCommit(p) \/ PartialRefundEscrowCommit(p)
    PROVE  \E s \in Shipments : Writes(p, s)
<1>1. tx[p] \in Session /\ WellFormed(tx[p])
  BY DEF IInv, Typed, Serving
<1>2. CASE RefundEscrowCommit(p)
  <2>1. tx[p].funds \in Nat /\ tx[p].funds > 0
    BY <1>1, <1>2 DEF RefundEscrowCommit, At, WellFormed, BalanceOps, Session
  <2> QED BY <1>2, <2>1, RefundWrites DEF RefundEscrowCommit, At, Statuses
<1>3. CASE PartialRefundEscrowCommit(p)
  <2>1. tx[p].arg \in Nat /\ tx[p].arg > 0 /\ tx[p].arg <= tx[p].funds /\ tx[p].funds \in Int
    BY <1>1, <1>3 DEF PartialRefundEscrowCommit, At, WellFormed, Session
  <2>2. CASE tx[p].arg = tx[p].funds
    BY <1>3, <2>1, <2>2, RefundWrites DEF PartialRefundEscrowCommit, At, Statuses
  <2>3. CASE tx[p].arg < tx[p].funds
    <3>1. tx[p].arg # tx[p].funds
      BY <2>1, <2>3
    <3> QED BY <1>3, <2>1, <2>3, <3>1, RefundWrites DEF PartialRefundEscrowCommit, At, Statuses
  <2> QED BY <2>1, <2>2, <2>3
<1> QED BY <1>2, <1>3

-----------------------------------------------------------------------------
(* Steps that write nothing.                                               *)

LEMMA ReadKeeps ==
    ASSUME IInv, NEW p \in Sessions,
           ReadPromoBalance(p) \/ ReadWalletBalance(p) \/ EscrowBalance(p)
    PROVE  IInv'
<1> DEFINE s == tx[p].ship
           t == tx'[p]
<1>1. s \in Shipments /\ InFlight(tx[p], s)
  BY ShipInFlight DEF ReadPromoBalance, ReadWalletBalance, EscrowBalance, At
<1>2. tx \in [Sessions -> Session] /\ tx[p] \in Session /\ ledger \in LedgerType
  BY DEF IInv, Typed, LedgerType
<1>3. /\ UserPromoCredit(Payer[s]) \in Accounts
      /\ UserWallet(Payer[s]) \in Accounts
      /\ ShipmentEscrow(s) \in Accounts
  BY <1>1, EscrowAssumption DEF UserPromoCredit, UserWallet, ShipmentEscrow, Accounts
<1>4. /\ SumByAccount(UserPromoCredit(Payer[s])) \in Int
      /\ SumByAccount(UserWallet(Payer[s])) \in Int
      /\ SumByAccount(ShipmentEscrow(s)) \in Int
  BY <1>2, <1>3 DEF SumByAccount, LedgerType
<1>5. /\ t \in Session /\ tx' = [tx EXCEPT ![p] = t]
      /\ t.ship = s /\ t.op = tx[p].op /\ t.arg = tx[p].arg /\ t.row = tx[p].row
      /\ t.op \in BalanceOps => t.funds = SumByAccount(ShipmentEscrow(s)) /\ t.funds > 0
  BY <1>2, <1>4 DEF ReadPromoBalance, ReadWalletBalance, EscrowBalance, At, Session, BalanceOps
<1>6. WellFormed(tx[p]) /\ (s \notin overlapped =>
          UpToDate(tx[p], escrow[s], ledger.balance[ShipmentEscrow(s)]))
  BY <1>1, BeforeWrite
<1>7. WellFormed(t)
  BY <1>1, <1>5, <1>6 DEF WellFormed, InFlight
<1>8. \A x \in Shipments : InFlight(t, x) =>
          /\ InFlight(tx[p], x)
          /\ x \notin overlapped =>
                 UpToDate(t, escrow[x], ledger.balance[ShipmentEscrow(x)])
  BY <1>1, <1>5, <1>6 DEF InFlight, UpToDate, SumByAccount
<1>9. events' \subseteq Shipments \X Statuses
  BY DEF ReadPromoBalance, ReadWalletBalance, EscrowBalance, IInv, Typed
<1>10. UNCHANGED <<ledger, escrow, overlapped, racedPayers>>
  BY DEF ReadPromoBalance, ReadWalletBalance, EscrowBalance
<1> HIDE DEF t, s
<1> QED BY <1>5, <1>7, <1>8, <1>9, <1>10, SessionStepKeeps

LEMMA EndKeeps ==
    ASSUME IInv, NEW p \in Sessions, EmitEscrowStatus(p) \/ Abort(p)
    PROVE  IInv'
<1>1. tx[p] \in Session /\ WellFormed(tx[p])
  BY DEF IInv, Typed, Serving
<1>2. events' \subseteq Shipments \X Statuses
  BY <1>1 DEF EmitEscrowStatus, Abort, IInv, Typed, WellFormed, Session, EscrowRow
<1>3. tx' = [tx EXCEPT ![p] = Idle] /\ UNCHANGED <<ledger, escrow, overlapped, racedPayers>>
  BY DEF EmitEscrowStatus, Abort
<1> QED BY <1>2, <1>3, IdleTyped, SessionStepKeeps

LEMMA RequestKeeps ==
    ASSUME IInv, NEW p \in Sessions, NEW s \in Shipments, Request(p, s)
    PROVE  IInv'
<1>1. racedPayers \subseteq Users /\ escrow[s].status \in Statuses
  BY DEF IInv, Typed, EscrowRow
<1>2. CASE CreateEscrow(p, s)
  BY <1>2, CreateEscrowWrites, WriteKeeps
<1>3. ASSUME NEW o \in Orders, FundEscrow(p, s, o)
      PROVE  IInv'
  <2>1. Allowed("FundEscrow", escrow[s].status)
    BY <1>3 DEF FundEscrow, Allowed, CanFund
  <2> QED BY <1>1, <1>3, <2>1, BeginKeeps DEF FundEscrow, Ops
<1>4. ASSUME NEW u \in Users, NEW n \in 1 .. Gross[s], PayFromWallet(p, s, u, n)
      PROVE  IInv'
  <2>1. Allowed("PayFromWallet", escrow[s].status)
    BY <1>4 DEF PayFromWallet, Allowed, CanPayFromWallet
  <2>2. racedPayers' \subseteq Users
    BY <1>1, <1>4 DEF PayFromWallet
  <2>3. GetByShipmentID(p, "PayFromWallet", s, None)
    BY <1>4 DEF PayFromWallet
  <2> QED BY <2>1, <2>2, <2>3, BeginKeeps DEF Ops
<1>5. CASE MarkDelivered(p, s)
  <2>1. Allowed("MarkDelivered", escrow[s].status)
    BY <1>5 DEF MarkDelivered, Allowed, CanMarkDelivered
  <2> QED BY <1>1, <1>5, <2>1, BeginKeeps DEF MarkDelivered, Ops
<1>6. CASE FreezeEscrow(p, s)
  <2>1. Allowed("FreezeEscrow", escrow[s].status)
    BY <1>6 DEF FreezeEscrow, Allowed, CanFreeze
  <2> QED BY <1>1, <1>6, <2>1, BeginKeeps DEF FreezeEscrow, Ops
<1>7. CASE ReleaseEscrow(p, s)
  <2>1. Allowed("ReleaseEscrow", escrow[s].status)
    BY <1>7 DEF ReleaseEscrow, Allowed, CanRelease
  <2> QED BY <1>1, <1>7, <2>1, BeginKeeps DEF ReleaseEscrow, Ops
<1>8. CASE RefundEscrow(p, s)
  <2>1. Allowed("RefundEscrow", escrow[s].status)
    BY <1>8 DEF RefundEscrow, Allowed, CanRefund
  <2> QED BY <1>1, <1>8, <2>1, BeginKeeps DEF RefundEscrow, Ops
<1>9. ASSUME NEW n \in 1 .. Gross[s], PartialRefundEscrow(p, s, n)
      PROVE  IInv'
  <2>1. Allowed("PartialRefundEscrow", escrow[s].status)
    BY <1>9 DEF PartialRefundEscrow, Allowed, CanPartialRefund, CanRefund
  <2>2. n \in Nat /\ n > 0
    BY PartiesAreUsers
  <2>3. GetByShipmentID(p, "PartialRefundEscrow", s, n) /\ UNCHANGED racedPayers
    BY <1>9 DEF PartialRefundEscrow
  <2> QED BY <1>1, <2>1, <2>2, <2>3, BeginKeeps DEF Ops
<1> QED BY <1>2, <1>3, <1>4, <1>5, <1>6, <1>7, <1>8, <1>9 DEF Request

LEMMA ContinueCases ==
    ASSUME IInv, NEW p \in Sessions, Continue(p)
    PROVE  \/ \E s \in Shipments : Writes(p, s)
           \/ ReadPromoBalance(p) \/ ReadWalletBalance(p) \/ EscrowBalance(p)
           \/ EmitEscrowStatus(p) \/ Abort(p)
BY FundEscrowWrites, PayFromWalletWrites, MarkDeliveredWrites, FreezeEscrowWrites,
   ReleaseEscrowWrites, RefundEscrowWrites
   DEF Continue

LEMMA StutterKeeps ==
    ASSUME IInv, UNCHANGED vars
    PROVE  IInv'
BY DEF vars, IInv, Typed, Serving, Alone, Fresh, Covered

LEMMA NextIInv == IInv /\ [Next]_vars => IInv'
<1> SUFFICES ASSUME IInv, [Next]_vars PROVE IInv'
  OBVIOUS
<1>1. ASSUME NEW p \in Sessions, Continue(p)
      PROVE  IInv'
  BY <1>1, ContinueCases, WriteKeeps, ReadKeeps, EndKeeps
<1>2. ASSUME NEW p \in Sessions, NEW s \in Shipments, Request(p, s)
      PROVE  IInv'
  BY <1>2, RequestKeeps
<1> QED BY <1>1, <1>2, StutterKeeps DEF Next

-----------------------------------------------------------------------------
(* Theorems.                                                               *)

THEOREM Invariant == Spec => []IInv
BY InitIInv, NextIInv, PTL DEF Spec

(* However the requests for different shipments interleave, abort and      *)
(* crash, and however the payer's balances race, the escrow account of a   *)
(* shipment whose own requests have not overlapped holds exactly what its  *)
(* status says.                                                            *)
THEOREM Backing == Spec => []EscrowBacked
<1>1. IInv => EscrowBacked
  BY CoveredIsBacked DEF IInv
<1> QED BY <1>1, Invariant, PTL

-----------------------------------------------------------------------------
(* Refinement of the contract.                                             *)

LEMMA InitRefines == Init => Contract!Init
<1> SUFFICES ASSUME Init PROVE Contract!Init
  OBVIOUS
<1>1. PICK seed \in Seeds : ledger = [balance |-> seed, posted |-> {}]
  BY DEF Init
<1>2. \A s \in Shipments : seed[ShipmentEscrow(s)] = 0
  BY EscrowAssumption
<1> QED BY <1>1, <1>2 DEF Init, Contract!Init, Deal, NoRow

(* A write is a transition of the contract, or invisible once requests for *)
(* the shipment have overlapped.                                           *)
LEMMA WriteRefines ==
    ASSUME IInv, NEW p \in Sessions, NEW s \in Shipments, Writes(p, s)
    PROVE  Contract!Next \/ UNCHANGED Deal
<1> DEFINE held == ledger.balance[ShipmentEscrow(s)]
           after == ledger'.balance[ShipmentEscrow(s)]
<1>1. PICK row \in EscrowRow :
         /\ escrow' = [escrow EXCEPT ![s] = row]
         /\ s \notin overlapped =>
               Transition(s, escrow[s].status, held, row.status, after)
  BY DEF Writes
<1>2. escrow'[s] = row /\ \A x \in Shipments \ {s} : escrow'[x] = escrow[x]
  BY <1>1 DEF IInv, Typed
<1>3. \A x \in Shipments : ledger.balance[ShipmentEscrow(x)] \in Int
  BY EscrowAccounts DEF IInv, Typed, LedgerType
<1>4. \A x \in Shipments \ {s} :
         ledger'.balance[ShipmentEscrow(x)] = ledger.balance[ShipmentEscrow(x)]
  BY <1>3 DEF Writes, Moves
<1>5. overlapped' = overlapped
  BY DEF Writes
<1>6. CASE s \in overlapped
  BY <1>2, <1>4, <1>5, <1>6 DEF Deal
<1>7. CASE s \notin overlapped
  <2>1. Deal' = [Deal EXCEPT ![s] = [status |-> row.status, held |-> after]]
    BY <1>2, <1>4, <1>5, <1>7 DEF Deal
  <2>2. Deal[s].status = escrow[s].status /\ Deal[s].held = held /\ held \in Int
    BY <1>3, <1>7 DEF Deal
  <2>3. Holds(s, escrow[s].status, held)
    BY <1>7 DEF IInv, Covered
  <2>4. Transition(s, escrow[s].status, held, row.status, after)
    BY <1>1, <1>7
  <2> HIDE DEF held, after
  <2>5. Contract!Become(s, row.status, after)
    BY <2>1 DEF Contract!Become
  <2>6. CASE escrow[s].status = "NONE" /\ row.status = "CREATED" /\ after = held
    BY <2>2, <2>3, <2>5, <2>6 DEF Contract!Next, Contract!Create, Holds
  <2>7. CASE escrow[s].status = "CREATED" /\ row.status = "FUNDED" /\ after = Gross[s]
    BY <2>2, <2>5, <2>7 DEF Contract!Next, Contract!Fund
  <2>8. CASE escrow[s].status = "FUNDED" /\ row.status = "DISPUTE_WINDOW" /\ after = held
    BY <2>2, <2>5, <2>8 DEF Contract!Next, Contract!Deliver
  <2>9. CASE escrow[s].status = "DISPUTE_WINDOW" /\ row.status = "FROZEN" /\ after = held
    BY <2>2, <2>5, <2>9 DEF Contract!Next, Contract!Freeze
  <2>10. CASE CanRelease(escrow[s].status) /\ row.status = "RELEASED" /\ after = 0
    BY <2>2, <2>5, <2>10 DEF Contract!Next, Contract!Release, CanRelease
  <2>11. CASE CanRefund(escrow[s].status) /\ row.status = "REFUNDED" /\ after = 0
    BY <2>2, <2>5, <2>11 DEF Contract!Next, Contract!RefundAll, Contract!Refundable, CanRefund
  <2>12. CASE /\ CanRefund(escrow[s].status) /\ row.status = "PARTIALLY_REFUNDED"
              /\ \E n \in Int : n > 0 /\ n < held /\ after = held - n
    <3>1. PICK n \in 1 .. held - 1 : after = held - n
      BY <2>2, <2>12
    <3>2. Contract!Refundable(s)
      BY <2>2, <2>12 DEF Contract!Refundable, CanRefund
    <3>3. Contract!RefundSome(s)
      BY <2>2, <2>5, <2>12, <3>1, <3>2 DEF Contract!RefundSome
    <3> QED BY <3>3 DEF Contract!Next
  <2> QED BY <2>4, <2>6, <2>7, <2>8, <2>9, <2>10, <2>11, <2>12 DEF Transition
<1> QED BY <1>6, <1>7

(* A request that arrives is invisible, unless it is the one that overlaps *)
(* another request for its shipment.                                       *)
LEMMA BeginRefines ==
    ASSUME IInv, NEW p \in Sessions, NEW s \in Shipments, NEW op, NEW arg,
           GetByShipmentID(p, op, s, arg)
    PROVE  Contract!Next \/ UNCHANGED Deal
<1>1. overlapped' = overlapped \/ overlapped' = overlapped \cup {s}
  BY DEF GetByShipmentID
<1>2. UNCHANGED <<ledger, escrow>>
  BY DEF GetByShipmentID
<1>3. CASE overlapped' = overlapped
  BY <1>2, <1>3 DEF Deal
<1>4. CASE overlapped' = overlapped \cup {s}
  <2>1. Deal' = [Deal EXCEPT ![s] = Contract!Void]
    BY <1>2, <1>4 DEF Deal, Contract!Void
  <2> QED BY <2>1 DEF Contract!Next, Contract!Overlap
<1> QED BY <1>1, <1>3, <1>4

LEMMA NextRefines == IInv /\ [Next]_vars => [Contract!Next]_Deal
<1> SUFFICES ASSUME IInv, [Next]_vars PROVE Contract!Next \/ UNCHANGED Deal
  OBVIOUS
<1>1. ASSUME NEW p \in Sessions, Continue(p)
      PROVE  Contract!Next \/ UNCHANGED Deal
  <2>1. CASE \E s \in Shipments : Writes(p, s)
    BY <2>1, WriteRefines
  <2>2. CASE \/ ReadPromoBalance(p) \/ ReadWalletBalance(p) \/ EscrowBalance(p)
             \/ EmitEscrowStatus(p) \/ Abort(p)
    BY <2>2 DEF ReadPromoBalance, ReadWalletBalance, EscrowBalance, EmitEscrowStatus,
                Abort, Deal
  <2> QED BY <1>1, <2>1, <2>2, ContinueCases
<1>2. ASSUME NEW p \in Sessions, NEW s \in Shipments, Request(p, s)
      PROVE  Contract!Next \/ UNCHANGED Deal
  <2>1. CASE CreateEscrow(p, s)
    BY <2>1, CreateEscrowWrites, WriteRefines
  <2>2. CASE \E op, arg : GetByShipmentID(p, op, s, arg)
    BY <2>2, BeginRefines
  <2> QED BY <1>2, <2>1, <2>2
          DEF Request, FundEscrow, PayFromWallet, MarkDelivered, FreezeEscrow,
              ReleaseEscrow, RefundEscrow, PartialRefundEscrow
<1>3. CASE UNCHANGED vars
  BY <1>3 DEF vars, Deal
<1> QED BY <1>1, <1>2, <1>3 DEF Next

(* Seen from outside, every shipment goes through the statuses of          *)
(* EscrowContract with its money changing in the same step, until two      *)
(* requests for it overlap: FundEscrow and PayFromWallet bring the agreed  *)
(* amount in, ReleaseEscrow and RefundEscrow take all of it out,           *)
(* PartialRefundEscrow takes a part and MarkDelivered and FreezeEscrow     *)
(* touch none of it.                                                       *)
THEOREM Refinement == Spec => ImplementsContract
BY Invariant, InitRefines, NextRefines, PTL DEF Spec, ImplementsContract, Contract!Spec

-----------------------------------------------------------------------------
(* Double entry: a journal that may be posted moves money and makes none.  *)

LEMMA AccountsFinite == IsFiniteSet(Accounts)
<1>1. IsFiniteSet(Users) /\ IsFiniteSet(Shipments)
  BY EscrowAssumption
<1>2. IsFiniteSet({"WALLET_LIABILITY", "PROMO_CREDIT_LIABILITY"} \X Users)
  <2>1. IsFiniteSet({"WALLET_LIABILITY"} \cup {"PROMO_CREDIT_LIABILITY"})
    BY FS_Singleton, FS_Union
  <2>2. {"WALLET_LIABILITY"} \cup {"PROMO_CREDIT_LIABILITY"}
            = {"WALLET_LIABILITY", "PROMO_CREDIT_LIABILITY"}
    OBVIOUS
  <2> QED BY <1>1, <2>1, <2>2, FS_Product
<1>3. IsFiniteSet({"ESCROW"} \X Shipments)
  BY <1>1, FS_Singleton, FS_Product
<1>4. IsFiniteSet(SystemAccounts \X {None})
  <2>1. SystemAccounts = {"IR_PSP_CLEARING"} \cup {"IR_BANK_MAIN"} \cup
            {"IR_PAYOUT_CLEARING"} \cup {"AIRBAR_FEE_REVENUE"} \cup {"AIRBAR_PROMO_EXPENSE"}
    BY DEF SystemAccounts
  <2>2. IsFiniteSet({"IR_PSP_CLEARING"} \cup {"IR_BANK_MAIN"})
    BY FS_Singleton, FS_Union
  <2>3. IsFiniteSet({"IR_PSP_CLEARING"} \cup {"IR_BANK_MAIN"} \cup {"IR_PAYOUT_CLEARING"})
    BY <2>2, FS_Singleton, FS_Union
  <2>4. IsFiniteSet({"IR_PSP_CLEARING"} \cup {"IR_BANK_MAIN"} \cup {"IR_PAYOUT_CLEARING"}
                        \cup {"AIRBAR_FEE_REVENUE"})
    BY <2>3, FS_Singleton, FS_Union
  <2>5. IsFiniteSet(SystemAccounts)
    BY <2>1, <2>4, FS_Singleton, FS_Union
  <2> QED BY <2>5, FS_Singleton, FS_Product
<1>5. IsFiniteSet(({"WALLET_LIABILITY", "PROMO_CREDIT_LIABILITY"} \X Users)
                      \cup ({"ESCROW"} \X Shipments))
  BY <1>2, <1>3, FS_Union
<1> QED BY <1>4, <1>5, FS_Union DEF Accounts

(* ValidateLines is enough: equal totals leave the sum of all balances, on *)
(* which RunReconciliation's verdict rests, as it was.                     *)
LEMMA PostBalances ==
    ASSUME NEW l \in LedgerType, NEW j, JournalType(j),
           DOMAIN j.lines \subseteq Accounts, CanPost(l, j)
    PROVE  SumFunction(Post(l, j).balance) = SumFunction(l.balance)
<1> DEFINE D == DOMAIN j.lines
           added == [a \in Accounts |-> Added(j, a)]
           debit == [a \in D |-> j.lines[a].debit]
           credit == [a \in D |-> j.lines[a].credit]
           after == Post(l, j).balance
<1>1. IsFiniteSet(Accounts) /\ IsFiniteSet(D)
  BY AccountsFinite, FS_Subset
<1>2. \A a \in D : j.lines[a].debit \in Int /\ j.lines[a].credit \in Int
  BY DEF JournalType
<1>3. \A a \in Accounts : /\ added[a] \in Int /\ l.balance[a] \in Int
                          /\ after[a] = l.balance[a] + added[a]
  BY <1>2, PostAdds DEF Added, LedgerType
<1>4. \A a \in D : /\ added[a] \in Int /\ debit[a] \in Int
                   /\ credit[a] = added[a] + debit[a]
  BY <1>2 DEF Added
<1>5. \A a \in Accounts \ D : added[a] = 0
  BY DEF Added
<1>6. SumFunctionOnSet(debit, D) = SumFunctionOnSet(credit, D)
  <2>1. TotalDebit(j.lines) = TotalCredit(j.lines)
    BY DEF CanPost, ValidateLines
  <2> QED BY <2>1 DEF TotalDebit, TotalCredit, SumFunction
<1>7. DOMAIN after = Accounts /\ DOMAIN l.balance = Accounts
  BY PostAdds DEF LedgerType
<1> HIDE DEF added, debit, credit, D, after
<1>8. SumFunctionOnSet(added, D) \in Int /\ SumFunctionOnSet(debit, D) \in Int
  BY <1>1, <1>4, SumType
<1>9. SumFunctionOnSet(credit, D) = SumFunctionOnSet(added, D) + SumFunctionOnSet(debit, D)
  BY <1>1, <1>4, SumPlus
<1>10. SumFunctionOnSet(added, D) = 0
  BY <1>6, <1>8, <1>9
<1>11. SumFunctionOnSet(added, Accounts) = 0
  <2>1. D \in SUBSET Accounts
    BY DEF D
  <2> QED BY <1>1, <1>3, <1>5, <1>10, <2>1, SumOver
<1>12. SumFunctionOnSet(after, Accounts) =
           SumFunctionOnSet(l.balance, Accounts) + SumFunctionOnSet(added, Accounts)
  BY <1>1, <1>3, SumPlus
<1>13. SumFunctionOnSet(l.balance, Accounts) \in Int
  BY <1>1, <1>3, SumType
<1>14. SumFunctionOnSet(after, Accounts) = SumFunctionOnSet(l.balance, Accounts)
  BY <1>11, <1>12, <1>13
<1> QED BY <1>7, <1>14 DEF after, SumFunction

-----------------------------------------------------------------------------
(* What each transaction does to the whole ledger: m is l after it.        *)

(* The balances of the accounts change by d, an account not named by 0.    *)
Shifts(l, m, d) ==
    \A a \in Accounts :
        m.balance[a] = l.balance[a] + (IF a \in DOMAIN d THEN d[a] ELSE 0)

(* The references are new, and are those the transaction posts.            *)
Adds(l, m, refs) == refs \cap l.posted = {} /\ m.posted = l.posted \cup refs

FundRefs(s, o) == {<<"PSP_TO_WALLET", s, "psp-wallet", o>>,
                   <<"WALLET_TO_ESCROW", s, "wallet-escrow", o>>}

PayRef(s, split) == <<RefTypeForEscrowPay(split), s, "wallet-pay", None>>

ReleaseRef(s) == <<"ESCROW_RELEASE", s, "release", None>>

PromoRef(s, n) == <<"ESCROW_REFUND_PROMO_CREDIT", s, "refund-promo", n>>
WalletRef(s, n) == <<"ESCROW_REFUND_WALLET", s, "refund-wallet", n>>

RefundRefs(s, part) ==
    (IF part.promo > 0 THEN {PromoRef(s, part.promo)} ELSE {})
        \cup (IF part.wallet > 0 THEN {WalletRef(s, part.wallet)} ELSE {})

Funded(l, m, s, o) ==
    /\ Shifts(l, m, [a \in {ShipmentEscrow(s), Account("IR_PSP_CLEARING")} |->
                        IF a = ShipmentEscrow(s) THEN Gross[s] ELSE - Gross[s]])
    /\ Adds(l, m, FundRefs(s, o))

Paid(l, m, s, split) ==
    /\ split \in [promo : Nat, wallet : Nat]
    /\ split.promo + split.wallet = Gross[s]
    /\ Shifts(l, m, [a \in {ShipmentEscrow(s), UserPromoCredit(Payer[s]),
                            UserWallet(Payer[s])} |->
                        IF a = ShipmentEscrow(s) THEN Gross[s]
                        ELSE IF a = UserPromoCredit(Payer[s]) THEN - split.promo
                        ELSE - split.wallet])
    /\ Adds(l, m, {PayRef(s, split)})

Released(l, m, s, n) ==
    /\ \E fee \in 0 .. n :
          Shifts(l, m, [a \in {ShipmentEscrow(s), Account("AIRBAR_FEE_REVENUE"),
                               UserWallet(Carrier[s])} |->
                           IF a = ShipmentEscrow(s) THEN - n
                           ELSE IF a = UserWallet(Carrier[s]) THEN n - fee
                           ELSE fee])
    /\ Adds(l, m, {ReleaseRef(s)})

Refunded(l, m, s, part) ==
    /\ Shifts(l, m, [a \in {ShipmentEscrow(s), UserPromoCredit(Payer[s]),
                            UserWallet(Payer[s])} |->
                        IF a = ShipmentEscrow(s) THEN -(part.promo + part.wallet)
                        ELSE IF a = UserPromoCredit(Payer[s]) THEN part.promo
                        ELSE part.wallet])
    /\ Adds(l, m, RefundRefs(s, part))

LEMMA AccountsDiffer ==
    ASSUME NEW s \in Shipments, NEW u \in Users
    PROVE  /\ ShipmentEscrow(s) \in Accounts
           /\ UserWallet(u) \in Accounts /\ UserPromoCredit(u) \in Accounts
           /\ \A n \in SystemAccounts :
                 /\ Account(n) \in Accounts
                 /\ Account(n) # ShipmentEscrow(s)
                 /\ Account(n) # UserWallet(u) /\ Account(n) # UserPromoCredit(u)
           /\ ShipmentEscrow(s) # UserWallet(u) /\ ShipmentEscrow(s) # UserPromoCredit(u)
           /\ UserWallet(u) # UserPromoCredit(u)
BY DEF ShipmentEscrow, UserWallet, UserPromoCredit, Account, Accounts, SystemAccounts

LEMMA Parties ==
    ASSUME NEW s \in Shipments
    PROVE  Payer[s] \in Users /\ Carrier[s] \in Users /\ Gross[s] \in Nat /\ Gross[s] > 0
BY EscrowAssumption

LEMMA FundEffect ==
    ASSUME NEW l \in LedgerType, NEW s \in Shipments, NEW o \in Orders,
           CanPost(l, PSPToWallet(s, o)),
           CanPost(Post(l, PSPToWallet(s, o)), WalletToEscrow(s, o))
    PROVE  LET m == Post(Post(l, PSPToWallet(s, o)), WalletToEscrow(s, o)) IN
           /\ Funded(l, m, s, o)
           /\ m \in LedgerType /\ SumFunction(m.balance) = SumFunction(l.balance)
<1> DEFINE in == PSPToWallet(s, o)
           out == WalletToEscrow(s, o)
           between == Post(l, in)
           m == Post(between, out)
           w == UserWallet(Payer[s])
           e == ShipmentEscrow(s)
           c == Account("IR_PSP_CLEARING")
<1>1. Gross[s] \in Int /\ Payer[s] \in Users
  BY Parties
<1>2. w \in Accounts /\ e \in Accounts /\ c \in Accounts /\ c # w /\ w # e /\ c # e
  BY <1>1, AccountsDiffer DEF SystemAccounts
<1>3. in.ref \in AnyRefs /\ out.ref \in AnyRefs
  BY DEF PSPToWallet, WalletToEscrow, Journal, AnyRefs, Refs, RefTypes
<1>4. /\ JournalType(in) /\ DOMAIN in.lines \subseteq Accounts
      /\ \A a \in Accounts :
            Added(in, a) = IF a = c THEN - Gross[s] ELSE IF a = w THEN Gross[s] ELSE 0
  <2>1. DOMAIN in.lines = {c, w}
    BY DEF PSPToWallet, Journal, Move
  <2> QED BY <1>1, <1>2, <1>3, <2>1, MoveLines DEF PSPToWallet, Journal
<1>5. /\ JournalType(out) /\ DOMAIN out.lines \subseteq Accounts
      /\ \A a \in Accounts :
            Added(out, a) = IF a = w THEN - Gross[s] ELSE IF a = e THEN Gross[s] ELSE 0
  <2>1. DOMAIN out.lines = {w, e}
    BY DEF WalletToEscrow, Journal, Move
  <2> QED BY <1>1, <1>2, <1>3, <2>1, MoveLines DEF WalletToEscrow, Journal
<1>6. in.ref # out.ref /\ {in.ref, out.ref} = FundRefs(s, o)
  BY DEF PSPToWallet, WalletToEscrow, Journal, FundRefs
<1> HIDE DEF in, out, w, e, c
<1>7. /\ between \in LedgerType
      /\ \A a \in Accounts : between.balance[a] = l.balance[a] + Added(in, a)
      /\ between.posted = l.posted \cup {in.ref}
  BY <1>4, PostAdds DEF Post
<1> HIDE DEF between
<1>8. /\ m \in LedgerType
      /\ \A a \in Accounts : m.balance[a] = between.balance[a] + Added(out, a)
      /\ m.posted = between.posted \cup {out.ref}
  BY <1>5, <1>7, PostAdds DEF Post
<1>9. SumFunction(m.balance) = SumFunction(l.balance)
  BY <1>4, <1>5, <1>7, PostBalances DEF in, out, between
<1>10. in.ref \notin l.posted /\ out.ref \notin between.posted
  BY DEF CanPost, in, out, between
<1> HIDE DEF m
<1>11. Adds(l, m, FundRefs(s, o))
  BY <1>6, <1>7, <1>8, <1>10 DEF Adds
<1>12. \A a \in Accounts :
          m.balance[a] = l.balance[a] + (IF a = e THEN Gross[s]
                                         ELSE IF a = c THEN - Gross[s] ELSE 0)
  <2>1. \A a \in Accounts : l.balance[a] \in Int
    BY DEF LedgerType
  <2> QED BY <1>1, <1>2, <1>4, <1>5, <1>7, <1>8, <2>1
<1>13. Funded(l, m, s, o)
  BY <1>11, <1>12 DEF Funded, Shifts, e, c
<1> QED BY <1>8, <1>9, <1>13 DEF m, between, in, out

(* A wallet payment that ValidateLines lets pass is made of two parts that *)
(* are not negative, even if the promo balance read was.                   *)
LEMMA SplitPays ==
    ASSUME NEW l, NEW s \in Shipments, NEW promoBalance \in Int,
           CanPost(l, EscrowPay(s, ResolvePayerFundingSplit(Gross[s], promoBalance)))
    PROVE  LET split == ResolvePayerFundingSplit(Gross[s], promoBalance) IN
           /\ split \in [promo : Nat, wallet : Nat]
           /\ split.promo + split.wallet = Gross[s]
           /\ split.promo > 0 => split.promo <= promoBalance
<1> DEFINE split == ResolvePayerFundingSplit(Gross[s], promoBalance)
           e == ShipmentEscrow(s)
           w == UserWallet(Payer[s])
           c == UserPromoCredit(Payer[s])
           lines == EscrowPayLines(s, split)
<1>1. Gross[s] \in Int /\ Gross[s] > 0 /\ Payer[s] \in Users
  BY Parties
<1>2. e # w /\ e # c /\ w # c
  BY <1>1, AccountsDiffer
<1>3. /\ split \in [promo : Int, wallet : Int]
      /\ split.promo + split.wallet = Gross[s]
      /\ split.promo <= promoBalance /\ split.promo <= Gross[s]
  BY <1>1 DEF ResolvePayerFundingSplit, AtMost
<1>4. split.promo >= 0
  <2> SUFFICES ASSUME split.promo < 0 PROVE FALSE
    BY <1>3
  <2> HIDE DEF split
  <2>1. split.wallet > 0 /\ split.wallet # Gross[s]
    BY <1>1, <1>3
  <2> DEFINE debit == [a \in DOMAIN lines |-> lines[a].debit]
             credit == [a \in DOMAIN lines |-> lines[a].credit]
  <2>2. DOMAIN lines = {w, e} /\ lines[w] = Debit(split.wallet) /\ lines[e] = Credit(Gross[s])
    BY <1>2, <1>3, <2>1 DEF EscrowPayLines
  <2>3. /\ DOMAIN debit = {w, e} /\ DOMAIN credit = {w, e}
        /\ debit[w] = split.wallet /\ debit[e] = 0
        /\ credit[w] = 0 /\ credit[e] = Gross[s]
    BY <2>2 DEF Debit, Credit
  <2>4. SumFunction(debit) = SumFunction(credit)
    BY DEF CanPost, ValidateLines, TotalDebit, TotalCredit, EscrowPay, Journal, split
  <2> HIDE DEF debit, credit, lines, w, e
  <2>5. SumFunctionOnSet(debit, {w, e}) = split.wallet + 0
    BY <1>2, <1>3, <2>3, SumPair
  <2>6. SumFunctionOnSet(credit, {w, e}) = 0 + Gross[s]
    BY <1>1, <1>2, <2>3, SumPair
  <2>7. SumFunctionOnSet(debit, {w, e}) = SumFunctionOnSet(credit, {w, e})
    BY <2>3, <2>4 DEF SumFunction
  <2> QED BY <1>1, <1>3, <2>1, <2>5, <2>6, <2>7
<1> HIDE DEF split
<1>5. split.wallet >= 0
  BY <1>1, <1>3
<1> QED BY <1>3, <1>4, <1>5 DEF split

LEMMA PayEffect ==
    ASSUME NEW l \in LedgerType, NEW s \in Shipments, NEW promoBalance \in Int,
           CanPost(l, EscrowPay(s, ResolvePayerFundingSplit(Gross[s], promoBalance)))
    PROVE  LET split == ResolvePayerFundingSplit(Gross[s], promoBalance)
               m == Post(l, EscrowPay(s, split))
           IN  /\ Paid(l, m, s, split)
               /\ m \in LedgerType /\ SumFunction(m.balance) = SumFunction(l.balance)
<1> DEFINE split == ResolvePayerFundingSplit(Gross[s], promoBalance)
           e == ShipmentEscrow(s)
           w == UserWallet(Payer[s])
           c == UserPromoCredit(Payer[s])
           j == EscrowPay(s, split)
           m == Post(l, j)
<1>1. Gross[s] \in Int /\ Payer[s] \in Users
  BY Parties
<1>2. e \in Accounts /\ w \in Accounts /\ c \in Accounts /\ e # w /\ e # c /\ w # c
  BY <1>1, AccountsDiffer
<1>3. split \in [promo : Nat, wallet : Nat] /\ split.promo + split.wallet = Gross[s]
  BY SplitPays
<1>4. CanPost(l, j)
  OBVIOUS
<1> HIDE DEF split
<1>5. j.ref = PayRef(s, split) /\ j.ref \in AnyRefs
  BY DEF EscrowPay, Journal, RefTypeForEscrowPay, PayRef, AnyRefs, Refs, RefTypes
<1>6. /\ DOMAIN j.lines \subseteq Accounts
      /\ \A a \in DOMAIN j.lines : j.lines[a] \in [debit : Int, credit : Int]
      /\ \A a \in Accounts :
            Added(j, a) = IF a = e THEN Gross[s]
                          ELSE IF a = c THEN - split.promo
                          ELSE IF a = w THEN - split.wallet ELSE 0
  BY <1>1, <1>2, <1>3 DEF EscrowPay, Journal, EscrowPayLines, Debit, Credit, Added
<1>7. JournalType(j)
  BY <1>5, <1>6 DEF JournalType
<1>8. m.posted = l.posted \cup {j.ref} /\ j.ref \notin l.posted
  BY <1>4 DEF Post, CanPost
<1> HIDE DEF e, w, c, j
<1>9. /\ m \in LedgerType
      /\ \A a \in Accounts : m.balance[a] = l.balance[a] + Added(j, a)
      /\ SumFunction(m.balance) = SumFunction(l.balance)
  BY <1>4, <1>6, <1>7, PostAdds, PostBalances
<1> HIDE DEF m
<1>10. Adds(l, m, {PayRef(s, split)})
  BY <1>5, <1>8 DEF Adds
<1>11. Paid(l, m, s, split)
  BY <1>3, <1>6, <1>9, <1>10 DEF Paid, Shifts, e, w, c
<1> QED BY <1>9, <1>11 DEF m, j, split

(* The fee is a part of what is released, however high the percentage.     *)
LEMMA FeeIsPart ==
    ASSUME NEW n \in Nat
    PROVE  CalcPlatformFee(n) \in 0 .. n
<1>1. (n * FeePercent) \div 100 \in Int
  BY EscrowAssumption
<1> QED BY <1>1 DEF CalcPlatformFee, AtMost, AtLeast

LEMMA ReleaseEffect ==
    ASSUME NEW l \in LedgerType, NEW s \in Shipments, NEW n \in Nat,
           CanPost(l, EscrowRelease(s, n))
    PROVE  LET m == Post(l, EscrowRelease(s, n)) IN
           /\ Released(l, m, s, n)
           /\ m \in LedgerType /\ SumFunction(m.balance) = SumFunction(l.balance)
<1> DEFINE e == ShipmentEscrow(s)
           w == UserWallet(Carrier[s])
           r == Account("AIRBAR_FEE_REVENUE")
           fee == CalcPlatformFee(n)
           j == EscrowRelease(s, n)
           m == Post(l, j)
<1>1. Carrier[s] \in Users /\ fee \in 0 .. n
  BY Parties, FeeIsPart
<1>2. e \in Accounts /\ w \in Accounts /\ r \in Accounts /\ e # w /\ e # r /\ w # r
  BY <1>1, AccountsDiffer DEF SystemAccounts
<1> HIDE DEF fee
<1>3. j.ref = ReleaseRef(s) /\ j.ref \in AnyRefs
  BY DEF EscrowRelease, Journal, ReleaseRef, AnyRefs, Refs, RefTypes
<1>4. /\ DOMAIN j.lines \subseteq Accounts
      /\ \A a \in DOMAIN j.lines : j.lines[a] \in [debit : Int, credit : Int]
      /\ \A a \in Accounts :
            Added(j, a) = IF a = e THEN - n ELSE IF a = w THEN n - fee
                          ELSE IF a = r THEN fee ELSE 0
  BY <1>1, <1>2 DEF EscrowRelease, Journal, Debit, Credit, Added, fee
<1>5. JournalType(j)
  BY <1>3, <1>4 DEF JournalType
<1>6. m.posted = l.posted \cup {j.ref} /\ j.ref \notin l.posted
  BY DEF Post, CanPost
<1> HIDE DEF e, w, r, j
<1>7. /\ m \in LedgerType
      /\ \A a \in Accounts : m.balance[a] = l.balance[a] + Added(j, a)
      /\ SumFunction(m.balance) = SumFunction(l.balance)
  BY <1>4, <1>5, PostAdds, PostBalances DEF j
<1> HIDE DEF m
<1>8. Adds(l, m, {ReleaseRef(s)})
  BY <1>3, <1>6 DEF Adds
<1>9. Released(l, m, s, n)
  BY <1>1, <1>4, <1>7, <1>8 DEF Released, Shifts, e, w, r
<1> QED BY <1>7, <1>9 DEF m, j

LEMMA RefundEffect ==
    ASSUME NEW l \in LedgerType, NEW s \in Shipments,
           NEW part \in [promo : Nat, wallet : Nat], CanPostRefund(l, s, part)
    PROVE  LET m == PostRefund(l, s, part) IN
           /\ Refunded(l, m, s, part)
           /\ m \in LedgerType /\ SumFunction(m.balance) = SumFunction(l.balance)
<1> DEFINE e == ShipmentEscrow(s)
           w == UserWallet(Payer[s])
           c == UserPromoCredit(Payer[s])
           promo == RefundPromo(s, part.promo)
           wallet == RefundWallet(s, part.wallet)
           between == IF part.promo > 0 THEN Post(l, promo) ELSE l
           m == PostRefund(l, s, part)
<1>1. Payer[s] \in Users
  BY Parties
<1>2. e \in Accounts /\ w \in Accounts /\ c \in Accounts /\ e # w /\ e # c /\ w # c
  BY <1>1, AccountsDiffer
<1>3. /\ promo.ref = PromoRef(s, part.promo) /\ wallet.ref = WalletRef(s, part.wallet)
      /\ promo.ref \in AnyRefs /\ wallet.ref \in AnyRefs /\ promo.ref # wallet.ref
  BY DEF RefundPromo, RefundWallet, Journal, PromoRef, WalletRef, AnyRefs, Refs, RefTypes
<1>4. /\ JournalType(promo) /\ DOMAIN promo.lines \subseteq Accounts
      /\ \A a \in Accounts :
            Added(promo, a) = IF a = e THEN - part.promo ELSE IF a = c THEN part.promo ELSE 0
  <2>1. DOMAIN promo.lines = {e, c}
    BY DEF RefundPromo, Journal, Move
  <2> QED BY <1>2, <1>3, <2>1, MoveLines DEF RefundPromo, Journal
<1>5. /\ JournalType(wallet) /\ DOMAIN wallet.lines \subseteq Accounts
      /\ \A a \in Accounts :
            Added(wallet, a) = IF a = e THEN - part.wallet ELSE IF a = w THEN part.wallet ELSE 0
  <2>1. DOMAIN wallet.lines = {e, w}
    BY DEF RefundWallet, Journal, Move
  <2> QED BY <1>2, <1>3, <2>1, MoveLines DEF RefundWallet, Journal
<1>6. /\ part.promo > 0 => CanPost(l, promo)
      /\ part.wallet > 0 => CanPost(l, wallet)
  BY DEF CanPostRefund
<1>7. m = IF part.wallet > 0 THEN Post(between, wallet) ELSE between
  BY DEF PostRefund
<1> DEFINE first == IF part.promo > 0 THEN {promo.ref} ELSE {}
           second == IF part.wallet > 0 THEN {wallet.ref} ELSE {}
<1>8. first \cup second = RefundRefs(s, part)
  BY <1>3 DEF RefundRefs
<1> HIDE DEF e, w, c, promo, wallet, m
<1>9. \A a \in Accounts : l.balance[a] \in Int
  BY DEF LedgerType
<1>10. /\ between \in LedgerType
       /\ \A a \in Accounts :
             between.balance[a] =
                 l.balance[a] + (IF a = e THEN - part.promo ELSE IF a = c THEN part.promo ELSE 0)
       /\ between.posted = l.posted \cup first
       /\ SumFunction(between.balance) = SumFunction(l.balance)
  <2>1. CASE part.promo > 0
    <3>1. Post(l, promo).posted = l.posted \cup {promo.ref}
      BY DEF Post
    <3> QED BY <1>4, <1>6, <2>1, <3>1, PostAdds, PostBalances
  <2>2. CASE part.promo = 0
    BY <1>9, <2>2
  <2> QED BY <2>1, <2>2
<1>11. part.wallet > 0 => CanPost(between, wallet)
  BY <1>3, <1>6 DEF CanPost, Post
<1> HIDE DEF between
<1>12. \A a \in Accounts : between.balance[a] \in Int
  BY <1>10 DEF LedgerType
<1>13. /\ m \in LedgerType
       /\ \A a \in Accounts :
             m.balance[a] = between.balance[a]
                 + (IF a = e THEN - part.wallet ELSE IF a = w THEN part.wallet ELSE 0)
       /\ m.posted = between.posted \cup second
       /\ SumFunction(m.balance) = SumFunction(between.balance)
  <2>1. CASE part.wallet > 0
    <3>1. Post(between, wallet).posted = between.posted \cup {wallet.ref}
      BY DEF Post
    <3>2. m = Post(between, wallet)
      BY <1>7, <2>1
    <3> QED BY <1>5, <1>10, <1>11, <2>1, <3>1, <3>2, PostAdds, PostBalances
  <2>2. CASE part.wallet = 0
    BY <1>7, <1>10, <1>12, <2>2
  <2> QED BY <2>1, <2>2
<1>14. Adds(l, m, RefundRefs(s, part))
  <2>1. (first \cup second) \cap l.posted = {}
    BY <1>6 DEF CanPost
  <2> QED BY <1>8, <1>10, <1>13, <2>1 DEF Adds
<1>15. \A a \in Accounts :
          m.balance[a] = l.balance[a]
              + (IF a = e THEN -(part.promo + part.wallet)
                 ELSE IF a = c THEN part.promo ELSE IF a = w THEN part.wallet ELSE 0)
  BY <1>2, <1>9, <1>10, <1>13
<1>16. Refunded(l, m, s, part)
  BY <1>14, <1>15 DEF Refunded, Shifts, e, w, c
<1> QED BY <1>10, <1>13, <1>16 DEF m

(* The four kinds of commit, and no other step, change the ledger.         *)
LEMMA FundEscrowEffect ==
    ASSUME IInv, NEW p \in Sessions, FundEscrowCommit(p)
    PROVE  /\ tx[p].ship \in Shipments /\ tx[p].arg \in Orders
           /\ Funded(ledger, ledger', tx[p].ship, tx[p].arg)
           /\ SumFunction(ledger'.balance) = SumFunction(ledger.balance)
<1>1. tx[p].ship \in Shipments /\ InFlight(tx[p], tx[p].ship) /\ tx[p].op = "FundEscrow"
  BY ShipInFlight DEF FundEscrowCommit, At
<1>2. WellFormed(tx[p]) /\ ledger \in LedgerType
  BY <1>1, BeforeWrite
<1>3. tx[p].arg \in Orders
  BY <1>1, <1>2 DEF WellFormed
<1> QED BY <1>1, <1>2, <1>3, FundEffect DEF FundEscrowCommit, CommitTx

LEMMA PayFromWalletEffect ==
    ASSUME IInv, NEW p \in Sessions, PayFromWalletCommit(p)
    PROVE  LET split == ResolvePayerFundingSplit(Gross[tx[p].ship], tx[p].promo) IN
           /\ tx[p].ship \in Shipments
           /\ Paid(ledger, ledger', tx[p].ship, split)
           /\ SumFunction(ledger'.balance) = SumFunction(ledger.balance)
           /\ split.promo > 0 => split.promo <= tx[p].promo
           /\ split.wallet <= tx[p].funds
<1>1. tx[p].ship \in Shipments /\ InFlight(tx[p], tx[p].ship)
  BY ShipInFlight DEF PayFromWalletCommit, At
<1>2. tx[p] \in Session /\ ledger \in LedgerType
  BY <1>1, BeforeWrite
<1>3. tx[p].promo \in Int /\ tx[p].funds \in Int
  BY <1>2 DEF Session
<1> DEFINE split == ResolvePayerFundingSplit(Gross[tx[p].ship], tx[p].promo)
<1>4. /\ CanPost(ledger, EscrowPay(tx[p].ship, split))
      /\ ledger' = Post(ledger, EscrowPay(tx[p].ship, split))
      /\ SufficientFunds(split, tx[p].funds)
  BY DEF PayFromWalletCommit, CommitTx
<1>5. /\ Paid(ledger, ledger', tx[p].ship, split)
      /\ SumFunction(ledger'.balance) = SumFunction(ledger.balance)
  BY <1>1, <1>2, <1>3, <1>4, PayEffect
<1>6. split.promo > 0 => split.promo <= tx[p].promo
  BY <1>1, <1>3, <1>4, SplitPays
<1>7. split \in [promo : Nat, wallet : Nat]
  BY <1>1, <1>3, <1>4, SplitPays
<1>8. split.wallet <= tx[p].funds
  BY <1>3, <1>4, <1>7 DEF SufficientFunds
<1> QED BY <1>1, <1>5, <1>6, <1>8

LEMMA ReleaseEscrowEffect ==
    ASSUME IInv, NEW p \in Sessions, ReleaseEscrowCommit(p)
    PROVE  /\ tx[p].ship \in Shipments /\ tx[p].funds \in Nat /\ tx[p].funds > 0
           /\ Released(ledger, ledger', tx[p].ship, tx[p].funds)
           /\ SumFunction(ledger'.balance) = SumFunction(ledger.balance)
<1>1. /\ tx[p].ship \in Shipments /\ InFlight(tx[p], tx[p].ship)
      /\ tx[p].op = "ReleaseEscrow" /\ tx[p].pc = "funds"
  BY ShipInFlight DEF ReleaseEscrowCommit, At
<1>2. tx[p] \in Session /\ WellFormed(tx[p]) /\ ledger \in LedgerType
  BY <1>1, BeforeWrite
<1>3. tx[p].funds \in Nat /\ tx[p].funds > 0
  BY <1>1, <1>2 DEF Session, WellFormed, BalanceOps
<1> QED BY <1>1, <1>2, <1>3, ReleaseEffect DEF ReleaseEscrowCommit, CommitTx

(* A refund, of the whole balance read or of the amount asked for.         *)
RefundsOf(p, n) ==
    \/ RefundEscrowCommit(p) /\ n = tx[p].funds
    \/ PartialRefundEscrowCommit(p) /\ n = tx[p].arg

LEMMA RefundEscrowEffect ==
    ASSUME IInv, NEW p \in Sessions, NEW n, RefundsOf(p, n)
    PROVE  LET part == RefundAllocation(n, tx[p].row.promo) IN
           /\ tx[p].ship \in Shipments /\ n \in Nat /\ n > 0 /\ n <= tx[p].funds
           /\ part \in [promo : Nat, wallet : Nat] /\ part.promo + part.wallet = n
           /\ Refunded(ledger, ledger', tx[p].ship, part)
           /\ SumFunction(ledger'.balance) = SumFunction(ledger.balance)
<1>1. /\ tx[p].ship \in Shipments /\ InFlight(tx[p], tx[p].ship)
      /\ tx[p].op \in {"RefundEscrow", "PartialRefundEscrow"} /\ tx[p].pc = "funds"
  BY ShipInFlight DEF RefundsOf, RefundEscrowCommit, PartialRefundEscrowCommit, At
<1>2. tx[p] \in Session /\ tx[p].row \in EscrowRow /\ WellFormed(tx[p]) /\ ledger \in LedgerType
  BY <1>1, BeforeWrite
<1>3. tx[p].funds \in Nat /\ tx[p].funds > 0
  BY <1>1, <1>2 DEF Session, WellFormed, BalanceOps
<1>4. n \in Nat /\ n > 0 /\ n <= tx[p].funds
  BY <1>1, <1>2, <1>3 DEF RefundsOf, RefundEscrowCommit, PartialRefundEscrowCommit, At, WellFormed
<1> DEFINE part == RefundAllocation(n, tx[p].row.promo)
<1>5. part \in [promo : Nat, wallet : Nat] /\ part.promo + part.wallet = n
  BY <1>2, <1>4, RefundAddsUp DEF EscrowRow
<1>6. CanPostRefund(ledger, tx[p].ship, part) /\ ledger' = PostRefund(ledger, tx[p].ship, part)
  BY DEF RefundsOf, RefundEscrowCommit, PartialRefundEscrowCommit, CommitRefund, CommitTx
<1> HIDE DEF part
<1>7. /\ Refunded(ledger, ledger', tx[p].ship, part)
      /\ SumFunction(ledger'.balance) = SumFunction(ledger.balance)
  BY <1>1, <1>2, <1>5, <1>6, RefundEffect
<1> QED BY <1>1, <1>4, <1>5, <1>7 DEF part

LEMMA OtherStepsPostNothing ==
    ASSUME [Next]_vars
    PROVE  \/ UNCHANGED ledger
           \/ \E p \in Sessions :
                 \/ FundEscrowCommit(p) \/ PayFromWalletCommit(p) \/ ReleaseEscrowCommit(p)
                 \/ \E n : RefundsOf(p, n)
<1>1. ASSUME NEW p \in Sessions, NEW s \in Shipments, Request(p, s)
      PROVE  UNCHANGED ledger
  BY <1>1 DEF Request, CreateEscrow, FundEscrow, PayFromWallet, MarkDelivered, FreezeEscrow,
              ReleaseEscrow, RefundEscrow, PartialRefundEscrow, GetByShipmentID
<1>2. ASSUME NEW p \in Sessions, Continue(p)
      PROVE  \/ UNCHANGED ledger
             \/ FundEscrowCommit(p) \/ PayFromWalletCommit(p) \/ ReleaseEscrowCommit(p)
             \/ \E n : RefundsOf(p, n)
  <2>1. CASE \/ MarkDeliveredUpdate(p) \/ FreezeEscrowUpdate(p) \/ EmitEscrowStatus(p)
             \/ ReadPromoBalance(p) \/ ReadWalletBalance(p) \/ EscrowBalance(p) \/ Abort(p)
    BY <2>1 DEF MarkDeliveredUpdate, FreezeEscrowUpdate, EmitEscrowStatus, ReadPromoBalance,
                ReadWalletBalance, EscrowBalance, Abort, AutoCommit
  <2>2. CASE RefundEscrowCommit(p) \/ PartialRefundEscrowCommit(p)
    BY <2>2 DEF RefundsOf
  <2> QED BY <1>2, <2>1, <2>2 DEF Continue
<1>3. CASE UNCHANGED vars
  BY <1>3 DEF vars
<1> QED BY <1>1, <1>2, <1>3 DEF Next

(* Reconciliation passes at every moment: whatever requests for whatever   *)
(* shipments do, and wherever they abort, the committed ledger's debits    *)
(* equal its credits (RunReconciliation).                                  *)
THEOREM LedgerReconciles == Spec => []Reconciles
<1>1. ASSUME Init PROVE Reconciles
  <2>1. PICK seed \in Seeds : ledger = [balance |-> seed, posted |-> {}]
    BY <1>1 DEF Init
  <2>2. SumFunction(seed) = 0
    BY EscrowAssumption
  <2> QED BY <2>1, <2>2 DEF Reconciles, SumGlobal
<1>2. IInv /\ Reconciles /\ [Next]_vars => Reconciles'
  <2> SUFFICES ASSUME IInv, Reconciles, [Next]_vars PROVE Reconciles'
    OBVIOUS
  <2>1. SumFunction(ledger'.balance) = SumFunction(ledger.balance)
    BY OtherStepsPostNothing, FundEscrowEffect, PayFromWalletEffect, ReleaseEscrowEffect,
       RefundEscrowEffect
  <2> QED BY <2>1 DEF Reconciles, SumGlobal
<1> QED BY <1>1, <1>2, Invariant, PTL DEF Spec

-----------------------------------------------------------------------------
(* Statuses and journals.  A handler checks the status in its copy of the  *)
(* row only once, so what makes StatusHasJournal inductive is that the     *)
(* copies have their journals too, and that journals are never taken back. *)

LEMMA NewRefs ==
    ASSUME NEW s \in Shipments
    PROVE  /\ \A o \in Orders : \A r \in FundRefs(s, o) : r \in Refs /\ r[2] = s
           /\ \A o \in Orders : \E r \in FundRefs(s, o) : r[3] = "wallet-escrow"
           /\ \A split \in [promo : Nat, wallet : Nat] :
                 LET r == PayRef(s, split) IN r \in Refs /\ r[2] = s /\ r[3] = "wallet-pay"
           /\ LET r == ReleaseRef(s) IN r \in Refs /\ r[2] = s /\ r[3] = "release"
           /\ \A part \in [promo : Nat, wallet : Nat] :
                 /\ \A r \in RefundRefs(s, part) :
                       r \in Refs /\ r[2] = s /\ r[3] \in {"refund-promo", "refund-wallet"}
                 /\ part.promo + part.wallet > 0 => RefundRefs(s, part) # {}
<1>1. ASSUME NEW o \in Orders
      PROVE  /\ \A r \in FundRefs(s, o) : r \in Refs /\ r[2] = s
             /\ \E r \in FundRefs(s, o) : r[3] = "wallet-escrow"
  BY DEF FundRefs, Refs, RefTypes
<1>2. ASSUME NEW split \in [promo : Nat, wallet : Nat]
      PROVE  LET r == PayRef(s, split) IN r \in Refs /\ r[2] = s /\ r[3] = "wallet-pay"
  BY DEF PayRef, RefTypeForEscrowPay, Refs, RefTypes
<1>3. LET r == ReleaseRef(s) IN r \in Refs /\ r[2] = s /\ r[3] = "release"
  BY DEF ReleaseRef, Refs, RefTypes
<1>4. ASSUME NEW part \in [promo : Nat, wallet : Nat]
      PROVE  /\ \A r \in RefundRefs(s, part) :
                   r \in Refs /\ r[2] = s /\ r[3] \in {"refund-promo", "refund-wallet"}
             /\ part.promo + part.wallet > 0 => RefundRefs(s, part) # {}
  <2>1. /\ PromoRef(s, part.promo) \in Refs /\ WalletRef(s, part.wallet) \in Refs
    BY DEF PromoRef, WalletRef, Refs, RefTypes
  <2>2. /\ PromoRef(s, part.promo)[2] = s /\ PromoRef(s, part.promo)[3] = "refund-promo"
        /\ WalletRef(s, part.wallet)[2] = s /\ WalletRef(s, part.wallet)[3] = "refund-wallet"
    BY DEF PromoRef, WalletRef
  <2> QED BY <2>1, <2>2 DEF RefundRefs
<1> QED BY <1>1, <1>2, <1>3, <1>4

Informed(t) ==
    /\ t.pc \in {"row", "promo", "funds"} => Allowed(t.op, t.row.status)
    /\ t.pc # "idle" => Evidence(t.ship, t.row.status)

EvidenceInv ==
    /\ ledger.posted \subseteq Refs
    /\ StatusHasJournal
    /\ \A p \in Sessions : Informed(tx[p])

LEMMA EvidenceStays ==
    ASSUME NEW s, NEW status, ledger.posted \subseteq ledger'.posted, Evidence(s, status)
    PROVE  Evidence(s, status)'
BY DEF Evidence, Posted

LEMMA InitEvidence == Init => EvidenceInv
<1> SUFFICES ASSUME Init PROVE EvidenceInv
  OBVIOUS
<1>1. ledger.posted = {} /\ events = {}
  BY DEF Init
<1>3. \A s \in Shipments : escrow[s].status = "NONE"
  BY DEF Init, NoRow
<1>2. \A p \in Sessions : tx[p].pc = "idle"
  BY DEF Init, Idle
<1> QED BY <1>1, <1>2, <1>3 DEF EvidenceInv, StatusHasJournal, Evidence, Informed

(* A step that posts nothing but ends or advances one session.             *)
LEMMA InformedStep ==
    ASSUME IInv, EvidenceInv, NEW p \in Sessions, NEW t,
           tx' = [tx EXCEPT ![p] = t], Informed(t),
           UNCHANGED <<ledger, escrow>>,
           events' \subseteq events \cup {e \in Shipments \X Statuses : Evidence(e[1], e[2])}
    PROVE  EvidenceInv'
<1>1. \A q \in Sessions : tx'[q] = IF q = p THEN t ELSE tx[q]
  BY DEF IInv, Typed
<1>2. \A x, st : Evidence(x, st)' <=> Evidence(x, st)
  BY DEF Evidence, Posted
<1>3. StatusHasJournal'
  BY <1>2 DEF EvidenceInv, StatusHasJournal
<1>4. \A q \in Sessions : Informed(tx[q])'
  BY <1>1, <1>2 DEF EvidenceInv, Informed
<1> QED BY <1>3, <1>4 DEF EvidenceInv

(* A step that writes the row of s, posting at most journals of s.         *)
LEMMA InformedWrite ==
    ASSUME IInv, EvidenceInv, NEW p \in Sessions, NEW s \in Shipments, NEW row \in EscrowRow,
           NEW t, tx' = [tx EXCEPT ![p] = t],
           t = Idle \/ \E op \in Ops : t = OwingEvent(op, s, row),
           escrow' = [escrow EXCEPT ![s] = row],
           NEW refs, ledger'.posted = ledger.posted \cup refs,
           \A r \in refs : r \in Refs /\ r[2] = s,
           Evidence(s, row.status)',
           row.status \in {"NONE", "CREATED"} => \A r \in ledger'.posted : r[2] # s,
           events' \subseteq events \cup {<<s, row.status>>}
    PROVE  EvidenceInv'
<1>1. \A q \in Sessions : tx'[q] = IF q = p THEN t ELSE tx[q]
  BY DEF IInv, Typed
<1>2. \A x \in Shipments : escrow'[x] = IF x = s THEN row ELSE escrow[x]
  BY DEF IInv, Typed
<1>3. \A x, st : Evidence(x, st) => Evidence(x, st)'
  BY EvidenceStays
<1>4. \A x \in Shipments \ {s} :
          escrow[x].status \in {"NONE", "CREATED"} => \A r \in ledger'.posted : r[2] # x
  BY DEF EvidenceInv, StatusHasJournal
<1>5. StatusHasJournal'
  BY <1>2, <1>3, <1>4 DEF EvidenceInv, StatusHasJournal
<1>6. Informed(t)'
  <2>1. CASE t = Idle
    BY <2>1 DEF Idle, Informed
  <2>2. ASSUME NEW op \in Ops, t = OwingEvent(op, s, row) PROVE Informed(t)'
    <3>1. t.pc = "emit" /\ t.ship = s /\ t.row = row
      BY <2>2 DEF OwingEvent
    <3> HIDE DEF Informed
    <3> QED BY <3>1 DEF Informed
  <2> QED BY <2>1, <2>2
<1>7. \A q \in Sessions : Informed(tx[q])'
  BY <1>1, <1>3, <1>6 DEF EvidenceInv, Informed
<1>8. ledger'.posted \subseteq Refs
  BY DEF EvidenceInv
<1> QED BY <1>5, <1>7, <1>8 DEF EvidenceInv

LEMMA CommitInforms ==
    ASSUME IInv, EvidenceInv, NEW p \in Sessions,
           \/ FundEscrowCommit(p) \/ PayFromWalletCommit(p) \/ ReleaseEscrowCommit(p)
           \/ \E n : RefundsOf(p, n)
    PROVE  EvidenceInv'
<1>1. tx[p].pc \in {"row", "funds"}
  BY DEF FundEscrowCommit, PayFromWalletCommit, ReleaseEscrowCommit, RefundsOf,
         RefundEscrowCommit, PartialRefundEscrowCommit, At
<1> PICK s \in Shipments : s = tx[p].ship
  BY <1>1, ShipInFlight
<1>2. /\ tx[p] \in Session /\ tx[p].row \in EscrowRow
      /\ Allowed(tx[p].op, tx[p].row.status)
      /\ Evidence(s, tx[p].row.status)
  BY <1>1, ShipInFlight, BeforeWrite DEF EvidenceInv, Informed
<1>3. PICK l, row : CommitTx(p, l, row)
  BY DEF FundEscrowCommit, PayFromWalletCommit, ReleaseEscrowCommit, RefundsOf,
         RefundEscrowCommit, PartialRefundEscrowCommit, CommitRefund
<1>4. /\ tx' = [tx EXCEPT ![p] = Idle]
      /\ escrow' = [escrow EXCEPT ![s] = row]
      /\ events' = events \cup {<<s, row.status>>}
  BY <1>3 DEF CommitTx, Update
<1>5. row = escrow'[s]
  BY <1>2, <1>4 DEF IInv, Typed
<1>6. escrow' \in [Shipments -> EscrowRow]
  <2>1. ASSUME Continue(p) PROVE escrow' \in [Shipments -> EscrowRow]
    BY <2>1, NextIInv DEF IInv, Typed, Next
  <2> QED BY <2>1 DEF Continue, RefundsOf
<1>7. row \in EscrowRow
  BY <1>2, <1>5, <1>6
<1>8. ASSUME NEW refs, ledger'.posted = ledger.posted \cup refs,
             \A r \in refs : r \in Refs /\ r[2] = s,
             Evidence(s, row.status)', row.status \notin {"NONE", "CREATED"}
      PROVE  EvidenceInv'
  BY <1>2, <1>4, <1>7, <1>8, InformedWrite
<1>9. CASE FundEscrowCommit(p)
  <2>1. row.status = "FUNDED"
    BY <1>2, <1>5, <1>9 DEF FundEscrowCommit, CommitTx, Update, IInv, Typed
  <2>2. tx[p].arg \in Orders /\ ledger'.posted = ledger.posted \cup FundRefs(s, tx[p].arg)
    BY <1>9, FundEscrowEffect DEF Funded, Adds
  <2>3. Evidence(s, row.status)'
    BY <1>2, <2>1, <2>2, NewRefs DEF Evidence, Posted
  <2> QED BY <1>2, <1>8, <2>1, <2>2, <2>3, NewRefs
<1>10. CASE PayFromWalletCommit(p)
  <2> DEFINE split == ResolvePayerFundingSplit(Gross[s], tx[p].promo)
  <2>1. row.status = "FUNDED"
    BY <1>2, <1>5, <1>10 DEF PayFromWalletCommit, CommitTx, Update, IInv, Typed
  <2>2. /\ split \in [promo : Nat, wallet : Nat]
        /\ ledger'.posted = ledger.posted \cup {PayRef(s, split)}
    BY <1>10, PayFromWalletEffect DEF Paid, Adds
  <2> HIDE DEF split
  <2>3. PayRef(s, split) \in Refs /\ PayRef(s, split)[2] = s /\ PayRef(s, split)[3] = "wallet-pay"
    BY <1>2, <2>2, NewRefs
  <2>4. Evidence(s, row.status)'
    BY <2>1, <2>2, <2>3 DEF Evidence, Posted
  <2>5. \A r \in {PayRef(s, split)} : r \in Refs /\ r[2] = s
    BY <2>3
  <2> DEFINE refs == {PayRef(s, split)}
  <2>6. ledger'.posted = ledger.posted \cup refs /\ \A r \in refs : r \in Refs /\ r[2] = s
    BY <2>2, <2>5
  <2> HIDE DEF refs
  <2> QED BY <1>8, <2>1, <2>4, <2>6
<1>11. CASE ReleaseEscrowCommit(p)
  <2>1. row.status = "RELEASED"
    BY <1>2, <1>5, <1>11 DEF ReleaseEscrowCommit, CommitTx, Update, IInv, Typed
  <2>2. ledger'.posted = ledger.posted \cup {ReleaseRef(s)}
    BY <1>11, ReleaseEscrowEffect DEF Released, Adds
  <2>3. ReleaseRef(s) \in Refs /\ ReleaseRef(s)[2] = s /\ ReleaseRef(s)[3] = "release"
    BY <1>2, NewRefs
  <2>4. Posted(s, {"wallet-escrow", "wallet-pay"})
    BY <1>2, <1>11 DEF ReleaseEscrowCommit, At, Allowed, CanRelease, Evidence
  <2>5. Evidence(s, row.status)'
    BY <2>1, <2>2, <2>3, <2>4 DEF Evidence, Posted
  <2>6. \A r \in {ReleaseRef(s)} : r \in Refs /\ r[2] = s
    BY <2>3
  <2> QED BY <1>8, <2>1, <2>2, <2>5, <2>6
<1>12. ASSUME NEW n, RefundsOf(p, n) PROVE EvidenceInv'
  <2> DEFINE part == RefundAllocation(n, tx[p].row.promo)
  <2>1. row.status \in {"REFUNDED", "PARTIALLY_REFUNDED"}
    <3>1. PICK status \in {"REFUNDED", "PARTIALLY_REFUNDED"} : CommitRefund(p, n, status)
      BY <1>12 DEF RefundsOf, RefundEscrowCommit, PartialRefundEscrowCommit
    <3>2. escrow'[s] = [tx[p].row EXCEPT
              !.status = status,
              !.promo = AtLeast(0, @ - RefundAllocation(n, tx[p].row.promo).promo),
              !.stamps = @ \cup {"refunded_at"}]
      BY <3>1 DEF CommitRefund, CommitTx, Update, IInv, Typed
    <3> QED BY <1>2, <1>5, <3>2 DEF EscrowRow
  <2>2. /\ part \in [promo : Nat, wallet : Nat] /\ part.promo + part.wallet > 0
        /\ ledger'.posted = ledger.posted \cup RefundRefs(s, part)
    BY <1>12, RefundEscrowEffect DEF Refunded, Adds
  <2> HIDE DEF part
  <2>3. /\ \A r \in RefundRefs(s, part) :
              r \in Refs /\ r[2] = s /\ r[3] \in {"refund-promo", "refund-wallet"}
        /\ RefundRefs(s, part) # {}
    BY <1>2, <2>2, NewRefs
  <2>4. Posted(s, {"wallet-escrow", "wallet-pay"})
    BY <1>2, <1>12 DEF RefundsOf, RefundEscrowCommit, PartialRefundEscrowCommit, At,
                       Allowed, CanPartialRefund, CanRefund, Evidence
  <2>5. Evidence(s, row.status)'
    BY <2>1, <2>2, <2>3, <2>4 DEF Evidence, Posted
  <2> QED BY <1>8, <2>1, <2>2, <2>3, <2>5
<1> QED BY <1>9, <1>10, <1>11, <1>12

LEMMA UpdateInforms ==
    ASSUME IInv, EvidenceInv, NEW p \in Sessions,
           MarkDeliveredUpdate(p) \/ FreezeEscrowUpdate(p)
    PROVE  EvidenceInv'
<1> PICK op \in {"MarkDelivered", "FreezeEscrow"} : op = tx[p].op /\ tx[p].pc = "row"
  BY DEF MarkDeliveredUpdate, FreezeEscrowUpdate, At
<1>1. op \in {"MarkDelivered", "FreezeEscrow"}
  OBVIOUS
<1> PICK s \in Shipments : s = tx[p].ship
  BY ShipInFlight
<1>2. /\ tx[p].row \in EscrowRow
      /\ Allowed(op, tx[p].row.status) /\ Evidence(s, tx[p].row.status)
  BY ShipInFlight, BeforeWrite DEF EvidenceInv, Informed
<1>3. PICK row \in EscrowRow : row.status \in {"DISPUTE_WINDOW", "FROZEN"} /\ AutoCommit(p, row)
  <2>1. CASE MarkDeliveredUpdate(p)
    <3> DEFINE row == [tx[p].row EXCEPT !.status = "DISPUTE_WINDOW"]
    <3>1. row \in EscrowRow /\ row.status = "DISPUTE_WINDOW"
      BY <1>2 DEF EscrowRow, Statuses
    <3> QED BY <2>1, <3>1 DEF MarkDeliveredUpdate
  <2>2. CASE FreezeEscrowUpdate(p)
    <3> DEFINE row == [tx[p].row EXCEPT !.status = "FROZEN"]
    <3>1. row \in EscrowRow /\ row.status = "FROZEN"
      BY <1>2 DEF EscrowRow, Statuses
    <3> QED BY <2>2, <3>1 DEF FreezeEscrowUpdate
  <2> QED BY <2>1, <2>2
<1>4. /\ tx' = [tx EXCEPT ![p] = OwingEvent(op, s, row)]
      /\ escrow' = [escrow EXCEPT ![s] = row]
      /\ UNCHANGED <<ledger, events>>
  BY <1>3 DEF AutoCommit, Update
<1>5. Evidence(s, row.status)'
  <2>1. Posted(s, {"wallet-escrow", "wallet-pay"})
    BY <1>1, <1>2 DEF Allowed, CanMarkDelivered, CanFreeze, Evidence
  <2> QED BY <1>3, <1>4, <2>1 DEF Evidence, Posted
<1> DEFINE refs == {}
           t == OwingEvent(op, s, row)
<1>6. /\ ledger'.posted = ledger.posted \cup refs
      /\ \A r \in refs : r \in Refs /\ r[2] = s
      /\ tx' = [tx EXCEPT ![p] = t] /\ \E x \in Ops : t = OwingEvent(x, s, row)
      /\ events' \subseteq events \cup {<<s, row.status>>}
      /\ escrow' = [escrow EXCEPT ![s] = row]
  BY <1>1, <1>4 DEF Ops
<1>7. row.status \in {"NONE", "CREATED"} => \A r \in ledger'.posted : r[2] # s
  BY <1>3
<1> HIDE DEF refs, t
<1> QED BY <1>5, <1>6, <1>7, InformedWrite

LEMMA CreateInforms ==
    ASSUME IInv, EvidenceInv, NEW p \in Sessions, NEW s \in Shipments, CreateEscrow(p, s)
    PROVE  EvidenceInv'
<1> DEFINE row == [NoRow EXCEPT !.status = "CREATED"]
<1>1. row \in EscrowRow /\ row.status = "CREATED"
  BY IdleTyped DEF EscrowRow, Statuses
<1>2. /\ tx' = [tx EXCEPT ![p] = OwingEvent("CreateEscrow", s, row)]
      /\ escrow' = [escrow EXCEPT ![s] = row]
      /\ escrow[s].status = "NONE" /\ UNCHANGED <<ledger, events>>
  BY DEF CreateEscrow
<1> HIDE DEF row
<1>3. Evidence(s, row.status)' /\ \A r \in ledger'.posted : r[2] # s
  BY <1>1, <1>2 DEF EvidenceInv, StatusHasJournal, Evidence
<1> DEFINE refs == {}
           t == OwingEvent("CreateEscrow", s, row)
<1>4. /\ ledger'.posted = ledger.posted \cup refs
      /\ \A r \in refs : r \in Refs /\ r[2] = s
      /\ tx' = [tx EXCEPT ![p] = t] /\ \E x \in Ops : t = OwingEvent(x, s, row)
      /\ events' \subseteq events \cup {<<s, row.status>>}
  BY <1>2 DEF Ops
<1> HIDE DEF refs, t
<1> QED BY <1>1, <1>2, <1>3, <1>4, InformedWrite

LEMMA BeginInforms ==
    ASSUME IInv, EvidenceInv, NEW p \in Sessions, NEW s \in Shipments, NEW op, NEW arg,
           GetByShipmentID(p, op, s, arg), Allowed(op, escrow[s].status)
    PROVE  EvidenceInv'
<1> DEFINE t == [pc |-> "row", op |-> op, ship |-> s, arg |-> arg,
                 row |-> escrow[s], promo |-> 0, funds |-> 0]
<1>1. Informed(t)
  BY DEF EvidenceInv, StatusHasJournal, Informed
<1>2. tx' = [tx EXCEPT ![p] = t] /\ UNCHANGED <<ledger, escrow, events>>
  BY DEF GetByShipmentID
<1> HIDE DEF t
<1> QED BY <1>1, <1>2, InformedStep

LEMMA NextEvidence == IInv /\ EvidenceInv /\ [Next]_vars => EvidenceInv'
<1> SUFFICES ASSUME IInv, EvidenceInv, [Next]_vars PROVE EvidenceInv'
  OBVIOUS
<1>1. ASSUME NEW p \in Sessions, NEW s \in Shipments, Request(p, s) PROVE EvidenceInv'
  <2>1. CASE CreateEscrow(p, s)
    BY <2>1, CreateInforms
  <2>2. CASE \E op, arg : GetByShipmentID(p, op, s, arg) /\ Allowed(op, escrow[s].status)
    BY <2>2, BeginInforms
  <2>3. CreateEscrow(p, s) \/ \E op, arg :
            GetByShipmentID(p, op, s, arg) /\ Allowed(op, escrow[s].status)
    BY <1>1 DEF Request, FundEscrow, PayFromWallet, MarkDelivered, FreezeEscrow,
                ReleaseEscrow, RefundEscrow, PartialRefundEscrow, Allowed, CanFund,
                CanPayFromWallet, CanMarkDelivered, CanFreeze, CanRelease, CanRefund,
                CanPartialRefund
  <2> QED BY <2>1, <2>2, <2>3
<1>2. ASSUME NEW p \in Sessions, Continue(p) PROVE EvidenceInv'
  <2>1. CASE \/ FundEscrowCommit(p) \/ PayFromWalletCommit(p) \/ ReleaseEscrowCommit(p)
             \/ RefundEscrowCommit(p) \/ PartialRefundEscrowCommit(p)
    BY <2>1, CommitInforms DEF RefundsOf
  <2>2. CASE MarkDeliveredUpdate(p) \/ FreezeEscrowUpdate(p)
    BY <2>2, UpdateInforms
  <2>3. CASE ReadPromoBalance(p) \/ ReadWalletBalance(p) \/ EscrowBalance(p)
    <3> DEFINE t == tx'[p]
    <3>1. /\ tx' = [tx EXCEPT ![p] = t] /\ UNCHANGED <<ledger, escrow, events>>
          /\ t.pc # "idle" /\ t.ship = tx[p].ship /\ t.op = tx[p].op /\ t.row = tx[p].row
          /\ tx[p].pc \in {"row", "promo"}
      BY <2>3 DEF ReadPromoBalance, ReadWalletBalance, EscrowBalance, At, IInv, Typed, Session
    <3>2. Informed(t)
      BY <3>1 DEF EvidenceInv, Informed
    <3> HIDE DEF t
    <3> QED BY <3>1, <3>2, InformedStep
  <2>4. CASE EmitEscrowStatus(p) \/ Abort(p)
    <3>1. tx' = [tx EXCEPT ![p] = Idle] /\ UNCHANGED <<ledger, escrow>> /\ Informed(Idle)
      BY <2>4 DEF EmitEscrowStatus, Abort, Informed, Idle
    <3>2. events' \subseteq events \cup {e \in Shipments \X Statuses : Evidence(e[1], e[2])}
      <4>1. CASE EmitEscrowStatus(p)
        <5>1. tx[p] \in Session /\ tx[p].row \in EscrowRow /\ tx[p].ship \in Shipments
          BY <4>1 DEF EmitEscrowStatus, IInv, Typed, Serving, WellFormed, Session
        <5>2. Evidence(tx[p].ship, tx[p].row.status)
          BY <4>1 DEF EmitEscrowStatus, EvidenceInv, Informed
        <5> QED BY <4>1, <5>1, <5>2 DEF EmitEscrowStatus, EscrowRow
      <4>2. CASE Abort(p)
        BY <4>2 DEF Abort
      <4> QED BY <2>4, <4>1, <4>2
    <3> QED BY <3>1, <3>2, InformedStep
  <2> QED BY <1>2, <2>1, <2>2, <2>3, <2>4 DEF Continue
<1>3. CASE UNCHANGED vars
  BY <1>3 DEF vars, EvidenceInv, StatusHasJournal, Evidence, Posted, Informed
<1> QED BY <1>1, <1>2, <1>3 DEF Next

THEOREM EvidenceInvariant == Spec => [](IInv /\ EvidenceInv)
BY InitIInv, NextIInv, InitEvidence, NextEvidence, PTL DEF Spec

(* Every row, session, event and ledger entry keeps its type.              *)
THEOREM TypeCorrect == Spec => []TypeOK
<1>1. IInv /\ EvidenceInv => TypeOK
  BY DEF IInv, Typed, LedgerType, EvidenceInv, TypeOK
<1> QED BY <1>1, EvidenceInvariant, PTL

(* However requests for one shipment overlap, no row and no audit event    *)
(* reports a status without the journal that makes it true.                *)
THEOREM StatusesAreBooked == Spec => []StatusHasJournal
<1>1. EvidenceInv => StatusHasJournal
  BY DEF EvidenceInv
<1> QED BY <1>1, EvidenceInvariant, PTL

-----------------------------------------------------------------------------
(* The escrow account by its references.                                   *)

Fundings == {"wallet-escrow", "wallet-pay"}
Refunds == {"refund-promo", "refund-wallet"}

FundedTotal(s) == Gross[s] * Cardinality(Of(s, Fundings))
Amounts(refs) == SumFunction([r \in refs |-> r[4]])
RefundedTotal(s) == Amounts(Of(s, Refunds))
ReleasedTotal(s) == FundedTotal(s) - RefundedTotal(s) - ledger.balance[ShipmentEscrow(s)]
Unreleased(s) == Of(s, {"release"}) = {}

(* A session about to release read no more than was funded by then.        *)
ReferenceInv ==
    /\ IsFiniteSet(ledger.posted)
    /\ \A r \in ledger.posted : r[3] = "release" => r = ReleaseRef(r[2])
    /\ \A s \in Shipments : \A r \in Of(s, Refunds) : r[4] \in Nat
    /\ \A s \in Shipments :
          IF Unreleased(s) THEN ReleasedTotal(s) = 0 ELSE ReleasedTotal(s) \in 1 .. FundedTotal(s)
    /\ \A p \in Sessions :
          LET s == tx[p].ship IN
          tx[p].op = "ReleaseEscrow" /\ tx[p].pc = "funds" /\ Unreleased(s)
              => tx[p].funds <= FundedTotal(s)

LEMMA ReferencesExplain == ReferenceInv => EachReferenceOnce
BY DEF ReferenceInv, EachReferenceOnce, Unreleased, ReleasedTotal, FundedTotal, RefundedTotal,
       Amounts, Fundings, Refunds

LEMMA AmountsType ==
    ASSUME NEW D, IsFiniteSet(D), \A r \in D : r[4] \in Nat
    PROVE  Amounts(D) \in Nat
<1> DEFINE f == [r \in D |-> r[4]]
<1>1. DOMAIN f = D /\ \A r \in D : f[r] \in Nat
  OBVIOUS
<1> HIDE DEF f
<1>2. SumFunctionOnSet(f, D) \in Nat
  BY <1>1, SumNat
<1> QED BY <1>1, <1>2 DEF Amounts, SumFunction, f

LEMMA AmountsAdd ==
    ASSUME NEW D, IsFiniteSet(D), \A r \in D : r[4] \in Nat, NEW x, x \notin D, x[4] \in Nat
    PROVE  Amounts(D \cup {x}) = Amounts(D) + x[4]
<1> DEFINE E == D \cup {x}
           f == [r \in D |-> r[4]]
           g == [r \in E |-> r[4]]
<1>1. /\ DOMAIN f = D /\ DOMAIN g = E
      /\ \A r \in D : g[r] = f[r] /\ f[r] \in Int /\ g[r] \in Int
      /\ g[x] = x[4] /\ g[x] \in Int
  OBVIOUS
<1> HIDE DEF f, g
<1>2. SumFunctionOnSet(g, E) = SumFunctionOnSet(g, D) + g[x]
  BY <1>1, SumAdd
<1>3. SumFunctionOnSet(g, D) = SumFunctionOnSet(f, D)
  BY <1>1, SumSame
<1>4. Amounts(E) = SumFunctionOnSet(g, E) /\ Amounts(D) = SumFunctionOnSet(f, D)
  BY <1>1 DEF Amounts, SumFunction, f, g
<1> QED BY <1>1, <1>2, <1>3, <1>4

LEMMA TotalsTyped ==
    ASSUME IInv, ReferenceInv, NEW s \in Shipments
    PROVE  /\ \A k : IsFiniteSet(Of(s, k)) /\ Cardinality(Of(s, k)) \in Nat
           /\ FundedTotal(s) \in Nat /\ RefundedTotal(s) \in Nat
           /\ Gross[s] \in Nat /\ Gross[s] > 0
           /\ ledger.balance[ShipmentEscrow(s)] \in Int
<1>1. ASSUME NEW k PROVE IsFiniteSet(Of(s, k)) /\ Cardinality(Of(s, k)) \in Nat
  <2>1. Of(s, k) \in SUBSET ledger.posted
    BY DEF Of
  <2> QED BY <2>1, FS_Subset, FS_CardinalityType DEF ReferenceInv
<1>2. RefundedTotal(s) \in Nat
  BY <1>1, AmountsType DEF ReferenceInv, RefundedTotal
<1>3. Gross[s] \in Nat /\ Gross[s] > 0
  BY Parties
<1>4. FundedTotal(s) \in Nat
  <2>1. \A c \in Nat : \A g \in Nat : g * c \in Nat
    OBVIOUS
  <2> QED BY <1>1, <1>3, <2>1 DEF FundedTotal
<1>5. ledger.balance[ShipmentEscrow(s)] \in Int
  BY EscrowAccounts DEF IInv, Typed, LedgerType
<1> QED BY <1>1, <1>2, <1>3, <1>4, <1>5

(* What a commit for shipment s does to the totals of s and of the others. *)
LEMMA OfGrows ==
    ASSUME NEW s \in Shipments, NEW refs, \A r \in refs : r[2] = s,
           ledger'.posted = ledger.posted \cup refs
    PROVE  /\ \A t \in Shipments \ {s} : \A k : Of(t, k)' = Of(t, k)
           /\ \A k : Of(s, k)' = Of(s, k) \cup {r \in refs : r[3] \in k}
BY DEF Of

Untouched(s, t) ==
    /\ FundedTotal(t)' = FundedTotal(t) /\ RefundedTotal(t)' = RefundedTotal(t)
    /\ Unreleased(t)' = Unreleased(t)
    /\ Of(t, Refunds)' = Of(t, Refunds)
    /\ ledger'.balance[ShipmentEscrow(t)] = ledger.balance[ShipmentEscrow(t)]

(* The commit keeps what ReferenceInv says of the ledger.                  *)
LEMMA TotalsKept ==
    ASSUME IInv, ReferenceInv, NEW s \in Shipments, NEW p \in Sessions,
           NEW t \in Session, tx' = [tx EXCEPT ![p] = t], t.pc # "funds",
           IsFiniteSet(ledger'.posted),
           \A r \in ledger'.posted : r[3] = "release" => r = ReleaseRef(r[2]),
           \A x \in Shipments \ {s} : Untouched(s, x),
           \A r \in Of(s, Refunds)' : r[4] \in Nat,
           FundedTotal(s)' \in Nat, FundedTotal(s) <= FundedTotal(s)',
           Unreleased(s)' => Unreleased(s),
           IF Unreleased(s)' THEN ReleasedTotal(s)' = 0
                             ELSE ReleasedTotal(s)' \in 1 .. FundedTotal(s)'
    PROVE  ReferenceInv'
<1>1. \A q \in Sessions : tx'[q] = IF q = p THEN t ELSE tx[q]
  BY DEF IInv, Typed
<1>2. \A x \in Shipments :
          IF Unreleased(x)' THEN ReleasedTotal(x)' = 0
                            ELSE ReleasedTotal(x)' \in 1 .. FundedTotal(x)'
  BY DEF ReferenceInv, Untouched, ReleasedTotal
<1>3. \A x \in Shipments : \A r \in Of(x, Refunds)' : r[4] \in Nat
  BY DEF ReferenceInv, Untouched
<1>4. \A x \in Shipments : (Unreleased(x)' => Unreleased(x)) /\ FundedTotal(x) <= FundedTotal(x)'
                           /\ FundedTotal(x) \in Nat /\ FundedTotal(x)' \in Nat
  BY TotalsTyped DEF Untouched
<1>5. ASSUME NEW q \in Sessions, NEW x, tx'[q].ship = x, tx'[q].op = "ReleaseEscrow",
             tx'[q].pc = "funds", Unreleased(x)'
      PROVE  tx'[q].funds <= FundedTotal(x)'
  <2>1. q # p /\ tx'[q] = tx[q]
    BY <1>1, <1>5
  <2>2. x \in Shipments
    BY <1>5, <2>1 DEF IInv, Serving, WellFormed
  <2>3. tx[q].funds <= FundedTotal(x)
    BY <1>4, <1>5, <2>1, <2>2 DEF ReferenceInv
  <2>4. tx[q].funds \in Int
    BY DEF IInv, Typed, Session
  <2> QED BY <1>4, <2>1, <2>2, <2>3, <2>4
<1> QED BY <1>2, <1>3, <1>5 DEF ReferenceInv

LEMMA OthersUntouched ==
    ASSUME IInv, NEW s \in Shipments, NEW refs, \A r \in refs : r[2] = s,
           ledger'.posted = ledger.posted \cup refs,
           NEW d \in Int, Moves(ledger, ledger', s, d)
    PROVE  /\ \A x \in Shipments \ {s} : Untouched(s, x)
           /\ ledger'.balance[ShipmentEscrow(s)] = ledger.balance[ShipmentEscrow(s)] + d
<1>1. \A x \in Shipments : ledger.balance[ShipmentEscrow(x)] \in Int
  BY EscrowAccounts DEF IInv, Typed, LedgerType
<1>2. \A x \in Shipments \ {s} :
          ledger'.balance[ShipmentEscrow(x)] = ledger.balance[ShipmentEscrow(x)]
  BY <1>1 DEF Moves
<1> QED BY <1>2, OfGrows
        DEF Moves, Untouched, FundedTotal, RefundedTotal, Amounts, Unreleased

(* Money comes in under one new funding reference.                         *)
LEMMA FundingAccounts ==
    ASSUME IInv, ReferenceInv, NEW p \in Sessions, NEW s \in Shipments, s = tx[p].ship,
           NEW refs, IsFiniteSet(refs), \A r \in refs : r[2] = s,
           NEW x \in refs, x \notin ledger.posted, x[3] \in Fundings,
           \A r \in refs \ {x} : r[3] \notin Fundings,
           \A r \in refs : r[3] \notin Refunds \cup {"release"},
           ledger'.posted = ledger.posted \cup refs,
           Moves(ledger, ledger', s, Gross[s]), tx' = [tx EXCEPT ![p] = Idle]
    PROVE  ReferenceInv'
<1>1. /\ Of(s, Fundings)' = Of(s, Fundings) \cup {x} /\ x \notin Of(s, Fundings)
      /\ Of(s, Refunds)' = Of(s, Refunds) /\ Of(s, {"release"})' = Of(s, {"release"})
  BY OfGrows DEF Of
<1>2. /\ Cardinality(Of(s, Fundings)) \in Nat /\ IsFiniteSet(Of(s, Fundings))
      /\ Gross[s] \in Nat /\ Gross[s] > 0 /\ FundedTotal(s) \in Nat /\ RefundedTotal(s) \in Nat
      /\ ledger.balance[ShipmentEscrow(s)] \in Int
  BY TotalsTyped
<1>3. Cardinality(Of(s, Fundings))' = Cardinality(Of(s, Fundings)) + 1
  BY <1>1, <1>2, FS_AddElement
<1>4. FundedTotal(s)' = FundedTotal(s) + Gross[s]
  <2>1. \A g, c \in Nat : g * (c + 1) = g * c + g
    OBVIOUS
  <2>2. FundedTotal(s)' = Gross[s] * (Cardinality(Of(s, Fundings)) + 1)
    BY <1>3 DEF FundedTotal
  <2> QED BY <1>2, <2>1, <2>2 DEF FundedTotal
<1>5. /\ \A t \in Shipments \ {s} : Untouched(s, t)
      /\ ledger'.balance[ShipmentEscrow(s)] = ledger.balance[ShipmentEscrow(s)] + Gross[s]
  <2>1. Gross[s] \in Int
    BY <1>2
  <2> QED BY <2>1, OthersUntouched
<1>6. /\ RefundedTotal(s)' = RefundedTotal(s) /\ Unreleased(s)' = Unreleased(s)
      /\ ReleasedTotal(s)' = ReleasedTotal(s)
  <2>1. RefundedTotal(s)' = RefundedTotal(s) /\ Unreleased(s)' = Unreleased(s)
    BY <1>1 DEF RefundedTotal, Amounts, Unreleased
  <2> QED BY <1>2, <1>4, <1>5, <2>1 DEF ReleasedTotal
<1>7. IF Unreleased(s)' THEN ReleasedTotal(s)' = 0
                        ELSE ReleasedTotal(s)' \in 1 .. FundedTotal(s)'
  BY <1>2, <1>4, <1>6 DEF ReferenceInv
<1>8. /\ IsFiniteSet(ledger'.posted)
      /\ \A r \in ledger'.posted : r[3] = "release" => r = ReleaseRef(r[2])
  <2>1. IsFiniteSet(ledger.posted)
    BY DEF ReferenceInv
  <2>2. IsFiniteSet(ledger.posted \cup refs)
    BY <2>1, FS_Union
  <2> QED BY <2>2 DEF ReferenceInv
<1>9. Idle \in Session /\ Idle.pc # "funds"
  BY IdleTyped DEF Idle
<1>10. \A r \in Of(s, Refunds)' : r[4] \in Nat
  BY <1>1 DEF ReferenceInv
<1>11. FundedTotal(s)' \in Nat /\ FundedTotal(s) <= FundedTotal(s)'
  BY <1>2, <1>4
<1> QED BY <1>5, <1>6, <1>7, <1>8, <1>9, <1>10, <1>11, TotalsKept

LEMMA ReleaseAccounts ==
    ASSUME IInv, ReferenceInv, NEW p \in Sessions, ReleaseEscrowCommit(p)
    PROVE  ReferenceInv'
<1> PICK s \in Shipments : s = tx[p].ship
  BY ReleaseEscrowEffect
<1> PICK n \in Nat : n = tx[p].funds /\ n > 0
  BY ReleaseEscrowEffect
<1>1. /\ tx[p].op = "ReleaseEscrow" /\ tx[p].pc = "funds"
      /\ tx' = [tx EXCEPT ![p] = Idle] /\ ledger' = Post(ledger, EscrowRelease(s, n))
      /\ ledger \in LedgerType
  BY DEF ReleaseEscrowCommit, At, CommitTx, IInv, Typed
<1>2. /\ ledger'.posted = ledger.posted \cup {ReleaseRef(s)}
      /\ ReleaseRef(s) \notin ledger.posted
  BY ReleaseEscrowEffect DEF Released, Adds
<1>3. ReleaseRef(s)[2] = s /\ ReleaseRef(s)[3] = "release"
  BY DEF ReleaseRef
<1>4. /\ Of(s, Fundings)' = Of(s, Fundings) /\ Of(s, Refunds)' = Of(s, Refunds)
      /\ Of(s, {"release"})' # {}
  <2>1. \A r \in {ReleaseRef(s)} : r[2] = s
    BY <1>3
  <2>2. \A k : Of(s, k)' = Of(s, k) \cup {r \in {ReleaseRef(s)} : r[3] \in k}
    BY <1>2, <2>1, OfGrows
  <2>3. /\ {r \in {ReleaseRef(s)} : r[3] \in Fundings} = {}
        /\ {r \in {ReleaseRef(s)} : r[3] \in Refunds} = {}
        /\ ReleaseRef(s) \in {r \in {ReleaseRef(s)} : r[3] \in {"release"}}
    BY <1>3 DEF Fundings, Refunds
  <2> DEFINE new(k) == {r \in {ReleaseRef(s)} : r[3] \in k}
  <2>4. /\ Of(s, Fundings)' = Of(s, Fundings) \cup new(Fundings)
        /\ Of(s, Refunds)' = Of(s, Refunds) \cup new(Refunds)
        /\ Of(s, {"release"})' = Of(s, {"release"}) \cup new({"release"})
    BY <2>2
  <2>5. new(Fundings) = {} /\ new(Refunds) = {} /\ new({"release"}) # {}
    BY <2>3
  <2> HIDE DEF new
  <2> QED BY <2>4, <2>5
<1>5. Unreleased(s) /\ ~ Unreleased(s)'
  <2>1. \A r \in ledger.posted : r[2] = s /\ r[3] = "release" => r = ReleaseRef(s)
    BY DEF ReferenceInv
  <2> QED BY <1>2, <1>4, <2>1 DEF Unreleased, Of
<1>6. /\ \A t \in Shipments \ {s} : Untouched(s, t)
      /\ ledger'.balance[ShipmentEscrow(s)] = ledger.balance[ShipmentEscrow(s)] + -n
  <2>1. Moves(ledger, ledger', s, -n) /\ -n \in Int
    BY <1>1, ReleaseMoves
  <2> DEFINE d == -n
             refs == {ReleaseRef(s)}
  <2>2. \A r \in refs : r[2] = s
    BY <1>3
  <2>3. ledger'.posted = ledger.posted \cup refs
    BY <1>2
  <2>4. d \in Int /\ Moves(ledger, ledger', s, d)
    BY <2>1
  <2> HIDE DEF d, refs
  <2>5. /\ \A t \in Shipments \ {s} : Untouched(s, t)
        /\ ledger'.balance[ShipmentEscrow(s)] = ledger.balance[ShipmentEscrow(s)] + d
    BY <2>2, <2>3, <2>4, OthersUntouched
  <2> QED BY <2>5 DEF d
<1>7. /\ FundedTotal(s) \in Nat /\ RefundedTotal(s) \in Nat
      /\ ledger.balance[ShipmentEscrow(s)] \in Int
  BY TotalsTyped
<1>8. FundedTotal(s)' = FundedTotal(s) /\ RefundedTotal(s)' = RefundedTotal(s)
  BY <1>4 DEF FundedTotal, RefundedTotal, Amounts
<1>9. ReleasedTotal(s)' = n
  <2>1. ReleasedTotal(s) = 0
    BY <1>5 DEF ReferenceInv
  <2> QED BY <1>6, <1>7, <1>8, <2>1 DEF ReleasedTotal
<1>10. n <= FundedTotal(s)
  BY <1>1, <1>5 DEF ReferenceInv
<1>11. IF Unreleased(s)' THEN ReleasedTotal(s)' = 0
                         ELSE ReleasedTotal(s)' \in 1 .. FundedTotal(s)'
  BY <1>5, <1>7, <1>8, <1>9, <1>10
<1>12. /\ IsFiniteSet(ledger'.posted)
       /\ \A r \in ledger'.posted : r[3] = "release" => r = ReleaseRef(r[2])
  BY <1>2, <1>3, FS_AddElement DEF ReferenceInv
<1>13. Idle \in Session /\ Idle.pc # "funds"
  BY IdleTyped DEF Idle
<1>14. \A r \in Of(s, Refunds)' : r[4] \in Nat
  BY <1>4 DEF ReferenceInv
<1>15. FundedTotal(s)' \in Nat /\ FundedTotal(s) <= FundedTotal(s)'
       /\ (Unreleased(s)' => Unreleased(s))
  BY <1>5, <1>7, <1>8
<1> QED BY <1>1, <1>6, <1>11, <1>12, <1>13, <1>14, <1>15, TotalsKept

(* Each part of a refund is a new reference that names its amount.         *)
LEMMA RefundTotals ==
    ASSUME NEW D, IsFiniteSet(D), \A r \in D : r[4] \in Nat, NEW s \in Shipments,
           NEW part \in [promo : Nat, wallet : Nat], RefundRefs(s, part) \cap D = {}
    PROVE  Amounts(D \cup RefundRefs(s, part)) = Amounts(D) + (part.promo + part.wallet)
<1> DEFINE a == PromoRef(s, part.promo)
           b == WalletRef(s, part.wallet)
           E == IF part.promo > 0 THEN D \cup {a} ELSE D
<1>1. a # b /\ a[4] = part.promo /\ b[4] = part.wallet
  BY DEF PromoRef, WalletRef
<1>2. Amounts(D) \in Nat /\ part.promo \in Nat /\ part.wallet \in Nat
  BY AmountsType
<1>3. (part.promo > 0 => a \notin D) /\ (part.wallet > 0 => b \notin E)
  BY <1>1 DEF RefundRefs
<1> HIDE DEF a, b
<1>4. /\ IsFiniteSet(E) /\ \A r \in E : r[4] \in Nat
      /\ Amounts(E) = Amounts(D) + part.promo
  <2>1. CASE part.promo > 0
    BY <1>1, <1>3, <2>1, AmountsAdd, FS_AddElement
  <2>2. CASE part.promo = 0
    BY <1>2, <2>2
  <2> QED BY <2>1, <2>2
<1>5. D \cup RefundRefs(s, part) = IF part.wallet > 0 THEN E \cup {b} ELSE E
  BY DEF RefundRefs, a, b
<1> HIDE DEF E
<1> DEFINE all == D \cup RefundRefs(s, part)
<1> SUFFICES Amounts(all) = Amounts(D) + (part.promo + part.wallet)
  OBVIOUS
<1> HIDE DEF all
<1>6. CASE part.wallet > 0
  <2>1. Amounts(E \cup {b}) = Amounts(E) + part.wallet
    BY <1>1, <1>3, <1>4, <1>6, AmountsAdd
  <2>2. all = E \cup {b}
    BY <1>5, <1>6 DEF all
  <2> QED BY <1>2, <1>4, <2>1, <2>2
<1>7. CASE part.wallet = 0
  <2>1. all = E
    BY <1>5, <1>7 DEF all
  <2> QED BY <1>2, <1>4, <1>7, <2>1
<1> QED BY <1>6, <1>7

LEMMA RefundAccounts ==
    ASSUME IInv, ReferenceInv, NEW p \in Sessions, NEW n, RefundsOf(p, n)
    PROVE  ReferenceInv'
<1> PICK s \in Shipments : s = tx[p].ship
  BY RefundEscrowEffect
<1> PICK part \in [promo : Nat, wallet : Nat] :
        /\ part = RefundAllocation(n, tx[p].row.promo)
        /\ part.promo + part.wallet = n
        /\ Refunded(ledger, ledger', s, part)
  BY RefundEscrowEffect
<1> DEFINE refs == RefundRefs(s, part)
<1>1. /\ tx' = [tx EXCEPT ![p] = Idle] /\ ledger' = PostRefund(ledger, s, part)
      /\ ledger \in LedgerType
  BY DEF RefundsOf, RefundEscrowCommit, PartialRefundEscrowCommit, CommitRefund, CommitTx,
         IInv, Typed
<1>2. ledger'.posted = ledger.posted \cup refs /\ refs \cap ledger.posted = {}
  BY DEF Refunded, Adds
<1>3. \A r \in refs : r[2] = s /\ r[3] \in Refunds /\ r[4] \in Nat
  BY DEF RefundRefs, PromoRef, WalletRef, Refunds
<1>4. IsFiniteSet(refs)
  BY FS_Singleton, FS_EmptySet, FS_Union DEF RefundRefs
<1>5. -(part.promo + part.wallet) \in Int /\ part.promo + part.wallet \in Nat
  OBVIOUS
<1>6. Moves(ledger, ledger', s, -(part.promo + part.wallet))
  BY <1>1, RefundMoves
<1>7. RefundRefs(s, part) \cap Of(s, Refunds) = {}
  BY <1>2 DEF Of
<1> HIDE DEF refs
<1>8. /\ \A t \in Shipments \ {s} : Untouched(s, t)
      /\ ledger'.balance[ShipmentEscrow(s)] =
             ledger.balance[ShipmentEscrow(s)] + -(part.promo + part.wallet)
  BY <1>2, <1>3, <1>5, <1>6, OthersUntouched
<1>9. /\ Of(s, Fundings)' = Of(s, Fundings) /\ Of(s, Refunds)' = Of(s, Refunds) \cup refs
      /\ Of(s, {"release"})' = Of(s, {"release"})
  <2>1. \A k : Of(s, k)' = Of(s, k) \cup {r \in refs : r[3] \in k}
    BY <1>2, <1>3, OfGrows
  <2>2. /\ {r \in refs : r[3] \in Fundings} = {} /\ {r \in refs : r[3] \in {"release"}} = {}
        /\ {r \in refs : r[3] \in Refunds} = refs
    BY <1>3 DEF Fundings, Refunds
  <2> QED BY <2>1, <2>2
<1>10. /\ FundedTotal(s) \in Nat /\ RefundedTotal(s) \in Nat
       /\ ledger.balance[ShipmentEscrow(s)] \in Int /\ IsFiniteSet(Of(s, Refunds))
  BY TotalsTyped
<1>11. FundedTotal(s)' = FundedTotal(s) /\ Unreleased(s)' = Unreleased(s)
  BY <1>9 DEF FundedTotal, Unreleased
<1>12. RefundedTotal(s)' = RefundedTotal(s) + (part.promo + part.wallet)
  <2>1. Amounts(Of(s, Refunds) \cup RefundRefs(s, part)) =
            Amounts(Of(s, Refunds)) + (part.promo + part.wallet)
    BY <1>7, <1>10, RefundTotals DEF ReferenceInv
  <2> QED BY <1>9, <2>1 DEF RefundedTotal, Amounts, refs
<1>13. ReleasedTotal(s)' = ReleasedTotal(s)
  BY <1>5, <1>8, <1>10, <1>11, <1>12 DEF ReleasedTotal
<1>14. IF Unreleased(s)' THEN ReleasedTotal(s)' = 0
                         ELSE ReleasedTotal(s)' \in 1 .. FundedTotal(s)'
  BY <1>11, <1>13 DEF ReferenceInv
<1>15. /\ IsFiniteSet(ledger'.posted)
       /\ \A r \in ledger'.posted : r[3] = "release" => r = ReleaseRef(r[2])
  <2>1. IsFiniteSet(ledger.posted)
    BY DEF ReferenceInv
  <2>2. IsFiniteSet(ledger.posted \cup refs)
    BY <1>4, <2>1, FS_Union
  <2>3. \A r \in refs : r[3] # "release"
    BY <1>3 DEF Refunds
  <2> QED BY <1>2, <2>2, <2>3 DEF ReferenceInv
<1>16. Idle \in Session /\ Idle.pc # "funds"
  BY IdleTyped DEF Idle
<1>17. \A r \in Of(s, Refunds)' : r[4] \in Nat
  BY <1>3, <1>9 DEF ReferenceInv
<1>18. FundedTotal(s)' \in Nat /\ FundedTotal(s) <= FundedTotal(s)'
       /\ (Unreleased(s)' => Unreleased(s))
  BY <1>10, <1>11
<1> QED BY <1>1, <1>8, <1>14, <1>15, <1>16, <1>17, <1>18, TotalsKept

LEMMA FundAccounts ==
    ASSUME IInv, ReferenceInv, NEW p \in Sessions, FundEscrowCommit(p)
    PROVE  ReferenceInv'
<1> PICK s \in Shipments : s = tx[p].ship
  BY FundEscrowEffect
<1> PICK o \in Orders : o = tx[p].arg
  BY FundEscrowEffect
<1> DEFINE refs == FundRefs(s, o)
           x == <<"WALLET_TO_ESCROW", s, "wallet-escrow", o>>
<1>1. ledger'.posted = ledger.posted \cup refs /\ refs \cap ledger.posted = {}
  BY FundEscrowEffect DEF Funded, Adds
<1>2. /\ \A r \in refs : r[2] = s /\ r[3] \notin Refunds \cup {"release"}
      /\ x \in refs /\ x[3] \in Fundings /\ \A r \in refs \ {x} : r[3] \notin Fundings
  BY DEF FundRefs, Fundings, Refunds
<1>3. IsFiniteSet(refs)
  <2> DEFINE y == <<"PSP_TO_WALLET", s, "psp-wallet", o>>
  <2>1. refs = {x} \cup {y}
    BY DEF FundRefs
  <2> HIDE DEF x, y, refs
  <2>2. IsFiniteSet({x}) /\ IsFiniteSet({y})
    BY FS_Singleton
  <2>3. IsFiniteSet({x} \cup {y})
    BY <2>2, FS_Union
  <2> QED BY <2>1, <2>3
<1>4. Moves(ledger, ledger', s, Gross[s]) /\ tx' = [tx EXCEPT ![p] = Idle]
  <2>1. ledger' = Post(Post(ledger, PSPToWallet(s, o)), WalletToEscrow(s, o))
    BY DEF FundEscrowCommit, CommitTx
  <2> QED BY <2>1, FundMoves DEF FundEscrowCommit, CommitTx, IInv, Typed
<1>5. x \notin ledger.posted
  BY <1>1, <1>2
<1> HIDE DEF refs, x
<1> QED BY <1>1, <1>2, <1>3, <1>4, <1>5, FundingAccounts

LEMMA PayAccounts ==
    ASSUME IInv, ReferenceInv, NEW p \in Sessions, PayFromWalletCommit(p)
    PROVE  ReferenceInv'
<1> PICK s \in Shipments : s = tx[p].ship
  BY PayFromWalletEffect
<1> PICK split \in [promo : Nat, wallet : Nat] :
        /\ split = ResolvePayerFundingSplit(Gross[s], tx[p].promo)
        /\ split.promo + split.wallet = Gross[s]
        /\ Paid(ledger, ledger', s, split)
  BY PayFromWalletEffect DEF Paid
<1> DEFINE x == PayRef(s, split)
           refs == {x}
<1>1. ledger'.posted = ledger.posted \cup refs /\ x \notin ledger.posted
  BY DEF Paid, Adds
<1>2. x[2] = s /\ x[3] = "wallet-pay"
  BY DEF PayRef
<1> HIDE DEF x
<1>3. /\ \A r \in refs : r[2] = s /\ r[3] \notin Refunds \cup {"release"}
      /\ x \in refs /\ x[3] \in Fundings /\ \A r \in refs \ {x} : r[3] \notin Fundings
      /\ IsFiniteSet(refs)
  BY <1>2, FS_Singleton DEF Fundings, Refunds
<1>4. Moves(ledger, ledger', s, Gross[s]) /\ tx' = [tx EXCEPT ![p] = Idle]
  <2>1. ledger' = Post(ledger, EscrowPay(s, split)) /\ ledger \in LedgerType
    BY DEF PayFromWalletCommit, CommitTx, IInv, Typed
  <2>2. split \in [promo : Int, wallet : Int]
    OBVIOUS
  <2>3. Moves(ledger, ledger', s, split.promo + split.wallet)
    BY <2>1, <2>2, PayMoves
  <2> QED BY <2>3 DEF PayFromWalletCommit, CommitTx
<1> HIDE DEF refs
<1> QED BY <1>1, <1>3, <1>4, FundingAccounts

(* A session that reads a balance to release reads, if nothing has been    *)
(* released, what was funded less what was refunded.                       *)
LEMMA BalanceAccounts ==
    ASSUME IInv, ReferenceInv, NEW p \in Sessions, EscrowBalance(p)
    PROVE  ReferenceInv'
<1> PICK s \in Shipments : s = tx[p].ship
  BY ShipInFlight DEF EscrowBalance
<1>1. /\ tx'[p].ship = s /\ tx'[p].funds = ledger.balance[ShipmentEscrow(s)]
      /\ \A q \in Sessions \ {p} : tx'[q] = tx[q]
      /\ UNCHANGED ledger
  BY DEF EscrowBalance, SumByAccount, IInv, Typed, Session
<1>2. /\ FundedTotal(s) \in Nat /\ RefundedTotal(s) \in Nat
      /\ ledger.balance[ShipmentEscrow(s)] \in Int
  BY TotalsTyped
<1>3. Unreleased(s) => tx'[p].funds <= FundedTotal(s)
  BY <1>1, <1>2 DEF ReferenceInv, ReleasedTotal
<1>4. \A x \in Shipments :
          /\ FundedTotal(x)' = FundedTotal(x) /\ Of(x, Refunds)' = Of(x, Refunds)
          /\ Unreleased(x)' = Unreleased(x) /\ ReleasedTotal(x)' = ReleasedTotal(x)
  BY <1>1 DEF FundedTotal, Of, Unreleased, ReleasedTotal, RefundedTotal
<1>5. ASSUME NEW q \in Sessions, tx'[q].op = "ReleaseEscrow", tx'[q].pc = "funds",
             Unreleased(tx'[q].ship)
      PROVE  tx'[q].funds <= FundedTotal(tx'[q].ship)
  BY <1>1, <1>3, <1>5 DEF ReferenceInv
<1>6. \A x : Unreleased(x)' = Unreleased(x) /\ FundedTotal(x)' = FundedTotal(x)
  BY <1>1 DEF Unreleased, FundedTotal, Of
<1> QED BY <1>1, <1>4, <1>5, <1>6 DEF ReferenceInv

(* Any other step leaves the ledger alone and starts no release.           *)
LEMMA IdleAccounts ==
    ASSUME ReferenceInv, UNCHANGED ledger,
           \A p \in Sessions :
               tx'[p].op = "ReleaseEscrow" /\ tx'[p].pc = "funds" => tx'[p] = tx[p]
    PROVE  ReferenceInv'
<1>1. \A x : /\ Unreleased(x)' = Unreleased(x) /\ FundedTotal(x)' = FundedTotal(x)
             /\ Of(x, Refunds)' = Of(x, Refunds) /\ ReleasedTotal(x)' = ReleasedTotal(x)
  BY DEF FundedTotal, Of, Unreleased, ReleasedTotal, RefundedTotal
<1>2. ASSUME NEW q \in Sessions, tx'[q].op = "ReleaseEscrow", tx'[q].pc = "funds",
             Unreleased(tx'[q].ship)
      PROVE  tx'[q].funds <= FundedTotal(tx'[q].ship)
  BY <1>2 DEF ReferenceInv
<1> QED BY <1>1, <1>2 DEF ReferenceInv

LEMMA NextReferences == IInv /\ ReferenceInv /\ [Next]_vars => ReferenceInv'
<1> SUFFICES ASSUME IInv, ReferenceInv, [Next]_vars PROVE ReferenceInv'
  OBVIOUS
<1> DEFINE Rest == \A p \in Sessions :
               tx'[p].op = "ReleaseEscrow" /\ tx'[p].pc = "funds" => tx'[p] = tx[p]
<1>1. ASSUME NEW p \in Sessions, NEW s \in Shipments, Request(p, s) PROVE ReferenceInv'
  <2>1. UNCHANGED ledger
    BY <1>1 DEF Request, CreateEscrow, FundEscrow, PayFromWallet, MarkDelivered, FreezeEscrow,
                ReleaseEscrow, RefundEscrow, PartialRefundEscrow, GetByShipmentID
  <2>2. \E t : tx' = [tx EXCEPT ![p] = t] /\ t.pc # "funds"
    <3>1. CASE CreateEscrow(p, s)
      <4> DEFINE t == OwingEvent("CreateEscrow", s, [NoRow EXCEPT !.status = "CREATED"])
      <4>1. tx' = [tx EXCEPT ![p] = t] /\ t.pc # "funds"
        BY <3>1 DEF CreateEscrow, OwingEvent
      <4> QED BY <4>1
    <3>2. CASE \E op, arg : GetByShipmentID(p, op, s, arg)
      <4>1. PICK op, arg : GetByShipmentID(p, op, s, arg)
        BY <3>2
      <4> DEFINE t == [pc |-> "row", op |-> op, ship |-> s, arg |-> arg,
                       row |-> escrow[s], promo |-> 0, funds |-> 0]
      <4>2. tx' = [tx EXCEPT ![p] = t] /\ t.pc # "funds"
        BY <4>1 DEF GetByShipmentID
      <4> QED BY <4>2
    <3> QED BY <1>1, <3>1, <3>2
            DEF Request, FundEscrow, PayFromWallet, MarkDelivered, FreezeEscrow,
                ReleaseEscrow, RefundEscrow, PartialRefundEscrow
  <2>3. Rest
    BY <2>2 DEF IInv, Typed
  <2> QED BY <2>1, <2>3, IdleAccounts
<1>2. ASSUME NEW p \in Sessions, Continue(p) PROVE ReferenceInv'
  <2>1. CASE FundEscrowCommit(p) \/ PayFromWalletCommit(p) \/ ReleaseEscrowCommit(p)
    BY <2>1, FundAccounts, PayAccounts, ReleaseAccounts
  <2>2. CASE RefundEscrowCommit(p) \/ PartialRefundEscrowCommit(p)
    BY <2>2, RefundAccounts DEF RefundsOf
  <2>3. CASE EscrowBalance(p)
    BY <2>3, BalanceAccounts
  <2>4. CASE ReadPromoBalance(p) \/ ReadWalletBalance(p)
    <3>1. UNCHANGED ledger /\ Rest
      BY <2>4 DEF ReadPromoBalance, ReadWalletBalance, At, IInv, Typed, Session
    <3> QED BY <3>1, IdleAccounts
  <2>5. CASE MarkDeliveredUpdate(p) \/ FreezeEscrowUpdate(p) \/ EmitEscrowStatus(p) \/ Abort(p)
    <3>1. UNCHANGED ledger /\ \E t : tx' = [tx EXCEPT ![p] = t] /\ t.pc # "funds"
      BY <2>5 DEF MarkDeliveredUpdate, FreezeEscrowUpdate, EmitEscrowStatus, Abort, AutoCommit,
                  OwingEvent, Idle
    <3>2. Rest
      BY <3>1 DEF IInv, Typed
    <3> QED BY <3>1, <3>2, IdleAccounts
  <2> QED BY <1>2, <2>1, <2>2, <2>3, <2>4, <2>5 DEF Continue
<1>3. CASE UNCHANGED vars
  BY <1>3, IdleAccounts DEF vars
<1> QED BY <1>1, <1>2, <1>3 DEF Next

LEMMA InitReferences == Init => ReferenceInv
<1> SUFFICES ASSUME Init PROVE ReferenceInv
  OBVIOUS
<1>1. PICK seed \in Seeds : ledger = [balance |-> seed, posted |-> {}]
  BY DEF Init
<1>2. ledger.posted = {} /\ \A s \in Shipments : ledger.balance[ShipmentEscrow(s)] = 0
  BY <1>1, EscrowAssumption
<1>3. \A s, k : Of(s, k) = {}
  BY <1>2 DEF Of
<1>4. Amounts({}) = 0
  <2> DEFINE f == [r \in {} |-> r[4]]
  <2>1. DOMAIN f = {}
    OBVIOUS
  <2> HIDE DEF f
  <2>2. SumFunctionOnSet(f, {}) = 0
    BY SumEmpty
  <2> QED BY <2>1, <2>2 DEF Amounts, SumFunction, f
<1>5. \A s \in Shipments : FundedTotal(s) = 0 /\ RefundedTotal(s) = 0 /\ ReleasedTotal(s) = 0
  <2> TAKE s \in Shipments
  <2>1. Cardinality(Of(s, Fundings)) = 0 /\ Gross[s] \in Nat
    BY <1>3, FS_EmptySet, Parties
  <2>2. FundedTotal(s) = 0
    BY <2>1 DEF FundedTotal
  <2>3. RefundedTotal(s) = 0
    BY <1>3, <1>4 DEF RefundedTotal
  <2> QED BY <1>2, <2>2, <2>3 DEF ReleasedTotal
<1>6. \A p \in Sessions : tx[p].pc = "idle"
  BY DEF Init, Idle
<1> QED BY <1>2, <1>3, <1>5, <1>6, FS_EmptySet DEF ReferenceInv, Unreleased

(* Whatever overlaps: the escrow account of a shipment is what its funding *)
(* references brought in, less what each refund reference names, less what *)
(* the one release took; and that was no more than was ever funded.        *)
THEOREM ReferencesMoveOnce == Spec => []EachReferenceOnce
<1>1. Spec => [](IInv /\ ReferenceInv)
  BY InitIInv, NextIInv, InitReferences, NextReferences, PTL DEF Spec
<1> QED BY <1>1, ReferencesExplain, PTL

-----------------------------------------------------------------------------
(* Wallet payments.  The balances a payment read may be stale when it      *)
(* commits, but only upwards: nothing but another payment of the same      *)
(* payer takes money out of the payer's accounts.                          *)

Paying(t) == t.op = "PayFromWallet"

WalletInv ==
    \A p \in Sessions : Paying(tx[p]) =>
        /\ tx[p].pc \in {"row", "promo", "funds"}
        /\ Payer[tx[p].ship] \notin racedPayers =>
              /\ \A q \in Sessions \ {p} :
                    Paying(tx[q]) => Payer[tx[q].ship] # Payer[tx[p].ship]
              /\ tx[p].pc \in {"promo", "funds"} =>
                    tx[p].promo <= ledger.balance[UserPromoCredit(Payer[tx[p].ship])]
              /\ tx[p].pc = "funds" =>
                    tx[p].funds <= ledger.balance[UserWallet(Payer[tx[p].ship])]

Purses(u) == {UserWallet(u), UserPromoCredit(u)}

LEMMA ShiftsAt ==
    ASSUME NEW l \in LedgerType, NEW m, NEW d, Shifts(l, m, d), NEW a \in Accounts
    PROVE  /\ l.balance[a] \in Int
           /\ a \notin DOMAIN d => m.balance[a] = l.balance[a]
           /\ a \in DOMAIN d => m.balance[a] = l.balance[a] + d[a]
<1>1. l.balance[a] \in Int
  BY DEF LedgerType
<1> QED BY <1>1 DEF Shifts

LEMMA OnlyPaymentsSpend ==
    ASSUME IInv, [Next]_vars, NEW u \in Users, NEW a \in Purses(u)
    PROVE  \/ ledger'.balance[a] >= ledger.balance[a]
           \/ \E p \in Sessions : PayFromWalletCommit(p) /\ Payer[tx[p].ship] = u
<1>1. a \in Accounts /\ ledger \in LedgerType /\ ledger.balance[a] \in Int
  BY AccountsDiffer DEF Purses, IInv, Typed, LedgerType, UserWallet, UserPromoCredit, Accounts
<1>2. /\ \A s \in Shipments : a # ShipmentEscrow(s)
      /\ a # Account("IR_PSP_CLEARING") /\ a # Account("AIRBAR_FEE_REVENUE")
      /\ \A x \in Users : a \in Purses(x) => x = u
  BY DEF Purses, UserWallet, UserPromoCredit, ShipmentEscrow, Account
<1>3. CASE UNCHANGED ledger
  BY <1>1, <1>3
<1>4. ASSUME NEW p \in Sessions, FundEscrowCommit(p)
      PROVE  ledger'.balance[a] >= ledger.balance[a]
  <2>1. PICK s \in Shipments : s = tx[p].ship
    BY <1>4, FundEscrowEffect
  <2> DEFINE d == [x \in {ShipmentEscrow(s), Account("IR_PSP_CLEARING")} |->
                      IF x = ShipmentEscrow(s) THEN Gross[s] ELSE - Gross[s]]
  <2>2. Shifts(ledger, ledger', d)
    BY <1>4, <2>1, FundEscrowEffect DEF Funded
  <2>3. a \notin DOMAIN d
    BY <1>2
  <2> HIDE DEF d
  <2>4. ledger'.balance[a] = ledger.balance[a]
    BY <1>1, <2>2, <2>3, ShiftsAt
  <2> QED BY <1>1, <2>4
<1>5. ASSUME NEW p \in Sessions, PayFromWalletCommit(p), Payer[tx[p].ship] # u
      PROVE  ledger'.balance[a] >= ledger.balance[a]
  <2>1. PICK s \in Shipments : s = tx[p].ship
    BY <1>5, PayFromWalletEffect
  <2>2. Payer[s] \in Users /\ a \notin Purses(Payer[s])
    BY <1>2, <1>5, <2>1, Parties
  <2>3. PICK split \in [promo : Nat, wallet : Nat] : Paid(ledger, ledger', s, split)
    BY <1>5, <2>1, PayFromWalletEffect DEF Paid
  <2> DEFINE d == [x \in {ShipmentEscrow(s), UserPromoCredit(Payer[s]), UserWallet(Payer[s])} |->
                      IF x = ShipmentEscrow(s) THEN Gross[s]
                      ELSE IF x = UserPromoCredit(Payer[s]) THEN - split.promo
                      ELSE - split.wallet]
  <2>4. Shifts(ledger, ledger', d)
    BY <2>3 DEF Paid
  <2>5. a \notin DOMAIN d
    BY <1>2, <2>2 DEF Purses
  <2> HIDE DEF d
  <2>6. ledger'.balance[a] = ledger.balance[a]
    BY <1>1, <2>4, <2>5, ShiftsAt
  <2> QED BY <1>1, <2>6
<1>6. ASSUME NEW p \in Sessions, ReleaseEscrowCommit(p)
      PROVE  ledger'.balance[a] >= ledger.balance[a]
  <2>1. PICK s \in Shipments, n \in Nat : s = tx[p].ship /\ n = tx[p].funds
    BY <1>6, ReleaseEscrowEffect
  <2>2. Released(ledger, ledger', s, n)
    BY <1>6, <2>1, ReleaseEscrowEffect
  <2>3. PICK fee \in 0 .. n :
            Shifts(ledger, ledger', [x \in {ShipmentEscrow(s), Account("AIRBAR_FEE_REVENUE"),
                                            UserWallet(Carrier[s])} |->
                                        IF x = ShipmentEscrow(s) THEN - n
                                        ELSE IF x = UserWallet(Carrier[s]) THEN n - fee
                                        ELSE fee])
    BY <2>2 DEF Released
  <2> DEFINE d == [x \in {ShipmentEscrow(s), Account("AIRBAR_FEE_REVENUE"),
                          UserWallet(Carrier[s])} |->
                      IF x = ShipmentEscrow(s) THEN - n
                      ELSE IF x = UserWallet(Carrier[s]) THEN n - fee
                      ELSE fee]
  <2>4. a \in DOMAIN d => d[a] = n - fee
    BY <1>2
  <2>5. Shifts(ledger, ledger', d)
    BY <2>3
  <2> HIDE DEF d
  <2>6. \/ ledger'.balance[a] = ledger.balance[a]
        \/ ledger'.balance[a] = ledger.balance[a] + (n - fee)
    BY <1>1, <2>4, <2>5, ShiftsAt
  <2> QED BY <1>1, <2>6
<1>7. ASSUME NEW p \in Sessions, NEW n, RefundsOf(p, n)
      PROVE  ledger'.balance[a] >= ledger.balance[a]
  <2>1. PICK s \in Shipments : s = tx[p].ship
    BY <1>7, RefundEscrowEffect
  <2>2. PICK part \in [promo : Nat, wallet : Nat] : Refunded(ledger, ledger', s, part)
    BY <1>7, <2>1, RefundEscrowEffect
  <2> DEFINE d == [x \in {ShipmentEscrow(s), UserPromoCredit(Payer[s]), UserWallet(Payer[s])} |->
                      IF x = ShipmentEscrow(s) THEN -(part.promo + part.wallet)
                      ELSE IF x = UserPromoCredit(Payer[s]) THEN part.promo
                      ELSE part.wallet]
  <2>3. Shifts(ledger, ledger', d)
    BY <2>2 DEF Refunded
  <2>4. a \in DOMAIN d => d[a] = part.promo \/ d[a] = part.wallet
    BY <1>2
  <2>5. part.promo \in Nat /\ part.wallet \in Nat
    OBVIOUS
  <2> HIDE DEF d
  <2>6. \/ ledger'.balance[a] = ledger.balance[a]
        \/ ledger'.balance[a] = ledger.balance[a] + part.promo
        \/ ledger'.balance[a] = ledger.balance[a] + part.wallet
    BY <1>1, <2>3, <2>4, ShiftsAt
  <2> QED BY <1>1, <2>5, <2>6
<1> QED BY <1>3, <1>4, <1>5, <1>6, <1>7, OtherStepsPostNothing

(* A payment whose payer's payments never overlapped has the money.        *)
LEMMA PaymentCovered ==
    ASSUME IInv, WalletInv, NEW p \in Sessions, PayFromWalletCommit(p),
           NEW u \in Users \ racedPayers, Payer[tx[p].ship] = u,
           NEW a \in Purses(u), ledger'.balance[a] < ledger.balance[a]
    PROVE  ledger'.balance[a] >= 0
<1>1. PICK s \in Shipments : s = tx[p].ship
  BY PayFromWalletEffect
<1>2. tx[p].pc = "funds" /\ Paying(tx[p])
  BY DEF PayFromWalletCommit, At, Paying
<1>3. /\ tx[p].promo <= ledger.balance[UserPromoCredit(u)]
      /\ tx[p].funds <= ledger.balance[UserWallet(u)]
  BY <1>2 DEF WalletInv
<1>4. PICK split \in [promo : Nat, wallet : Nat] :
         /\ Paid(ledger, ledger', s, split)
         /\ split.promo > 0 => split.promo <= tx[p].promo
         /\ split.wallet <= tx[p].funds
  BY <1>1, PayFromWalletEffect DEF Paid
<1>5. /\ UserWallet(u) \in Accounts /\ UserPromoCredit(u) \in Accounts
      /\ UserWallet(u) # UserPromoCredit(u)
      /\ ShipmentEscrow(s) # UserWallet(u) /\ ShipmentEscrow(s) # UserPromoCredit(u)
  BY AccountsDiffer
<1>6. /\ ledger.balance[UserWallet(u)] \in Int /\ ledger.balance[UserPromoCredit(u)] \in Int
      /\ split.promo \in Nat /\ split.wallet \in Nat
      /\ tx[p].promo \in Int /\ tx[p].funds \in Int
  BY <1>5 DEF IInv, Typed, LedgerType, Session
<1>7. /\ ledger'.balance[UserWallet(u)] = ledger.balance[UserWallet(u)] - split.wallet
      /\ ledger'.balance[UserPromoCredit(u)] = ledger.balance[UserPromoCredit(u)] - split.promo
  BY <1>1, <1>4, <1>5, <1>6 DEF Paid, Shifts
<1> QED BY <1>3, <1>4, <1>6, <1>7 DEF Purses

LEMMA WalletStep ==
    ASSUME IInv, WalletInv, [Next]_vars, NEW p \in Sessions, NEW t,
           tx' = [tx EXCEPT ![p] = t], UNCHANGED racedPayers,
           Paying(t) =>
               /\ Paying(tx[p]) /\ t.ship = tx[p].ship /\ t.pc \in {"row", "promo", "funds"}
               /\ t.pc \in {"promo", "funds"} =>
                     \/ t.promo = ledger.balance[UserPromoCredit(Payer[t.ship])]
                     \/ tx[p].pc \in {"promo", "funds"} /\ t.promo = tx[p].promo
               /\ t.pc = "funds" =>
                     \/ t.funds = ledger.balance[UserWallet(Payer[t.ship])]
                     \/ tx[p].pc = "funds" /\ t.funds = tx[p].funds
    PROVE  WalletInv'
<1>1. \A q \in Sessions : tx'[q] = IF q = p THEN t ELSE tx[q]
  BY DEF IInv, Typed
<1>2. ASSUME NEW q \in Sessions, Paying(tx'[q])
      PROVE  /\ Paying(tx[q]) /\ tx'[q].ship = tx[q].ship
             /\ tx'[q].ship \in Shipments /\ Payer[tx'[q].ship] \in Users
  <2>1. Paying(tx[q]) /\ tx'[q].ship = tx[q].ship
    BY <1>1, <1>2
  <2>2. tx[q].ship \in Shipments
    BY <2>1 DEF WalletInv, IInv, Serving, WellFormed
  <2> QED BY <2>1, <2>2, Parties
<1>3. ASSUME NEW q \in Sessions, Paying(tx'[q]), Payer[tx'[q].ship] \notin racedPayers,
             NEW a \in Purses(Payer[tx'[q].ship])
      PROVE  ledger'.balance[a] >= ledger.balance[a]
  <2>1. PICK u \in Users : u = Payer[tx'[q].ship]
    BY <1>2, <1>3
  <2>2. Paying(tx[q]) /\ Payer[tx[q].ship] = u /\ u \notin racedPayers
    BY <1>2, <1>3, <2>1
  <2>3. ASSUME NEW r \in Sessions, PayFromWalletCommit(r), Payer[tx[r].ship] = u PROVE FALSE
    <3>1. Paying(tx[r]) /\ ~ Paying(tx'[r])
      BY <2>3 DEF PayFromWalletCommit, At, Paying, CommitTx, Idle, IInv, Typed
    <3>2. r = p
      BY <1>1, <3>1
    <3>3. q # p
      BY <1>3, <3>1, <3>2
    <3> QED BY <2>2, <2>3, <3>1, <3>2, <3>3 DEF WalletInv
  <2> QED BY <1>3, <2>1, <2>3, OnlyPaymentsSpend
<1>4. \A a \in Accounts : ledger.balance[a] \in Int /\ ledger'.balance[a] \in Int
  BY NextIInv DEF IInv, Typed, LedgerType
<1>5. ASSUME NEW q \in Sessions, Paying(tx'[q])
      PROVE  /\ tx'[q].pc \in {"row", "promo", "funds"}
             /\ Payer[tx'[q].ship] \notin racedPayers =>
                   /\ \A r \in Sessions \ {q} :
                         Paying(tx'[r]) => Payer[tx'[r].ship] # Payer[tx'[q].ship]
                   /\ tx'[q].pc \in {"promo", "funds"} =>
                         tx'[q].promo <= ledger'.balance[UserPromoCredit(Payer[tx'[q].ship])]
                   /\ tx'[q].pc = "funds" =>
                         tx'[q].funds <= ledger'.balance[UserWallet(Payer[tx'[q].ship])]
  <2>1. tx'[q].pc \in {"row", "promo", "funds"}
    BY <1>1, <1>5 DEF WalletInv
  <2> SUFFICES ASSUME Payer[tx'[q].ship] \notin racedPayers
               PROVE  /\ \A r \in Sessions \ {q} :
                            Paying(tx'[r]) => Payer[tx'[r].ship] # Payer[tx'[q].ship]
                      /\ tx'[q].pc \in {"promo", "funds"} =>
                            tx'[q].promo <= ledger'.balance[UserPromoCredit(Payer[tx'[q].ship])]
                      /\ tx'[q].pc = "funds" =>
                            tx'[q].funds <= ledger'.balance[UserWallet(Payer[tx'[q].ship])]
    BY <2>1
  <2>2. Paying(tx[q]) /\ tx'[q].ship = tx[q].ship /\ Payer[tx'[q].ship] \in Users
    BY <1>2, <1>5
  <2>3. \A r \in Sessions \ {q} : Paying(tx'[r]) => Payer[tx'[r].ship] # Payer[tx'[q].ship]
    BY <1>2, <2>2 DEF WalletInv
  <2> DEFINE pa == UserPromoCredit(Payer[tx'[q].ship])
             wa == UserWallet(Payer[tx'[q].ship])
  <2>4. /\ ledger'.balance[pa] >= ledger.balance[pa] /\ ledger'.balance[wa] >= ledger.balance[wa]
        /\ pa \in Accounts /\ wa \in Accounts
    <3>1. pa \in Purses(Payer[tx'[q].ship]) /\ wa \in Purses(Payer[tx'[q].ship])
      BY DEF Purses
    <3>2. pa \in Accounts /\ wa \in Accounts
      BY <2>2 DEF UserPromoCredit, UserWallet, Accounts
    <3> QED BY <1>3, <1>5, <3>1, <3>2
  <2>5. tx[q] \in Session
    BY DEF IInv, Typed
  <2>6. /\ tx'[q].pc \in {"promo", "funds"} => tx'[q].promo <= ledger.balance[pa]
        /\ tx'[q].pc = "funds" => tx'[q].funds <= ledger.balance[wa]
        /\ tx'[q].pc \in {"promo", "funds"} => tx'[q].promo \in Int
        /\ tx'[q].pc = "funds" => tx'[q].funds \in Int
    <3>1. CASE q # p
      <4>1. tx'[q] = tx[q] /\ tx[q].promo \in Int /\ tx[q].funds \in Int
        BY <1>1, <2>5, <3>1 DEF Session
      <4> QED BY <2>2, <4>1 DEF WalletInv
    <3>2. CASE q = p
      <4>1. tx'[q] = t /\ tx[q].promo \in Int /\ tx[q].funds \in Int
        BY <1>1, <2>5, <3>2 DEF Session
      <4>2. ledger.balance[pa] \in Int /\ ledger.balance[wa] \in Int
        BY <1>4, <2>4
      <4> HIDE DEF pa, wa
      <4> QED BY <1>5, <2>2, <3>2, <4>1, <4>2 DEF WalletInv, pa, wa
    <3> QED BY <3>1, <3>2
  <2>7. /\ ledger.balance[pa] \in Int /\ ledger'.balance[pa] \in Int
        /\ ledger.balance[wa] \in Int /\ ledger'.balance[wa] \in Int
    BY <1>4, <2>4
  <2> QED BY <2>3, <2>4, <2>6, <2>7
<1> QED BY <1>5 DEF WalletInv

LEMMA WalletBegin ==
    ASSUME IInv, WalletInv, NEW p \in Sessions, NEW s \in Shipments, NEW t,
           tx' = [tx EXCEPT ![p] = t], ~ Paying(tx[p]),
           UNCHANGED ledger, racedPayers \subseteq racedPayers',
           Paying(t) =>
               /\ t.pc = "row" /\ t.ship = s
               /\ \A q \in Sessions \ {p} :
                     Paying(tx[q]) /\ Payer[tx[q].ship] = Payer[s] => Payer[s] \in racedPayers'
    PROVE  WalletInv'
<1>1. \A q \in Sessions : tx'[q] = IF q = p THEN t ELSE tx[q]
  BY DEF IInv, Typed
<1>2. ASSUME NEW q \in Sessions, Paying(tx'[q]), Payer[tx'[q].ship] \notin racedPayers',
             NEW r \in Sessions \ {q}, Paying(tx'[r])
      PROVE  Payer[tx'[r].ship] # Payer[tx'[q].ship]
  <2>1. CASE q = p
    BY <1>1, <1>2, <2>1
  <2>2. CASE r = p
    BY <1>1, <1>2, <2>2
  <2>3. CASE q # p /\ r # p
    BY <1>1, <1>2, <2>3 DEF WalletInv
  <2> QED BY <2>1, <2>2, <2>3
<1>3. ASSUME NEW q \in Sessions, Paying(tx'[q])
      PROVE  /\ tx'[q].pc \in {"row", "promo", "funds"}
             /\ Payer[tx'[q].ship] \notin racedPayers' =>
                   /\ tx'[q].pc \in {"promo", "funds"} =>
                         tx'[q].promo <= ledger'.balance[UserPromoCredit(Payer[tx'[q].ship])]
                   /\ tx'[q].pc = "funds" =>
                         tx'[q].funds <= ledger'.balance[UserWallet(Payer[tx'[q].ship])]
  <2>1. CASE q = p
    BY <1>1, <1>3, <2>1
  <2>2. CASE q # p
    BY <1>1, <1>3, <2>2 DEF WalletInv
  <2> QED BY <2>1, <2>2
<1> QED BY <1>2, <1>3 DEF WalletInv

LEMMA RequestWallets ==
    ASSUME IInv, WalletInv, NEW p \in Sessions, NEW s \in Shipments, Request(p, s)
    PROVE  WalletInv'
<1>1. tx[p] = Idle /\ ~ Paying(Idle)
  BY DEF Request, CreateEscrow, FundEscrow, PayFromWallet, MarkDelivered, FreezeEscrow,
         ReleaseEscrow, RefundEscrow, PartialRefundEscrow, GetByShipmentID, Idle, Paying
<1>2. CASE CreateEscrow(p, s)
  <2> DEFINE t == OwingEvent("CreateEscrow", s, [NoRow EXCEPT !.status = "CREATED"])
  <2>1. tx' = [tx EXCEPT ![p] = t] /\ UNCHANGED <<ledger, racedPayers>>
    BY <1>2 DEF CreateEscrow
  <2>2. ~ Paying(t)
    BY DEF OwingEvent, Paying
  <2> HIDE DEF t
  <2> QED BY <1>1, <2>1, <2>2, WalletBegin
<1>3. ASSUME NEW op \in Ops, NEW arg, GetByShipmentID(p, op, s, arg),
             op # "PayFromWallet", UNCHANGED racedPayers
      PROVE  WalletInv'
  <2> DEFINE t == [pc |-> "row", op |-> op, ship |-> s, arg |-> arg,
                   row |-> escrow[s], promo |-> 0, funds |-> 0]
  <2>1. tx' = [tx EXCEPT ![p] = t] /\ UNCHANGED <<ledger, racedPayers>>
    BY <1>3 DEF GetByShipmentID
  <2>2. ~ Paying(t)
    BY <1>3 DEF Paying
  <2> HIDE DEF t
  <2> QED BY <1>1, <2>1, <2>2, WalletBegin
<1>4. ASSUME NEW u \in Users, NEW n \in 1 .. Gross[s], PayFromWallet(p, s, u, n)
      PROVE  WalletInv'
  <2> DEFINE t == [pc |-> "row", op |-> "PayFromWallet", ship |-> s, arg |-> None,
                   row |-> escrow[s], promo |-> 0, funds |-> 0]
  <2>1. tx' = [tx EXCEPT ![p] = t] /\ UNCHANGED ledger
    BY <1>4 DEF PayFromWallet, GetByShipmentID
  <2>2. racedPayers' = racedPayers \cup
           {x \in {Payer[s]} : \E q \in Sessions \ {p} :
                                 tx[q].op = "PayFromWallet" /\ Payer[tx[q].ship] = x}
    BY <1>4 DEF PayFromWallet
  <2>3. /\ t.pc = "row" /\ t.ship = s
        /\ \A q \in Sessions \ {p} :
              Paying(tx[q]) /\ Payer[tx[q].ship] = Payer[s] => Payer[s] \in racedPayers'
    BY <2>2 DEF Paying
  <2> HIDE DEF t
  <2> QED BY <1>1, <2>1, <2>2, <2>3, WalletBegin
<1> QED BY <1>2, <1>3, <1>4
        DEF Request, FundEscrow, MarkDelivered, FreezeEscrow, ReleaseEscrow, RefundEscrow,
            PartialRefundEscrow, Ops

LEMMA ContinueWallets ==
    ASSUME IInv, WalletInv, NEW p \in Sessions, Continue(p)
    PROVE  WalletInv'
<1>1. [Next]_vars
  BY DEF Next
<1>2. ASSUME NEW t, tx' = [tx EXCEPT ![p] = t], UNCHANGED racedPayers, ~ Paying(t)
      PROVE  WalletInv'
  BY <1>1, <1>2, WalletStep
<1>3. ~ Paying(Idle)
  BY DEF Paying, Idle
<1>4. CASE \/ FundEscrowCommit(p) \/ PayFromWalletCommit(p) \/ ReleaseEscrowCommit(p)
           \/ RefundEscrowCommit(p) \/ PartialRefundEscrowCommit(p)
           \/ EmitEscrowStatus(p) \/ Abort(p)
  <2>1. tx' = [tx EXCEPT ![p] = Idle] /\ UNCHANGED racedPayers
    BY <1>4 DEF FundEscrowCommit, PayFromWalletCommit, ReleaseEscrowCommit, RefundEscrowCommit,
                PartialRefundEscrowCommit, CommitRefund, CommitTx, EmitEscrowStatus, Abort
  <2> QED BY <1>2, <1>3, <2>1
<1>5. CASE MarkDeliveredUpdate(p) \/ FreezeEscrowUpdate(p)
  <2>1. PICK row : tx' = [tx EXCEPT ![p] = OwingEvent(tx[p].op, tx[p].ship, row)]
    BY <1>5 DEF MarkDeliveredUpdate, FreezeEscrowUpdate, AutoCommit
  <2>2. UNCHANGED racedPayers /\ ~ Paying(OwingEvent(tx[p].op, tx[p].ship, row))
    BY <1>5 DEF MarkDeliveredUpdate, FreezeEscrowUpdate, AutoCommit, At, Paying, OwingEvent
  <2> QED BY <1>2, <2>1, <2>2
<1>6. tx[p] \in Session /\ tx \in [Sessions -> Session]
  BY DEF IInv, Typed
<1>7. CASE ReadPromoBalance(p)
  <2> DEFINE t == [tx[p] EXCEPT !.pc = "promo",
                                !.promo = SumByAccount(UserPromoCredit(Payer[tx[p].ship]))]
  <2>1. tx' = [tx EXCEPT ![p] = t] /\ UNCHANGED racedPayers
    BY <1>6, <1>7 DEF ReadPromoBalance
  <2>2. Paying(tx[p]) /\ t.ship = tx[p].ship /\ t.pc = "promo"
        /\ t.promo = ledger.balance[UserPromoCredit(Payer[t.ship])]
    BY <1>6, <1>7 DEF ReadPromoBalance, At, Paying, SumByAccount, Session
  <2> HIDE DEF t
  <2> QED BY <1>1, <2>1, <2>2, WalletStep
<1>8. CASE ReadWalletBalance(p)
  <2> DEFINE t == [tx[p] EXCEPT !.pc = "funds",
                                !.funds = SumByAccount(UserWallet(Payer[tx[p].ship]))]
  <2>1. tx' = [tx EXCEPT ![p] = t] /\ UNCHANGED racedPayers
    BY <1>6, <1>8 DEF ReadWalletBalance
  <2>2. Paying(tx[p]) /\ t.ship = tx[p].ship /\ t.pc = "funds"
        /\ tx[p].pc = "promo" /\ t.promo = tx[p].promo
        /\ t.funds = ledger.balance[UserWallet(Payer[t.ship])]
    BY <1>6, <1>8 DEF ReadWalletBalance, At, Paying, SumByAccount, Session
  <2> HIDE DEF t
  <2> QED BY <1>1, <2>1, <2>2, WalletStep
<1>9. CASE EscrowBalance(p)
  <2> DEFINE t == [tx[p] EXCEPT !.pc = "funds",
                                !.funds = SumByAccount(ShipmentEscrow(tx[p].ship))]
  <2>1. tx' = [tx EXCEPT ![p] = t] /\ UNCHANGED racedPayers /\ ~ Paying(t)
    BY <1>6, <1>9 DEF EscrowBalance, Paying, Session
  <2> HIDE DEF t
  <2> QED BY <1>2, <2>1
<1> QED BY <1>4, <1>5, <1>7, <1>8, <1>9 DEF Continue

LEMMA NextWallets == IInv /\ WalletInv /\ [Next]_vars => WalletInv'
<1> SUFFICES ASSUME IInv, WalletInv, [Next]_vars PROVE WalletInv'
  OBVIOUS
<1>1. CASE UNCHANGED vars
  BY <1>1 DEF vars, WalletInv
<1> QED BY <1>1, RequestWallets, ContinueWallets DEF Next

(* A payment never takes wallet or promo credit below zero, for a payer    *)
(* whose wallet payments never overlapped (pay_from_wallet.go): the        *)
(* balances it read through the pool can only have grown since, because    *)
(* nothing else of this service takes money from a wallet.                 *)
THEOREM PaymentsAreCovered == Spec => NoOverdraft
<1>1. Init => WalletInv
  BY DEF Init, WalletInv, Paying, Idle
<1>2. IInv /\ WalletInv /\ [Next]_vars =>
        [\A u \in Users \ racedPayers' : \A a \in Purses(u) :
            ledger'.balance[a] < ledger.balance[a] => ledger'.balance[a] >= 0]_vars
  <2> SUFFICES ASSUME IInv, WalletInv, [Next]_vars,
                      NEW u \in Users \ racedPayers', NEW a \in Purses(u),
                      ledger'.balance[a] < ledger.balance[a]
               PROVE  ledger'.balance[a] >= 0
    OBVIOUS
  <2>1. a \in Accounts
    BY DEF Purses, UserWallet, UserPromoCredit, Accounts
  <2>2. ledger.balance[a] \in Int /\ ledger'.balance[a] \in Int
    BY <2>1, NextIInv DEF IInv, Typed, LedgerType
  <2>3. PICK p \in Sessions : PayFromWalletCommit(p) /\ Payer[tx[p].ship] = u
    BY <2>2, OnlyPaymentsSpend
  <2>4. u \notin racedPayers
    BY <2>3 DEF PayFromWalletCommit, CommitTx
  <2> QED BY <2>3, <2>4, PaymentCovered
<1>3. IInv /\ WalletInv /\ [Next]_vars =>
        [\A u \in Users \ racedPayers' : \A a \in {UserWallet(u), UserPromoCredit(u)} :
            ledger'.balance[a] < ledger.balance[a] => ledger'.balance[a] >= 0]_vars
  BY <1>2 DEF Purses
<1> QED BY <1>1, <1>3, NextWallets, Invariant, PTL DEF Spec, NoOverdraft

-----------------------------------------------------------------------------
(* Promo credit.  A write of shipment s moves d of it from the escrow's    *)
(* row to the payer's account: d is negative when an escrow is paid with   *)
(* it, positive when it is refunded, and 0 for every other write.          *)

PromoHeld == SumFunction([u \in Users |-> ledger.balance[UserPromoCredit(u)]])
PromoFunded == SumFunction([s \in Shipments |-> escrow[s].promo])

PromoBounded(s) ==
    escrow[s].status # "RELEASED" => escrow[s].promo \in 0 .. ledger.balance[ShipmentEscrow(s)]

MovesPromo(s, row, d) ==
    /\ escrow' = [escrow EXCEPT ![s] = row]
    /\ row.promo = escrow[s].promo - d
    /\ \A u \in Users :
          ledger'.balance[UserPromoCredit(u)] =
              ledger.balance[UserPromoCredit(u)] + (IF u = Payer[s] THEN d ELSE 0)
    /\ \A t \in Shipments \ {s} :
          ledger'.balance[ShipmentEscrow(t)] = ledger.balance[ShipmentEscrow(t)]
    /\ row.status # "RELEASED" => row.promo \in 0 .. ledger'.balance[ShipmentEscrow(s)]

LEMMA PromoTyped ==
    ASSUME IInv
    PROVE  /\ \A u \in Users : ledger.balance[UserPromoCredit(u)] \in Int
           /\ \A s \in Shipments : /\ ledger.balance[ShipmentEscrow(s)] \in Int
                                   /\ escrow[s] \in EscrowRow /\ escrow[s].promo \in Int
           /\ PromoHeld \in Int /\ PromoFunded \in Int
<1>1. \A u \in Users : ledger.balance[UserPromoCredit(u)] \in Int
  BY DEF IInv, Typed, LedgerType, UserPromoCredit, Accounts
<1>2. \A s \in Shipments : /\ ledger.balance[ShipmentEscrow(s)] \in Int
                           /\ escrow[s] \in EscrowRow /\ escrow[s].promo \in Int
  BY EscrowAccounts DEF IInv, Typed, LedgerType, EscrowRow
<1>4. IsFiniteSet(Users) /\ IsFiniteSet(Shipments)
  BY EscrowAssumption
<1> DEFINE f == [u \in Users |-> ledger.balance[UserPromoCredit(u)]]
           g == [s \in Shipments |-> escrow[s].promo]
<1>5. /\ DOMAIN f = Users /\ \A u \in Users : f[u] \in Int
      /\ DOMAIN g = Shipments /\ \A s \in Shipments : g[s] \in Int
  BY <1>1, <1>2
<1> HIDE DEF f, g
<1>6. SumFunction(f) \in Int /\ SumFunction(g) \in Int
  BY <1>4, <1>5, SumType DEF SumFunction
<1> QED BY <1>1, <1>2, <1>6 DEF PromoHeld, PromoFunded, f, g

LEMMA PromoSums ==
    ASSUME IInv, NEW s \in Shipments, NEW row, NEW d \in Int,
           MovesPromo(s, row, d)
    PROVE  /\ PromoHeld' = PromoHeld + d
           /\ PromoFunded' = PromoFunded - d
<1> DEFINE f == [u \in Users |-> ledger.balance[UserPromoCredit(u)]]
           f2 == [u \in Users |-> ledger'.balance[UserPromoCredit(u)]]
           g == [t \in Shipments |-> escrow[t].promo]
           g2 == [t \in Shipments |-> escrow'[t].promo]
<1>1. /\ DOMAIN f = Users /\ DOMAIN f2 = Users
      /\ DOMAIN g = Shipments /\ DOMAIN g2 = Shipments
      /\ Payer[s] \in Users /\ IsFiniteSet(Users) /\ IsFiniteSet(Shipments)
  BY Parties, EscrowAssumption
<1>2. /\ \A u \in Users : f[u] \in Int
      /\ f2[Payer[s]] = f[Payer[s]] + d /\ f2[Payer[s]] \in Int
      /\ \A u \in Users \ {Payer[s]} : f2[u] = f[u]
  BY <1>1, PromoTyped DEF MovesPromo
<1>3. /\ \A t \in Shipments : g[t] \in Int
      /\ g2[s] = g[s] - d /\ g2[s] \in Int
      /\ \A t \in Shipments \ {s} : g2[t] = g[t]
  BY PromoTyped DEF MovesPromo, IInv, Typed
<1> HIDE DEF f, f2, g, g2
<1>4. SumFunction(f2) = SumFunction(f) + f2[Payer[s]] - f[Payer[s]]
  BY <1>1, <1>2, SumChange DEF SumFunction
<1>5. SumFunction(g2) = SumFunction(g) + g2[s] - g[s]
  BY <1>1, <1>3, SumChange DEF SumFunction
<1>6. /\ SumFunction(f) = PromoHeld /\ SumFunction(f2) = PromoHeld'
      /\ SumFunction(g) = PromoFunded /\ SumFunction(g2) = PromoFunded'
  BY DEF PromoHeld, PromoFunded, f, f2, g, g2
<1>7. PromoHeld \in Int /\ PromoFunded \in Int
  BY PromoTyped
<1> QED BY <1>1, <1>2, <1>3, <1>4, <1>5, <1>6, <1>7

PromoInv == overlapped = {} => PromoBacked

PromoStep == PromoInv' /\ Promo' = Promo

LEMMA PromoKept ==
    ASSUME IInv, PromoInv, NEW s \in Shipments, NEW row, NEW d \in Int,
           overlapped = {}, MovesPromo(s, row, d)
    PROVE  PromoStep
<1>1. \A t \in Shipments : PromoBounded(t)
  BY DEF PromoInv, PromoBacked, PromoBounded
<1>2. PromoHeld' + PromoFunded' = PromoHeld + PromoFunded
  <2>1. PromoHeld' = PromoHeld + d /\ PromoFunded' = PromoFunded - d
    BY PromoSums
  <2>2. PromoHeld \in Int /\ PromoFunded \in Int
    BY PromoTyped
  <2> QED BY <2>1, <2>2
<1>3. ASSUME NEW t \in Shipments PROVE PromoBounded(t)'
  <2>1. CASE t = s
    BY <2>1 DEF MovesPromo, PromoBounded, IInv, Typed
  <2>2. CASE t # s
    BY <1>1, <2>2 DEF MovesPromo, PromoBounded, IInv, Typed
  <2> QED BY <2>1, <2>2
<1>4. PromoInv'
  BY <1>3 DEF PromoInv, PromoBacked, PromoBounded
<1>5. Promo' = Promo
  BY <1>2 DEF Promo, PromoHeld, PromoFunded
<1> QED BY <1>4, <1>5 DEF PromoStep

(* What a transaction that moves nothing but the accounts in d does to the *)
(* promo accounts.                                                         *)
LEMMA PromoShift ==
    ASSUME NEW l \in LedgerType, NEW m, NEW d, NEW s \in Shipments, NEW n \in Int,
           Shifts(l, m, d),
           \A t \in Shipments \ {s} : ShipmentEscrow(t) \notin DOMAIN d,
           \A u \in Users :
              IF UserPromoCredit(u) \in DOMAIN d
              THEN u = Payer[s] /\ d[UserPromoCredit(u)] = n
              ELSE u = Payer[s] => n = 0
    PROVE  /\ \A u \in Users :
                 m.balance[UserPromoCredit(u)] =
                     l.balance[UserPromoCredit(u)] + (IF u = Payer[s] THEN n ELSE 0)
           /\ \A t \in Shipments \ {s} : m.balance[ShipmentEscrow(t)] = l.balance[ShipmentEscrow(t)]
<1>1. /\ \A t \in Shipments : ShipmentEscrow(t) \in Accounts
      /\ \A u \in Users : UserPromoCredit(u) \in Accounts
  BY DEF ShipmentEscrow, UserPromoCredit, Accounts
<1>2. ASSUME NEW t \in Shipments \ {s}
      PROVE  m.balance[ShipmentEscrow(t)] = l.balance[ShipmentEscrow(t)]
  BY <1>1, ShiftsAt
<1>3. ASSUME NEW u \in Users
      PROVE  m.balance[UserPromoCredit(u)] =
                 l.balance[UserPromoCredit(u)] + (IF u = Payer[s] THEN n ELSE 0)
  <2> DEFINE a == UserPromoCredit(u)
  <2>1. a \in Accounts
    BY <1>1
  <2> HIDE DEF a
  <2>2. /\ l.balance[a] \in Int
        /\ a \notin DOMAIN d => m.balance[a] = l.balance[a]
        /\ a \in DOMAIN d => m.balance[a] = l.balance[a] + d[a]
    BY <2>1, ShiftsAt
  <2>3. IF a \in DOMAIN d THEN u = Payer[s] /\ d[a] = n ELSE u = Payer[s] => n = 0
    BY DEF a
  <2>4. m.balance[a] = l.balance[a] + (IF u = Payer[s] THEN n ELSE 0)
    BY <2>2, <2>3
  <2> QED BY <2>4 DEF a
<1> QED BY <1>2, <1>3

(* The four commits, each with what it does to the row's promo credit.     *)
LEMMA UntouchedCopy ==
    ASSUME IInv, NEW p \in Sessions, NEW s \in Shipments, InFlight(tx[p], s), overlapped = {}
    PROVE  /\ tx[p].row = escrow[s] /\ tx[p].row \in EscrowRow
           /\ Allowed(tx[p].op, escrow[s].status)
           /\ Holds(s, escrow[s].status, ledger.balance[ShipmentEscrow(s)])
           /\ tx[p].op \in BalanceOps /\ tx[p].pc = "funds" =>
                  tx[p].funds = ledger.balance[ShipmentEscrow(s)]
BY BeforeWrite DEF UpToDate

LEMMA FundPromo ==
    ASSUME IInv, PromoInv, overlapped = {}, NEW p \in Sessions, FundEscrowCommit(p)
    PROVE  PromoStep
<1>1. PICK s \in Shipments, o \in Orders : s = tx[p].ship /\ o = tx[p].arg
  BY FundEscrowEffect
<1>2. Funded(ledger, ledger', s, o)
  BY <1>1, FundEscrowEffect
<1> DEFINE d == [a \in {ShipmentEscrow(s), Account("IR_PSP_CLEARING")} |->
                    IF a = ShipmentEscrow(s) THEN Gross[s] ELSE - Gross[s]]
           row == [escrow[s] EXCEPT !.status = "FUNDED", !.order = o, !.source = "PSP",
                                    !.stamps = @ \cup {"funded_at"}]
<1>3. InFlight(tx[p], s) /\ tx[p].op = "FundEscrow"
  BY <1>1 DEF FundEscrowCommit, At, InFlight
<1>4. /\ tx[p].row = escrow[s] /\ escrow[s] \in EscrowRow
      /\ escrow[s].status = "CREATED" /\ ledger.balance[ShipmentEscrow(s)] = 0
  BY <1>3, UntouchedCopy DEF Allowed, CanFund, Holds
<1>5. escrow[s].promo = 0
  BY <1>4 DEF PromoInv, PromoBacked
<1>6. escrow' = [escrow EXCEPT ![s] = row]
  BY <1>1, <1>4 DEF FundEscrowCommit, CommitTx, Update
<1>7. row.promo = escrow[s].promo
  BY <1>4 DEF EscrowRow
<1>8. ledger'.balance[ShipmentEscrow(s)] = 0 + Gross[s] /\ Gross[s] \in Nat
  BY <1>2, <1>4, EscrowAccounts, Parties DEF Funded, Shifts
<1>9. /\ Shifts(ledger, ledger', d) /\ ledger \in LedgerType
      /\ \A t \in Shipments \ {s} : ShipmentEscrow(t) \notin DOMAIN d
      /\ \A u \in Users : UserPromoCredit(u) \notin DOMAIN d
  BY <1>2 DEF Funded, IInv, Typed, Account, ShipmentEscrow, UserPromoCredit
<1> HIDE DEF d
<1>10. /\ \A u \in Users :
             ledger'.balance[UserPromoCredit(u)] =
                 ledger.balance[UserPromoCredit(u)] + (IF u = Payer[s] THEN 0 ELSE 0)
       /\ \A t \in Shipments \ {s} :
             ledger'.balance[ShipmentEscrow(t)] = ledger.balance[ShipmentEscrow(t)]
  BY <1>9, PromoShift
<1>11. row.promo \in 0 .. ledger'.balance[ShipmentEscrow(s)]
  BY <1>5, <1>7, <1>8
<1> HIDE DEF row
<1>12. row.promo = escrow[s].promo - 0
  BY <1>5, <1>7
<1>13. MovesPromo(s, row, 0)
  BY <1>6, <1>10, <1>11, <1>12 DEF MovesPromo
<1> QED BY <1>13, PromoKept

LEMMA PayPromo ==
    ASSUME IInv, PromoInv, overlapped = {}, NEW p \in Sessions, PayFromWalletCommit(p)
    PROVE  PromoStep
<1>1. PICK s \in Shipments : s = tx[p].ship
  BY PayFromWalletEffect
<1> DEFINE split == ResolvePayerFundingSplit(Gross[s], tx[p].promo)
<1>2. /\ Paid(ledger, ledger', s, split)
      /\ split \in [promo : Nat, wallet : Nat] /\ split.promo + split.wallet = Gross[s]
  BY <1>1, PayFromWalletEffect DEF Paid
<1> DEFINE row == [escrow[s] EXCEPT !.status = "FUNDED", !.source = FundingSourceForSplit(split),
                                    !.promo = split.promo, !.stamps = @ \cup {"funded_at"}]
<1>3. InFlight(tx[p], s) /\ tx[p].op = "PayFromWallet"
  BY <1>1 DEF PayFromWalletCommit, At, InFlight
<1>4. /\ tx[p].row = escrow[s] /\ escrow[s] \in EscrowRow
      /\ escrow[s].status = "CREATED" /\ ledger.balance[ShipmentEscrow(s)] = 0
  BY <1>3, UntouchedCopy DEF Allowed, CanPayFromWallet, Holds
<1>5. escrow[s].promo = 0
  BY <1>4 DEF PromoInv, PromoBacked
<1>6. escrow' = [escrow EXCEPT ![s] = row]
  BY <1>1, <1>4 DEF PayFromWalletCommit, CommitTx, Update
<1> HIDE DEF split
<1>7. split.promo \in Nat /\ split.wallet \in Nat
  BY <1>2
<1>8. row.promo = split.promo
  BY <1>4 DEF EscrowRow
<1> DEFINE d == [a \in {ShipmentEscrow(s), UserPromoCredit(Payer[s]), UserWallet(Payer[s])} |->
                    IF a = ShipmentEscrow(s) THEN Gross[s]
                    ELSE IF a = UserPromoCredit(Payer[s]) THEN - split.promo
                    ELSE - split.wallet]
<1> DEFINE n == - split.promo
<1>9. ledger'.balance[ShipmentEscrow(s)] = 0 + Gross[s] /\ Gross[s] \in Nat
  BY <1>2, <1>4, EscrowAccounts, Parties DEF Paid, Shifts
<1>10. /\ Shifts(ledger, ledger', d) /\ ledger \in LedgerType
       /\ \A t \in Shipments \ {s} : ShipmentEscrow(t) \notin DOMAIN d
       /\ \A u \in Users :
             IF UserPromoCredit(u) \in DOMAIN d
             THEN u = Payer[s] /\ d[UserPromoCredit(u)] = n ELSE u = Payer[s] => n = 0
  BY <1>2 DEF Paid, IInv, Typed, Account, ShipmentEscrow, UserPromoCredit, UserWallet
<1>11. n \in Int /\ row.promo = escrow[s].promo - n
  BY <1>5, <1>7, <1>8
<1> HIDE DEF d, n
<1>12. /\ \A u \in Users :
             ledger'.balance[UserPromoCredit(u)] =
                 ledger.balance[UserPromoCredit(u)] + (IF u = Payer[s] THEN n ELSE 0)
       /\ \A t \in Shipments \ {s} :
             ledger'.balance[ShipmentEscrow(t)] = ledger.balance[ShipmentEscrow(t)]
  BY <1>10, <1>11, PromoShift
<1>13. row.promo \in 0 .. ledger'.balance[ShipmentEscrow(s)]
  BY <1>2, <1>7, <1>8, <1>9
<1> HIDE DEF row
<1>14. MovesPromo(s, row, n)
  BY <1>6, <1>11, <1>12, <1>13 DEF MovesPromo
<1> QED BY <1>11, <1>14, PromoKept

LEMMA ReleasePromo ==
    ASSUME IInv, PromoInv, overlapped = {}, NEW p \in Sessions, ReleaseEscrowCommit(p)
    PROVE  PromoStep
<1>1. PICK s \in Shipments, n \in Nat : s = tx[p].ship /\ n = tx[p].funds
  BY ReleaseEscrowEffect
<1>2. Released(ledger, ledger', s, n)
  BY <1>1, ReleaseEscrowEffect
<1>3. PICK fee \in 0 .. n :
          Shifts(ledger, ledger', [a \in {ShipmentEscrow(s), Account("AIRBAR_FEE_REVENUE"),
                                          UserWallet(Carrier[s])} |->
                                      IF a = ShipmentEscrow(s) THEN - n
                                      ELSE IF a = UserWallet(Carrier[s]) THEN n - fee
                                      ELSE fee])
  BY <1>2 DEF Released
<1> DEFINE d == [a \in {ShipmentEscrow(s), Account("AIRBAR_FEE_REVENUE"),
                        UserWallet(Carrier[s])} |->
                    IF a = ShipmentEscrow(s) THEN - n
                    ELSE IF a = UserWallet(Carrier[s]) THEN n - fee
                    ELSE fee]
           row == [escrow[s] EXCEPT !.status = "RELEASED", !.stamps = @ \cup {"released_at"}]
<1>4. InFlight(tx[p], s)
  BY <1>1 DEF ReleaseEscrowCommit, At, InFlight
<1>5. tx[p].row = escrow[s] /\ escrow[s] \in EscrowRow /\ escrow[s].promo \in Int
  BY <1>4, UntouchedCopy DEF EscrowRow
<1>6. escrow' = [escrow EXCEPT ![s] = row]
  BY <1>1, <1>5 DEF ReleaseEscrowCommit, CommitTx, Update
<1>7. row.promo = escrow[s].promo - 0 /\ row.status = "RELEASED"
  BY <1>5 DEF EscrowRow
<1>8. /\ Shifts(ledger, ledger', d) /\ ledger \in LedgerType
      /\ \A t \in Shipments \ {s} : ShipmentEscrow(t) \notin DOMAIN d
      /\ \A u \in Users : UserPromoCredit(u) \notin DOMAIN d
  BY <1>3 DEF IInv, Typed, Account, ShipmentEscrow, UserPromoCredit, UserWallet
<1> HIDE DEF d, row
<1>9. /\ \A u \in Users :
            ledger'.balance[UserPromoCredit(u)] =
                ledger.balance[UserPromoCredit(u)] + (IF u = Payer[s] THEN 0 ELSE 0)
      /\ \A t \in Shipments \ {s} :
            ledger'.balance[ShipmentEscrow(t)] = ledger.balance[ShipmentEscrow(t)]
  BY <1>8, PromoShift
<1>10. MovesPromo(s, row, 0)
  BY <1>6, <1>7, <1>9 DEF MovesPromo
<1> QED BY <1>10, PromoKept

LEMMA RefundPromoCredit ==
    ASSUME IInv, PromoInv, overlapped = {}, NEW p \in Sessions, NEW n, RefundsOf(p, n)
    PROVE  PromoStep
<1>1. PICK s \in Shipments : s = tx[p].ship
  BY RefundEscrowEffect
<1>2. /\ InFlight(tx[p], s) /\ tx[p].pc = "funds"
      /\ tx[p].op \in {"RefundEscrow", "PartialRefundEscrow"}
  BY <1>1 DEF RefundsOf, RefundEscrowCommit, PartialRefundEscrowCommit, At, InFlight
<1>3. /\ tx[p].row = escrow[s] /\ escrow[s] \in EscrowRow /\ escrow[s].promo \in Int
      /\ CanRefund(escrow[s].status) /\ tx[p].funds = ledger.balance[ShipmentEscrow(s)]
  BY <1>2, UntouchedCopy DEF EscrowRow, Allowed, CanPartialRefund, BalanceOps
<1> DEFINE part == RefundAllocation(n, escrow[s].promo)
<1>4. /\ n \in Nat /\ n > 0 /\ n <= ledger.balance[ShipmentEscrow(s)]
      /\ part \in [promo : Nat, wallet : Nat] /\ part.promo + part.wallet = n
      /\ Refunded(ledger, ledger', s, part)
  BY <1>1, <1>3, RefundEscrowEffect
<1>5. escrow[s].promo \in 0 .. ledger.balance[ShipmentEscrow(s)]
  BY <1>3 DEF PromoInv, PromoBacked, CanRefund
<1>6. part.promo = AtMost(escrow[s].promo, n)
  BY <1>3, <1>4, <1>5 DEF RefundAllocation, AtMost
<1>7. PICK row :
         /\ escrow' = [escrow EXCEPT ![s] = row]
         /\ row.promo = AtLeast(0, escrow[s].promo - part.promo)
  <2>1. PICK status :
           escrow' = [escrow EXCEPT ![s] =
                        [escrow[s] EXCEPT !.status = status,
                                          !.promo = AtLeast(0, @ - part.promo),
                                          !.stamps = @ \cup {"refunded_at"}]]
    BY <1>1, <1>3 DEF RefundsOf, RefundEscrowCommit, PartialRefundEscrowCommit, CommitRefund,
                      CommitTx, Update
  <2> HIDE DEF part
  <2> DEFINE row == [escrow[s] EXCEPT !.status = status,
                                      !.promo = AtLeast(0, @ - part.promo),
                                      !.stamps = @ \cup {"refunded_at"}]
  <2>2. row.promo = AtLeast(0, escrow[s].promo - part.promo)
    BY <1>3 DEF EscrowRow
  <2>3. escrow' = [escrow EXCEPT ![s] = row]
    BY <2>1
  <2> HIDE DEF row
  <2> QED BY <2>2, <2>3
<1> HIDE DEF part
<1>8. part.promo \in Nat /\ part.wallet \in Nat
  BY <1>4
<1> DEFINE k == part.promo
           d == [a \in {ShipmentEscrow(s), UserPromoCredit(Payer[s]), UserWallet(Payer[s])} |->
                    IF a = ShipmentEscrow(s) THEN -(part.promo + part.wallet)
                    ELSE IF a = UserPromoCredit(Payer[s]) THEN part.promo
                    ELSE part.wallet]
<1>9. ledger.balance[ShipmentEscrow(s)] \in Int
  BY PromoTyped
<1>10. ledger'.balance[ShipmentEscrow(s)] = ledger.balance[ShipmentEscrow(s)] - n
  BY <1>4, <1>8, <1>9, EscrowAccounts DEF Refunded, Shifts
<1>11. row.promo = escrow[s].promo - k /\ row.promo \in 0 .. ledger'.balance[ShipmentEscrow(s)]
  BY <1>3, <1>4, <1>5, <1>6, <1>7, <1>8, <1>9, <1>10 DEF AtMost, AtLeast
<1>12. /\ Shifts(ledger, ledger', d) /\ ledger \in LedgerType
       /\ \A t \in Shipments \ {s} : ShipmentEscrow(t) \notin DOMAIN d
       /\ \A u \in Users :
             IF UserPromoCredit(u) \in DOMAIN d
             THEN u = Payer[s] /\ d[UserPromoCredit(u)] = k ELSE u = Payer[s] => k = 0
  BY <1>4 DEF Refunded, IInv, Typed, Account, ShipmentEscrow, UserPromoCredit, UserWallet
<1>13. k \in Int
  BY <1>8
<1> HIDE DEF d, k
<1>14. /\ \A u \in Users :
             ledger'.balance[UserPromoCredit(u)] =
                 ledger.balance[UserPromoCredit(u)] + (IF u = Payer[s] THEN k ELSE 0)
       /\ \A t \in Shipments \ {s} :
             ledger'.balance[ShipmentEscrow(t)] = ledger.balance[ShipmentEscrow(t)]
  BY <1>12, <1>13, PromoShift
<1>15. MovesPromo(s, row, k)
  BY <1>7, <1>11, <1>14 DEF MovesPromo
<1> QED BY <1>13, <1>15, PromoKept

(* A write of the row that leaves its promo credit and the ledger alone.   *)
LEMMA RowPromo ==
    ASSUME IInv, PromoInv, overlapped = {}, NEW s \in Shipments, NEW row,
           UNCHANGED ledger, escrow' = [escrow EXCEPT ![s] = row],
           row.promo = escrow[s].promo, escrow[s].status # "RELEASED"
    PROVE  PromoStep
<1>1. row.promo = escrow[s].promo - 0
  BY PromoTyped
<1>2. \A u \in Users :
         ledger'.balance[UserPromoCredit(u)] =
             ledger.balance[UserPromoCredit(u)] + (IF u = Payer[s] THEN 0 ELSE 0)
  BY PromoTyped
<1>3. row.promo \in 0 .. ledger'.balance[ShipmentEscrow(s)]
  BY DEF PromoInv, PromoBacked
<1>4. MovesPromo(s, row, 0)
  BY <1>1, <1>2, <1>3 DEF MovesPromo
<1> QED BY <1>4, PromoKept

LEMMA UpdatePromo ==
    ASSUME IInv, PromoInv, overlapped = {}, NEW p \in Sessions,
           MarkDeliveredUpdate(p) \/ FreezeEscrowUpdate(p)
    PROVE  PromoStep
<1>1. PICK s \in Shipments : s = tx[p].ship /\ InFlight(tx[p], s)
  BY ShipInFlight DEF MarkDeliveredUpdate, FreezeEscrowUpdate, At
<1>2. /\ tx[p].row = escrow[s] /\ escrow[s] \in EscrowRow /\ escrow[s].status # "RELEASED"
  BY <1>1, UntouchedCopy DEF Allowed, CanMarkDelivered, CanFreeze, MarkDeliveredUpdate,
                             FreezeEscrowUpdate, At
<1>3. PICK status : escrow' = [escrow EXCEPT ![s] = [escrow[s] EXCEPT !.status = status]]
  BY <1>1, <1>2 DEF MarkDeliveredUpdate, FreezeEscrowUpdate, AutoCommit, Update
<1> DEFINE row == [escrow[s] EXCEPT !.status = status]
<1>4. row.promo = escrow[s].promo
  BY <1>2 DEF EscrowRow
<1>5. UNCHANGED ledger
  BY DEF MarkDeliveredUpdate, FreezeEscrowUpdate, AutoCommit
<1> HIDE DEF row
<1>6. escrow' = [escrow EXCEPT ![s] = row]
  BY <1>3 DEF row
<1> QED BY <1>2, <1>4, <1>5, <1>6, RowPromo

LEMMA CreatePromo ==
    ASSUME IInv, PromoInv, overlapped = {}, NEW p \in Sessions, NEW s \in Shipments,
           CreateEscrow(p, s)
    PROVE  PromoStep
<1> DEFINE row == [NoRow EXCEPT !.status = "CREATED"]
<1>1. escrow[s].status = "NONE" /\ escrow' = [escrow EXCEPT ![s] = row] /\ UNCHANGED ledger
  BY DEF CreateEscrow
<1>2. ledger.balance[ShipmentEscrow(s)] = 0
  BY <1>1 DEF IInv, Covered, Holds
<1>3. escrow[s].promo = 0
  BY <1>1, <1>2 DEF PromoInv, PromoBacked
<1>4. row.promo = escrow[s].promo
  BY <1>3 DEF NoRow
<1> HIDE DEF row
<1> QED BY <1>1, <1>4, RowPromo

LEMMA NextPromo == IInv /\ PromoInv /\ [Next]_vars /\ overlapped' = {} => PromoStep
<1> SUFFICES ASSUME IInv, PromoInv, [Next]_vars, overlapped' = {}
             PROVE  PromoStep
  OBVIOUS
<1>1. ASSUME UNCHANGED <<ledger, escrow>>, overlapped = {} PROVE PromoStep
  BY <1>1 DEF PromoStep, PromoInv, PromoBacked, Promo
<1>2. CASE UNCHANGED vars
  BY <1>1, <1>2 DEF vars
<1>3. ASSUME NEW p \in Sessions, NEW s \in Shipments, Request(p, s)
      PROVE  PromoStep
  <2>1. CASE CreateEscrow(p, s)
    BY <2>1, CreatePromo DEF CreateEscrow
  <2>2. ASSUME NEW op, NEW arg, GetByShipmentID(p, op, s, arg) PROVE PromoStep
    BY <1>1, <2>2 DEF GetByShipmentID
  <2> QED BY <1>3, <2>1, <2>2 DEF Request, FundEscrow, PayFromWallet, MarkDelivered, FreezeEscrow,
                                  ReleaseEscrow, RefundEscrow, PartialRefundEscrow
<1>4. ASSUME NEW p \in Sessions, Continue(p)
      PROVE  PromoStep
  <2>1. overlapped = {}
    BY <1>4 DEF Continue, FundEscrowCommit, ReadPromoBalance, ReadWalletBalance,
                PayFromWalletCommit, MarkDeliveredUpdate, FreezeEscrowUpdate, EmitEscrowStatus,
                EscrowBalance, ReleaseEscrowCommit, RefundEscrowCommit,
                PartialRefundEscrowCommit, CommitRefund, CommitTx, AutoCommit, Abort
  <2>2. CASE \/ ReadPromoBalance(p) \/ ReadWalletBalance(p) \/ EscrowBalance(p)
             \/ EmitEscrowStatus(p) \/ Abort(p)
    BY <1>1, <2>1, <2>2 DEF ReadPromoBalance, ReadWalletBalance, EscrowBalance,
                            EmitEscrowStatus, Abort
  <2>3. CASE RefundEscrowCommit(p) \/ PartialRefundEscrowCommit(p)
    BY <2>1, <2>3, RefundPromoCredit DEF RefundsOf
  <2> QED BY <1>4, <2>1, <2>2, <2>3, FundPromo, PayPromo, ReleasePromo, UpdatePromo DEF Continue
<1> QED BY <1>2, <1>3, <1>4 DEF Next

LEMMA InitPromo == Init => PromoInv
<1> SUFFICES ASSUME Init, NEW s \in Shipments
             PROVE  escrow[s].promo \in 0 .. ledger.balance[ShipmentEscrow(s)]
  BY DEF PromoInv, PromoBacked
<1>1. PICK seed \in Seeds : ledger = [balance |-> seed, posted |-> {}]
  BY DEF Init
<1>2. seed[ShipmentEscrow(s)] = 0
  BY EscrowAssumption
<1>3. escrow[s].promo = 0
  BY DEF Init, NoRow
<1> QED BY <1>1, <1>2, <1>3

(* Promo credit is spent and returned as promo credit: what users hold and *)
(* what escrows record as promo_credit_funded together never change, by    *)
(* any interleaving of payments, releases and refunds of different         *)
(* shipments, and no escrow records more of it than it still holds.        *)
THEOREM PromoIsConserved == Spec => PromoConserved
<1>1. IInv /\ PromoInv /\ [Next]_vars => PromoInv'
  <2>1. CASE overlapped' = {}
    BY <2>1, NextPromo DEF PromoStep
  <2>2. CASE overlapped' # {}
    BY <2>2 DEF PromoInv
  <2> QED BY <2>1, <2>2
<1>2. IInv /\ PromoInv /\ [Next]_vars =>
        [overlapped' = {} => Promo' = Promo /\ PromoBacked']_vars
  BY NextPromo DEF PromoStep, PromoInv
<1> QED BY <1>1, <1>2, InitPromo, Invariant, PTL DEF Spec, PromoConserved
=============================================================================
