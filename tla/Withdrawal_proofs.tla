-------------------------- MODULE Withdrawal_proofs --------------------------
(***************************************************************************)
(* Theorems about Withdrawal, for every number of withdrawals, users and   *)
(* sessions, every amount and every overlap of requests.                   *)
(***************************************************************************)
EXTENDS Withdrawal, SumTheorems, FiniteSetTheorems, TLAPS

-----------------------------------------------------------------------------
(* What the journals do to the ledger.                                     *)

LedgerType == [balance : [Accounts -> Int], posted : SUBSET Refs]

ReversalRef(w, kind) == <<"WITHDRAWAL_REJECT_REVERSAL", w, kind>>

(* Posting a transfer keeps the ledger's type and adds its reference.      *)
LEMMA PostTyped ==
    ASSUME NEW l \in LedgerType, NEW ref \in Refs, NEW from, NEW to, NEW n \in Nat
    PROVE  LET m == Post(l, Journal(ref, Between(from, to, n))) IN
           /\ m \in LedgerType
           /\ m.posted = l.posted \cup {ref}
<1> DEFINE lines == Between(from, to, n)
           after == [a \in DOMAIN l.balance |->
                        IF a \in DOMAIN lines
                        THEN l.balance[a] + lines[a].credit - lines[a].debit
                        ELSE l.balance[a]]
<1>1. DOMAIN l.balance = Accounts /\ \A a \in Accounts : l.balance[a] \in Int
  BY DEF LedgerType
<1>2. \A a \in DOMAIN lines : lines[a] \in [debit : Int, credit : Int]
  BY DEF Between, Debit, Credit
<1>3. after \in [Accounts -> Int]
  <2> HIDE DEF lines
  <2> QED BY <1>1, <1>2
<1>4. Post(l, Journal(ref, lines)) = [balance |-> after, posted |-> l.posted \cup {ref}]
  BY DEF Post, Journal
<1>5. l.posted \cup {ref} \in SUBSET Refs
  BY DEF LedgerType
<1> HIDE DEF after, lines
<1>6. /\ Post(l, Journal(ref, lines)) \in LedgerType
      /\ Post(l, Journal(ref, lines)).posted = l.posted \cup {ref}
  BY <1>3, <1>4, <1>5 DEF LedgerType
<1> QED BY <1>6 DEF lines

-----------------------------------------------------------------------------
(* The inductive invariant.  Its core: while requests for a withdrawal do  *)
(* not overlap, the copy a handler works on is still the row, and the      *)
(* reversals in the ledger are what the row's status says.  What holds for *)
(* overlapping requests too speaks of rows and of the copies alike.        *)

Receipted(row) ==
    row.status \in {"SENT_TO_BANK", "SETTLED", "COMPLETED"} => row.receipt

Allowed(op, status) ==
    /\ status # "NONE"
    /\ op = "CreateWithdrawal" => status = "PENDING"
    /\ op = "ApproveWithdrawal" => CanApprove(status)
    /\ op = "MarkWithdrawalSent" => CanMarkSent(status)
    /\ op = "SettleWithdrawal" => CanSettle(status)
    /\ op = "FailWithdrawal" => CanFail(status)
    /\ op = "ProcessWithdrawal" => CanProcess(status)
    /\ op = "RejectWithdrawal" => CanReject(status)

WellFormed(t) ==
    /\ Receipted(t.row)
    /\ t.pc = "row" => /\ Allowed(t.op, t.row.status)
                       /\ (t.op = "CreateWithdrawal") <=> (t.id = None)
    /\ t.pc = "emit" => t.id \in Withdrawals /\ t.row.status \notin {"REJECTED", "FAILED"}

Serving == \A p \in Sessions : WellFormed(tx[p])

Alone ==
    \A p, q \in Sessions : \A w \in Withdrawals \ overlapped :
        Handling(p, w) /\ Handling(q, w) => p = q

Fresh ==
    \A p \in Sessions : \A w \in Withdrawals \ overlapped :
        Handling(p, w) => tx[p].row = withdrawals[w]

Explained(w, status, refs) ==
    refs = IF status = "REJECTED" THEN {ReversalRef(w, "reject")}
           ELSE IF status = "FAILED" THEN {ReversalRef(w, "fail")} ELSE {}

Told ==
    \A w \in Withdrawals \ overlapped : Explained(w, withdrawals[w].status, Reversals(w))

IInv == TypeOK /\ Serving /\ Alone /\ Fresh /\ Told /\ PaidHasReceipt /\ RefusedIsReturned

LEMMA IdleTyped ==
    /\ NoRow \in Row
    /\ Idle \in Session
    /\ WellFormed(Idle)
BY DEF NoRow, Row, Statuses, Idle, Session, WellFormed, Receipted

LEMMA InitIInv == Init => IInv
<1> SUFFICES ASSUME Init PROVE IInv
  OBVIOUS
<1>1. PICK seed \in Seeds : ledger = [balance |-> seed, posted |-> {}]
  BY DEF Init
<1>2. seed \in [Accounts -> Int]
  BY WithdrawalAssumption
<1>3. TypeOK
  BY <1>1, <1>2, IdleTyped DEF Init, TypeOK
<1>4. Serving /\ Alone /\ Fresh
  BY IdleTyped DEF Init, Serving, Alone, Fresh, Handling, Idle
<1>5. Told /\ PaidHasReceipt /\ RefusedIsReturned
  BY <1>1 DEF Init, Told, Explained, Reversals, NoRow, PaidHasReceipt, RefusedIsReturned
<1> QED BY <1>3, <1>4, <1>5 DEF IInv

(* The steps of WithdrawalContract, as changes of the status.              *)
Transition(from, to) ==
    \/ from = "NONE" /\ to = "PENDING"
    \/ from = "PENDING" /\ to \in {"APPROVED", "COMPLETED", "REJECTED"}
    \/ from = "APPROVED" /\ to \in {"SENT_TO_BANK", "FAILED"}
    \/ from = "SENT_TO_BANK" /\ to \in {"SETTLED", "FAILED"}

(* The reversal that comes with a write of a status.                       *)
Returned(w, status) ==
    {ReversalRef(w, kind) : kind \in {k \in {"reject", "fail"} :
        \/ k = "reject" /\ status = "REJECTED"
        \/ k = "fail" /\ status = "FAILED"}}

(* A step that writes the row of w and ends the session's work on it.  No  *)
(* other session works on w unless requests for w have overlapped.         *)
Writes(p, w) ==
    /\ \E t \in Session :
          tx' = [tx EXCEPT ![p] = t] /\ WellFormed(t) /\ t.pc # "row"
    /\ \E row \in Row :
          /\ withdrawals' = [withdrawals EXCEPT ![w] = row]
          /\ Receipted(row)
          /\ w \notin overlapped =>
                /\ \A q \in Sessions \ {p} : ~Handling(q, w)
                /\ Transition(withdrawals[w].status, row.status)
          /\ ledger' \in LedgerType
          /\ \A x \in Withdrawals :
                Reversals(x)' = Reversals(x) \cup (IF x = w THEN Returned(w, row.status) ELSE {})
          /\ events' \subseteq events \cup {<<w, row.status>>}
    /\ UNCHANGED <<overlapped, racedUsers>>

LEMMA WriteKeeps ==
    ASSUME IInv, NEW p \in Sessions, NEW w \in Withdrawals, Writes(p, w)
    PROVE  IInv'
<1>1. PICK t \in Session :
         tx' = [tx EXCEPT ![p] = t] /\ WellFormed(t) /\ t.pc # "row"
  BY DEF Writes
<1>2. PICK row \in Row :
         /\ withdrawals' = [withdrawals EXCEPT ![w] = row]
         /\ Receipted(row)
         /\ w \notin overlapped =>
               /\ \A q \in Sessions \ {p} : ~Handling(q, w)
               /\ Transition(withdrawals[w].status, row.status)
         /\ ledger' \in LedgerType
         /\ \A x \in Withdrawals :
               Reversals(x)' = Reversals(x) \cup (IF x = w THEN Returned(w, row.status) ELSE {})
         /\ events' \subseteq events \cup {<<w, row.status>>}
  BY DEF Writes
<1>3. tx' \in [Sessions -> Session] /\ withdrawals' \in [Withdrawals -> Row]
  BY <1>1, <1>2 DEF IInv, TypeOK
<1>4. tx'[p] = t /\ \A q \in Sessions \ {p} : tx'[q] = tx[q]
  BY <1>1 DEF IInv, TypeOK
<1>5. withdrawals'[w] = row /\ \A x \in Withdrawals \ {w} : withdrawals'[x] = withdrawals[x]
  BY <1>2 DEF IInv, TypeOK
<1>6. UNCHANGED <<overlapped, racedUsers>>
  BY DEF Writes
<1>7. TypeOK'
  <2>1. row.status \in Statuses
    BY DEF Row
  <2>2. events' \subseteq Withdrawals \X Statuses
    BY <1>2, <2>1 DEF IInv, TypeOK
  <2> QED BY <1>2, <1>3, <1>6, <2>2 DEF IInv, TypeOK, LedgerType
<1>8. Serving'
  BY <1>1, <1>4 DEF IInv, Serving
<1>9. Alone'
  BY <1>1, <1>4, <1>6 DEF IInv, Alone, Handling
<1>10. Fresh'
  BY <1>1, <1>2, <1>4, <1>5, <1>6 DEF IInv, Fresh, Handling
<1>11. Told'
  <2> SUFFICES ASSUME NEW x \in Withdrawals, x \notin overlapped
               PROVE  Explained(x, withdrawals'[x].status, Reversals(x)')
    BY <1>6 DEF Told
  <2>1. Explained(x, withdrawals[x].status, Reversals(x))
    BY DEF IInv, Told
  <2>2. CASE x = w
    BY <1>2, <1>5, <2>1, <2>2 DEF Explained, Transition, Returned
  <2>3. CASE x # w
    BY <1>2, <1>5, <2>1, <2>3
  <2> QED BY <2>2, <2>3
<1>12. PaidHasReceipt'
  BY <1>2, <1>5 DEF IInv, PaidHasReceipt, Receipted
<1>13. RefusedIsReturned'
  <2> SUFFICES ASSUME NEW x \in Withdrawals, NEW status \in {"REJECTED", "FAILED"},
                      withdrawals'[x].status = status \/ <<x, status>> \in events'
               PROVE  \E r \in Reversals(x)' :
                          r[3] = IF status = "REJECTED" THEN "reject" ELSE "fail"
    BY DEF RefusedIsReturned
  <2>1. CASE withdrawals[x].status = status \/ <<x, status>> \in events
    BY <1>2, <2>1 DEF IInv, RefusedIsReturned
  <2>2. CASE x = w /\ row.status = status
    <3> DEFINE kind == IF status = "REJECTED" THEN "reject" ELSE "fail"
    <3>1. ReversalRef(w, kind) \in Returned(w, status)
      BY DEF Returned
    <3>2. ReversalRef(w, kind)[3] = kind
      BY DEF ReversalRef
    <3> QED BY <1>2, <2>2, <3>1, <3>2
  <2> QED BY <1>2, <1>5, <2>1, <2>2
<1> QED BY <1>7, <1>8, <1>9, <1>10, <1>11, <1>12, <1>13 DEF IInv

-----------------------------------------------------------------------------
(* The handlers.                                                           *)

(* What a handler about to write knows of its withdrawal.                  *)
LEMMA BeforeWrite ==
    ASSUME IInv, NEW p \in Sessions, tx[p].pc = "row", tx[p].op # "CreateWithdrawal"
    PROVE  /\ tx[p].id \in Withdrawals
           /\ tx[p].row \in Row /\ Receipted(tx[p].row)
           /\ Allowed(tx[p].op, tx[p].row.status)
           /\ tx[p].id \notin overlapped =>
                 /\ \A q \in Sessions \ {p} : ~Handling(q, tx[p].id)
                 /\ tx[p].row = withdrawals[tx[p].id]
<1>1. tx[p] \in Session /\ WellFormed(tx[p])
  BY DEF IInv, TypeOK, Serving
<1>2. tx[p].id \in Withdrawals /\ Handling(p, tx[p].id)
  BY <1>1 DEF Session, WellFormed, Handling
<1> QED BY <1>1, <1>2 DEF IInv, Alone, Fresh, Session, WellFormed

(* An UPDATE outside a transaction is a write that returns nothing.        *)
LEMMA AutoCommitWrites ==
    ASSUME IInv, NEW p \in Sessions, tx[p].pc = "row", tx[p].op # "CreateWithdrawal",
           NEW row \in Row, AutoCommit(p, row), Receipted(row),
           Transition(tx[p].row.status, row.status), row.status \notin {"REJECTED", "FAILED"}
    PROVE  Writes(p, tx[p].id)
<1> DEFINE w == tx[p].id
           t == [pc |-> "emit", op |-> tx[p].op, id |-> w, row |-> row]
<1>1. /\ w \in Withdrawals
      /\ w \notin overlapped =>
            /\ \A q \in Sessions \ {p} : ~Handling(q, w)
            /\ tx[p].row = withdrawals[w]
  BY BeforeWrite
<1>2. t \in Session /\ WellFormed(t) /\ t.pc # "row"
  BY <1>1 DEF IInv, TypeOK, Session, WellFormed
<1>3. /\ tx' = [tx EXCEPT ![p] = t]
      /\ withdrawals' = [withdrawals EXCEPT ![w] = row]
      /\ UNCHANGED <<ledger, events, overlapped, racedUsers>>
  BY DEF AutoCommit, Update
<1>4. \A x \in Withdrawals :
         Reversals(x)' = Reversals(x) \cup (IF x = w THEN Returned(w, row.status) ELSE {})
  <2>1. Returned(w, row.status) = {}
    BY DEF Returned
  <2> QED BY <1>3, <2>1 DEF Reversals
<1>5. ledger' \in LedgerType
  BY <1>3 DEF IInv, TypeOK, LedgerType
<1>6. events' \subseteq events \cup {<<w, row.status>>}
  BY <1>3
<1> HIDE DEF t, w
<1>7. Writes(p, w)
  BY <1>1, <1>2, <1>3, <1>4, <1>5, <1>6 DEF Writes
<1> QED BY <1>7 DEF w

LEMMA UpdateWrites ==
    ASSUME IInv, NEW p \in Sessions,
           \/ ApproveWithdrawalUpdate(p) \/ MarkWithdrawalSentUpdate(p)
           \/ SettleWithdrawalUpdate(p) \/ ProcessWithdrawalUpdate(p)
    PROVE  \E w \in Withdrawals : Writes(p, w)
<1>1. tx[p].pc = "row" /\ tx[p].op # "CreateWithdrawal"
  BY DEF ApproveWithdrawalUpdate, MarkWithdrawalSentUpdate, SettleWithdrawalUpdate,
         ProcessWithdrawalUpdate, At
<1>2. /\ tx[p].id \in Withdrawals
      /\ tx[p].row \in Row /\ Receipted(tx[p].row)
      /\ Allowed(tx[p].op, tx[p].row.status)
  BY <1>1, BeforeWrite
<1>3. CASE ApproveWithdrawalUpdate(p)
  <2> DEFINE row == [tx[p].row EXCEPT !.status = "APPROVED"]
  <2>1. row \in Row /\ row.status = "APPROVED" /\ Receipted(row)
    BY <1>2 DEF Row, Statuses, Receipted
  <2>2. tx[p].row.status = "PENDING" /\ AutoCommit(p, row)
    BY <1>2, <1>3 DEF ApproveWithdrawalUpdate, At, Allowed, CanApprove
  <2> HIDE DEF row
  <2> QED BY <1>1, <1>2, <2>1, <2>2, AutoCommitWrites DEF Transition
<1>4. CASE MarkWithdrawalSentUpdate(p)
  <2> DEFINE row == Dispatched(tx[p].row)
  <2>1. row \in Row /\ row.status = "SENT_TO_BANK" /\ Receipted(row)
    BY <1>2 DEF Row, Statuses, Receipted, Dispatched
  <2>2. tx[p].row.status = "APPROVED" /\ AutoCommit(p, row)
    BY <1>2, <1>4 DEF MarkWithdrawalSentUpdate, At, Allowed, CanMarkSent
  <2> HIDE DEF row
  <2> QED BY <1>1, <1>2, <2>1, <2>2, AutoCommitWrites DEF Transition
<1>5. CASE SettleWithdrawalUpdate(p)
  <2> DEFINE row == [tx[p].row EXCEPT !.status = "SETTLED"]
  <2>1. tx[p].row.status = "SENT_TO_BANK" /\ AutoCommit(p, row)
    BY <1>2, <1>5 DEF SettleWithdrawalUpdate, At, Allowed, CanSettle
  <2>2. row \in Row /\ row.status = "SETTLED" /\ Receipted(row)
    BY <1>2, <2>1 DEF Row, Statuses, Receipted
  <2> HIDE DEF row
  <2> QED BY <1>1, <1>2, <2>1, <2>2, AutoCommitWrites DEF Transition
<1>6. CASE ProcessWithdrawalUpdate(p)
  <2> DEFINE row == [tx[p].row EXCEPT !.status = "COMPLETED", !.receipt = TRUE]
  <2>1. row \in Row /\ row.status = "COMPLETED" /\ Receipted(row)
    BY <1>2 DEF Row, Statuses, Receipted
  <2>2. tx[p].row.status = "PENDING" /\ AutoCommit(p, row)
    BY <1>2, <1>6 DEF ProcessWithdrawalUpdate, At, Allowed, CanProcess
  <2> HIDE DEF row
  <2> QED BY <1>1, <1>2, <2>1, <2>2, AutoCommitWrites DEF Transition
<1> QED BY <1>3, <1>4, <1>5, <1>6

(* A transaction that gives the money back writes the status that says so. *)
LEMMA GiveBackWrites ==
    ASSUME IInv, NEW p \in Sessions, tx[p].pc = "row", tx[p].op # "CreateWithdrawal",
           NEW kind, NEW status, GiveBack(p, kind, status),
           \/ kind = "fail" /\ status = "FAILED"
           \/ kind = "reject" /\ status = "REJECTED",
           Transition(tx[p].row.status, status)
    PROVE  Writes(p, tx[p].id)
<1> DEFINE w == tx[p].id
           row == [tx[p].row EXCEPT !.status = status]
           ref == ReversalRef(w, kind)
           m == Post(ledger, Reversal(w, tx[p].row, kind))
<1>1. /\ w \in Withdrawals
      /\ tx[p].row \in Row
      /\ w \notin overlapped =>
            /\ \A q \in Sessions \ {p} : ~Handling(q, w)
            /\ tx[p].row = withdrawals[w]
  BY BeforeWrite
<1>2. row \in Row /\ row.status = status /\ Receipted(row)
  BY <1>1 DEF Row, Statuses, Receipted
<1>3. ledger \in LedgerType
  BY DEF IInv, TypeOK, LedgerType
<1>4. ref \in Refs /\ tx[p].row.amount \in Nat
  BY <1>1 DEF Refs, ReversalRef, Row
<1>5. /\ m = Post(ledger, Journal(ref, Between(Account("IR_PAYOUT_CLEARING"),
                                              UserWallet(tx[p].row.user), tx[p].row.amount)))
  BY DEF Reversal, ReversalRef
<1>6. m \in LedgerType /\ m.posted = ledger.posted \cup {ref}
  <2> HIDE DEF ref, m
  <2> QED BY <1>3, <1>4, <1>5, PostTyped
<1>7. /\ tx' = [tx EXCEPT ![p] = Idle]
      /\ withdrawals' = [withdrawals EXCEPT ![w] = row]
      /\ ledger' = m
      /\ events' = events \cup {<<w, row.status>>}
      /\ UNCHANGED <<overlapped, racedUsers>>
  BY DEF GiveBack, CommitTx, Update
<1>8. ASSUME NEW x \in Withdrawals
      PROVE  Reversals(x)' = Reversals(x) \cup (IF x = w THEN Returned(w, status) ELSE {})
  <2>1. ref[1] = "WITHDRAWAL_REJECT_REVERSAL" /\ ref[2] = w
    BY DEF ReversalRef
  <2>2. Returned(w, status) = {ref}
    BY DEF Returned
  <2>3. ledger'.posted = ledger.posted \cup {ref}
    BY <1>6, <1>7
  <2> HIDE DEF ref
  <2> QED BY <2>1, <2>2, <2>3 DEF Reversals
<1>9. Idle \in Session /\ WellFormed(Idle) /\ Idle.pc # "row"
  BY IdleTyped DEF Idle
<1> HIDE DEF w, row, ref, m
<1>10. Writes(p, w)
  BY <1>1, <1>2, <1>6, <1>7, <1>8, <1>9 DEF Writes
<1> QED BY <1>10 DEF w

LEMMA RefusalWrites ==
    ASSUME IInv, NEW p \in Sessions,
           FailWithdrawalCommit(p) \/ RejectWithdrawalCommit(p)
    PROVE  \E w \in Withdrawals : Writes(p, w)
<1>1. tx[p].pc = "row" /\ tx[p].op # "CreateWithdrawal"
  BY DEF FailWithdrawalCommit, RejectWithdrawalCommit, At
<1>2. tx[p].id \in Withdrawals /\ Allowed(tx[p].op, tx[p].row.status)
  BY <1>1, BeforeWrite
<1>3. CASE FailWithdrawalCommit(p)
  <2>1. Transition(tx[p].row.status, "FAILED")
    BY <1>2, <1>3 DEF FailWithdrawalCommit, At, Allowed, CanFail, Transition
  <2> QED BY <1>1, <1>2, <1>3, <2>1, GiveBackWrites DEF FailWithdrawalCommit
<1>4. CASE RejectWithdrawalCommit(p)
  <2>1. Transition(tx[p].row.status, "REJECTED")
    BY <1>2, <1>4 DEF RejectWithdrawalCommit, At, Allowed, CanReject, Transition
  <2> QED BY <1>1, <1>2, <1>4, <2>1, GiveBackWrites DEF RejectWithdrawalCommit
<1> QED BY <1>3, <1>4

(* No request handles a withdrawal that is not there yet.                  *)
LEMMA CreateWrites ==
    ASSUME IInv, NEW p \in Sessions, NEW w \in Withdrawals, CreateWithdrawalCommit(p, w)
    PROVE  Writes(p, w)
<1> DEFINE row == tx[p].row
           ref == <<"WITHDRAWAL_RESERVE", w, "reserve">>
           m == Post(ledger, Reserve(w, row.user, row.amount))
<1>1. tx[p] \in Session /\ WellFormed(tx[p]) /\ At(p, "CreateWithdrawal", "row")
  BY DEF IInv, TypeOK, Serving, CreateWithdrawalCommit
<1>2. row \in Row /\ Receipted(row) /\ row.status = "PENDING"
  BY <1>1 DEF Session, WellFormed, At, Allowed
<1>3. withdrawals[w].status = "NONE"
  BY DEF CreateWithdrawalCommit, Create, NoRow
<1>4. w \notin overlapped => \A q \in Sessions \ {p} : ~Handling(q, w)
  <2> SUFFICES ASSUME w \notin overlapped, NEW q \in Sessions, Handling(q, w)
               PROVE  FALSE
    OBVIOUS
  <2>1. tx[q].row.status = "NONE"
    BY <1>3 DEF IInv, Fresh
  <2>2. tx[q].pc = "row" /\ Allowed(tx[q].op, tx[q].row.status)
    BY DEF IInv, Serving, WellFormed, Handling
  <2> QED BY <2>1, <2>2 DEF Allowed, CanApprove, CanMarkSent, CanSettle, CanFail,
                             CanProcess, CanReject
<1>5. /\ tx' = [tx EXCEPT ![p] = Idle]
      /\ withdrawals' = [withdrawals EXCEPT ![w] = row]
      /\ ledger' = m
      /\ events' = events \cup {<<w, row.status>>}
      /\ UNCHANGED <<overlapped, racedUsers>>
  BY DEF CreateWithdrawalCommit, Create
<1>6. m \in LedgerType /\ m.posted = ledger.posted \cup {ref}
  <2>1. ledger \in LedgerType
    BY DEF IInv, TypeOK, LedgerType
  <2>2. ref \in Refs /\ row.amount \in Nat
    BY <1>2 DEF Refs, Row
  <2>3. m = Post(ledger, Journal(ref, Between(UserWallet(row.user),
                                              Account("IR_PAYOUT_CLEARING"), row.amount)))
    BY DEF Reserve
  <2> HIDE DEF ref, m, row
  <2> QED BY <2>1, <2>2, <2>3, PostTyped
<1>7. ASSUME NEW x \in Withdrawals
      PROVE  Reversals(x)' = Reversals(x) \cup (IF x = w THEN Returned(w, row.status) ELSE {})
  <2>1. ref[1] # "WITHDRAWAL_REJECT_REVERSAL"
    OBVIOUS
  <2>2. Returned(w, row.status) = {}
    BY <1>2 DEF Returned
  <2>3. ledger'.posted = ledger.posted \cup {ref}
    BY <1>5, <1>6
  <2> HIDE DEF ref, row
  <2> QED BY <2>1, <2>2, <2>3 DEF Reversals
<1>8. Idle \in Session /\ WellFormed(Idle) /\ Idle.pc # "row"
  BY IdleTyped DEF Idle
<1>9. Transition(withdrawals[w].status, row.status)
  BY <1>2, <1>3 DEF Transition
<1> HIDE DEF row, ref, m
<1> QED BY <1>2, <1>4, <1>5, <1>6, <1>7, <1>8, <1>9 DEF Writes

-----------------------------------------------------------------------------
(* The steps that write no row.                                            *)

(* A session starts to handle w, and has read the row it has checked.      *)
LEMMA RequestKeeps ==
    ASSUME IInv, NEW p \in Sessions, NEW w \in Withdrawals, Request(p, w)
    PROVE  IInv'
<1>1. PICK op \in Ops \ {"CreateWithdrawal"} :
         GetByID(p, op, w) /\ Allowed(op, withdrawals[w].status)
  BY DEF Request, ApproveWithdrawal, MarkWithdrawalSent, SettleWithdrawal, ProcessWithdrawal,
         FailWithdrawal, RejectWithdrawal, Ops, Allowed, CanApprove, CanMarkSent, CanSettle,
         CanFail, CanProcess, CanReject
<1> DEFINE t == [pc |-> "row", op |-> op, id |-> w, row |-> withdrawals[w]]
<1>2. /\ tx \in [Sessions -> Session]
      /\ withdrawals[w] \in Row
      /\ tx' = [tx EXCEPT ![p] = t]
      /\ overlapped \subseteq overlapped' /\ overlapped' \subseteq Withdrawals
      /\ UNCHANGED <<ledger, withdrawals, events, racedUsers>>
  BY <1>1 DEF GetByID, IInv, TypeOK
<1>3. tx'[p] = t /\ \A q \in Sessions \ {p} : tx'[q] = tx[q]
  BY <1>2
<1>4. None \notin Withdrawals
  BY WithdrawalAssumption
<1>5. t \in Session
  BY <1>2 DEF Session
<1>6. WellFormed(t)
  BY <1>1, <1>4 DEF IInv, PaidHasReceipt, Receipted, WellFormed
<1>7. \A x \in Withdrawals :
         (\E q \in Sessions \ {p} : Handling(q, x)) /\ x = w => x \in overlapped'
  BY <1>1 DEF GetByID
<1>8. t.pc = "row" /\ t.id = w /\ t.row = withdrawals[w]
  OBVIOUS
<1> HIDE DEF t
<1>9. TypeOK'
  BY <1>2, <1>5 DEF IInv, TypeOK
<1>10. Serving'
  BY <1>3, <1>6 DEF IInv, Serving
<1>11. Alone' /\ Fresh'
  BY <1>2, <1>3, <1>7, <1>8 DEF IInv, Alone, Fresh, Handling
<1>12. Told' /\ PaidHasReceipt' /\ RefusedIsReturned'
  BY <1>2 DEF IInv, Told, PaidHasReceipt, RefusedIsReturned, Reversals
<1> QED BY <1>9, <1>10, <1>11, <1>12 DEF IInv

(* A session that takes or leaves no withdrawal in hand.                   *)
LEMMA SessionStepKeeps ==
    ASSUME IInv, NEW p \in Sessions, NEW t \in Session,
           tx' = [tx EXCEPT ![p] = t], WellFormed(t),
           \A w \in Withdrawals : t.pc = "row" => t.id # w,
           events' \subseteq events \cup
               {e \in Withdrawals \X Statuses : e[2] \notin {"REJECTED", "FAILED"}},
           racedUsers' \subseteq Users,
           UNCHANGED <<ledger, withdrawals, overlapped>>
    PROVE  IInv'
<1>1. tx' \in [Sessions -> Session]
  BY DEF IInv, TypeOK
<1>2. tx'[p] = t /\ \A q \in Sessions \ {p} : tx'[q] = tx[q]
  BY DEF IInv, TypeOK
<1>3. TypeOK'
  BY <1>1 DEF IInv, TypeOK
<1>4. Serving'
  BY <1>2 DEF IInv, Serving
<1>5. Alone' /\ Fresh'
  BY <1>2 DEF IInv, Alone, Fresh, Handling
<1>6. Told' /\ PaidHasReceipt' /\ RefusedIsReturned'
  BY DEF IInv, Told, PaidHasReceipt, RefusedIsReturned, Reversals
<1> QED BY <1>3, <1>4, <1>5, <1>6 DEF IInv

LEMMA CreateKeeps ==
    ASSUME IInv, NEW p \in Sessions, NEW u \in Users, NEW n \in Amounts,
           CreateWithdrawal(p, u, n)
    PROVE  IInv'
<1> DEFINE row == [status |-> "PENDING", user |-> u, amount |-> n, receipt |-> FALSE]
           t == [pc |-> "row", op |-> "CreateWithdrawal", id |-> None, row |-> row]
<1>1. n \in Nat /\ None \notin Withdrawals
  BY WithdrawalAssumption
<1>2. t \in Session
  BY <1>1 DEF Session, Row, Statuses, Ops
<1>3. WellFormed(t) /\ \A w \in Withdrawals : t.id # w
  BY <1>1 DEF WellFormed, Receipted, Allowed
<1>4. /\ tx' = [tx EXCEPT ![p] = t]
      /\ racedUsers' \subseteq Users
      /\ UNCHANGED <<ledger, withdrawals, events, overlapped>>
  BY DEF CreateWithdrawal, IInv, TypeOK
<1> HIDE DEF t
<1> QED BY <1>2, <1>3, <1>4, SessionStepKeeps

LEMMA EndKeeps ==
    ASSUME IInv, NEW p \in Sessions, EmitWithdrawalStatusChanged(p) \/ Abort(p)
    PROVE  IInv'
<1>1. /\ tx' = [tx EXCEPT ![p] = Idle]
      /\ UNCHANGED <<ledger, withdrawals, overlapped, racedUsers>>
      /\ racedUsers \subseteq Users
  BY DEF EmitWithdrawalStatusChanged, Abort, IInv, TypeOK
<1>2. events' \subseteq events \cup
         {e \in Withdrawals \X Statuses : e[2] \notin {"REJECTED", "FAILED"}}
  <2>1. tx[p] \in Session /\ WellFormed(tx[p])
    BY DEF IInv, TypeOK, Serving
  <2>2. CASE EmitWithdrawalStatusChanged(p)
    <3> DEFINE e == <<tx[p].id, tx[p].row.status>>
    <3>1. e \in Withdrawals \X Statuses /\ e[2] \notin {"REJECTED", "FAILED"}
      BY <2>1, <2>2 DEF EmitWithdrawalStatusChanged, Session, Row, WellFormed
    <3>2. events' = events \cup {e}
      BY <2>2 DEF EmitWithdrawalStatusChanged
    <3> QED BY <3>1, <3>2
  <2>3. CASE Abort(p)
    BY <2>3 DEF Abort
  <2> QED BY <2>2, <2>3
<1>3. Idle.pc # "row"
  BY DEF Idle
<1> QED BY <1>1, <1>2, <1>3, IdleTyped, SessionStepKeeps

LEMMA ContinueCases ==
    ASSUME IInv, NEW p \in Sessions, Continue(p)
    PROVE  \/ \E w \in Withdrawals : Writes(p, w)
           \/ EmitWithdrawalStatusChanged(p) \/ Abort(p)
BY UpdateWrites, RefusalWrites DEF Continue

LEMMA StutterKeeps ==
    ASSUME IInv, UNCHANGED vars
    PROVE  IInv'
<1>1. UNCHANGED <<ledger, withdrawals, events, tx, overlapped, racedUsers>>
  BY DEF vars
<1>2. TypeOK' /\ Serving'
  BY <1>1 DEF IInv, TypeOK, Serving
<1>3. Alone' /\ Fresh'
  BY <1>1 DEF IInv, Alone, Fresh, Handling
<1>4. Told' /\ PaidHasReceipt' /\ RefusedIsReturned'
  BY <1>1 DEF IInv, Told, Reversals, PaidHasReceipt, RefusedIsReturned
<1> QED BY <1>2, <1>3, <1>4 DEF IInv

LEMMA NextIInv == IInv /\ [Next]_vars => IInv'
<1> SUFFICES ASSUME IInv, [Next]_vars PROVE IInv'
  OBVIOUS
<1>1. ASSUME NEW p \in Sessions, NEW u \in Users, NEW n \in Amounts, CreateWithdrawal(p, u, n)
      PROVE  IInv'
  BY <1>1, CreateKeeps
<1>2. ASSUME NEW p \in Sessions, NEW w \in Withdrawals, CreateWithdrawalCommit(p, w)
      PROVE  IInv'
  BY <1>2, CreateWrites, WriteKeeps
<1>3. ASSUME NEW p \in Sessions, NEW w \in Withdrawals, Request(p, w)
      PROVE  IInv'
  BY <1>3, RequestKeeps
<1>4. ASSUME NEW p \in Sessions, Continue(p)
      PROVE  IInv'
  BY <1>4, ContinueCases, WriteKeeps, EndKeeps
<1> QED BY <1>1, <1>2, <1>3, <1>4, StutterKeeps DEF Next

-----------------------------------------------------------------------------
(* Theorems.                                                               *)

(* The strengthening the theorems below rest on.                           *)
THEOREM Invariant == Spec => []IInv
BY InitIInv, NextIInv, PTL DEF Spec

(* Every row, session, event and ledger entry keeps its type.              *)
THEOREM TypeCorrect == Spec => []TypeOK
<1>1. IInv => TypeOK
  BY DEF IInv
<1> QED BY <1>1, Invariant, PTL

(* However the requests of administrators overlap and abort, a withdrawal  *)
(* that is with the bank, settled or completed has its receipt             *)
(* (MarkWithdrawalSent, ProcessWithdrawal, SettleWithdrawal).              *)
THEOREM Receipts == Spec => []PaidHasReceipt
<1>1. IInv => PaidHasReceipt
  BY DEF IInv
<1> QED BY <1>1, Invariant, PTL

(* However they overlap and abort, no row and no event says REJECTED or    *)
(* FAILED without that very reversal being in the ledger                   *)
(* (RejectWithdrawal, FailWithdrawal).                                     *)
THEOREM Refusals == Spec => []RefusedIsReturned
<1>1. IInv => RefusedIsReturned
  BY DEF IInv
<1> QED BY <1>1, Invariant, PTL

-----------------------------------------------------------------------------
(* Refinement of the contract.                                             *)

LEMMA InitRefines == Init => Contract!Init
<1> SUFFICES ASSUME Init PROVE Contract!Init
  OBVIOUS
<1>1. \A w \in Withdrawals : Reversals(w) = {} /\ withdrawals[w].status = "NONE"
  BY DEF Init, Reversals, NoRow
<1>2. Cardinality({}) = 0
  BY FS_EmptySet
<1> QED BY <1>1, <1>2 DEF Init, Contract!Init, Payout

(* While the requests for w do not overlap its status tells its reversals. *)
LEMMA ReturnedOnce ==
    ASSUME Told, NEW w \in Withdrawals, w \notin overlapped
    PROVE  Cardinality(Reversals(w)) =
               IF withdrawals[w].status \in {"REJECTED", "FAILED"} THEN 1 ELSE 0
<1>1. /\ Cardinality({}) = 0
      /\ \A kind : Cardinality({ReversalRef(w, kind)}) = 1
  BY FS_EmptySet, FS_Singleton
<1> QED BY <1>1 DEF Told, Explained

(* A write is a transition of the contract, or invisible once requests for *)
(* the withdrawal have overlapped.                                         *)
LEMMA WriteRefines ==
    ASSUME IInv, NEW p \in Sessions, NEW w \in Withdrawals, Writes(p, w)
    PROVE  Contract!Next \/ UNCHANGED Payout
<1>1. PICK row \in Row :
         /\ withdrawals' = [withdrawals EXCEPT ![w] = row]
         /\ w \notin overlapped => Transition(withdrawals[w].status, row.status)
         /\ \A x \in Withdrawals \ {w} : Reversals(x)' = Reversals(x)
  BY DEF Writes
<1>2. withdrawals'[w] = row /\ \A x \in Withdrawals \ {w} : withdrawals'[x] = withdrawals[x]
  BY <1>1 DEF IInv, TypeOK
<1>3. overlapped' = overlapped
  BY DEF Writes
<1>4. CASE w \in overlapped
  BY <1>1, <1>2, <1>3, <1>4 DEF Payout
<1>5. CASE w \notin overlapped
  <2> DEFINE returned == Cardinality(Reversals(w)')
  <2>1. Payout' = [Payout EXCEPT ![w] = [status |-> row.status, returned |-> returned]]
    BY <1>1, <1>2, <1>3, <1>5 DEF Payout
  <2>2. Payout[w].status = withdrawals[w].status
    BY <1>5 DEF Payout
  <2>3. returned = IF row.status \in {"REJECTED", "FAILED"} THEN 1 ELSE 0
    <3>1. Told'
      BY WriteKeeps DEF IInv
    <3>2. /\ Explained(w, row.status, Reversals(w)')
      BY <1>2, <1>3, <1>5, <3>1 DEF Told
    <3>3. /\ Cardinality({}) = 0
          /\ \A kind : Cardinality({ReversalRef(w, kind)}) = 1
      BY FS_EmptySet, FS_Singleton
    <3> QED BY <3>2, <3>3 DEF Explained
  <2>4. Transition(withdrawals[w].status, row.status)
    BY <1>1, <1>5
  <2> HIDE DEF returned
  <2>5. Contract!Become(w, row.status, returned)
    BY <2>1 DEF Contract!Become
  <2>6. Contract!Reserve(w) \/ Contract!Advance(w) \/ Contract!Pay(w) \/ Contract!Return(w)
    BY <2>2, <2>3, <2>4, <2>5
       DEF Transition, Contract!Reserve, Contract!Advance, Contract!Pay, Contract!Return
  <2> QED BY <2>6 DEF Contract!Next
<1> QED BY <1>4, <1>5

(* A request that arrives is invisible, unless it is the one that overlaps *)
(* another request for its withdrawal.                                     *)
LEMMA RequestRefines ==
    ASSUME IInv, NEW p \in Sessions, NEW w \in Withdrawals, Request(p, w)
    PROVE  Contract!Next \/ UNCHANGED Payout
<1>1. /\ overlapped' = overlapped \/ overlapped' = overlapped \cup {w}
      /\ UNCHANGED <<ledger, withdrawals>>
  BY DEF Request, ApproveWithdrawal, MarkWithdrawalSent, SettleWithdrawal, ProcessWithdrawal,
         FailWithdrawal, RejectWithdrawal, GetByID
<1>2. CASE overlapped' = overlapped
  BY <1>1, <1>2 DEF Payout, Reversals
<1>3. CASE overlapped' = overlapped \cup {w}
  <2>1. Payout' = [Payout EXCEPT ![w] = [status |-> "VOID", returned |-> 0]]
    BY <1>1, <1>3 DEF Payout, Reversals
  <2> QED BY <2>1 DEF Contract!Next, Contract!Overlap, Contract!Become
<1> QED BY <1>1, <1>2, <1>3

LEMMA NextRefines == IInv /\ [Next]_vars => [Contract!Next]_Payout
<1> SUFFICES ASSUME IInv, [Next]_vars PROVE Contract!Next \/ UNCHANGED Payout
  OBVIOUS
<1>1. ASSUME UNCHANGED <<ledger, withdrawals, overlapped>>
      PROVE  UNCHANGED Payout
  BY <1>1 DEF Payout, Reversals
<1>2. ASSUME NEW p \in Sessions, NEW u \in Users, NEW n \in Amounts, CreateWithdrawal(p, u, n)
      PROVE  UNCHANGED Payout
  BY <1>1, <1>2 DEF CreateWithdrawal
<1>3. ASSUME NEW p \in Sessions, NEW w \in Withdrawals, CreateWithdrawalCommit(p, w)
      PROVE  Contract!Next \/ UNCHANGED Payout
  BY <1>3, CreateWrites, WriteRefines
<1>4. ASSUME NEW p \in Sessions, NEW w \in Withdrawals, Request(p, w)
      PROVE  Contract!Next \/ UNCHANGED Payout
  BY <1>4, RequestRefines
<1>5. ASSUME NEW p \in Sessions, Continue(p)
      PROVE  Contract!Next \/ UNCHANGED Payout
  <2>1. CASE EmitWithdrawalStatusChanged(p) \/ Abort(p)
    BY <1>1, <2>1 DEF EmitWithdrawalStatusChanged, Abort
  <2> QED BY <1>5, <2>1, ContinueCases, WriteRefines
<1>6. CASE UNCHANGED vars
  BY <1>1, <1>6 DEF vars
<1> QED BY <1>2, <1>3, <1>4, <1>5, <1>6 DEF Next

(* Seen from outside, every withdrawal goes through the statuses of        *)
(* WithdrawalContract, with the money given back in the very step that     *)
(* says so and at most once, until two requests for it overlap.            *)
THEOREM Refinement == Spec => ImplementsContract
BY Invariant, InitRefines, NextRefines, PTL DEF Spec, ImplementsContract, Contract!Spec

-----------------------------------------------------------------------------
(* The money: what the payout clearing account holds, and what a request   *)
(* in flight may still take from a wallet.                                 *)

Clearing == Account("IR_PAYOUT_CLEARING")

Outstanding(w) == withdrawals[w].amount * (1 - Cardinality(Reversals(w)))

Creating(p, u) == At(p, "CreateWithdrawal", "row") /\ tx[p].row.user = u

(* A copy may be behind in its status, never in the amount.                *)
Copies ==
    \A p \in Sessions :
        tx[p].pc = "row" /\ tx[p].op # "CreateWithdrawal" =>
            /\ withdrawals[tx[p].id].status # "NONE"
            /\ withdrawals[tx[p].id].amount = tx[p].row.amount

(* Nothing is given back before there is a row.                            *)
NothingYet == \A w \in Withdrawals : withdrawals[w].status = "NONE" => Reversals(w) = {}

OneAsks ==
    \A p, q \in Sessions : \A u \in Users \ racedUsers :
        Creating(p, u) /\ Creating(q, u) => p = q

(* The balance CreateWithdrawal has checked is still there.                *)
Affordable ==
    \A p \in Sessions : \A u \in Users \ racedUsers :
        Creating(p, u) => ledger.balance[UserWallet(u)] >= tx[p].row.amount

MoneyInv == ClearingExplained /\ Copies /\ NothingYet /\ OneAsks /\ Affordable

(* What a transfer does to the balances.                                   *)
LEMMA PostTransfers ==
    ASSUME NEW l \in LedgerType, NEW ref, NEW from, NEW to, NEW n \in Nat, from # to
    PROVE  LET m == Post(l, Journal(ref, Between(from, to, n))) IN
           /\ from \in Accounts => m.balance[from] = l.balance[from] - n
           /\ to \in Accounts => m.balance[to] = l.balance[to] + n
           /\ \A a \in Accounts \ {from, to} : m.balance[a] = l.balance[a]
<1> DEFINE lines == Between(from, to, n)
           m == Post(l, Journal(ref, lines))
<1>1. DOMAIN l.balance = Accounts /\ \A a \in Accounts : l.balance[a] \in Int
  BY DEF LedgerType
<1>2. /\ DOMAIN lines = {from, to}
      /\ lines[from] = [debit |-> n, credit |-> 0]
      /\ lines[to] = [debit |-> 0, credit |-> n]
  BY DEF Between, Debit, Credit
<1>3. m.balance = [a \in Accounts |->
                      IF a \in DOMAIN lines
                      THEN l.balance[a] + lines[a].credit - lines[a].debit
                      ELSE l.balance[a]]
  BY <1>1 DEF Post, Journal
<1> HIDE DEF lines, m
<1>4. from \in Accounts => m.balance[from] = l.balance[from] + 0 - n
  BY <1>2, <1>3
<1>5. to \in Accounts => m.balance[to] = l.balance[to] + n - 0
  BY <1>2, <1>3
<1>6. \A a \in Accounts \ {from, to} : m.balance[a] = l.balance[a]
  BY <1>2, <1>3
<1> QED BY <1>1, <1>4, <1>5, <1>6 DEF lines, m

LEMMA TheAccounts ==
    /\ Clearing \in Accounts
    /\ \A u \in Users : UserWallet(u) \in Accounts
    /\ \A u : UserWallet(u) # Clearing
    /\ \A u, v : UserWallet(u) = UserWallet(v) => u = v
BY DEF Clearing, Account, UserWallet, Accounts, SystemAccounts

(* A withdrawal has finitely many reversals: their references are few.     *)
LEMMA ReversalCount ==
    ASSUME TypeOK, NEW w \in Withdrawals
    PROVE  IsFiniteSet(Reversals(w)) /\ Cardinality(Reversals(w)) \in Nat
<1> DEFINE refs == {ReversalRef(w, "reserve")} \cup {ReversalRef(w, "reject")}
                       \cup {ReversalRef(w, "fail")}
<1>1. Reversals(w) \subseteq refs
  <2> SUFFICES ASSUME NEW r \in Reversals(w) PROVE r \in refs
    OBVIOUS
  <2>1. r \in Refs /\ r[1] = "WITHDRAWAL_REJECT_REVERSAL" /\ r[2] = w
    BY DEF TypeOK, Reversals
  <2>2. r = <<r[1], r[2], r[3]>> /\ r[3] \in {"reserve", "reject", "fail"}
    BY <2>1 DEF Refs
  <2> QED BY <2>1, <2>2 DEF ReversalRef
<1>2. IsFiniteSet(refs)
  <2>1. /\ IsFiniteSet({ReversalRef(w, "reserve")})
        /\ IsFiniteSet({ReversalRef(w, "reject")})
        /\ IsFiniteSet({ReversalRef(w, "fail")})
    BY FS_Singleton
  <2>2. IsFiniteSet({ReversalRef(w, "reserve")} \cup {ReversalRef(w, "reject")})
    BY <2>1, FS_Union
  <2> QED BY <2>1, <2>2, FS_Union
<1> HIDE DEF refs
<1>3. IsFiniteSet(Reversals(w))
  BY <1>1, <1>2, FS_Subset
<1> QED BY <1>3, FS_CardinalityType

LEMMA OutstandingType ==
    ASSUME TypeOK, NEW w \in Withdrawals
    PROVE  Outstanding(w) \in Int
<1>1. withdrawals[w].amount \in Int
  BY DEF TypeOK, Row
<1>2. 1 - Cardinality(Reversals(w)) \in Int
  BY ReversalCount
<1> DEFINE a == withdrawals[w].amount
           k == 1 - Cardinality(Reversals(w))
<1>3. a \in Int /\ k \in Int
  BY <1>1, <1>2
<1> HIDE DEF a, k
<1>4. a * k \in Int
  BY <1>3
<1> QED BY <1>4 DEF a, k, Outstanding

OutstandingIntegers == \A w \in Withdrawals : Outstanding(w) \in Int

LEMMA OutstandingTyped == TypeOK => OutstandingIntegers
BY OutstandingType DEF OutstandingIntegers

LEMMA ClearingIs ==
    ClearingExplained <=>
        ledger.balance[Clearing] = SumFunctionOnSet([w \in Withdrawals |-> Outstanding(w)],
                                                    Withdrawals)
BY DEF ClearingExplained, Clearing, Outstanding, SumFunction

(* The account follows what is outstanding, one withdrawal at a time.      *)
LEMMA ClearingMoves ==
    ASSUME TypeOK, TypeOK', ClearingExplained, NEW w \in Withdrawals,
           ledger'.balance[Clearing] - ledger.balance[Clearing] =
               Outstanding(w)' - Outstanding(w),
           \A x \in Withdrawals \ {w} : Outstanding(x)' = Outstanding(x)
    PROVE  ClearingExplained'
<1> DEFINE f == [x \in Withdrawals |-> Outstanding(x)]
           g == [x \in Withdrawals |-> Outstanding(x)']
<1>1. /\ \A x \in Withdrawals : f[x] \in Int
      /\ g[w] \in Int
      /\ \A x \in Withdrawals \ {w} : g[x] = f[x]
  <2>1. TypeOK' => OutstandingIntegers'
    BY OutstandingTyped, PTL
  <2> QED BY <2>1, OutstandingTyped DEF OutstandingIntegers
<1>2. g[w] - f[w] = Outstanding(w)' - Outstanding(w)
  OBVIOUS
<1>3. ledger.balance[Clearing] = SumFunctionOnSet(f, Withdrawals)
  BY ClearingIs
<1>4. IsFiniteSet(Withdrawals)
  BY WithdrawalAssumption
<1>5. ledger.balance[Clearing] \in Int /\ ledger'.balance[Clearing] \in Int
  BY TheAccounts DEF TypeOK
<1> HIDE DEF f, g
<1>6. SumFunctionOnSet(g, Withdrawals) = SumFunctionOnSet(f, Withdrawals) + g[w] - f[w]
  BY <1>1, <1>4, SumChange
<1>7. f[w] \in Int /\ g[w] \in Int
  BY <1>1
<1>8. ledger'.balance[Clearing] = SumFunctionOnSet(g, Withdrawals)
  BY <1>2, <1>3, <1>5, <1>6, <1>7
<1> QED BY <1>8 DEF g, ClearingExplained, Clearing, Outstanding, SumFunction

(* The same when nothing is moved.                                         *)
LEMMA ClearingStays ==
    ASSUME ClearingExplained, ledger' = ledger,
           \A w \in Withdrawals : withdrawals'[w].amount = withdrawals[w].amount
    PROVE  ClearingExplained'
<1> DEFINE f == [w \in Withdrawals |-> Outstanding(w)]
           g == [w \in Withdrawals |-> Outstanding(w)']
<1>1. \A w \in Withdrawals : Outstanding(w)' = Outstanding(w)
  BY DEF Outstanding, Reversals
<1>2. f = g
  BY <1>1
<1>3. ledger'.balance[Clearing] = SumFunctionOnSet(f, Withdrawals)
  BY ClearingIs
<1>4. ledger'.balance[Clearing] = SumFunctionOnSet(g, Withdrawals)
  BY <1>2, <1>3
<1> QED BY <1>4 DEF g, ClearingExplained, Clearing, Outstanding, SumFunction

LEMMA InitMoneyInv == Init => MoneyInv
<1> SUFFICES ASSUME Init PROVE MoneyInv
  OBVIOUS
<1>1. PICK seed \in Seeds : ledger = [balance |-> seed, posted |-> {}]
  BY DEF Init
<1>2. ledger.balance[Clearing] = 0
  BY <1>1, WithdrawalAssumption DEF Clearing
<1>3. \A w \in Withdrawals : Reversals(w) = {} /\ withdrawals[w].amount = 0
  BY <1>1 DEF Init, Reversals, NoRow
<1>4. ClearingExplained
  <2> DEFINE f == [w \in Withdrawals |-> Outstanding(w)]
  <2>1. \A w \in Withdrawals : f[w] = 0
    BY <1>3, FS_EmptySet DEF Outstanding
  <2>2. IsFiniteSet(Withdrawals)
    BY WithdrawalAssumption
  <2> HIDE DEF f
  <2>3. SumFunctionOnSet(f, Withdrawals) = 0
    BY <2>1, <2>2, SumZero
  <2> QED BY <1>2, <2>3, ClearingIs DEF f
<1>5. Copies /\ OneAsks /\ Affordable
  BY DEF Init, Idle, Copies, OneAsks, Affordable, Creating, At
<1>6. NothingYet
  BY <1>3 DEF NothingYet
<1> QED BY <1>4, <1>5, <1>6 DEF MoneyInv

-----------------------------------------------------------------------------
(* The steps that post nothing.                                            *)

(* Arithmetic: one more reversal takes the amount off.                     *)
LEMMA OneMore ==
    ASSUME NEW a \in Int, NEW k \in Int
    PROVE  a * (1 - (k + 1)) - a * (1 - k) = - a
OBVIOUS

(* A session that reads a row or a balance.                                *)
LEMMA ReadsKeepMoney ==
    ASSUME IInv, MoneyInv, NEW p \in Sessions, NEW w \in Withdrawals, Request(p, w)
    PROVE  MoneyInv'
<1>1. PICK op \in Ops \ {"CreateWithdrawal"} :
         /\ GetByID(p, op, w) /\ Allowed(op, withdrawals[w].status)
  BY DEF Request, ApproveWithdrawal, MarkWithdrawalSent, SettleWithdrawal, ProcessWithdrawal,
         FailWithdrawal, RejectWithdrawal, Ops, Allowed, CanApprove, CanMarkSent, CanSettle,
         CanFail, CanProcess, CanReject
<1>2. /\ tx' = [tx EXCEPT ![p] = [pc |-> "row", op |-> op, id |-> w, row |-> withdrawals[w]]]
      /\ UNCHANGED <<ledger, withdrawals, racedUsers>>
  BY <1>1 DEF GetByID
<1>3. /\ tx'[p] = [pc |-> "row", op |-> op, id |-> w, row |-> withdrawals[w]]
      /\ \A q \in Sessions \ {p} : tx'[q] = tx[q]
  BY <1>2 DEF IInv, TypeOK
<1>4. withdrawals[w].status # "NONE"
  BY <1>1 DEF Allowed
<1>5. ClearingExplained'
  BY <1>2, ClearingStays DEF MoneyInv
<1>6. Copies'
  BY <1>2, <1>3, <1>4 DEF MoneyInv, Copies
<1>7. OneAsks' /\ Affordable'
  BY <1>2, <1>3 DEF MoneyInv, OneAsks, Affordable, Creating, At
<1>8. NothingYet'
  BY <1>2 DEF MoneyInv, NothingYet, Reversals
<1> QED BY <1>5, <1>6, <1>7, <1>8 DEF MoneyInv

LEMMA CreateKeepsMoney ==
    ASSUME IInv, MoneyInv, NEW p \in Sessions, NEW u \in Users, NEW n \in Amounts,
           CreateWithdrawal(p, u, n)
    PROVE  MoneyInv'
<1>1. /\ tx' = [tx EXCEPT ![p] =
                   [pc |-> "row", op |-> "CreateWithdrawal", id |-> None,
                    row |-> [status |-> "PENDING", user |-> u, amount |-> n,
                             receipt |-> FALSE]]]
      /\ UNCHANGED <<ledger, withdrawals>>
      /\ ledger.balance[UserWallet(u)] >= n
      /\ racedUsers \subseteq racedUsers'
      /\ \A q \in Sessions \ {p} : Creating(q, u) => u \in racedUsers'
  BY DEF CreateWithdrawal, SufficientWallet, SumByAccount, Creating
<1>2. /\ tx'[p].pc = "row" /\ tx'[p].op = "CreateWithdrawal"
      /\ tx'[p].row.user = u /\ tx'[p].row.amount = n
      /\ \A q \in Sessions \ {p} : tx'[q] = tx[q]
  BY <1>1 DEF IInv, TypeOK
<1>3. /\ \A v : Creating(p, v)' => v = u
      /\ \A q \in Sessions \ {p} : \A v : Creating(q, v)' <=> Creating(q, v)
  BY <1>2 DEF Creating, At
<1>4. ClearingExplained'
  BY <1>1, ClearingStays DEF MoneyInv
<1>5. Copies'
  BY <1>1, <1>2 DEF MoneyInv, Copies
<1>6. OneAsks'
  BY <1>1, <1>3 DEF MoneyInv, OneAsks
<1>7. Affordable'
  BY <1>1, <1>2, <1>3 DEF MoneyInv, Affordable
<1>8. NothingYet'
  BY <1>1 DEF MoneyInv, NothingYet, Reversals
<1> QED BY <1>4, <1>5, <1>6, <1>7, <1>8 DEF MoneyInv

(* A session that is done with its withdrawal.                             *)
LEMMA EndKeepsMoney ==
    ASSUME IInv, MoneyInv, NEW p \in Sessions, EmitWithdrawalStatusChanged(p) \/ Abort(p)
    PROVE  MoneyInv'
<1>1. tx' = [tx EXCEPT ![p] = Idle] /\ UNCHANGED <<ledger, withdrawals, racedUsers>>
  BY DEF EmitWithdrawalStatusChanged, Abort
<1>2. tx'[p].pc = "idle" /\ \A q \in Sessions \ {p} : tx'[q] = tx[q]
  BY <1>1 DEF IInv, TypeOK, Idle
<1>3. ClearingExplained'
  BY <1>1, ClearingStays DEF MoneyInv
<1>4. Copies' /\ OneAsks' /\ Affordable'
  BY <1>1, <1>2 DEF MoneyInv, Copies, OneAsks, Affordable, Creating, At
<1>5. NothingYet'
  BY <1>1 DEF MoneyInv, NothingYet, Reversals
<1> QED BY <1>3, <1>4, <1>5 DEF MoneyInv

(* An UPDATE outside a transaction leaves the amount as it was read.       *)
LEMMA UpdateKeepsMoney ==
    ASSUME IInv, MoneyInv, NEW p \in Sessions,
           \/ ApproveWithdrawalUpdate(p) \/ MarkWithdrawalSentUpdate(p)
           \/ SettleWithdrawalUpdate(p) \/ ProcessWithdrawalUpdate(p)
    PROVE  MoneyInv'
<1>1. tx[p].pc = "row" /\ tx[p].op # "CreateWithdrawal"
  BY DEF ApproveWithdrawalUpdate, MarkWithdrawalSentUpdate, SettleWithdrawalUpdate,
         ProcessWithdrawalUpdate, At
<1>2. tx[p].id \in Withdrawals /\ tx[p].row \in Row
  BY <1>1, BeforeWrite
<1>3. PICK row : AutoCommit(p, row) /\ row.status # "NONE" /\ row.amount = tx[p].row.amount
  <2> DEFINE Same(row) == row.status # "NONE" /\ row.amount = tx[p].row.amount
  <2>1. /\ Same([tx[p].row EXCEPT !.status = "APPROVED"])
        /\ Same(Dispatched(tx[p].row))
        /\ Same([tx[p].row EXCEPT !.status = "SETTLED"])
        /\ Same([tx[p].row EXCEPT !.status = "COMPLETED", !.receipt = TRUE])
    BY <1>2 DEF Dispatched, Row
  <2>2. PICK row : AutoCommit(p, row) /\ Same(row)
    <3> HIDE DEF Same
    <3>1. CASE ApproveWithdrawalUpdate(p)
      BY <2>1, <3>1 DEF ApproveWithdrawalUpdate
    <3>2. CASE MarkWithdrawalSentUpdate(p)
      BY <2>1, <3>2 DEF MarkWithdrawalSentUpdate
    <3>3. CASE SettleWithdrawalUpdate(p)
      BY <2>1, <3>3 DEF SettleWithdrawalUpdate
    <3>4. CASE ProcessWithdrawalUpdate(p)
      BY <2>1, <3>4 DEF ProcessWithdrawalUpdate
    <3> QED BY <3>1, <3>2, <3>3, <3>4
  <2> QED BY <2>2
<1>4. /\ withdrawals' = [withdrawals EXCEPT ![tx[p].id] = row]
      /\ tx' = [tx EXCEPT ![p] = [pc |-> "emit", op |-> tx[p].op, id |-> tx[p].id,
                                  row |-> row]]
      /\ UNCHANGED <<ledger, racedUsers>>
  BY <1>3 DEF AutoCommit, Update
<1>5. /\ tx'[p].pc = "emit" /\ \A q \in Sessions \ {p} : tx'[q] = tx[q]
      /\ withdrawals'[tx[p].id] = row
      /\ \A w \in Withdrawals \ {tx[p].id} : withdrawals'[w] = withdrawals[w]
  BY <1>2, <1>4 DEF IInv, TypeOK
<1>6. \A w \in Withdrawals : withdrawals'[w].amount = withdrawals[w].amount
  BY <1>1, <1>3, <1>5 DEF MoneyInv, Copies
<1>7. ClearingExplained'
  BY <1>4, <1>6, ClearingStays DEF MoneyInv
<1>8. Copies'
  <2> SUFFICES ASSUME NEW q \in Sessions, tx'[q].pc = "row", tx'[q].op # "CreateWithdrawal"
               PROVE  /\ withdrawals'[tx'[q].id].status # "NONE"
                      /\ withdrawals'[tx'[q].id].amount = tx'[q].row.amount
    BY DEF Copies
  <2>1. q # p /\ tx'[q] = tx[q]
    BY <1>5
  <2>2. tx[q].id \in Withdrawals
    BY <2>1, BeforeWrite
  <2> QED BY <1>3, <1>5, <1>6, <2>1, <2>2 DEF MoneyInv, Copies
<1>9. OneAsks' /\ Affordable'
  BY <1>4, <1>5 DEF MoneyInv, OneAsks, Affordable, Creating, At
<1>10. NothingYet'
  BY <1>3, <1>4, <1>5 DEF MoneyInv, NothingYet, Reversals
<1> QED BY <1>7, <1>8, <1>9, <1>10 DEF MoneyInv

-----------------------------------------------------------------------------
(* The two kinds of posting.                                               *)

(* A reversal takes the amount off the clearing account, into the wallet.  *)
LEMMA GiveBackKeepsMoney ==
    ASSUME IInv, IInv', MoneyInv, NEW p \in Sessions,
           tx[p].pc = "row", tx[p].op # "CreateWithdrawal",
           NEW kind \in {"fail", "reject"}, NEW status \in Statuses \ {"NONE"},
           GiveBack(p, kind, status)
    PROVE  /\ MoneyInv'
           /\ \A u \in Users : ledger'.balance[UserWallet(u)] >= ledger.balance[UserWallet(u)]
<1>0. PICK w \in Withdrawals : w = tx[p].id
  BY BeforeWrite
<1> DEFINE row == tx[p].row
           n == row.amount
           ref == ReversalRef(w, kind)
           user == UserWallet(row.user)
           m == Post(ledger, Journal(ref, Between(Clearing, user, n)))
<1>1. row \in Row /\ n \in Nat
  BY BeforeWrite DEF Row
<1>2. /\ ref \notin ledger.posted
      /\ ledger' = m
      /\ withdrawals' = [withdrawals EXCEPT ![w] = [row EXCEPT !.status = status]]
      /\ tx' = [tx EXCEPT ![p] = Idle]
      /\ UNCHANGED racedUsers
  BY <1>0 DEF GiveBack, CommitTx, Update, CanPost, Reversal, Journal, ReversalRef, Clearing
<1>3. ledger \in LedgerType /\ ref \in Refs
  BY <1>1 DEF IInv, TypeOK, LedgerType, Refs, ReversalRef
<1>4. Clearing # user
  BY TheAccounts
<1>5. /\ ledger'.posted = ledger.posted \cup {ref}
      /\ ledger'.balance[Clearing] = ledger.balance[Clearing] - n
      /\ user \in Accounts => ledger'.balance[user] = ledger.balance[user] + n
      /\ \A a \in Accounts \ {Clearing, user} : ledger'.balance[a] = ledger.balance[a]
  <2> HIDE DEF ref, user, n, m
  <2> QED BY <1>1, <1>2, <1>3, <1>4, PostTyped, PostTransfers, TheAccounts DEF m
<1>6. /\ withdrawals'[w].status = status /\ withdrawals'[w].amount = n
      /\ withdrawals[w].amount = n /\ withdrawals[w].status # "NONE"
      /\ \A x \in Withdrawals \ {w} : withdrawals'[x] = withdrawals[x]
  BY <1>0, <1>1, <1>2 DEF IInv, TypeOK, Row, MoneyInv, Copies
<1>7. tx'[p].pc = "idle" /\ \A q \in Sessions \ {p} : tx'[q] = tx[q]
  BY <1>2 DEF IInv, TypeOK, Idle
<1>8. /\ Reversals(w)' = Reversals(w) \cup {ref} /\ ref \notin Reversals(w)
      /\ \A x \in Withdrawals \ {w} : Reversals(x)' = Reversals(x)
  <2>1. ref[1] = "WITHDRAWAL_REJECT_REVERSAL" /\ ref[2] = w
    BY DEF ReversalRef
  <2> HIDE DEF ref
  <2> QED BY <1>2, <1>5, <2>1 DEF Reversals
<1>9. ClearingExplained'
  <2>1. Cardinality(Reversals(w)') = Cardinality(Reversals(w)) + 1
    <3>1. IsFiniteSet(Reversals(w))
      BY <1>1, ReversalCount DEF IInv
    <3> HIDE DEF ref
    <3> QED BY <1>8, <3>1, FS_AddElement
  <2>2. Outstanding(w)' - Outstanding(w) = - n
    <3> DEFINE k == Cardinality(Reversals(w))
    <3>1. k \in Int /\ n \in Int
      BY <1>1, ReversalCount DEF IInv
    <3>2. Outstanding(w)' = n * (1 - (k + 1)) /\ Outstanding(w) = n * (1 - k)
      BY <1>6, <2>1 DEF Outstanding
    <3> HIDE DEF k, n
    <3> QED BY <3>1, <3>2, OneMore
  <2>3. \A x \in Withdrawals \ {w} : Outstanding(x)' = Outstanding(x)
    BY <1>6, <1>8 DEF Outstanding
  <2>4. ledger'.balance[Clearing] - ledger.balance[Clearing] = Outstanding(w)' - Outstanding(w)
    <3>1. ledger.balance[Clearing] \in Int
      BY <1>3, TheAccounts DEF LedgerType
    <3> HIDE DEF n
    <3> QED BY <1>1, <1>5, <2>2, <3>1
  <2> QED BY <1>1, <2>3, <2>4, ClearingMoves DEF IInv, MoneyInv
<1>10. \A u \in Users : ledger'.balance[UserWallet(u)] >= ledger.balance[UserWallet(u)]
  <2> SUFFICES ASSUME NEW u \in Users
               PROVE  ledger'.balance[UserWallet(u)] >= ledger.balance[UserWallet(u)]
    OBVIOUS
  <2>1. /\ UserWallet(u) \in Accounts /\ UserWallet(u) # Clearing
        /\ ledger.balance[UserWallet(u)] \in Int
    BY <1>3, TheAccounts DEF LedgerType
  <2> HIDE DEF user, n
  <2> QED BY <1>1, <1>5, <2>1
<1>11. Copies'
  <2> SUFFICES ASSUME NEW q \in Sessions, tx'[q].pc = "row", tx'[q].op # "CreateWithdrawal"
               PROVE  /\ withdrawals'[tx'[q].id].status # "NONE"
                      /\ withdrawals'[tx'[q].id].amount = tx'[q].row.amount
    BY DEF Copies
  <2>1. q # p /\ tx'[q] = tx[q]
    BY <1>7
  <2>2. tx[q].id \in Withdrawals
    BY <2>1, BeforeWrite
  <2>3. /\ withdrawals[tx[q].id].status # "NONE"
        /\ withdrawals[tx[q].id].amount = tx[q].row.amount
    BY <2>1 DEF MoneyInv, Copies
  <2> HIDE DEF n
  <2> QED BY <1>6, <2>1, <2>2, <2>3
<1>12. OneAsks'
  BY <1>2, <1>7 DEF MoneyInv, OneAsks, Creating, At
<1>13. Affordable'
  <2> SUFFICES ASSUME NEW q \in Sessions, NEW u \in Users \ racedUsers, Creating(q, u)'
               PROVE  ledger'.balance[UserWallet(u)] >= tx'[q].row.amount
    BY <1>2 DEF Affordable
  <2>1. tx'[q] = tx[q] /\ Creating(q, u) /\ tx[q].row.amount \in Nat
    BY <1>7 DEF Creating, At, IInv, TypeOK, Session, Row
  <2>2. ledger.balance[UserWallet(u)] >= tx[q].row.amount
    BY <2>1 DEF MoneyInv, Affordable
  <2>3. ledger.balance[UserWallet(u)] \in Int /\ ledger'.balance[UserWallet(u)] \in Int
    BY TheAccounts DEF IInv, TypeOK
  <2> QED BY <1>10, <2>1, <2>2, <2>3
<1>14. NothingYet'
  <2> SUFFICES ASSUME NEW x \in Withdrawals, withdrawals'[x].status = "NONE"
               PROVE  Reversals(x)' = {}
    BY DEF NothingYet
  <2> QED BY <1>6, <1>8 DEF MoneyInv, NothingYet
<1> QED BY <1>9, <1>10, <1>11, <1>12, <1>13, <1>14 DEF MoneyInv

(* A reservation puts the amount into the clearing account, from a wallet  *)
(* that has it when nobody else asked for it.                              *)
LEMMA ReserveKeepsMoney ==
    ASSUME IInv, IInv', MoneyInv, NEW p \in Sessions, NEW w \in Withdrawals,
           CreateWithdrawalCommit(p, w)
    PROVE  /\ MoneyInv'
           /\ \A u \in Users \ racedUsers :
                 ledger'.balance[UserWallet(u)] < ledger.balance[UserWallet(u)]
                     => ledger'.balance[UserWallet(u)] >= 0
<1> DEFINE row == tx[p].row
           n == row.amount
           ref == <<"WITHDRAWAL_RESERVE", w, "reserve">>
           user == UserWallet(row.user)
           m == Post(ledger, Journal(ref, Between(user, Clearing, n)))
<1>1. /\ row \in Row /\ row.status = "PENDING" /\ n \in Nat
      /\ tx[p].pc = "row" /\ tx[p].op = "CreateWithdrawal"
  BY DEF IInv, TypeOK, Serving, CreateWithdrawalCommit, Session, Row, WellFormed, At, Allowed
<1>2. /\ withdrawals[w] = NoRow
      /\ ledger' = m
      /\ withdrawals' = [withdrawals EXCEPT ![w] = row]
      /\ tx' = [tx EXCEPT ![p] = Idle]
      /\ UNCHANGED racedUsers
  BY DEF CreateWithdrawalCommit, Create, Reserve, Clearing
<1>3. ledger \in LedgerType /\ ref \in Refs
  BY DEF IInv, TypeOK, LedgerType, Refs
<1>4. Clearing # user
  BY TheAccounts
<1>5. /\ ledger'.posted = ledger.posted \cup {ref}
      /\ ledger'.balance[Clearing] = ledger.balance[Clearing] + n
      /\ user \in Accounts => ledger'.balance[user] = ledger.balance[user] - n
      /\ \A a \in Accounts \ {Clearing, user} : ledger'.balance[a] = ledger.balance[a]
  <2> HIDE DEF ref, user, n, m
  <2> QED BY <1>1, <1>2, <1>3, <1>4, PostTyped, PostTransfers, TheAccounts DEF m
<1>6. /\ withdrawals'[w].status = "PENDING" /\ withdrawals'[w].amount = n
      /\ withdrawals[w].amount = 0 /\ withdrawals[w].status = "NONE"
      /\ \A x \in Withdrawals \ {w} : withdrawals'[x] = withdrawals[x]
  BY <1>1, <1>2 DEF IInv, TypeOK, NoRow
<1>7. tx'[p].pc = "idle" /\ \A q \in Sessions \ {p} : tx'[q] = tx[q]
  BY <1>2 DEF IInv, TypeOK, Idle
<1>8. \A x \in Withdrawals : Reversals(x)' = Reversals(x)
  <2>1. ref[1] # "WITHDRAWAL_REJECT_REVERSAL"
    OBVIOUS
  <2> HIDE DEF ref
  <2> QED BY <1>5, <2>1 DEF Reversals
<1>9. ClearingExplained'
  <2>1. Reversals(w) = {} /\ Cardinality({}) = 0
    BY <1>6, FS_EmptySet DEF MoneyInv, NothingYet
  <2>2. Outstanding(w)' = n * (1 - 0) /\ Outstanding(w) = 0 * (1 - 0)
    BY <1>6, <1>8, <2>1 DEF Outstanding
  <2>3. Outstanding(w)' - Outstanding(w) = n
    <3> HIDE DEF n
    <3> QED BY <1>1, <2>2
  <2>4. \A x \in Withdrawals \ {w} : Outstanding(x)' = Outstanding(x)
    BY <1>6, <1>8 DEF Outstanding
  <2>5. ledger'.balance[Clearing] - ledger.balance[Clearing] = Outstanding(w)' - Outstanding(w)
    <3>1. ledger.balance[Clearing] \in Int
      BY <1>3, TheAccounts DEF LedgerType
    <3> HIDE DEF n
    <3> QED BY <1>1, <1>5, <2>3, <3>1
  <2> QED BY <2>4, <2>5, ClearingMoves DEF IInv, MoneyInv
<1>10. Copies'
  <2> SUFFICES ASSUME NEW q \in Sessions, tx'[q].pc = "row", tx'[q].op # "CreateWithdrawal"
               PROVE  /\ withdrawals'[tx'[q].id].status # "NONE"
                      /\ withdrawals'[tx'[q].id].amount = tx'[q].row.amount
    BY DEF Copies
  <2>1. q # p /\ tx'[q] = tx[q]
    BY <1>7
  <2>2. tx[q].id \in Withdrawals
    BY <2>1, BeforeWrite
  <2>3. /\ withdrawals[tx[q].id].status # "NONE"
        /\ withdrawals[tx[q].id].amount = tx[q].row.amount
    BY <2>1 DEF MoneyInv, Copies
  <2> HIDE DEF n
  <2> QED BY <1>6, <2>1, <2>2, <2>3
<1>11. OneAsks'
  BY <1>2, <1>7 DEF MoneyInv, OneAsks, Creating, At
<1>12. ASSUME NEW u \in Users \ racedUsers
       PROVE  \/ /\ u = row.user
                 /\ ledger'.balance[UserWallet(u)] >= 0
                 /\ \A q \in Sessions : ~Creating(q, u)'
              \/ /\ u # row.user
                 /\ ledger'.balance[UserWallet(u)] = ledger.balance[UserWallet(u)]
  <2>1. UserWallet(u) \in Accounts /\ ledger.balance[UserWallet(u)] \in Int
    BY <1>3, TheAccounts DEF LedgerType
  <2>2. CASE u = row.user
    <3>1. Creating(p, u)
      BY <1>1, <2>2 DEF Creating, At
    <3>2. ledger.balance[UserWallet(u)] >= n
      BY <3>1 DEF MoneyInv, Affordable
    <3>3. \A q \in Sessions : ~Creating(q, u)'
      BY <1>7, <3>1 DEF MoneyInv, OneAsks, Creating, At
    <3>4. user = UserWallet(u)
      BY <2>2
    <3> HIDE DEF n, user
    <3>5. ledger'.balance[UserWallet(u)] >= 0
      BY <1>1, <1>5, <2>1, <3>2, <3>4
    <3> QED BY <2>2, <3>3, <3>5
  <2>3. CASE u # row.user
    <3>1. UserWallet(u) # user /\ UserWallet(u) # Clearing
      BY <2>3, TheAccounts
    <3> HIDE DEF user
    <3> QED BY <1>5, <2>1, <2>3, <3>1
  <2> QED BY <2>2, <2>3
<1>13. Affordable'
  <2> SUFFICES ASSUME NEW q \in Sessions, NEW u \in Users \ racedUsers, Creating(q, u)'
               PROVE  ledger'.balance[UserWallet(u)] >= tx'[q].row.amount
    BY <1>2 DEF Affordable
  <2>1. tx'[q] = tx[q] /\ Creating(q, u)
    BY <1>7 DEF Creating, At
  <2>2. ledger.balance[UserWallet(u)] >= tx[q].row.amount
    BY <2>1 DEF MoneyInv, Affordable
  <2> QED BY <1>12, <2>1, <2>2
<1>14. NothingYet'
  BY <1>6, <1>8 DEF MoneyInv, NothingYet
<1>15. \A u \in Users : ledger.balance[UserWallet(u)] \in Int
  BY <1>3, TheAccounts DEF LedgerType
<1> HIDE DEF row
<1> QED BY <1>9, <1>10, <1>11, <1>12, <1>13, <1>14, <1>15 DEF MoneyInv

LEMMA NextMoneyInv == IInv /\ IInv' /\ MoneyInv /\ [Next]_vars => MoneyInv'
<1> SUFFICES ASSUME IInv, IInv', MoneyInv, [Next]_vars PROVE MoneyInv'
  OBVIOUS
<1>1. ASSUME NEW p \in Sessions, Continue(p) PROVE MoneyInv'
  <2>1. CASE FailWithdrawalCommit(p)
    BY <2>1, GiveBackKeepsMoney DEF FailWithdrawalCommit, At, Statuses
  <2>2. CASE RejectWithdrawalCommit(p)
    BY <2>2, GiveBackKeepsMoney DEF RejectWithdrawalCommit, At, Statuses
  <2> QED BY <1>1, <2>1, <2>2, UpdateKeepsMoney, EndKeepsMoney DEF Continue
<1>2. CASE UNCHANGED vars
  <2>1. UNCHANGED <<ledger, withdrawals, tx, racedUsers>>
    BY <1>2 DEF vars
  <2>2. ClearingExplained'
    BY <2>1, ClearingStays DEF MoneyInv
  <2>3. Copies' /\ OneAsks' /\ Affordable' /\ NothingYet'
    BY <2>1 DEF MoneyInv, Copies, OneAsks, Affordable, NothingYet, Creating, At, Reversals
  <2> QED BY <2>2, <2>3 DEF MoneyInv
<1> QED BY <1>1, <1>2, CreateKeepsMoney, ReserveKeepsMoney, ReadsKeepMoney DEF Next

LEMMA MoneyInvariant == Spec => [](IInv /\ MoneyInv)
<1>1. Init => IInv /\ MoneyInv
  BY InitIInv, InitMoneyInv
<1>2. IInv /\ MoneyInv /\ [Next]_vars => IInv' /\ MoneyInv'
  BY NextIInv, NextMoneyInv
<1> QED BY <1>1, <1>2, PTL DEF Spec

(* However requests overlap and abort, the payout clearing account is what *)
(* was reserved less what was given back, each once and with the amount of *)
(* its own withdrawal (CreateWithdrawal, RejectWithdrawal, FailWithdrawal) *)
THEOREM ClearingIsExplained == Spec => []ClearingExplained
<1>1. MoneyInv => ClearingExplained
  BY DEF MoneyInv
<1> QED BY <1>1, MoneyInvariant, PTL

(* A step that takes money from a wallet leaves it non-negative, for every *)
(* user whose own CreateWithdrawal requests never overlapped: nothing else *)
(* spends between the balance check and the commit.                        *)
THEOREM WalletsAreCovered == Spec => NoOverdraft
<1> DEFINE A == \A u \in Users \ racedUsers' :
                   ledger'.balance[UserWallet(u)] < ledger.balance[UserWallet(u)]
                       => ledger'.balance[UserWallet(u)] >= 0
<1>1. IInv /\ IInv' /\ MoneyInv /\ [Next]_vars => A \/ UNCHANGED vars
  <2> SUFFICES ASSUME IInv, IInv', MoneyInv, Next PROVE A
    OBVIOUS
  <2>1. \A u \in Users : ledger.balance[UserWallet(u)] \in Int
    BY TheAccounts DEF IInv, TypeOK
  <2>2. ASSUME UNCHANGED ledger PROVE A
    BY <2>1, <2>2
  <2>3. ASSUME NEW p \in Sessions, NEW w \in Withdrawals, CreateWithdrawalCommit(p, w)
        PROVE  A
    <3>1. racedUsers' = racedUsers
      BY <2>3 DEF CreateWithdrawalCommit
    <3> QED BY <2>3, <3>1, ReserveKeepsMoney
  <2>4. ASSUME NEW p \in Sessions, Continue(p) PROVE A
    <3>1. ASSUME \A u \in Users :
                    ledger'.balance[UserWallet(u)] >= ledger.balance[UserWallet(u)]
          PROVE  A
      <4>1. \A u \in Users : ledger'.balance[UserWallet(u)] \in Int
        BY TheAccounts DEF IInv, TypeOK
      <4> QED BY <2>1, <3>1, <4>1
    <3> HIDE DEF A
    <3>2. CASE FailWithdrawalCommit(p)
      BY <3>1, <3>2, GiveBackKeepsMoney DEF FailWithdrawalCommit, At, Statuses
    <3>3. CASE RejectWithdrawalCommit(p)
      BY <3>1, <3>3, GiveBackKeepsMoney DEF RejectWithdrawalCommit, At, Statuses
    <3>4. CASE ~FailWithdrawalCommit(p) /\ ~RejectWithdrawalCommit(p)
      BY <2>2, <2>4, <3>4
         DEF Continue, ApproveWithdrawalUpdate, MarkWithdrawalSentUpdate,
             SettleWithdrawalUpdate, ProcessWithdrawalUpdate, AutoCommit,
             EmitWithdrawalStatusChanged, Abort
    <3> QED BY <3>2, <3>3, <3>4
  <2>5. ASSUME NEW p \in Sessions, NEW u \in Users, NEW n \in Amounts, CreateWithdrawal(p, u, n)
        PROVE  A
    BY <2>2, <2>5 DEF CreateWithdrawal
  <2>6. ASSUME NEW p \in Sessions, NEW w \in Withdrawals, Request(p, w) PROVE A
    <3>1. UNCHANGED ledger
      BY <2>6 DEF Request, ApproveWithdrawal, MarkWithdrawalSent, SettleWithdrawal,
         ProcessWithdrawal, FailWithdrawal, RejectWithdrawal, GetByID
    <3> HIDE DEF A
    <3> QED BY <2>2, <3>1
  <2> HIDE DEF A
  <2> QED BY <2>3, <2>4, <2>5, <2>6 DEF Next
<1>2. IInv /\ IInv' /\ MoneyInv /\ [Next]_vars => [A]_vars
  BY <1>1
<1>3. Spec => [][A]_vars
  <2> HIDE DEF A
  <2> QED BY <1>2, MoneyInvariant, PTL DEF Spec
<1> QED BY <1>3 DEF NoOverdraft
=============================================================================
