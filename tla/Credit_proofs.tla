---------------------------- MODULE Credit_proofs ----------------------------
(***************************************************************************)
(* Theorems about Credit, for any grants, users, amounts and number of     *)
(* sessions, whatever is aborted between the row and its journal.          *)
(***************************************************************************)
EXTENDS Credit, SumTheorems, TLAPS

LedgerType == [balance : [Accounts -> Int], posted : SUBSET Refs]

(* The grants, and the grants' reversals, that are posted.                 *)
Posted == {g \in Grants : IsGranted(g)}
Undone == {g \in Grants : IsReversed(g)}

LEMMA SamePosted ==
    ASSUME UNCHANGED ledger
    PROVE  UNCHANGED <<Posted, Undone>>
BY DEF Posted, Undone, IsGranted, IsReversed

-----------------------------------------------------------------------------
(* The inductive invariant: which of the row, the journal and the open     *)
(* transaction each of the others implies.                                 *)

(* The sessions between the row of a grant and its journal: the row is     *)
(* written, the journal is not posted.                                     *)
Granters == [g \in Grants |-> {p \in Sessions : tx[p].pc = "grant" /\ tx[p].id = g}]
Reversers == [g \in Grants |-> {p \in Sessions : tx[p].pc = "reverse" /\ tx[p].id = g}]

Holders ==
    \A p \in Sessions :
        /\ tx[p].pc # "idle" => /\ tx[p].id \in Grants
                                /\ tx[p].row.amount \in Nat
                                /\ tx[p].row.amount = grants[tx[p].id].amount
                                /\ grants[tx[p].id].status # "NONE"
        /\ tx[p].pc = "grant" => tx[p].id \notin Posted
        /\ tx[p].pc = "reverse" => /\ grants[tx[p].id].status = "REVERSED"
                                   /\ tx[p].id \notin Undone

(* Each row has one writer of each kind.                                   *)
OneWriter ==
    \A p, q \in Sessions : \A g \in Grants :
        /\ p \in Granters[g] /\ q \in Granters[g] => p = q
        /\ p \in Reversers[g] /\ q \in Reversers[g] => p = q

(* A posted journal has its row ...                                        *)
PostedHasRow ==
    \A g \in Grants :
        /\ g \in Posted => grants[g].status # "NONE"
        /\ g \in Undone => grants[g].status = "REVERSED"

(* ... and a row has its journal, or a session that is about to post it.   *)
RowHasJournal ==
    \A g \in Grants \ severed :
        /\ grants[g].status # "NONE" =>
               g \in Posted \/ \E p \in Sessions : p \in Granters[g]
        /\ grants[g].status = "REVERSED" =>
               g \in Undone \/ \E p \in Sessions : p \in Reversers[g]

IInv == TypeOK /\ Holders /\ OneWriter /\ PostedHasRow /\ RowHasJournal

LEMMA InvImplies == IInv => TypeOK /\ OneReverser /\ StatusTellsLedger
<1> SUFFICES ASSUME IInv PROVE TypeOK /\ OneReverser /\ StatusTellsLedger
  OBVIOUS
<1>1. OneReverser
  BY DEF IInv, Holders, OneWriter, Reversers, OneReverser, Undone
<1>2. StatusTellsLedger
  <2> SUFFICES ASSUME NEW g \in Grants \ severed, \A p \in Sessions : tx[p].id # g
               PROVE  /\ (grants[g].status # "NONE") <=> IsGranted(g)
                      /\ (grants[g].status = "REVERSED") <=> IsReversed(g)
    BY DEF StatusTellsLedger
  <2>1. \A p \in Sessions : p \notin Granters[g] /\ p \notin Reversers[g]
    BY DEF Granters, Reversers
  <2>2. /\ (grants[g].status # "NONE") <=> g \in Posted
        /\ (grants[g].status = "REVERSED") <=> g \in Undone
    BY <2>1 DEF IInv, PostedHasRow, RowHasJournal
  <2> QED BY <2>2 DEF Posted, Undone
<1> QED BY <1>1, <1>2 DEF IInv

LEMMA InitIInv == Init => IInv
<1> SUFFICES ASSUME Init PROVE IInv
  OBVIOUS
<1>1. NoRow \in Row /\ Idle \in Session
  BY DEF NoRow, Row, Idle, Session
<1>2. TypeOK
  BY <1>1 DEF Init, TypeOK
<1>3. Holders /\ OneWriter
  BY DEF Init, Holders, OneWriter, Granters, Reversers, Idle
<1>4. PostedHasRow /\ RowHasJournal
  BY DEF Init, PostedHasRow, RowHasJournal, Posted, Undone, IsGranted, IsReversed, NoRow
<1> QED BY <1>2, <1>3, <1>4 DEF IInv

-----------------------------------------------------------------------------
(* Posting a transfer keeps the ledger's type, adds its reference and      *)
(* moves its amount.                                                       *)
LEMMA PostTyped ==
    ASSUME NEW l \in LedgerType, NEW ref \in Refs, NEW from, NEW to, NEW n \in Nat
    PROVE  LET m == Post(l, Journal(ref, Shift(from, to, n))) IN
           /\ m \in LedgerType
           /\ m.posted = l.posted \cup {ref}
           /\ \A a \in Accounts :
                 m.balance[a] = l.balance[a] - (IF a = from THEN n ELSE 0)
                                    + (IF a = to /\ a # from THEN n ELSE 0)
<1> DEFINE lines == Shift(from, to, n)
           after == [a \in DOMAIN l.balance |->
                        IF a \in DOMAIN lines
                        THEN l.balance[a] + lines[a].credit - lines[a].debit
                        ELSE l.balance[a]]
<1>1. DOMAIN l.balance = Accounts /\ \A a \in Accounts : l.balance[a] \in Int
  BY DEF LedgerType
<1>2. \A a \in DOMAIN lines : lines[a] \in [debit : Int, credit : Int]
  BY DEF Shift, Debit, Credit
<1>3. after \in [Accounts -> Int]
  <2> HIDE DEF lines
  <2> QED BY <1>1, <1>2
<1>4. Post(l, Journal(ref, lines)) = [balance |-> after, posted |-> l.posted \cup {ref}]
  BY DEF Post, Journal
<1>5. l.posted \cup {ref} \in SUBSET Refs
  BY DEF LedgerType
<1>6. \A a \in Accounts : after[a] = l.balance[a] - (IF a = from THEN n ELSE 0)
                                          + (IF a = to /\ a # from THEN n ELSE 0)
  BY <1>1 DEF Shift, Debit, Credit
<1> HIDE DEF after, lines
<1>7. /\ Post(l, Journal(ref, lines)) \in LedgerType
      /\ Post(l, Journal(ref, lines)).posted = l.posted \cup {ref}
      /\ Post(l, Journal(ref, lines)).balance = after
  BY <1>3, <1>4, <1>5 DEF LedgerType
<1> QED BY <1>6, <1>7 DEF lines

-----------------------------------------------------------------------------
(* GrantCredit: the key was free, so no journal and no session uses it.    *)
LEMMA GrantKeeps ==
    ASSUME IInv, NEW p \in Sessions, NEW g \in Grants, NEW u \in Users, NEW n \in Amounts,
           CreditAssumption, GrantCredit(p, g, u, n)
    PROVE  IInv'
<1> DEFINE row == [status |-> "ACTIVE", user |-> u, amount |-> n]
           t == [pc |-> "grant", id |-> g, row |-> row]
<1>1. row \in Row /\ t \in Session
  BY DEF CreditAssumption, Row, Session
<1>2. /\ grants[g].status = "NONE"
      /\ grants' = [grants EXCEPT ![g] = row]
      /\ tx[p] = Idle
      /\ tx' = [tx EXCEPT ![p] = t]
      /\ UNCHANGED <<Posted, Undone, ledger, severed>>
  BY SamePosted DEF GrantCredit, CreateGrant, NoRow
<1>3. /\ tx'[p] = t /\ \A q \in Sessions \ {p} : tx'[q] = tx[q]
      /\ grants'[g] = row /\ \A x \in Grants \ {g} : grants'[x] = grants[x]
  BY <1>2 DEF IInv, TypeOK
<1>4. /\ t.pc = "grant" /\ t.id = g /\ t.row.amount \in Nat
      /\ t.row.amount = row.amount /\ row.status = "ACTIVE"
  BY DEF CreditAssumption
<1>5. g \notin Posted /\ g \notin Undone
  BY <1>2 DEF IInv, PostedHasRow
<1>6. \A q \in Sessions : q \notin Granters[g] /\ q \notin Reversers[g]
  BY <1>2 DEF IInv, Holders, Granters, Reversers
<1>7. tx[p].pc = "idle"
  BY <1>2 DEF Idle
<1> HIDE DEF row, t
<1>8. TypeOK'
  BY <1>1, <1>2 DEF IInv, TypeOK
<1>9. Holders'
  BY <1>2, <1>3, <1>4, <1>5, <1>6 DEF IInv, Holders, Granters, Reversers
<1>10. OneWriter'
  BY <1>3, <1>4, <1>6 DEF IInv, OneWriter, Granters, Reversers
<1>11. PostedHasRow'
  BY <1>2, <1>3, <1>5 DEF IInv, PostedHasRow
<1>12. RowHasJournal'
  <2> SUFFICES ASSUME NEW x \in Grants \ severed'
               PROVE  /\ grants'[x].status # "NONE" =>
                             x \in Posted' \/ \E q \in Sessions : q \in Granters'[x]
                      /\ grants'[x].status = "REVERSED" =>
                             x \in Undone' \/ \E q \in Sessions : q \in Reversers'[x]
    BY DEF RowHasJournal
  <2>1. CASE x = g
    <3>1. p \in Granters'[g]
      BY <1>3, <1>4 DEF Granters
    <3> QED BY <1>3, <1>4, <2>1, <3>1
  <2>2. CASE x # g
    <3>1. \A q \in Sessions : /\ q \in Granters[x] => q \in Granters'[x]
                              /\ q \in Reversers[x] => q \in Reversers'[x]
      BY <1>3, <1>7 DEF Granters, Reversers
    <3> QED BY <1>2, <1>3, <2>2, <3>1 DEF IInv, RowHasJournal
  <2> QED BY <2>1, <2>2
<1> QED BY <1>8, <1>9, <1>10, <1>11, <1>12 DEF IInv

LEMMA ReadKeeps ==
    ASSUME IInv, NEW p \in Sessions, NEW g \in Grants, ReverseCreditGrant(p, g)
    PROVE  IInv'
<1> DEFINE t == [pc |-> "mark", id |-> g, row |-> grants[g]]
<1>1. grants[g] \in Row /\ t \in Session
  BY DEF IInv, TypeOK, Session
<1>2. /\ tx[p] = Idle /\ tx' = [tx EXCEPT ![p] = t]
      /\ UNCHANGED <<Posted, Undone, ledger, grants, severed>>
  BY SamePosted DEF ReverseCreditGrant, GetGrantByID
<1>3. tx'[p] = t /\ \A q \in Sessions \ {p} : tx'[q] = tx[q]
  BY <1>2 DEF IInv, TypeOK
<1>4. /\ t.pc = "mark" /\ t.id = g /\ t.row.amount \in Nat /\ tx[p].pc = "idle"
      /\ t.row.amount = grants[g].amount /\ grants[g].status # "NONE"
  BY <1>1, <1>2 DEF Row, Idle, ReverseCreditGrant, GetGrantByID
<1> HIDE DEF t
<1>5. TypeOK'
  BY <1>1, <1>2 DEF IInv, TypeOK
<1>6. Holders' /\ OneWriter'
  BY <1>2, <1>3, <1>4 DEF IInv, Holders, OneWriter, Granters, Reversers
<1>7. \A q \in Sessions : \A x \in Grants : /\ q \in Granters[x] => q \in Granters'[x]
                                            /\ q \in Reversers[x] => q \in Reversers'[x]
  BY <1>3, <1>4 DEF Granters, Reversers
<1>8. PostedHasRow' /\ RowHasJournal'
  BY <1>2, <1>7 DEF IInv, PostedHasRow, RowHasJournal
<1> QED BY <1>5, <1>6, <1>8 DEF IInv

(* MarkReversed: the row was ACTIVE, so nobody else reverses this grant.   *)
LEMMA MarkKeeps ==
    ASSUME IInv, NEW p \in Sessions, MarkReversed(p)
    PROVE  IInv'
<1>1. PICK g \in Grants : tx[p].id = g
  BY DEF IInv, Holders, MarkReversed
<1>2. /\ tx[p] \in Session /\ tx[p].pc = "mark" /\ tx[p].row.amount \in Nat
      /\ tx[p].row.amount = grants[g].amount
      /\ grants[g] \in Row /\ grants[g].status = "ACTIVE"
      /\ UNCHANGED <<Posted, Undone, ledger, severed>>
  BY <1>1, SamePosted DEF IInv, TypeOK, Holders, MarkReversed, ByIdAndActive
<1>3. PICK row \in Row : /\ row.status = "REVERSED" /\ row.amount = grants[g].amount
                         /\ grants' = [grants EXCEPT ![g] = row]
  BY <1>1, <1>2 DEF MarkReversed, Marked, Row
<1>4. PICK t \in Session : /\ t.pc = "reverse" /\ t.id = g
                          /\ t.row.amount \in Nat /\ t.row.amount = grants[g].amount
                          /\ tx' = [tx EXCEPT ![p] = t]
  BY <1>1, <1>2 DEF MarkReversed, Session
<1>5. /\ tx'[p] = t /\ \A q \in Sessions \ {p} : tx'[q] = tx[q]
      /\ grants'[g] = row /\ \A x \in Grants \ {g} : grants'[x] = grants[x]
  BY <1>3, <1>4 DEF IInv, TypeOK
<1>6. g \notin Undone
  BY <1>1, <1>2 DEF IInv, PostedHasRow
<1>7. \A q \in Sessions : q \notin Reversers[g]
  BY <1>2 DEF IInv, Holders, Reversers
<1>8. TypeOK'
  BY <1>2, <1>3, <1>4 DEF IInv, TypeOK
<1>9. Holders'
  BY <1>2, <1>3, <1>4, <1>5, <1>6 DEF IInv, Holders
<1>10. OneWriter'
  BY <1>4, <1>5, <1>7 DEF IInv, OneWriter, Granters, Reversers
<1>11. PostedHasRow'
  BY <1>2, <1>3, <1>5 DEF IInv, PostedHasRow
<1>12. RowHasJournal'
  <2> SUFFICES ASSUME NEW x \in Grants \ severed'
               PROVE  /\ grants'[x].status # "NONE" =>
                             x \in Posted' \/ \E q \in Sessions : q \in Granters'[x]
                      /\ grants'[x].status = "REVERSED" =>
                             x \in Undone' \/ \E q \in Sessions : q \in Reversers'[x]
    BY DEF RowHasJournal
  <2>1. \A q \in Sessions : /\ q \in Granters[x] => q \in Granters'[x]
                            /\ q \in Reversers[x] => q \in Reversers'[x]
    BY <1>2, <1>5 DEF Granters, Reversers
  <2>2. p \in Reversers'[g]
    BY <1>4, <1>5 DEF Reversers
  <2>3. CASE x = g
    BY <1>2, <2>1, <2>2, <2>3 DEF IInv, RowHasJournal
  <2>4. CASE x # g
    BY <1>2, <1>5, <2>1, <2>4 DEF IInv, RowHasJournal
  <2> QED BY <2>3, <2>4
<1> QED BY <1>8, <1>9, <1>10, <1>11, <1>12 DEF IInv

(* COMMIT: a session that had written its row posts the journal.           *)
LEMMA CommitKeeps ==
    ASSUME IInv, NEW p \in Sessions, GrantCreditCommit(p) \/ ReverseCreditCommit(p)
    PROVE  IInv'
<1> DEFINE g == tx[p].id
           kind == IF tx[p].pc = "grant" THEN "PROMO_CREDIT_GRANT" ELSE "PROMO_CREDIT_REVERSE"
           ref == <<kind, g>>
<1>1. tx[p].pc \in {"grant", "reverse"} /\ g \in Grants /\ tx[p].row.amount \in Nat
  BY DEF IInv, Holders, GrantCreditCommit, ReverseCreditCommit
<1>2. ledger \in LedgerType
  BY DEF IInv, TypeOK, LedgerType
<1>3. ref \in Refs
  BY <1>1 DEF Refs
<1>4. \E from, to : ledger' = Post(ledger, Journal(ref, Shift(from, to, tx[p].row.amount)))
  BY DEF GrantCreditCommit, ReverseCreditCommit, CommitJournal, Granting, Reversing
<1>5. ledger' \in LedgerType /\ ledger'.posted = ledger.posted \cup {ref}
  <2> HIDE DEF ref
  <2> QED BY <1>1, <1>2, <1>3, <1>4, PostTyped
<1>6. tx' = [tx EXCEPT ![p] = Idle] /\ UNCHANGED <<grants, severed>>
  BY DEF GrantCreditCommit, ReverseCreditCommit, CommitJournal
<1>7. tx'[p] = Idle /\ \A q \in Sessions \ {p} : tx'[q] = tx[q]
  BY <1>6 DEF IInv, TypeOK
<1>8. Idle \in Session /\ Idle.pc = "idle"
  BY DEF Idle, Session, NoRow, Row
<1>9. \A x \in Grants :
         /\ x \in Posted' <=> x \in Posted \/ p \in Granters[x]
         /\ x \in Undone' <=> x \in Undone \/ p \in Reversers[x]
  BY <1>1, <1>5 DEF Posted, Undone, IsGranted, IsReversed, Granters, Reversers
<1>10. TypeOK'
  BY <1>5, <1>6, <1>8 DEF IInv, TypeOK, LedgerType
<1> HIDE DEF g, ref, kind
<1>11. OneWriter'
  BY <1>7, <1>8 DEF IInv, OneWriter, Granters, Reversers
<1>12. Holders'
  <2>1. ASSUME NEW q \in Sessions \ {p}, NEW x \in Grants
        PROVE  /\ q \in Granters[x] => (x \in Posted' => x \in Posted)
               /\ q \in Reversers[x] => (x \in Undone' => x \in Undone)
    BY <1>9 DEF IInv, OneWriter
  <2> QED BY <1>6, <1>7, <1>8, <2>1 DEF IInv, Holders, Granters, Reversers
<1>13. PostedHasRow'
  BY <1>6, <1>9 DEF IInv, PostedHasRow, Holders, Granters, Reversers
<1>14. RowHasJournal'
  <2>1. \A q \in Sessions \ {p} : \A x \in Grants : /\ q \in Granters[x] => q \in Granters'[x]
                                                    /\ q \in Reversers[x] => q \in Reversers'[x]
    BY <1>7 DEF Granters, Reversers
  <2> SUFFICES ASSUME NEW x \in Grants \ severed
               PROVE  /\ grants'[x].status # "NONE" =>
                             x \in Posted' \/ \E q \in Sessions : q \in Granters'[x]
                      /\ grants'[x].status = "REVERSED" =>
                             x \in Undone' \/ \E q \in Sessions : q \in Reversers'[x]
    BY <1>6 DEF RowHasJournal
  <2> QED BY <1>6, <1>9, <2>1 DEF IInv, RowHasJournal
<1> QED BY <1>10, <1>11, <1>12, <1>13, <1>14 DEF IInv

(* A session that ends without its journal severs the row it had written.  *)
LEMMA AbortKeeps ==
    ASSUME IInv, NEW p \in Sessions, Abort(p)
    PROVE  IInv'
<1>1. /\ tx' = [tx EXCEPT ![p] = Idle]
      /\ severed' = severed \cup {g \in {tx[p].id} : tx[p].pc \in {"grant", "reverse"}}
      /\ UNCHANGED <<Posted, Undone, ledger, grants>>
  BY SamePosted DEF Abort
<1>2. tx'[p] = Idle /\ \A q \in Sessions \ {p} : tx'[q] = tx[q]
  BY <1>1 DEF IInv, TypeOK
<1>3. Idle \in Session /\ Idle.pc = "idle"
  BY DEF Idle, Session, NoRow, Row
<1>4. TypeOK'
  BY <1>1, <1>3 DEF IInv, TypeOK, Holders
<1>5. Holders' /\ OneWriter'
  BY <1>1, <1>2, <1>3 DEF IInv, Holders, OneWriter, Granters, Reversers
<1>6. PostedHasRow'
  BY <1>1 DEF IInv, PostedHasRow
<1>7. RowHasJournal'
  <2> SUFFICES ASSUME NEW x \in Grants \ severed'
               PROVE  /\ grants'[x].status # "NONE" =>
                             x \in Posted' \/ \E q \in Sessions : q \in Granters'[x]
                      /\ grants'[x].status = "REVERSED" =>
                             x \in Undone' \/ \E q \in Sessions : q \in Reversers'[x]
    BY DEF RowHasJournal
  <2>1. p \notin Granters[x] /\ p \notin Reversers[x]
    BY <1>1 DEF Granters, Reversers
  <2>2. \A q \in Sessions : /\ q \in Granters[x] => q \in Granters'[x]
                            /\ q \in Reversers[x] => q \in Reversers'[x]
    BY <1>2, <2>1 DEF Granters, Reversers
  <2>3. x \notin severed
    BY <1>1
  <2> QED BY <1>1, <2>2, <2>3 DEF IInv, RowHasJournal
<1> QED BY <1>4, <1>5, <1>6, <1>7 DEF IInv

(* Spending promo credit touches neither grants nor their references.      *)
LEMMA PayKeeps ==
    ASSUME IInv, NEW u \in Users, NEW s \in Shipments, NEW n \in Amounts, CreditAssumption,
           PayFromWallet(u, s, n)
    PROVE  IInv'
<1> DEFINE ref == <<"PROMO_CREDIT_TO_ESCROW", s>>
<1>1. ledger \in LedgerType /\ n \in Nat /\ ref \in Refs
  BY DEF IInv, TypeOK, LedgerType, CreditAssumption, Refs
<1>2. /\ \E from, to : ledger' = Post(ledger, Journal(ref, Shift(from, to, n)))
      /\ UNCHANGED <<grants, tx, severed>>
  BY DEF PayFromWallet, Paying
<1>3. ledger' \in LedgerType /\ ledger'.posted = ledger.posted \cup {ref}
  <2> HIDE DEF ref
  <2> QED BY <1>1, <1>2, PostTyped
<1>4. UNCHANGED <<Posted, Undone>>
  BY <1>3 DEF Posted, Undone, IsGranted, IsReversed
<1> HIDE DEF ref
<1>5. TypeOK'
  BY <1>2, <1>3 DEF IInv, TypeOK, LedgerType
<1>6. Holders' /\ OneWriter'
  BY <1>2, <1>4 DEF IInv, Holders, OneWriter, Granters, Reversers
<1>7. PostedHasRow' /\ RowHasJournal'
  BY <1>2, <1>4 DEF IInv, PostedHasRow, RowHasJournal, Granters, Reversers
<1> QED BY <1>5, <1>6, <1>7 DEF IInv

LEMMA StutterKeeps ==
    ASSUME IInv, UNCHANGED vars
    PROVE  IInv'
<1>1. UNCHANGED <<Posted, Undone, ledger, grants, tx, severed>>
  BY SamePosted DEF vars
<1>2. TypeOK' /\ Holders' /\ OneWriter'
  BY <1>1 DEF IInv, TypeOK, Holders, OneWriter, Granters, Reversers
<1>3. PostedHasRow' /\ RowHasJournal'
  BY <1>1 DEF IInv, PostedHasRow, RowHasJournal, Granters, Reversers
<1> QED BY <1>2, <1>3 DEF IInv

LEMMA NextIInv == CreditAssumption /\ IInv /\ [Next]_vars => IInv'
<1> SUFFICES ASSUME CreditAssumption, IInv, [Next]_vars PROVE IInv'
  OBVIOUS
<1>1. ASSUME NEW p \in Sessions, NEW g \in Grants, NEW u \in Users, NEW n \in Amounts,
             GrantCredit(p, g, u, n)
      PROVE  IInv'
  BY <1>1, GrantKeeps
<1>2. ASSUME NEW p \in Sessions, NEW g \in Grants, ReverseCreditGrant(p, g)
      PROVE  IInv'
  BY <1>2, ReadKeeps
<1>3. ASSUME NEW p \in Sessions,
             \/ MarkReversed(p) \/ Abort(p)
             \/ GrantCreditCommit(p) \/ ReverseCreditCommit(p)
      PROVE  IInv'
  BY <1>3, MarkKeeps, AbortKeeps, CommitKeeps
<1>4. ASSUME NEW u \in Users, NEW s \in Shipments, NEW n \in Amounts, PayFromWallet(u, s, n)
      PROVE  IInv'
  BY <1>4, PayKeeps
<1> QED BY <1>1, <1>2, <1>3, <1>4, StutterKeeps DEF Next

-----------------------------------------------------------------------------
(* Promo expense.  A grant's part in it changes when one of its journals   *)
(* is posted, by the amount of its row, and at no other step.              *)

Expense == Account("AIRBAR_PROMO_EXPENSE")

Part(g) ==
    grants[g].amount * ((IF g \in Posted THEN 1 ELSE 0) - (IF g \in Undone THEN 1 ELSE 0))

Explained == - ledger.balance[Expense] = SumFunctionOnSet([g \in Grants |-> Part(g)], Grants)

LEMMA ExplainedIs == Explained <=> ExpenseExplained
<1> DEFINE f == [g \in Grants |-> grants[g].amount * ((IF IsGranted(g) THEN 1 ELSE 0)
                                                        - (IF IsReversed(g) THEN 1 ELSE 0))]
<1>1. [g \in Grants |-> Part(g)] = f
  BY DEF Part, Posted, Undone
<1>2. SumFunction(f) = SumFunctionOnSet(f, Grants)
  BY DEF SumFunction
<1> QED BY <1>1, <1>2 DEF Explained, ExpenseExplained, Expense

LEMMA PartType == ASSUME IInv, NEW g \in Grants PROVE Part(g) \in Int
<1>1. grants[g].amount \in Nat
  BY DEF IInv, TypeOK, Row
<1> QED BY <1>1 DEF Part

LEMMA InitExplained == CreditAssumption /\ Init => Explained
<1> SUFFICES ASSUME CreditAssumption, Init PROVE Explained
  OBVIOUS
<1> DEFINE f == [g \in Grants |-> Part(g)]
           sum == SumFunctionOnSet(f, Grants)
<1>1. \A g \in Grants : f[g] = 0
  BY DEF Init, Part, Posted, Undone, IsGranted, IsReversed, NoRow
<1>2. sum = 0
  <2> HIDE DEF f
  <2> QED BY <1>1, SumZero DEF CreditAssumption
<1>3. ledger.balance[Expense] = 0
  BY DEF Init, Expense, Account, Accounts, SystemAccounts
<1>4. sum \in Int /\ ledger.balance[Expense] \in Int /\ ledger.balance[Expense] + sum = 0
  BY <1>2, <1>3
<1>5. - ledger.balance[Expense] = sum
  <2> HIDE DEF sum
  <2> QED BY <1>4
<1> QED BY <1>5 DEF Explained

LEMMA ExpenseAccount ==
    /\ Expense \in Accounts
    /\ \A u : Expense # UserPromoCredit(u)
    /\ \A x : Expense # ShipmentEscrow(x)
BY DEF Expense, Account, Accounts, SystemAccounts, UserPromoCredit, ShipmentEscrow

(* Which grants' journals are posted decides with the rows' amounts.       *)
LEMMA SameParts ==
    ASSUME Explained, ledger'.balance[Expense] = ledger.balance[Expense],
           \A g \in Grants : Part(g)' = Part(g)
    PROVE  Explained'
<1>1. [g \in Grants |-> Part(g)]' = [g \in Grants |-> Part(g)]
  OBVIOUS
<1> QED BY <1>1 DEF Explained

LEMMA CommitExplains ==
    ASSUME CreditAssumption, IInv, Explained, NEW p \in Sessions,
           GrantCreditCommit(p) \/ ReverseCreditCommit(p)
    PROVE  Explained'
<1>0. PICK g \in Grants, n \in Nat, grant \in BOOLEAN :
         /\ tx[p].pc \in {"grant", "reverse"} /\ tx[p].id = g /\ tx[p].row.amount = n
         /\ grant <=> tx[p].pc = "grant"
  BY DEF IInv, Holders, GrantCreditCommit, ReverseCreditCommit
<1> DEFINE kind == IF grant THEN "PROMO_CREDIT_GRANT" ELSE "PROMO_CREDIT_REVERSE"
           ref == <<kind, g>>
           f == [x \in Grants |-> Part(x)]
<1>1. n = grants[g].amount
  BY <1>0 DEF IInv, Holders
<1>2. ledger \in LedgerType /\ ref \in Refs
  BY DEF IInv, TypeOK, LedgerType, Refs
<1>3. PICK u : ledger' = Post(ledger, Journal(ref,
                   IF grant THEN Shift(Expense, UserPromoCredit(u), n)
                            ELSE Shift(UserPromoCredit(u), Expense, n)))
  BY <1>0 DEF GrantCreditCommit, ReverseCreditCommit, CommitJournal, Granting, Reversing,
              Expense
<1>4. UNCHANGED grants
  BY DEF GrantCreditCommit, ReverseCreditCommit, CommitJournal
<1>5. /\ ledger'.posted = ledger.posted \cup {ref}
      /\ ledger'.balance[Expense] = ledger.balance[Expense] + (IF grant THEN -n ELSE n)
      /\ ledger.balance[Expense] \in Int
  <2>1. ledger.balance[Expense] \in Int
    BY <1>2, ExpenseAccount DEF LedgerType
  <2> HIDE DEF ref
  <2> QED BY <1>2, <1>3, <2>1, PostTyped, ExpenseAccount
<1>6. \A x \in Grants :
         /\ x \in Posted' <=> x \in Posted \/ (grant /\ x = g)
         /\ x \in Undone' <=> x \in Undone \/ (~grant /\ x = g)
  BY <1>5 DEF Posted, Undone, IsGranted, IsReversed
<1>7. IF grant THEN g \notin Posted ELSE g \notin Undone
  BY <1>0 DEF IInv, Holders
<1>8. Part(g)' = Part(g) + (IF grant THEN n ELSE -n)
  BY <1>1, <1>4, <1>6, <1>7 DEF Part
<1>9. \A x \in Grants \ {g} : Part(x)' = Part(x)
  BY <1>4, <1>6 DEF Part
<1>10. f'[g] = f[g] + (IF grant THEN n ELSE -n) /\ f[g] \in Int
  BY <1>8, PartType
<1>11. SumFunctionOnSet(f', Grants) = SumFunctionOnSet(f, Grants) + f'[g] - f[g]
  <2>1. \A x \in Grants : f[x] \in Int
    BY PartType
  <2>2. f'[g] \in Int /\ \A x \in Grants \ {g} : f'[x] = f[x]
    BY <1>9, <1>10
  <2> HIDE DEF f
  <2> QED BY <2>1, <2>2, SumChange DEF CreditAssumption
<1>12. SumFunctionOnSet(f, Grants) \in Int
  <2>1. \A x \in Grants : f[x] \in Int
    BY PartType
  <2> HIDE DEF f
  <2> QED BY <2>1, SumType DEF CreditAssumption
<1> QED BY <1>5, <1>10, <1>11, <1>12 DEF Explained

LEMMA NextExplained ==
    ASSUME CreditAssumption, IInv, Explained, [Next]_vars
    PROVE  Explained'
<1>1. ASSUME NEW p \in Sessions, NEW g \in Grants, NEW u \in Users, NEW n \in Amounts,
             GrantCredit(p, g, u, n)
      PROVE  Explained'
  <2>1. g \notin Posted /\ g \notin Undone /\ n \in Nat
    BY <1>1 DEF IInv, PostedHasRow, GrantCredit, CreateGrant, NoRow, CreditAssumption
  <2>2. UNCHANGED <<ledger, Posted, Undone>> /\ \A x \in Grants \ {g} : grants'[x] = grants[x]
    BY <1>1, SamePosted DEF IInv, TypeOK, GrantCredit, CreateGrant
  <2>3. grants'[g].amount = n /\ grants[g].amount \in Nat
    BY <1>1 DEF IInv, TypeOK, Row, GrantCredit, CreateGrant
  <2>4. \A x \in Grants : Part(x)' = Part(x)
    BY <2>1, <2>2, <2>3 DEF Part
  <2> QED BY <2>2, <2>4, SameParts
<1>2. ASSUME NEW p \in Sessions, MarkReversed(p)
      PROVE  Explained'
  <2>1. UNCHANGED <<ledger, Posted, Undone>>
    BY <1>2, SamePosted DEF MarkReversed
  <2>2. \A x \in Grants : grants'[x].amount = grants[x].amount
    BY <1>2 DEF IInv, TypeOK, Row, MarkReversed, Marked
  <2> QED BY <2>1, <2>2, SameParts DEF Part
<1>3. ASSUME NEW p \in Sessions, NEW g \in Grants, ReverseCreditGrant(p, g)
      PROVE  Explained'
  BY <1>3, SamePosted, SameParts DEF ReverseCreditGrant, Part
<1>4. ASSUME NEW p \in Sessions, Abort(p)
      PROVE  Explained'
  BY <1>4, SamePosted, SameParts DEF Abort, Part
<1>5. ASSUME NEW u \in Users, NEW s \in Shipments, NEW n \in Amounts, PayFromWallet(u, s, n)
      PROVE  Explained'
  <2> DEFINE ref == <<"PROMO_CREDIT_TO_ESCROW", s>>
  <2>1. ledger \in LedgerType /\ n \in Nat /\ ref \in Refs
    BY DEF IInv, TypeOK, LedgerType, CreditAssumption, Refs
  <2>2. /\ ledger' = Post(ledger, Journal(ref, Shift(UserPromoCredit(u), ShipmentEscrow(s), n)))
        /\ UNCHANGED grants
    BY <1>5 DEF PayFromWallet, Paying
  <2>3. /\ ledger'.posted = ledger.posted \cup {ref}
        /\ ledger'.balance[Expense] = ledger.balance[Expense]
    <3>1. ledger.balance[Expense] \in Int
      BY <2>1, ExpenseAccount DEF LedgerType
    <3> HIDE DEF ref
    <3> QED BY <2>1, <2>2, <3>1, PostTyped, ExpenseAccount
  <2>4. UNCHANGED <<Posted, Undone>>
    BY <2>3 DEF Posted, Undone, IsGranted, IsReversed
  <2> QED BY <2>2, <2>3, <2>4, SameParts DEF Part
<1>6. CASE UNCHANGED vars
  BY <1>6, SamePosted, SameParts DEF vars, Part
<1> QED BY <1>1, <1>2, <1>3, <1>4, <1>5, <1>6, CommitExplains DEF Next

-----------------------------------------------------------------------------
(* Between any number of concurrent reversals of a grant one session at    *)
(* most is between the row and the journal, and the reversal is not yet    *)
(* posted (MarkReversed); and once nobody works on a grant its row says    *)
(* what is posted, unless a transaction was cut off after the row          *)
(* (GrantCredit, ReverseCreditGrant, whose rows commit on their own).      *)
THEOREM GrantsTellLedger ==
    ASSUME CreditAssumption
    PROVE  Spec => [](TypeOK /\ OneReverser /\ StatusTellsLedger)
<1>1. IInv /\ [Next]_vars => IInv'
  BY NextIInv
<1> QED BY <1>1, InitIInv, InvImplies, PTL DEF Spec

(* Whatever interleaves and aborts, the promo expense account is the sum   *)
(* of the grants posted less that of the reversals posted, each once and   *)
(* with the amount of its row (GrantCredit, ReverseCreditGrant).           *)
THEOREM GrantsExplainExpense ==
    ASSUME CreditAssumption
    PROVE  Spec => []ExpenseExplained
<1>1. Init => IInv /\ Explained
  BY InitIInv, InitExplained
<1>2. IInv /\ Explained /\ [Next]_vars => IInv' /\ Explained'
  BY NextIInv, NextExplained
<1> QED BY <1>1, <1>2, ExplainedIs, PTL DEF Spec
=============================================================================
