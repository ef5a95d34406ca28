------------------------ MODULE SharedLedger ------------------------
(***************************************************************************)
(* The double-entry ledger every money movement of the service goes        *)
(* through (internal/usecase/ledger and the ledger repository), as the     *)
(* use cases share it.                                                     *)
(*                                                                         *)
(* The code stores a journal's lines and derives every balance as          *)
(* SUM(credit) - SUM(debit); lines are only ever inserted, so this module  *)
(* keeps that sum itself, per account, together with the set of references *)
(* posted so far.  Module Books keeps the rows and shows that the two      *)
(* agree.                                                                  *)
(***************************************************************************)
EXTENDS DoubleEntry

VARIABLE ledger  \* [balance, posted] as of the last committed transaction

(* What a use case reads of one account before it pays from it.            *)
SumByAccount(a) == ledger.balance[a]

(* What reconciliation compares: the debits of all lines against their     *)
(* credits.                                                                *)
SumGlobal == SumFunction(ledger.balance)
=====================================================================
