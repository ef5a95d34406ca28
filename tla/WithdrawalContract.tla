------------------------- MODULE WithdrawalContract -------------------------
(***************************************************************************)
(* What the withdrawal component promises about one payout request: the    *)
(* reserved money either leaves for the bank or goes back to the wallet,   *)
(* never both, and the status says which.  "returned" counts the reversal  *)
(* journals.  As for escrows, the promise is void once two requests for    *)
(* the same withdrawal have overlapped.                                    *)
(***************************************************************************)
EXTENDS Integers

CONSTANT Withdrawals

VARIABLE payout  \* per withdrawal: status and number of reversals

Open == {"PENDING", "APPROVED", "SENT_TO_BANK"}
Paid == {"SETTLED", "COMPLETED"}
Refused == {"FAILED", "REJECTED"}

Init == payout = [w \in Withdrawals |-> [status |-> "NONE", returned |-> 0]]

Become(w, status, returned) ==
    payout' = [payout EXCEPT ![w] = [status |-> status, returned |-> returned]]

Reserve(w) == payout[w].status = "NONE" /\ Become(w, "PENDING", 0)

(* Approval and dispatch: the request stays open, and only moves forward.  *)
Advance(w) ==
    \/ payout[w].status = "PENDING" /\ Become(w, "APPROVED", 0)
    \/ payout[w].status = "APPROVED" /\ Become(w, "SENT_TO_BANK", 0)

(* The bank has the money: directly, or after dispatch.                    *)
Pay(w) ==
    \/ payout[w].status = "PENDING" /\ Become(w, "COMPLETED", 0)
    \/ payout[w].status = "SENT_TO_BANK" /\ Become(w, "SETTLED", 0)

Return(w) ==
    \/ payout[w].status = "PENDING" /\ Become(w, "REJECTED", 1)
    \/ payout[w].status \in {"APPROVED", "SENT_TO_BANK"} /\ Become(w, "FAILED", 1)

Overlap(w) == Become(w, "VOID", 0)

Next == \E w \in Withdrawals :
            Reserve(w) \/ Advance(w) \/ Pay(w) \/ Return(w) \/ Overlap(w)

Spec == Init /\ [][Next]_payout
=============================================================================
