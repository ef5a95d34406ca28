--------------------------- MODULE MCIdempotency ---------------------------
(* Three calls share a key, one of them of another method; a fourth call   *)
(* has no key, and a fifth is of a command that is not in the table.       *)
EXTENDS Idempotency

CONSTANTS c1, c2, c3, c4, c5, k1

MCCalls == {c1, c2, c3, c4, c5}
MCKey == [c \in MCCalls |-> IF c = c4 THEN None ELSE k1]
MCMethod == [c \in MCCalls |->
    CASE c = c3 -> "ReleaseEscrow" [] c = c5 -> "RunReconciliation"
      [] OTHER -> "FundEscrow"]
=============================================================================
