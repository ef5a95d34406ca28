----------------------------- MODULE MCPayment -----------------------------
(* Values for TLC: one payer, one shipment, two orders.                    *)
EXTENDS Payment, TLC

CONSTANTS payer, o1, o2, s1, p, q

MCPayer == [s \in Shipments |-> payer]
MCGross == [s \in Shipments |-> 2]

(* The payer's wallet holds an earlier top-up that pays for the shipment.  *)
MCSeeds ==
    {[a \in Accounts |->
        CASE a = UserWallet(payer) -> 2
          [] a = Account("IR_PSP_CLEARING") -> -2
          [] OTHER -> 0]}

Symmetry == Permutations({o1, o2}) \cup Permutations({p, q})
=============================================================================
