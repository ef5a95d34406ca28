------------------------------ MODULE MCEscrow ------------------------------
(* Values for TLC: one payer, one carrier, one or two shipments.           *)
EXTENDS Escrow, TLC

CONSTANTS s1, s2, payer, carrier,
          g1, g2    \* the amounts of the two shipments

MCUsers == {payer, carrier}
MCPayer == [s \in Shipments |-> payer]
MCCarrier == [s \in Shipments |-> carrier]
MCGross == [s \in Shipments |-> IF s = s1 THEN g1 ELSE g2]

(* The payer topped up g1 - 1 and was granted a promo credit of 1: a mix   *)
(* that pays for one shipment but not for two.                             *)
Granted ==
    [a \in Accounts |->
        CASE a = UserWallet(payer) -> g1 - 1
          [] a = Account("IR_PSP_CLEARING") -> -(g1 - 1)
          [] a = UserPromoCredit(payer) -> 1
          [] a = Account("AIRBAR_PROMO_EXPENSE") -> -1
          [] OTHER -> 0]

(* The payer topped up g1 + 2, paid an earlier shipment of 2 with 1 of that *)
(* and a promo credit of 1, it was released, and the grant was reversed.   *)
ClawedBack ==
    [a \in Accounts |->
        CASE a = UserWallet(payer) -> g1 + 1
          [] a = Account("IR_PSP_CLEARING") -> -(g1 + 2)
          [] a = UserPromoCredit(payer) -> -1
          [] a = UserWallet(carrier) -> 1
          [] a = Account("AIRBAR_FEE_REVENUE") -> 1
          [] OTHER -> 0]

MCSeeds == {Granted, ClawedBack}

Symmetry == Permutations(Sessions)
=============================================================================
