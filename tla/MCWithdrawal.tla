---------------------------- MODULE MCWithdrawal ----------------------------
(* Values for TLC: one or two users with a small wallet.                   *)
EXTENDS Withdrawal, TLC

CONSTANTS u1, w1, w2, balance

MCShipments == {}

(* Every user topped up "balance" through the PSP.                         *)
MCSeeds ==
    {[a \in Accounts |->
        IF a[1] = "WALLET_LIABILITY" THEN balance
        ELSE IF a = Account("IR_PSP_CLEARING") THEN -balance * Cardinality(Users) ELSE 0]}

Symmetry == Permutations(Sessions)
=============================================================================
