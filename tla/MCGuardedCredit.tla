-------------------------- MODULE MCGuardedCredit --------------------------
(* A grant, its retry with the same key, and two reversals of it with keys *)
(* of their own; the payer may spend the grant before it is taken back.    *)
EXTENDS GuardedCredit

CONSTANTS g1, g2, r1, r2, k1, k2, k3, u1

MCCalls == {g1, g2, r1, r2}
MCKey == [c \in MCCalls |-> CASE c = r1 -> k2 [] c = r2 -> k3 [] OTHER -> k1]
MCMethod == [c \in MCCalls |->
    IF c \in {r1, r2} THEN "ReverseCreditGrant" ELSE "GrantCredit"]
MCPayee == [c \in MCCalls |-> u1]
MCAmount == [c \in MCCalls |-> 2]
MCTarget == [c \in MCCalls |-> k1]
=============================================================================
