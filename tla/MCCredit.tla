------------------------------ MODULE MCCredit ------------------------------
(* Two grants, three concurrent requests, one shipment promo credit pays.  *)
EXTENDS Credit, TLC

Symmetry == Permutations(Sessions) \cup Permutations(Users) \cup Permutations(Shipments)
=============================================================================
