--------------------------- MODULE EscrowContract ---------------------------
(***************************************************************************)
(* What the escrow component promises about one shipment, with every       *)
(* operation a single atomic step: the status of the escrow and the money  *)
(* its account holds always change together.                               *)
(*                                                                         *)
(* The promise is void for a shipment once two requests for it have        *)
(* overlapped: the code takes no lock and no version on the escrow row, so *)
(* from then on nothing relates its status to its balance.                 *)
(***************************************************************************)
EXTENDS Integers

CONSTANTS
    Shipments,
    Gross        \* the agreed amount of each shipment, a positive integer

VARIABLE deal    \* per shipment: status, and the money held for it

Statuses == {"NONE", "CREATED", "FUNDED", "DISPUTE_WINDOW", "FROZEN",
             "RELEASED", "REFUNDED", "PARTIALLY_REFUNDED"}

Void == [status |-> "VOID", held |-> 0]

TypeOK == deal \in [Shipments -> [status : Statuses \cup {"VOID"}, held : Int]]

Init == deal = [s \in Shipments |-> [status |-> "NONE", held |-> 0]]

-----------------------------------------------------------------------------
Become(s, status, held) == deal' = [deal EXCEPT ![s] = [status |-> status, held |-> held]]

Create(s) == deal[s].status = "NONE" /\ Become(s, "CREATED", 0)

Fund(s) == deal[s].status = "CREATED" /\ Become(s, "FUNDED", Gross[s])

Deliver(s) == deal[s].status = "FUNDED" /\ Become(s, "DISPUTE_WINDOW", deal[s].held)

Freeze(s) == deal[s].status = "DISPUTE_WINDOW" /\ Become(s, "FROZEN", deal[s].held)

(* The whole remainder leaves at once.                                     *)
Release(s) ==
    /\ deal[s].status \in {"DISPUTE_WINDOW", "PARTIALLY_REFUNDED"}
    /\ Become(s, "RELEASED", 0)

Refundable(s) ==
    deal[s].status \in {"FUNDED", "DISPUTE_WINDOW", "FROZEN", "PARTIALLY_REFUNDED"}

RefundAll(s) == Refundable(s) /\ Become(s, "REFUNDED", 0)

RefundSome(s) ==
    \E n \in 1 .. deal[s].held - 1 :
        Refundable(s) /\ Become(s, "PARTIALLY_REFUNDED", deal[s].held - n)

Overlap(s) == deal' = [deal EXCEPT ![s] = Void]

Next ==
    \E s \in Shipments :
        \/ Create(s) \/ Fund(s) \/ Deliver(s) \/ Freeze(s) \/ Release(s)
        \/ RefundAll(s) \/ RefundSome(s) \/ Overlap(s)

Spec == Init /\ [][Next]_deal

-----------------------------------------------------------------------------
(* The money held is what the status says: all of it while the deal is     *)
(* open, part of it after a partial refund, none before funding or after   *)
(* the deal has ended.                                                     *)
Backed ==
    \A s \in Shipments :
        LET d == deal[s] IN
        /\ d.status \in {"NONE", "CREATED", "RELEASED", "REFUNDED"} => d.held = 0
        /\ d.status \in {"FUNDED", "DISPUTE_WINDOW", "FROZEN"} => d.held = Gross[s]
        /\ d.status = "PARTIALLY_REFUNDED" => d.held \in 1 .. Gross[s] - 1
=============================================================================
