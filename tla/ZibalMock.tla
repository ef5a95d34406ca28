------------------------------ MODULE ZibalMock ------------------------------
(***************************************************************************)
(* The fake Zibal of the integration tests (infrastructure/zibal), and the *)
(* client that speaks to it as it does to the real one.                    *)
(*                                                                         *)
(* handleRequest derives a track id from the number of orders before it    *)
(* takes the lock: two requests that overlap may be given the same one.    *)
(***************************************************************************)
EXTENDS Integers, FiniteSets

CONSTANTS
    Payers,     \* clients that each request a payment and verify it
    Price       \* the amount of each

VARIABLES
    mockOrders, \* MockServer.orders: [amount, paid] per track id
    session,    \* per client: its step, track id and what it was answered
    before      \* history: the clients already answered when a request began

mockVars == <<mockOrders, session, before>>

Session(step, id, amount) == [step |-> step, id |-> id, amount |-> amount]

MockInit ==
    /\ mockOrders = <<>>
    /\ session = [p \in Payers |-> Session("new", 0, 0)]
    /\ before = [p \in Payers |-> {}]

-----------------------------------------------------------------------------
NextToPay == Cardinality({id \in DOMAIN mockOrders : ~mockOrders[id].paid}) + 1

NextTrackID == Cardinality(DOMAIN mockOrders) + 1

(* Client.Request reaches handleRequest, which reads len(m.orders) ...     *)
Request(p) ==
    /\ session[p].step = "new"
    /\ session' = [session EXCEPT ![p] = Session("locking", NextTrackID, 0)]
    /\ before' = [before EXCEPT ![p] = {q \in Payers : session[q].step \notin {"new", "locking"}}]
    /\ UNCHANGED mockOrders

(* ... and stores the order under the lock.                                *)
StoreOrder(p) ==
    /\ session[p].step = "locking"
    /\ mockOrders' = [id \in DOMAIN mockOrders \cup {session[p].id} |->
                         IF id = session[p].id THEN [amount |-> Price[p], paid |-> FALSE]
                         ELSE mockOrders[id]]
    /\ session' = [session EXCEPT ![p].step = "requested"]
    /\ UNCHANGED before

Paying(id) == mockOrders' = [mockOrders EXCEPT ![id].paid = TRUE]

MarkPaid(p) ==
    /\ session[p].step = "requested"
    /\ Paying(session[p].id)
    /\ UNCHANGED <<session, before>>

(* Client.Verify: result 100 with the order's amount, paid or not.         *)
Verify(p) ==
    /\ session[p].step = "requested"
    /\ Paying(session[p].id)
    /\ session' = [session EXCEPT ![p].step = "verified",
                                  ![p].amount = mockOrders[session[p].id].amount]
    /\ UNCHANGED before

(* An answer that never arrives: the client's timeout, or a non-2xx.       *)
LoseAnswer(p) ==
    /\ session[p].step = "requested"
    /\ session' = [session EXCEPT ![p].step = "lost"]
    /\ UNCHANGED <<mockOrders, before>>

MockNext ==
    \E p \in Payers : Request(p) \/ StoreOrder(p) \/ MarkPaid(p) \/ Verify(p) \/ LoseAnswer(p)

MockSpec == MockInit /\ [][MockNext]_mockVars

-----------------------------------------------------------------------------
(* Properties.                                                             *)

Shared(p) == \E q \in Payers \ {p} : session[q].id = session[p].id

(* What the tests rely on: requests made one after the other, as they make *)
(* them, get track ids of their own, and who has one to itself verifies    *)
(* the amount it asked for; also when earlier requests did overlap         *)
(* (TestMockServerRequestVerify).                                          *)
MockKeepsApart ==
    \A p \in Payers :
        /\ \A q \in before[p] : session[q].id # session[p].id
        /\ session[p].step = "verified" /\ ~Shared(p) => session[p].amount = Price[p]
=============================================================================
