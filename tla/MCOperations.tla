---------------------------- MODULE MCOperations ----------------------------
(***************************************************************************)
(* Components that share no variable, checked side by side: a behaviour    *)
(* picks one of them at the start and runs it.  The three readers of Books *)
(* do not affect each other either, so each has its turn with the writers. *)
(***************************************************************************)
EXTENDS MCIdempotency, Server, Books, ProviderEvents, ZibalMock, TLC

CONSTANTS
    r1, r2, r3,                 \* requests of Server
    u1, s1, w1, w2, x1, x2,     \* Books: user, shipment, writers, runs
    e1, e2, e3, e4              \* ProviderEvents

VARIABLE part

(* Server: a query, a guarded call and a callback; the last two nest       *)
(* queries, and with Size 2 the pool is too small for them.                *)
MCRequests == {r1, r2, r3}
MCInvokes == [r \in MCRequests |->
    CASE r = r1 -> "GetWallet" [] r = r2 -> "CreateWithdrawal"
      [] r = r3 -> "/api/v1/zibal/callback"]

Configured == [s \in DOMAIN Settings |-> CHOOSE v \in Parses(Settings[s]) : TRUE]

MCEnvironments ==
    {Configured} \cup
        {[Configured EXCEPT ![s] = v] : s \in {"REDIS_URL", "GRPC_PORT"}, v \in {"", "text"}}

(* Books: a top-up, an unbalanced one, a payment of one shipment from the  *)
(* wallet and one from promo credit, a fee and a grant.                    *)
MCInputs ==
    LET Input(kind, id, from, n, to, m) ==
            [ref |-> <<kind, id>>, lines |-> from :> D!Debit(n) @@ to :> D!Credit(m)]
        wallet == D!UserWallet(u1)
        promo == D!UserPromoCredit(u1)
        escrow == D!ShipmentEscrow(s1)
        psp == D!Account("IR_PSP_CLEARING")
    IN  {Input("WALLET_TOPUP", "o1", psp, 3, wallet, 3),
         Input("WALLET_TOPUP", "o2", psp, 3, wallet, 2),
         Input("ESCROW_PAY", "s1", wallet, 2, escrow, 2),
         Input("ESCROW_PAY", "s1", promo, 1, escrow, 1),
         Input("ESCROW_RELEASE", "s1", escrow, 1, D!Account("AIRBAR_FEE_REVENUE"), 1),
         Input("PROMO_GRANT", "g1", D!Account("AIRBAR_PROMO_EXPENSE"), 1, promo, 1)}

(* ProviderEvents: Zibal repeats a callback, an order is verified;         *)
(* limits 0 and 9 become the default and the greatest.                     *)
MCEvents == {e1, e2, e3, e4}
MCIdempotencyKey == [e \in MCEvents |-> IF e = e2 THEN e1 ELSE e]
MCEventType == [e \in MCEvents |-> IF e = e4 THEN "VERIFY" ELSE "CALLBACK"]

MCPrice == [p \in Payers |-> p]

-----------------------------------------------------------------------------
Readers == {"treasury", "wallet", "reconciliation"}
Parts == {"idempotency", "server", "events", "mock"} \cup Readers

operationsVars == <<part, vars, serverVars, booksVars, eventsVars, mockVars>>

OperationsInit ==
    /\ part \in Parts
    /\ Init /\ ServerInit /\ BooksInit /\ EventsInit /\ MockInit
    /\ part # "server" => env = Configured

(* Only this reader reads.                                                 *)
Reads(reader) ==
    /\ reader = "treasury" \/ UNCHANGED summary
    /\ reader = "wallet" \/ UNCHANGED statement
    /\ reader = "reconciliation" \/ UNCHANGED <<check, runs>>

Idempotent == part = "idempotency" /\ Next
Serves == part = "server" /\ ServerNext
Keeps == part \in Readers /\ BooksNext /\ Reads(part)
Logs == part = "events" /\ EventsNext
Mocks == part = "mock" /\ MockNext

OperationsNext ==
    /\ UNCHANGED part
    /\ \/ Idempotent /\ UNCHANGED <<serverVars, booksVars, eventsVars, mockVars>>
       \/ Serves /\ UNCHANGED <<vars, booksVars, eventsVars, mockVars>>
       \/ Keeps /\ UNCHANGED <<vars, serverVars, eventsVars, mockVars>>
       \/ Logs /\ UNCHANGED <<vars, serverVars, booksVars, mockVars>>
       \/ Mocks /\ UNCHANGED <<vars, serverVars, booksVars, eventsVars>>

(* No part's fair action is enabled before that part has taken a step.     *)
OperationsSpec ==
    /\ OperationsInit /\ [][OperationsNext]_operationsVars
    /\ Fairness /\ ServerFairness
=============================================================================
