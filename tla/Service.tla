------------------------------- MODULE Service -------------------------------
(***************************************************************************)
(* The methods airbar-finance serves over gRPC, which of them change state *)
(* and which of them the idempotency interceptor guards.                   *)
(*                                                                         *)
(* A service is what its generated descriptor lists, every method handed   *)
(* to the interceptor under its own name.  Its commands are the methods    *)
(* whose handler calls a use case that writes; the others only read.       *)
(***************************************************************************)

EscrowCommands == {"CreateEscrow", "FundEscrow", "PayFromWallet", "MarkDelivered",
                   "FreezeEscrow", "ReleaseEscrow", "RefundEscrow", "PartialRefundEscrow"}

EscrowService == EscrowCommands \cup {"GetEscrow"}

PaymentCommands == {"CreatePaymentOrder", "VerifyPaymentOrder",
                    "CreateWalletTopupOrder", "VerifyWalletTopupOrder"}

PaymentOrderService == PaymentCommands \cup {"GetPaymentOrder"}

WalletService == {"GetWallet", "ListWalletTransactions"}

WithdrawalCommands == {"CreateWithdrawal", "ApproveWithdrawal", "MarkWithdrawalSent",
                       "SettleWithdrawal", "FailWithdrawal", "ProcessWithdrawal",
                       "RejectWithdrawal"}

WithdrawalService == WithdrawalCommands \cup {"ListWithdrawals"}

TreasuryService == {"GetTreasurySummary"}

ReconciliationCommands == {"RunReconciliation"}

ReconciliationService ==
    ReconciliationCommands \cup {"ListReconciliationRuns", "GetReconciliationRun"}

ProviderEventService == {"ListProviderEvents"}

CreditCommands == {"GrantCredit", "ReverseCreditGrant"}

CreditService == CreditCommands \cup {"GetCreditBalance", "ListCreditGrants"}

FinanceHealthService == {"CheckReady"}

(* NewServer registers them all.                                           *)
Methods ==
    FinanceHealthService \cup EscrowService \cup PaymentOrderService \cup WalletService
        \cup WithdrawalService \cup TreasuryService \cup ReconciliationService
        \cup ProviderEventService \cup CreditService

Commands ==
    EscrowCommands \cup PaymentCommands \cup WithdrawalCommands
        \cup ReconciliationCommands \cup CreditCommands

-----------------------------------------------------------------------------
(* The interceptor's table.                                                *)

WithoutFundEscrow ==
    (EscrowCommands \ {"FundEscrow"}) \cup PaymentCommands \cup CreditCommands
        \cup {"CreateWithdrawal", "ProcessWithdrawal", "RejectWithdrawal"}

mutatingMethods ==
    {"CreateEscrow", "FundEscrow", "PayFromWallet", "MarkDelivered", "FreezeEscrow",
     "ReleaseEscrow", "RefundEscrow", "PartialRefundEscrow",
     "CreatePaymentOrder", "VerifyPaymentOrder",
     "CreateWalletTopupOrder", "VerifyWalletTopupOrder",
     "CreateWithdrawal", "ProcessWithdrawal", "RejectWithdrawal",
     "GrantCredit", "ReverseCreditGrant"}
=============================================================================
