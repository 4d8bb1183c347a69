------------------------------- MODULE Schema -------------------------------
(***************************************************************************)
(* The foreign keys of the database: which column of which table refers to *)
(* which table, and what the deletion of the row referred to does.         *)
(***************************************************************************)

Key(delete, table, column, to) ==
  [table |-> table, column |-> column, to |-> to, delete |-> delete]

Cascade(table, column, to) == Key("cascade", table, column, to)
Restricted(table, column, to) == Key("restrict", table, column, to)
SetNull(table, column, to) == Key("set null", table, column, to)

OfCompany(table) == Cascade(table, "company_id", "companies")
ByUser(table) == Restricted(table, "created_by_id", "users")

AuditLogKeys == {OfCompany("audit_logs"), SetNull("audit_logs", "user_id", "users")}

ClientKeys == {OfCompany("clients")}

ClientMovementKeys ==
  {Cascade("client_balance_movements", "client_id", "clients"), ByUser("client_balance_movements")}

CollaborationKeys ==
  { Cascade("collaborations", "initiator_company_id", "companies"),
    Cascade("collaborations", "target_company_id", "companies") }

RateHistoryKeys ==
  { Cascade("collaboration_rate_history", "collaboration_id", "collaborations"),
    Cascade("collaboration_rate_history", "proposed_by_company_id", "companies"),
    Cascade("collaboration_rate_history", "decided_by_company_id", "companies") }

CollaboratorMovementKeys ==
  { Cascade("collaborator_balance_movements", "collaboration_id", "collaborations"),
    Cascade("collaborator_balance_movements", "debtor_company_id", "companies"),
    Cascade("collaborator_balance_movements", "creditor_company_id", "companies") }

EntryKeys ==
  {OfCompany("entries"), SetNull("entries", "merged_into_id", "entries"), ByUser("entries")}

\* The order an allocation is for (target_id) is not a foreign key.
EntryAllocationKeys == {Cascade("entry_allocations", "entry_id", "entries")}

EntryLineKeys ==
  {Cascade("entry_lines", "entry_id", "entries"), Restricted("entry_lines", "wallet_id", "wallets")}

NationalOperationKeys ==
  { OfCompany("national_operations"), ByUser("national_operations"),
    SetNull("national_operations", "reversal_of_id", "national_operations") }

NationalOperationLineKeys ==
  { Cascade("national_operation_lines", "national_operation_id", "national_operations"),
    Restricted("national_operation_lines", "wallet_id", "wallets") }

NotificationKeys == {OfCompany("notifications")}

PasswordResetKeys == {Cascade("password_reset_otps", "user_id", "users")}

\* Transfers and payments refer to the same tables.
OrderKeys(table) ==
  { OfCompany(table), Restricted(table, "collaboration_id", "collaborations"),
    Restricted(table, "entry_id", "entries"), Restricted(table, "wallet_id", "wallets"),
    Restricted(table, "client_id", "clients"), ByUser(table) }

PaymentKeys == OrderKeys("payments")

PaymentHistoryKeys ==
  {Cascade("payment_status_history", "payment_id", "payments"), OfCompany("payment_status_history")}

PrivateRateKeys ==
  { OfCompany("private_sending_rates"), ByUser("private_sending_rates"),
    Cascade("private_sending_rates", "collaboration_id", "collaborations") }

\* A proof is of a transfer or of a payment.
ProofKeys ==
  { OfCompany("proofs"), Cascade("proofs", "transfer_id", "transfers"),
    Cascade("proofs", "payment_id", "payments"), Restricted("proofs", "uploaded_by_id", "users") }

OverrideKeys == {Cascade("user_permission_overrides", "user_id", "users")}

SubscriptionKeys == {OfCompany("subscriptions")}

SupplierKeys == {OfCompany("suppliers")}

SupplierMovementKeys ==
  { OfCompany("supplier_balance_movements"), ByUser("supplier_balance_movements"),
    Cascade("supplier_balance_movements", "supplier_id", "suppliers"),
    Restricted("supplier_balance_movements", "wallet_id", "wallets") }

SystemLogKeys ==
  { SetNull("system_logs", "company_id", "companies"), SetNull("system_logs", "user_id", "users") }

TransferKeys == OrderKeys("transfers")

TransferHistoryKeys ==
  {Cascade("transfer_status_history", "transfer_id", "transfers"), OfCompany("transfer_status_history")}

UserKeys == {OfCompany("users")}

WalletKeys == {OfCompany("wallets")}

WalletMovementKeys ==
  {Restricted("wallet_movements", "wallet_id", "wallets"), ByUser("wallet_movements")}

ForeignKeys ==
  AuditLogKeys \cup ClientKeys \cup ClientMovementKeys \cup CollaborationKeys
    \cup RateHistoryKeys \cup CollaboratorMovementKeys \cup EntryKeys
    \cup EntryAllocationKeys \cup EntryLineKeys \cup NationalOperationKeys
    \cup NationalOperationLineKeys \cup NotificationKeys \cup PasswordResetKeys
    \cup PaymentKeys \cup PaymentHistoryKeys \cup PrivateRateKeys \cup ProofKeys
    \cup OverrideKeys \cup SubscriptionKeys \cup SupplierKeys \cup SupplierMovementKeys
    \cup SystemLogKeys \cup TransferKeys \cup TransferHistoryKeys \cup UserKeys
    \cup WalletKeys \cup WalletMovementKeys

Columns(table) == {k.column : k \in {f \in ForeignKeys : f.table = table}}
=============================================================================
