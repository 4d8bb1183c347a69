----------------------------- MODULE Endpoints -----------------------------
(***************************************************************************)
(* The HTTP layer: the endpoints of the routers that want a caller, by the *)
(* name of their handler (or of their report, read or exported), and what  *)
(* their dependencies ask of the caller.                                   *)
(***************************************************************************)

\* PermissionCode.
Permission ==
  { "dashboard.view", "entry.manage", "transfer.create", "payment.create",
    "operation.validate", "wallet.manage", "national_operation.manage",
    "collaboration.manage", "supplier.manage", "client.manage", "report.view",
    "report.export", "rate.private.view", "rate.private.manage", "employee.manage" }

\* scope: "company" asks for a user of a company (get_company_scope), "owner" for one
\* who is its owner too, "platform" for a super administrator, "account" for any
\* authenticated user.  any: one of these permissions is required, none if it is empty.
Endpoint ==
  [handler : STRING, scope : {"company", "owner", "platform", "account"},
   any : SUBSET Permission]

Ask(scope, any, handlers) == {[handler |-> h, scope |-> scope, any |-> any] : h \in handlers}

\* require_permission, require_any_permission and the routers' _require_view_access.
Company(any, handlers) == Ask("company", any, handlers)

---------------------------------------------------------------------------
AuthEndpoints == Ask("account", {}, {"logout", "me"})

CompanyEndpoints ==
  Ask("company", {}, {"get_my_company"}) \cup Ask("owner", {}, {"update_my_company"})
    \cup Ask("account", {}, {"lookup_company"})

EmployeeEndpoints ==
  Company({"employee.manage"},
          {"list_employees", "list_employees_page", "create_employee",
           "update_employee_permissions", "update_employee_status", "update_employee",
           "delete_employee", "get_employee_activity"})

WalletEndpoints ==
  Company({"entry.manage", "transfer.create", "payment.create", "operation.validate"},
          {"list_wallet_options"})
    \cup Company({"wallet.manage"},
                 {"list_wallets", "list_wallets_page", "create_wallet", "get_wallet",
                  "update_wallet", "update_wallet_status", "list_wallet_movements"})

NationalOperationEndpoints ==
  Company({"national_operation.manage"},
          {"create_deposit", "create_withdrawal", "create_exchange", "create_rebalance",
           "list_operations", "list_operations_page", "get_operation", "cancel_operation"})

CollaborationViewers ==
  {"collaboration.manage", "transfer.create", "payment.create", "operation.validate"}

\* Requests, decisions on them and on the initial rate.
CollaborationEndpoints ==
  Company({"collaboration.manage"},
          {"request_collaboration", "accept_collaboration"})
    \cup Company(CollaborationViewers,
                 {"list_collaborations", "list_collaborations_page", "get_collaboration"})

\* What follows, on an existing collaboration.
CollaborationChangeEndpoints ==
  Company({"collaboration.manage"},
          {"reject_collaboration", "update_collaboration", "cancel_collaboration",
           "propose_rate_change", "accept_rate_proposal", "reject_rate_proposal",
           "get_balance", "suspend_collaboration", "archive_collaboration"})
    \cup Company(CollaborationViewers, {"get_rate_history"})

PrivateRateEndpoints ==
  Company({"rate.private.view"}, {"list_rates"})
    \cup Company({"rate.private.manage"}, {"set_rate", "update_rate_status"})

EntryEndpoints ==
  Company({"entry.manage"}, {"create_entry", "merge_entries", "cancel_entry"})
    \cup Company({"entry.manage", "transfer.create", "payment.create", "operation.validate"},
                 {"list_entries", "list_entries_page", "get_entry"})

\* Both parties' transfers: the creating company and the one that pays.
TransferEndpoints ==
  Company({"transfer.create"}, {"create_transfer", "cancel_transfer"})
    \cup Company({"operation.validate"}, {"approve_transfer", "reject_transfer"})
    \cup Company({"transfer.create", "operation.validate"},
                 {"list_transfers", "list_transfers_page", "get_transfer",
                  "get_transfer_status_history"})

TransferProofEndpoints ==
  Company({"transfer.create", "operation.validate"},
          {"upload_transfer_proof", "list_transfer_proofs", "download_transfer_proof"})

PaymentEndpoints ==
  Company({"payment.create"}, {"create_payment", "cancel_payment"})
    \cup Company({"operation.validate"}, {"approve_payment", "reject_payment"})
    \cup Company({"payment.create", "operation.validate"},
                 {"list_payments", "list_payments_page", "get_payment",
                  "get_payment_status_history"})

PaymentProofEndpoints ==
  Company({"payment.create", "operation.validate"},
          {"upload_payment_proof", "list_payment_proofs", "download_payment_proof"})

ClientEndpoints ==
  Company({"client.manage"},
          {"list_clients", "list_clients_page", "create_client", "get_client",
           "get_client_movements"})

SupplierEndpoints ==
  Company({"supplier.manage"},
          {"list_suppliers", "list_suppliers_page", "create_supplier", "get_supplier",
           "get_supplier_movements", "rebalance_supplier"})

NotificationEndpoints ==
  Company({"dashboard.view"}, {"stream_notifications", "list_notifications", "mark_as_read"})

AuditLogEndpoints == Company({"report.view"}, {"list_audit_logs"})

DashboardEndpoints == Company({"dashboard.view"}, {"get_dashboard", "get_employee_dashboard"})

\* Each report, to read or to export as CSV.
Reports(names) ==
  Company({"report.view"}, names)
    \cup Company({"report.export"}, names)

BookReportEndpoints ==
  Reports({"daily", "monthly", "transactions", "collaborator_balances", "wallet_history"})

ActivityReportEndpoints ==
  Reports({"employee_activity", "suppliers", "clients", "fees", "rejected_operations"})

\* _require_super_admin: companies, their users, platform administrators.
AdminEndpoints ==
  Ask("platform", {},
      {"get_platform_stats", "list_companies", "list_companies_page", "create_company",
       "get_company_detail", "update_company", "update_company_status", "delete_company",
       "list_company_users", "update_user_status", "update_company_user",
       "update_platform_admin", "delete_platform_admin", "list_platform_admins",
       "list_platform_admins_page"})

\* Subscriptions, logs, settings and backups.
PlatformEndpoints ==
  Ask("platform", {},
      {"create_platform_admin", "get_subscription", "update_subscription",
       "list_all_audit_logs", "list_all_audit_logs_page", "list_system_logs",
       "list_system_logs_page", "get_settings", "update_settings", "list_backups",
       "create_backup", "restore_backup"})

\* include_router, router by router.
Served ==
  AuthEndpoints \cup CompanyEndpoints \cup EmployeeEndpoints \cup WalletEndpoints
    \cup NationalOperationEndpoints \cup CollaborationEndpoints
    \cup CollaborationChangeEndpoints \cup PrivateRateEndpoints \cup EntryEndpoints
    \cup TransferEndpoints \cup TransferProofEndpoints \cup PaymentEndpoints
    \cup PaymentProofEndpoints \cup ClientEndpoints \cup SupplierEndpoints
    \cup NotificationEndpoints \cup AuditLogEndpoints \cup DashboardEndpoints
    \cup BookReportEndpoints \cup ActivityReportEndpoints \cup AdminEndpoints
    \cup PlatformEndpoints
============================================================================
