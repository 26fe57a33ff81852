------------------------------ MODULE ErpReports ------------------------------
(***************************************************************************)
(* GoERP: dashboard, reports, settings, assistant, workflows and            *)
(* notifications (cmd/server). These handlers run their statements          *)
(* themselves and drop every error: what cannot be read is answered as 0,   *)
(* as an empty list or, for users and workflows, as made-up rows.           *)
(***************************************************************************)
EXTENDS ErpSchema

Reads(name, steps) == Call(name, steps, 200, 500)

dashboardHandler ==
    Call("dashboardHandler",
      << Must(Check),                                       \* a tenant in the token
         Drops(Select("invoices", {"tenant_id", "total", "state", "invoice_date"})),
         Drops(Select("sales_orders", {"tenant_id", "state", "order_date"})),
         Drops(Select("invoices", {"tenant_id", "state"})),
         Drops(Count("customers")), Drops(Select("employees", {"tenant_id", "is_active"})),
         Drops(Select("crm_opportunities", {"tenant_id", "stage"})),
         Drops(SelectJoin("products", {"tenant_id", "reorder_point"}, {"stock_moves"})) >>,
      200, 403)

-----------------------------------------------------------------------------
(* Reports *)

Invoiced == Drops(Select("invoices", {"tenant_id", "total", "invoice_date"}))
InvoicedAs == Drops(Select("invoices", {"tenant_id", "total", "invoice_date", "state"}))
Ordered == Drops(Select("sales_orders", {"tenant_id", "total", "order_date", "state"}))

salesSummaryReport ==
    Reads("salesSummaryReport", << Ordered, Invoiced, InvoicedAs, InvoicedAs >>)

revenueByMonthReport == Reads("revenueByMonthReport", << Ordered, Invoiced >>)

\* GROUP BY ... AS pname is not SQL.
topProductsReport == Reads("topProductsReport", << Drops(Malformed) >>)

topCustomersReport ==
    Reads("topCustomersReport",
      << Drops(SelectJoin("sales_orders",
            {"id", "tenant_id", "customer_id", "total", "order_date", "state"},
            {"customers"})) >>)

inventoryValuationReport == Reads("inventoryValuationReport", << Drops(Malformed) >>)

arAgingReport ==
    Reads("arAgingReport",
      << Drops(Select("invoices", {"tenant_id", "state", "due_date", "total",
                                   "amount_paid"})) >>)

apAgingReport == Reads("apAgingReport", << >>)

payrollSummaryReport ==
    Reads("payrollSummaryReport",
      << Drops(Select("payroll_runs", {"tenant_id", "period_start", "total_gross",
            "total_deductions", "total_net", "employee_count"})) >>)

\* The table is crm_opportunities.
crmPipelineReport ==
    Reads("crmPipelineReport",
      << Drops(Select("opportunities", {"tenant_id", "stage", "expected_revenue"})) >>)

JournalSum ==
    Drops(SelectJoin("journal_lines", {"debit", "credit", "journal_entry_id", "account_id"},
                     {"journal_entries", "chart_of_accounts"}))

profitLossReport ==
    Reads("profitLossReport", << JournalSum, JournalSum, JournalSum >>)

expenseByCategoryReport == Reads("expenseByCategoryReport", << JournalSum >>)

stockMovementsReport == Reads("stockMovementsReport", << Drops(Malformed) >>)

ReportCalls == {
    dashboardHandler, salesSummaryReport, revenueByMonthReport, topProductsReport,
    topCustomersReport, inventoryValuationReport, arAgingReport, apAgingReport,
    payrollSummaryReport, crmPipelineReport, profitLossReport, expenseByCategoryReport,
    stockMovementsReport }

-----------------------------------------------------------------------------
(* Settings and users *)

\* The name of the tenant, if it can be read, in place of a default.
getSettings == Reads("getSettings", << Drops(Get("tenants", {"id", "name"})) >>)

updateSettings ==
    Call("updateSettings",
      << Validates, Drops(Update("tenants", {"id", "name", "updated_at"})) >>, 200, 400)

listUsers ==
    Reads("listUsers",
      << Drops(Select("users", {"id", "full_name", "email", "is_active", "created_at",
                                "tenant_id"})) >>)

-----------------------------------------------------------------------------
(* Assistant: the first topic found in the question decides what is read. *)

processAIQuestion == {
    << InvoicedAs >>,
    << Drops(Select("employees", {"tenant_id", "is_active"})) >>,
    << Drops(Select("invoices", {"tenant_id", "state", "total"})) >>,
    << Drops(SelectJoin("products", {"tenant_id", "min_stock"}, {"stock_moves"})) >>,
    << Drops(Count("leads")),
       Drops(Select("opportunities", {"tenant_id", "stage", "expected_revenue"})) >>,
    << >> }

aiAsk == { Call("aiAsk", << Validates >> \o topic, 200, 400) : topic \in processAIQuestion }

\* "products need restocking" counts all products.
aiInsights ==
    Reads("aiInsights",
      << Drops(Count("products")), Drops(Select("invoices", {"tenant_id", "state", "total"})),
         Drops(Select("leave_requests", {"tenant_id", "state"})) >>)

aiAnomalies ==
    Reads("aiAnomalies", << Drops(Select("invoices", {"tenant_id", "total"})) >>)

\* INTERVAL '6 months' is not SQLite.
aiForecast == Reads("aiForecast", << Drops(Malformed) >>)

-----------------------------------------------------------------------------
(* Workflows: there is no such table. *)

listWorkflows ==
    Reads("listWorkflows",
      << Drops(Select("workflows", {"id", "name", "trigger_event", "is_active",
                                    "run_count", "created_at"})) >>)

\* Nine placeholders for eight arguments.
createWorkflow ==
    Call("createWorkflow",
      << Validates, Drops(Insert("workflows", {"id", "tenant_id", "name", "trigger_event",
            "trigger_condition", "steps", "is_active", "created_by"} \cup Stamps)) >>,
      201, 400)

updateWorkflow ==
    Reads("updateWorkflow",
      << Drops(Update("workflows", {"id", "tenant_id", "name", "trigger_event"})) >>)

deleteWorkflow == Reads("deleteWorkflow", << Drops(Delete("workflows")) >>)

toggleWorkflow ==
    Reads("toggleWorkflow", << Drops(Update("workflows", {"id", "tenant_id", "is_active"})) >>)

-----------------------------------------------------------------------------
(* Notifications: nothing in the program inserts one. *)

listNotifications ==
    Reads("listNotifications",
      << Drops(Select("notifications", {"id", "title", "message", "notification_type",
            "is_read", "related_to", "action_url", "created_at"})) >>)

markNotificationRead ==
    Reads("markNotificationRead",
      << Drops(Update("notifications", {"id", "tenant_id", "is_read"})) >>)

markAllNotificationsRead ==
    Reads("markAllNotificationsRead",
      << Drops(Update("notifications", {"tenant_id", "user_id", "is_read"})) >>)

DeskCalls ==
    { getSettings, updateSettings, listUsers, aiInsights, aiAnomalies, aiForecast,
      listWorkflows, createWorkflow, updateWorkflow, deleteWorkflow, toggleWorkflow,
      listNotifications, markNotificationRead, markAllNotificationsRead } \cup aiAsk
=============================================================================
