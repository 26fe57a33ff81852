------------------------------ MODULE ErpSchema ------------------------------
(***************************************************************************)
(* GoERP: the tables that AutoMigrate creates, and when a statement of a    *)
(* repository can be executed on them. SQLite prepares a statement against  *)
(* the tables and columns that exist: one it does not know is an error of   *)
(* the call, whatever the rows are.                                         *)
(***************************************************************************)
EXTENDS Sequences

Stamps == {"created_at", "updated_at"}

CatalogueTables == [
    tenants |-> {"id", "name", "slug", "plan", "is_active", "settings"} \cup Stamps,
    users |-> {"id", "tenant_id", "email", "password_hash", "full_name", "avatar",
               "is_active", "is_superadmin", "last_login"} \cup Stamps,
    product_categories |-> {"id", "tenant_id", "name", "parent_id", "description",
                            "created_at"},
    products |-> {"id", "tenant_id", "sku", "name", "description", "category_id",
                  "unit_of_measure", "base_price", "cost_price", "sale_price",
                  "tax_rate", "barcode", "qr_code", "track_inventory", "track_batch",
                  "track_serial", "has_expiry", "min_stock_level", "reorder_point",
                  "is_active", "image_url", "tags"} \cup Stamps,
    product_variants |-> {"id", "product_id", "sku", "attributes", "price_modifier",
                          "stock_qty", "barcode", "is_active", "created_at"} ]

StockTables == [
    warehouses |-> {"id", "tenant_id", "name", "code", "address", "city", "country",
                    "manager_id", "is_active", "created_at"},
    stock_locations |-> {"id", "warehouse_id", "name", "code", "location_type",
                         "parent_id", "created_at"},
    batches |-> {"id", "tenant_id", "product_id", "batch_number", "manufacture_date",
                 "expiry_date", "qty_received", "qty_remaining", "supplier_id",
                 "created_at"},
    stock_moves |-> {"id", "tenant_id", "product_id", "variant_id", "from_location_id",
                     "to_location_id", "quantity", "unit_cost", "batch_number",
                     "serial_number", "expiry_date", "move_type", "reference", "state",
                     "notes", "created_by", "created_at", "done_at"} ]

LineColumns ==
    {"id", "product_id", "quantity", "unit_price", "discount", "tax_rate", "subtotal",
     "total"}

SalesTables == [
    customers |-> {"id", "tenant_id", "name", "email", "phone", "company_name",
                   "address", "city", "country", "credit_limit", "currency",
                   "is_active", "notes"} \cup Stamps,
    sales_orders |-> {"id", "tenant_id", "order_number", "customer_id", "state",
                      "order_date", "delivery_date", "subtotal", "tax_amount",
                      "total", "notes", "created_by"} \cup Stamps,
    sales_order_lines |-> {"order_id"} \cup LineColumns,
    invoice_lines |-> {"invoice_id"} \cup LineColumns,
    invoices |-> {"id", "tenant_id", "invoice_number", "customer_id", "order_id",
                  "state", "invoice_date", "due_date", "subtotal", "tax_amount",
                  "total", "amount_paid", "amount_due", "currency", "notes",
                  "created_by"} \cup Stamps ]

OfficeTables == [
    suppliers |-> {"id", "tenant_id", "name", "email", "phone", "company_name",
                   "address", "city", "country", "currency", "payment_terms",
                   "is_active", "notes"} \cup Stamps,
    purchase_orders |-> {"id", "tenant_id", "po_number", "supplier_id", "state",
                         "order_date", "expected_date", "subtotal", "tax_amount",
                         "total", "notes", "created_by"} \cup Stamps,
    employees |-> {"id", "tenant_id", "employee_number", "first_name", "last_name",
                   "email", "phone", "department", "position", "manager_id",
                   "hire_date", "national_id", "address", "emergency_contact",
                   "user_id", "is_active"} \cup Stamps,
    contracts |-> {"id", "tenant_id", "employee_id", "contract_type", "start_date",
                   "end_date", "basic_salary", "housing_allowance",
                   "transport_allowance", "other_allowances", "currency", "is_active",
                   "notes", "created_at"},
    leave_requests |-> {"id", "tenant_id", "employee_id", "leave_type", "start_date",
                        "end_date", "days_count", "state", "reason", "approved_by",
                        "approved_at", "created_at"},
    attendance |-> {"id", "tenant_id", "employee_id", "check_in", "check_out",
                    "work_hours", "status", "notes", "created_at"},
    payroll_runs |-> {"id", "tenant_id", "period_start", "period_end", "state",
                      "total_gross", "total_deductions", "total_net",
                      "employee_count", "processed_at", "processed_by", "notes",
                      "created_at"} ]

CrmTables == [
    notifications |-> {"id", "tenant_id", "user_id", "title", "message",
                       "notification_type", "is_read", "created_at"},
    crm_leads |-> {"id", "tenant_id", "name", "email", "phone", "company", "source",
                   "status", "assigned_to", "notes"} \cup Stamps,
    crm_opportunities |-> {"id", "tenant_id", "name", "customer_id", "stage",
                           "probability", "expected_revenue", "close_date",
                           "assigned_to", "notes", "is_won", "is_lost"} \cup Stamps,
    crm_activities |-> {"id", "tenant_id", "activity_type", "title", "description",
                        "lead_id", "opportunity_id", "customer_id", "assigned_to",
                        "due_date", "is_done", "created_at"} ]

Tables == DOMAIN CatalogueTables \cup DOMAIN StockTables \cup DOMAIN SalesTables
          \cup DOMAIN OfficeTables \cup DOMAIN CrmTables

Columns == [t \in Tables |->
    CASE t \in DOMAIN CatalogueTables -> CatalogueTables[t]
      [] t \in DOMAIN StockTables -> StockTables[t]
      [] t \in DOMAIN SalesTables -> SalesTables[t]
      [] t \in DOMAIN OfficeTables -> OfficeTables[t]
      [] t \in DOMAIN CrmTables -> CrmTables[t]]

\* NOT NULL without a default, in the tables that are inserted into below.
Required(t) ==
    CASE t \in {"suppliers", "crm_leads", "crm_opportunities"} -> {"name"}
      [] t = "purchase_orders" -> {"po_number"}
      [] t = "employees" -> {"first_name", "last_name"}
      [] t = "contracts" -> {"start_date"}
      [] t = "leave_requests" -> {"start_date", "end_date"}
      [] t = "payroll_runs" -> {"period_start", "period_end"}
      [] t = "crm_activities" -> {"title"}
      [] OTHER -> {}

\* Mutant of Owner: foreign keys are not enforced.
OwnerIgnored(t) == {}

\* The row an inserted row refers to: the code always sets this foreign key.
Owner(t) ==
    CASE t \in {"contracts", "attendance", "leave_requests"} -> {"employees"}
      [] t = "purchase_orders" -> {"suppliers"}
      [] t \in {"sales_orders", "invoices"} -> {"customers"}
      [] t \in {"product_variants", "batches", "stock_moves"} -> {"products"}
      [] t = "stock_locations" -> {"warehouses"}
      [] t = "users" -> {"tenants"}
      [] OTHER -> {}

-----------------------------------------------------------------------------
(* Statements: the table, the columns of it they name, the tables they join,    *)
(* and the state they give the row ("" if none).                                *)

Statement(kind, t, cols, joined, state) ==
    [kind |-> kind, table |-> t, cols |-> cols, joined |-> joined, state |-> state]

Select(t, cols) == Statement("select", t, cols, {}, "")
SelectJoin(t, cols, joined) == Statement("select", t, cols, joined, "")
Get(t, cols) == Statement("get", t, cols, {}, "")    \* one row, or sql.ErrNoRows
Insert(t, cols) == Statement("insert", t, cols, {}, "")
InsertAs(t, cols, state) == Statement("insert", t, cols, {}, state)
Update(t, cols) == Statement("update", t, cols, {}, "")
UpdateTo(t, cols, state) == Statement("update", t, cols, {}, state)
Delete(t) == Statement("delete", t, {"id", "tenant_id"}, {}, "")
Count(t) == Select(t, {"tenant_id"})
Malformed == Statement("select", "syntax error", {}, {}, "")

IsSql(s) == s.kind \in {"select", "get", "insert", "update", "delete"}

Executable(s) ==
    /\ {s.table} \cup s.joined \subseteq Tables
    /\ s.cols \subseteq Columns[s.table]
    /\ s.kind = "insert" => Required(s.table) \subseteq s.cols

\* The other things a call does: look at the request, and publish on the bus.
Check == Statement("check", "", {}, {}, "")
PublishEvent(name) == Statement("publish", "", {}, {}, name)

(* A call of the API: what it does in order, and its answers. A step whose error *)
(* the code drops does not end the call.                                         *)
Must(s) == [stmt |-> s, dropped |-> FALSE]
Drops(s) == [stmt |-> s, dropped |-> TRUE]
Validates == Must(Check)                  \* the checks of the request's fields
Call(name, steps, ok, err) == [name |-> name, steps |-> steps, ok |-> ok, err |-> err]
=============================================================================
