------------------------------- MODULE ErpSales -------------------------------
(***************************************************************************)
(* GoERP: customers, orders and invoices, and the accounts of the tenants.  *)
(* An order has a state; the lines of an order or an invoice are summed but *)
(* never stored.                                                            *)
(***************************************************************************)
EXTENDS ErpSchema

(* sales_repo.go *)

CustomerFields ==
    {"id", "tenant_id", "name", "email", "phone", "company_name", "is_active", "created_at"}

ListCustomers == Select("customers", CustomerFields)
GetCustomer == Get("customers", CustomerFields)
InsertCustomer == Insert("customers", CustomerFields \cup Stamps)

SalesOrderFields ==
    {"id", "tenant_id", "order_number", "customer_id", "state", "order_date", "total",
     "created_at"}

ListSalesOrders == SelectJoin("sales_orders", SalesOrderFields, {"customers"})

\* The state is the request's, and draft if it gives none. Any other word than these is
\* stored too; no call reads it back.
OrderStates == {"draft", "confirmed", "cancelled"}

\* The number is the nanosecond modulo a million: it may exist already.
InsertSalesOrder(state) ==
    InsertAs("sales_orders",
        SalesOrderFields \cup {"subtotal", "tax_amount", "notes", "updated_at"}, state)

\* Whatever the state is, and whether the order exists or not.
UpdateOrderState(state) ==
    UpdateTo("sales_orders", {"id", "tenant_id", "state", "updated_at"}, state)

InvoiceFields ==
    {"id", "tenant_id", "invoice_number", "customer_id", "state", "invoice_date", "total",
     "amount_due", "created_at"}

ListInvoices == SelectJoin("invoices", InvoiceFields, {"customers"})

\* As for orders.
InvoiceStates == {"draft", "paid"}

InsertInvoice(state) ==
    InsertAs("invoices",
        InvoiceFields \cup {"subtotal", "tax_amount", "notes", "updated_at"}, state)

(* sales_usecase.go *)

CreateCustomer == << Validates, Must(InsertCustomer) >>
\* Mutant of CreateSalesOrder: the amounts are checked after the row is written.
CreateSalesOrderLateCheck(state) == << Must(InsertSalesOrder(state)), Validates >>

CreateSalesOrder(state) == << Validates, Must(InsertSalesOrder(state)) >>

\* Mutant of ConfirmOrder: the event is forgotten.
ConfirmOrderSilently == << Must(UpdateOrderState("confirmed")) >>

ConfirmOrder ==
    << Must(UpdateOrderState("confirmed")), Must(PublishEvent("SalesOrderConfirmed")) >>

CancelOrder == << Must(UpdateOrderState("cancelled")) >>

CreateInvoice(state) ==
    << Validates, Must(InsertInvoice(state)), Must(PublishEvent("InvoiceCreated")) >>

(* sales_handler.go *)

CustomerCalls == {
    Call("ListCustomers", << Must(ListCustomers) >>, 200, 500),
    Call("CreateCustomer", CreateCustomer, 201, 400),
    Call("GetCustomer", << Must(GetCustomer) >>, 200, 404) }

OrderCalls ==
    { Call("ListOrders", << Must(ListSalesOrders) >>, 200, 500),
      Call("ConfirmOrder", ConfirmOrder, 200, 400),
      Call("CancelOrder", CancelOrder, 200, 400) }
    \cup {Call("CreateOrder", CreateSalesOrder(state), 201, 400) : state \in OrderStates}

InvoiceCalls ==
    {Call("ListInvoices", << Must(ListInvoices) >>, 200, 500)}
    \cup {Call("CreateInvoice", CreateInvoice(state), 201, 400) : state \in InvoiceStates}

-----------------------------------------------------------------------------
(* user_repo.go *)

UserFields ==
    {"id", "tenant_id", "email", "password_hash", "full_name", "avatar", "is_active",
     "is_superadmin", "last_login"} \cup Stamps

FindByEmail == Get("users", UserFields)
FindUserByID == Get("users", UserFields)
InsertUser == Insert("users", UserFields \ {"avatar", "last_login"})
UpdateLastLogin == Update("users", {"id", "last_login"})
FindBySlug == Get("tenants", {"id", "name", "slug", "plan", "is_active", "created_at"})
InsertTenant == Insert("tenants", {"id", "name", "slug", "plan", "created_at"})

(* auth_usecase.go *)

\* The last check is the password's; Validates also stands for bcrypt and the token.
Login ==
    << Validates, Must(FindBySlug), Must(FindByEmail), Validates, Drops(UpdateLastLogin),
       Validates >>

\* Tenant first, then the hash, which refuses a password of more than 72 bytes, then
\* the user, then the login. That one fails when the tenant's name has no letter or
\* digit: its slug is "", with which Login looks in the demo tenant.
Register ==
    << Validates, Must(InsertTenant), Validates, Must(InsertUser) >> \o Tail(Login)

GetProfile == << Must(FindUserByID) >>

(* auth_handler.go; Logout only clears a cookie *)

AccountCalls == {
    Call("Login", Login, 200, 401),
    Call("Register", Register, 201, 400),
    Call("Me", GetProfile, 200, 404) }
=============================================================================
