------------------------------ MODULE ErpOffice ------------------------------
(***************************************************************************)
(* GoERP: HR, purchases and accounting. A repository's statement is a       *)
(* definition, a use case is the sequence of the checks and statements it   *)
(* runs, a handler adds the answers.                                        *)
(***************************************************************************)
EXTENDS ErpSchema

(* hr_repo.go *)

EmployeeFields ==
    {"id", "tenant_id", "employee_number", "first_name", "last_name", "email", "phone",
     "department", "job_title", "hire_date", "national_id", "address",
     "emergency_contact", "is_active", "created_by"} \cup Stamps

ListEmployees == Select("employees", EmployeeFields \cup {"manager_id"})
GetEmployee == Get("employees", EmployeeFields \cup {"manager_id"})
InsertEmployee == Insert("employees", EmployeeFields)
SetEmployee ==
    Update("employees", {"first_name", "last_name", "email", "phone", "department",
        "job_title", "address", "emergency_contact", "is_active", "updated_at"})

ContractFields ==
    {"id", "tenant_id", "employee_id", "contract_type", "basic_salary",
     "housing_allowance", "transport_allowance", "other_allowances", "currency",
     "start_date", "end_date", "is_active", "notes", "created_at"}

GetEmployeeContract ==
    [SelectJoin("contracts", ContractFields, {"employees"}) EXCEPT !.kind = "get"]

\* The contracts so far are ended first, in a statement of its own whose error is dropped.
InsertContract ==
    << Drops(Update("contracts", {"is_active"})), Must(Insert("contracts", ContractFields)) >>

AttendanceFields ==
    {"id", "tenant_id", "employee_id", "date", "check_in", "check_out", "work_hours",
     "overtime_hours", "status", "notes", "created_at"}

ListAttendance == SelectJoin("attendance", AttendanceFields, {"employees"})
InsertAttendance == Insert("attendance", AttendanceFields)

LeaveFields ==
    {"id", "tenant_id", "employee_id", "leave_type", "start_date", "end_date",
     "days_count", "reason", "state", "created_at"}

ListLeaveRequests ==
    SelectJoin("leave_requests", LeaveFields \cup {"approved_by", "approved_at"},
               {"employees"})
InsertLeaveRequest == Insert("leave_requests", LeaveFields)
ApproveLeave ==
    UpdateTo("leave_requests", {"state", "approved_by", "approved_at"}, "approved")
RejectLeave == UpdateTo("leave_requests", {"state"}, "refused")

PayrollFields ==
    {"id", "tenant_id", "period_start", "state", "total_gross", "total_deductions",
     "total_net", "employee_count", "notes", "created_at"}

ListPayrollRuns == Select("payroll_runs", PayrollFields \cup {"processed_at", "processed_by"})

\* The totals are summed first; the columns period_end and created_by decide the rest.
InsertPayrollRun ==
    << Drops(SelectJoin("contracts", {"basic_salary", "is_active"}, {"employees"})),
       Must(Insert("payroll_runs", PayrollFields \cup {"created_by"})) >>

GetHRStats ==
    << Drops(Count("employees")), Drops(Select("leave_requests", {"state"})),
       Drops(SelectJoin("contracts", {"basic_salary", "is_active"}, {"employees"})),
       Drops(Select("employees", {"department", "is_active"})) >>

(* hr_usecase.go *)

CreateEmployee == << Validates, Must(InsertEmployee) >>
UpdateEmployee == << Must(GetEmployee), Must(SetEmployee) >>
CreateContract == << Validates, Must(GetEmployee) >> \o InsertContract
RecordAttendance == << Validates, Must(InsertAttendance) >>
CreateLeaveRequest == << Validates, Must(InsertLeaveRequest) >>

\* The contracts of the employees are read one by one; who has none is skipped.
GeneratePayroll ==
    << Validates, Must(ListEmployees), Drops(GetEmployeeContract) >> \o InsertPayrollRun

(* hr_handler.go *)

HRCalls == {
    Call("ListEmployees", << Must(ListEmployees) >>, 200, 500),
    Call("GetEmployee", << Must(GetEmployee) >>, 200, 404),
    Call("CreateEmployee", CreateEmployee, 201, 400),
    Call("UpdateEmployee", UpdateEmployee, 200, 400),
    Call("GetEmployeeContract", << Must(GetEmployeeContract) >>, 200, 404),
    Call("CreateContract", CreateContract, 201, 400) }

AttendanceCalls == {
    Call("ListAttendance", << Must(ListAttendance) >>, 200, 500),
    Call("RecordAttendance", RecordAttendance, 201, 400),
    Call("ListLeaveRequests", << Must(ListLeaveRequests) >>, 200, 500),
    Call("CreateLeaveRequest", CreateLeaveRequest, 201, 400),
    Call("ApproveLeave", << Must(ApproveLeave) >>, 200, 500),
    Call("RejectLeave", << Must(RejectLeave) >>, 200, 500),
    Call("ListPayrollRuns", << Must(ListPayrollRuns) >>, 200, 500),
    Call("GeneratePayroll", GeneratePayroll, 201, 400),
    Call("GetHRStats", GetHRStats, 200, 500) }

-----------------------------------------------------------------------------
(* purchases_repo.go, purchases_usecase.go, purchases_handler.go *)

SupplierFields ==
    {"id", "tenant_id", "name", "email", "phone", "company_name", "tax_id", "address",
     "city", "country", "payment_terms", "currency", "balance", "rating", "is_active",
     "notes", "created_at"}

ListSuppliers == Select("suppliers", SupplierFields)
InsertSupplier == Insert("suppliers", SupplierFields)

OrderFields ==
    {"id", "tenant_id", "po_number", "supplier_id", "state", "order_date", "currency",
     "subtotal", "tax_amount", "total", "amount_paid", "amount_due", "notes",
     "created_at"}

ListPurchaseOrders ==
    SelectJoin("purchase_orders", OrderFields \cup {"expected_date"}, {"suppliers"})

\* The number is one more than the orders there are.
InsertPurchaseOrder ==
    << Drops(Count("purchase_orders")), Must(Insert("purchase_orders", OrderFields)) >>

CreateSupplier == << Validates, Must(InsertSupplier) >>
CreatePurchaseOrder == << Validates >> \o InsertPurchaseOrder

PurchaseCalls == {
    Call("ListSuppliers", << Must(ListSuppliers) >>, 200, 500),
    Call("CreateSupplier", CreateSupplier, 201, 400),
    Call("ListPurchaseOrders", << Must(ListPurchaseOrders) >>, 200, 500),
    Call("CreatePurchaseOrder", CreatePurchaseOrder, 201, 400) }

-----------------------------------------------------------------------------
(* accounting_repo.go, accounting_handler.go; the use cases only pass on. *)

ListAccounts ==
    Select("chart_of_accounts", {"id", "tenant_id", "code", "name", "account_type",
                                 "parent_id", "is_active", "balance", "created_at"})

EntryFields ==
    {"id", "tenant_id", "entry_number", "entry_date", "description", "reference",
     "state", "total_debit", "total_credit", "created_at"}

ListJournalEntries == Select("journal_entries", EntryFields)

\* The errors of the lines are dropped: an entry may be stored without them.
CreateJournalEntry ==
    << Drops(Count("journal_entries")), Validates,
       Must(Insert("journal_entries", EntryFields)),
       Drops(Insert("journal_lines", {"id", "journal_entry_id", "account_id",
                                      "description", "debit", "credit"})) >>

PostJournalEntry == UpdateTo("journal_entries", {"state", "posted_at"}, "posted")

AccountingCalls == {
    Call("ListAccounts", << Must(ListAccounts) >>, 200, 500),
    Call("ListJournalEntries", << Must(ListJournalEntries) >>, 200, 500),
    Call("CreateJournalEntry", CreateJournalEntry, 201, 400),
    Call("PostJournalEntry", << Must(PostJournalEntry) >>, 200, 400) }
=============================================================================
