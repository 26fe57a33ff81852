------------------------- MODULE BackOffice_proofs -------------------------
(***************************************************************************)
(* What the calls of GoERP's back office do to its tables, for any number   *)
(* of requests in progress and any ids.                                     *)
(*                                                                          *)
(* The first part is about the calls as they are written: EveryCallIsSane   *)
(* goes through all of them and says what their statements have in common.  *)
(* The second part follows a call through the server, of which it knows     *)
(* only that: how far it has come, and what it has left behind.             *)
(***************************************************************************)
EXTENDS BackOffice, SequenceTheorems, TLAPS

(* Sequences. *)

LEMMA Joined ==
    ASSUME NEW S, NEW l \in Seq(S), NEW r \in Seq(S), NEW t \in Seq(S),
           Len(t) = Len(l) + Len(r),
           \A i \in 1..Len(l) : t[i] = l[i],
           \A i \in 1..Len(r) : t[Len(l) + i] = r[i]
    PROVE  l \o r = t
<1>1. /\ l \o r \in Seq(S)
      /\ Len(l \o r) = Len(l) + Len(r)
      /\ \A i \in 1..Len(l) + Len(r) :
            (l \o r)[i] = IF i <= Len(l) THEN l[i] ELSE r[i - Len(l)]
      BY ConcatProperties
<1>2. Len(l) \in Nat /\ Len(r) \in Nat
      OBVIOUS
<1>3. ASSUME NEW i \in 1..Len(l) + Len(r)
      PROVE  (l \o r)[i] = t[i]
  <2>1. CASE i <= Len(l)
        BY <1>1, <1>2, <2>1
  <2>2. CASE ~(i <= Len(l))
    <3>1. i - Len(l) \in 1..Len(r) /\ Len(l) + (i - Len(l)) = i
          BY <1>2, <2>2
    <3> QED BY <1>1, <2>2, <3>1
  <2> QED BY <2>1, <2>2
<1> QED BY <1>1, <1>3, SeqEqual

LEMMA Joined12 ==
    ASSUME NEW a, NEW b, NEW c
    PROVE  << a >> \o << b, c >> = << a, b, c >>
<1> DEFINE S == {a, b, c}
           l == << a >>
           r == << b, c >>
           t == << a, b, c >>
<1>1. l \in Seq(S) /\ r \in Seq(S) /\ t \in Seq(S)
      OBVIOUS
<1>2. Len(t) = Len(l) + Len(r)
      OBVIOUS
<1>3. \A i \in 1..Len(l) : t[i] = l[i]
      OBVIOUS
<1>4. \A i \in 1..Len(r) : t[Len(l) + i] = r[i]
      OBVIOUS
<1> HIDE DEF S, l, r, t
<1>5. l \o r = t
      BY <1>1, <1>2, <1>3, <1>4, Joined, Zenon
<1> QED BY <1>5 DEF l, r, t

LEMMA Joined22 ==
    ASSUME NEW a, NEW b, NEW c, NEW d
    PROVE  << a, b >> \o << c, d >> = << a, b, c, d >>
<1> DEFINE S == {a, b, c, d}
           l == << a, b >>
           r == << c, d >>
           t == << a, b, c, d >>
<1>1. l \in Seq(S) /\ r \in Seq(S) /\ t \in Seq(S)
      OBVIOUS
<1>2. Len(t) = Len(l) + Len(r)
      OBVIOUS
<1>3. \A i \in 1..Len(l) : t[i] = l[i]
      OBVIOUS
<1>4. \A i \in 1..Len(r) : t[Len(l) + i] = r[i]
      OBVIOUS
<1> HIDE DEF S, l, r, t
<1>5. l \o r = t
      BY <1>1, <1>2, <1>3, <1>4, Joined, Zenon
<1> QED BY <1>5 DEF l, r, t

LEMMA Joined32 ==
    ASSUME NEW a, NEW b, NEW c, NEW d, NEW e
    PROVE  << a, b, c >> \o << d, e >> = << a, b, c, d, e >>
<1> DEFINE S == {a, b, c, d, e}
           l == << a, b, c >>
           r == << d, e >>
           t == << a, b, c, d, e >>
<1>1. l \in Seq(S) /\ r \in Seq(S) /\ t \in Seq(S)
      OBVIOUS
<1>2. Len(t) = Len(l) + Len(r)
      OBVIOUS
<1>3. \A i \in 1..Len(l) : t[i] = l[i]
      OBVIOUS
<1>4. \A i \in 1..Len(r) : t[Len(l) + i] = r[i]
      OBVIOUS
<1> HIDE DEF S, l, r, t
<1>5. l \o r = t
      BY <1>1, <1>2, <1>3, <1>4, Joined, Zenon
<1> QED BY <1>5 DEF l, r, t

LEMMA Joined31 ==
    ASSUME NEW a, NEW b, NEW c, NEW d
    PROVE  << a, b, c >> \o << d >> = << a, b, c, d >>
<1> DEFINE S == {a, b, c, d}
           l == << a, b, c >>
           r == << d >>
           t == << a, b, c, d >>
<1>1. l \in Seq(S) /\ r \in Seq(S) /\ t \in Seq(S)
      OBVIOUS
<1>2. Len(t) = Len(l) + Len(r)
      OBVIOUS
<1>3. \A i \in 1..Len(l) : t[i] = l[i]
      OBVIOUS
<1>4. \A i \in 1..Len(r) : t[Len(l) + i] = r[i]
      OBVIOUS
<1> HIDE DEF S, l, r, t
<1>5. l \o r = t
      BY <1>1, <1>2, <1>3, <1>4, Joined, Zenon
<1> QED BY <1>5 DEF l, r, t

-----------------------------------------------------------------------------
(* The calls as they are written. *)

Errors == {400, 401, 403, 404, 422, 500}

StepsOf(call) == {call.steps[k] : k \in DOMAIN call.steps}

\* The tables of HR, purchases and CRM.
Closed == DOMAIN OfficeTables \cup DOMAIN CrmTables

\* An insert gives the row a state there is, and never goes into a closed table: it
\* names a column there is not, or refers to an employee. An update that moves a row on
\* is one of an order, or has no row to move.
Lawful(s) ==
    /\ s.kind = "insert" =>
          /\ s.state \in {"", "draft", "confirmed", "cancelled", "paid"}
          /\ s.table \in Closed => ~Executable(s) \/ "employees" \in Owner(s.table)
    /\ s.kind = "update" =>
          \/ s.state \in {"", "confirmed", "cancelled"}
          \/ s.table \in Closed \ seedData
          \/ s.table \notin Tables

\* What has to be announced once a statement has been executed.
Event(s) ==
    IF s.kind = "insert" /\ s.table = "invoices" THEN "InvoiceCreated"
    ELSE IF s.kind = "update" /\ s.table = "sales_orders" /\ s.state = "confirmed"
    THEN "SalesOrderConfirmed" ELSE ""

\* A step that cannot end its call.
Harmless(step) == step.dropped \/ ~CanFail(step.stmt)

Closes(seq) ==
    \A i, j \in DOMAIN seq : i < j /\ seq[i].stmt.kind = "insert" => Harmless(seq[j])

Announces(seq) ==
    \A i \in DOMAIN seq : Event(seq[i].stmt) # "" =>
        /\ \E j \in DOMAIN seq : i < j /\ seq[j].stmt = PublishEvent(Event(seq[i].stmt))
        /\ \A j \in DOMAIN seq : i < j => Harmless(seq[j])

\* The error of no insert is dropped, or the call never gets to its end.
Firm(call) ==
    \/ \A step \in StepsOf(call) : step.stmt.kind = "insert" => ~step.dropped
    \/ \E step \in StepsOf(call) : ~step.dropped /\ IsSql(step.stmt) /\ ~Executable(step.stmt)

Sane(call) ==
    /\ call.steps \in Seq(StepsOf(call))
    /\ call.ok \in {200, 201}
    /\ call.err \in Errors
    /\ \A step \in StepsOf(call) : Lawful(step.stmt)
    /\ call.name # "Register" => Closes(call.steps)
    /\ Announces(call.steps)
    /\ call.ok = 201 /\ call # createWorkflow => Firm(call)
    /\ \A step \in StepsOf(call) :
          Event(step.stmt) = "SalesOrderConfirmed" => ~Does(call, {"insert"})

LEMMA StepFacts ==
    \A s : /\ Must(s).stmt = s /\ ~Must(s).dropped
           /\ Drops(s).stmt = s /\ Drops(s).dropped
BY DEF Must, Drops

LEMMA ErrorCodes ==
    400 \in Errors /\ 401 \in Errors /\ 403 \in Errors /\ 404 \in Errors /\ 422 \in Errors
    /\ 500 \in Errors
BY DEF Errors

LEMMA TableNames ==
    /\ DOMAIN CatalogueTables =
          {"tenants", "users", "product_categories", "products", "product_variants"}
    /\ DOMAIN StockTables = {"warehouses", "stock_locations", "batches", "stock_moves"}
    /\ DOMAIN SalesTables =
          {"customers", "sales_orders", "sales_order_lines", "invoice_lines", "invoices"}
    /\ DOMAIN OfficeTables =
          {"suppliers", "purchase_orders", "employees", "contracts", "leave_requests",
           "attendance", "payroll_runs"}
    /\ DOMAIN CrmTables =
          {"notifications", "crm_leads", "crm_opportunities", "crm_activities"}
BY DEF CatalogueTables, StockTables, SalesTables, OfficeTables, CrmTables

(* Calls that only read, or change rows that are there. *)

Quiet(s) ==
    /\ s.kind # "insert"
    /\ s.kind # "publish"
    /\ s.kind = "update" => \/ s.state = "" \/ s.state = "cancelled"
                            \/ s.table = "leave_requests" \/ s.table = "journal_entries"

LEMMA QuietStatements ==
    ASSUME NEW t, NEW cols, NEW joined
    PROVE  /\ Quiet(Select(t, cols)) /\ Quiet(SelectJoin(t, cols, joined))
           /\ Quiet(Get(t, cols)) /\ Quiet(Update(t, cols)) /\ Quiet(Delete(t))
           /\ Quiet(Count(t)) /\ Quiet(Malformed) /\ Quiet(Check)
BY DEF Quiet, Select, SelectJoin, Get, Update, Delete, Count, Malformed, Check, Statement

LEMMA QuietFacts ==
    ASSUME NEW s, Quiet(s)
    PROVE  Event(s) = "" /\ Lawful(s)
<1>1. Event(s) = ""
      BY DEF Quiet, Event
<1>2. "leave_requests" \in Closed \ seedData /\ "journal_entries" \notin Tables
      BY TableNames DEF Closed, seedData, Tables
<1>3. Lawful(s)
      BY <1>2 DEF Quiet, Lawful
<1> QED BY <1>1, <1>3

AllQuiet(S) == \A a \in S : Quiet(a.stmt)

LEMMA QuietCall ==
    ASSUME NEW n, NEW S, NEW seq \in Seq(S), AllQuiet(S), NEW err \in Errors
    PROVE  Sane(Call(n, seq, 200, err))
<1> DEFINE call == Call(n, seq, 200, err)
<1>1. call.name = n /\ call.steps = seq /\ call.ok = 200 /\ call.err = err
      BY DEF Call
<1> HIDE DEF call
<1>2. \A k \in DOMAIN seq : Quiet(seq[k].stmt)
      BY DEF AllQuiet
<1>3. seq \in Seq(StepsOf(call))
      BY <1>1 DEF StepsOf
<1>4. \A step \in StepsOf(call) : Quiet(step.stmt)
      BY <1>1, <1>2 DEF StepsOf
<1>5. \A step \in StepsOf(call) : Lawful(step.stmt) /\ Event(step.stmt) = ""
      BY <1>4, QuietFacts
<1>6. \A k \in DOMAIN seq : Event(seq[k].stmt) = "" /\ seq[k].stmt.kind # "insert"
      BY <1>2, QuietFacts DEF Quiet
<1>7. Closes(seq) /\ Announces(seq)
      BY <1>6 DEF Closes, Announces
<1>8. call.ok \in {200, 201} /\ call.err \in Errors /\ call.ok # 201
      BY <1>1
<1>9. call.name # "Register" => Closes(call.steps)
      BY <1>1, <1>7
<1>10. call.ok = 201 /\ call # createWorkflow => Firm(call)
       BY <1>8
<1>11. \A step \in StepsOf(call) :
          Event(step.stmt) = "SalesOrderConfirmed" => ~Does(call, {"insert"})
       BY <1>5
<1>12. \A step \in StepsOf(call) : Lawful(step.stmt)
       BY <1>5
<1>13. call.steps \in Seq(StepsOf(call)) /\ Announces(call.steps)
       BY <1>1, <1>3, <1>7
<1>14. Sane(call)
       BY <1>8, <1>9, <1>10, <1>11, <1>12, <1>13 DEF Sane
<1> QED BY <1>14 DEF call

LEMMA Quiet0 ==
    ASSUME NEW n, NEW err \in Errors
    PROVE  Sane(Call(n, << >>, 200, err))
<1> DEFINE S == {}
<1>1. << >> \in Seq(S) /\ AllQuiet(S)
      BY DEF AllQuiet
<1> HIDE DEF S
<1> QED BY <1>1, QuietCall

LEMMA Quiet1 ==
    ASSUME NEW n, NEW err \in Errors, NEW a,
           Quiet(a.stmt)
    PROVE  Sane(Call(n, << a >>, 200, err))
<1> DEFINE S == {a}
<1>1. << a >> \in Seq(S)
      OBVIOUS
<1>2. AllQuiet(S)
      BY DEF AllQuiet
<1> HIDE DEF S
<1> QED BY <1>1, <1>2, QuietCall

LEMMA Quiet2 ==
    ASSUME NEW n, NEW err \in Errors, NEW a, NEW b,
           Quiet(a.stmt), Quiet(b.stmt)
    PROVE  Sane(Call(n, << a, b >>, 200, err))
<1> DEFINE S == {a, b}
<1>1. << a, b >> \in Seq(S)
      OBVIOUS
<1>2. AllQuiet(S)
      BY DEF AllQuiet
<1> HIDE DEF S
<1> QED BY <1>1, <1>2, QuietCall

LEMMA Quiet3 ==
    ASSUME NEW n, NEW err \in Errors, NEW a, NEW b, NEW c,
           Quiet(a.stmt), Quiet(b.stmt), Quiet(c.stmt)
    PROVE  Sane(Call(n, << a, b, c >>, 200, err))
<1> DEFINE S == {a, b, c}
<1>1. << a, b, c >> \in Seq(S)
      OBVIOUS
<1>2. AllQuiet(S)
      BY DEF AllQuiet
<1> HIDE DEF S
<1> QED BY <1>1, <1>2, QuietCall

LEMMA Quiet4 ==
    ASSUME NEW n, NEW err \in Errors, NEW a, NEW b, NEW c, NEW d,
           Quiet(a.stmt), Quiet(b.stmt), Quiet(c.stmt), Quiet(d.stmt)
    PROVE  Sane(Call(n, << a, b, c, d >>, 200, err))
<1> DEFINE S == {a, b, c, d}
<1>1. << a, b, c, d >> \in Seq(S)
      OBVIOUS
<1>2. AllQuiet(S)
      BY DEF AllQuiet
<1> HIDE DEF S
<1> QED BY <1>1, <1>2, QuietCall

(* Calls that store one row. *)

StoresAt(seq, m) ==
    /\ m \in 1..Len(seq)
    /\ ~seq[m].dropped /\ seq[m].stmt.kind = "insert" /\ seq[m].stmt.table # "invoices"
    /\ Lawful(seq[m].stmt)
    /\ \A k \in 1..Len(seq) : k # m => Quiet(seq[k].stmt) /\ (k > m => seq[k].dropped)

LEMMA StoringCall ==
    ASSUME NEW n, NEW err \in Errors, NEW S, NEW seq \in Seq(S), NEW m, StoresAt(seq, m)
    PROVE  Sane(Call(n, seq, 201, err))
<1> DEFINE call == Call(n, seq, 201, err)
<1>1. call.name = n /\ call.steps = seq /\ call.ok = 201 /\ call.err = err
      BY DEF Call
<1> HIDE DEF call
<1>2. DOMAIN seq = 1..Len(seq) /\ m \in 1..Len(seq)
      BY DEF StoresAt
<1>3. Event(seq[m].stmt) = "" /\ Lawful(seq[m].stmt)
      BY DEF Event, StoresAt
<1>4. \A k \in DOMAIN seq : Event(seq[k].stmt) = "" /\ Lawful(seq[k].stmt)
      BY <1>2, <1>3, QuietFacts DEF StoresAt
<1>5. \A k \in DOMAIN seq : seq[k].stmt.kind = "insert" => k = m
      BY <1>2 DEF Quiet, StoresAt
<1>6. Closes(seq)
      BY <1>2, <1>5 DEF Closes, Harmless, StoresAt
<1>7. Announces(seq)
      BY <1>4 DEF Announces
<1>8. seq \in Seq(StepsOf(call))
      BY <1>1 DEF StepsOf
<1>9. \A step \in StepsOf(call) : Event(step.stmt) = "" /\ Lawful(step.stmt)
  <2>1. \A step \in StepsOf(call) : \E k \in DOMAIN seq : step = seq[k]
        BY <1>1 DEF StepsOf
  <2> QED BY <1>4, <2>1
<1>10. Firm(call)
       BY <1>1, <1>2, <1>5 DEF Firm, StepsOf, StoresAt
<1>11. call.ok \in {200, 201} /\ call.err \in Errors
       BY <1>1
<1>12. call.name # "Register" => Closes(call.steps)
       BY <1>1, <1>6
<1>13. call.steps \in Seq(StepsOf(call)) /\ Announces(call.steps)
       BY <1>1, <1>7, <1>8
<1>14. \A step \in StepsOf(call) :
          Event(step.stmt) = "SalesOrderConfirmed" => ~Does(call, {"insert"})
       BY <1>9
<1>15. \A step \in StepsOf(call) : Lawful(step.stmt)
       BY <1>9
<1>16. Sane(call)
       BY <1>10, <1>11, <1>12, <1>13, <1>14, <1>15 DEF Sane
<1> QED BY <1>16 DEF call

LEMMA Store1 ==
    ASSUME NEW n, NEW err \in Errors, NEW s,
           s.kind = "insert", s.table # "invoices", Lawful(s)
    PROVE  Sane(Call(n, << Validates, Must(s) >>, 201, err))
<1> DEFINE S == {Validates, Must(s)}
           seq == << Validates, Must(s) >>
<1>1. seq \in Seq(S) /\ Len(seq) = 2
      OBVIOUS
<1>2. seq[1] = Validates /\ seq[2] = Must(s)
      OBVIOUS
<1>3. Quiet(Validates.stmt) /\ Must(s).stmt = s /\ ~Must(s).dropped
      BY StepFacts, QuietStatements DEF Validates
<1> HIDE DEF S, seq
<1>4. \A k \in 1..Len(seq) : k # 2 => Quiet(seq[k].stmt) /\ ~(k > 2)
      BY <1>1, <1>2, <1>3
<1>5. Sane(Call(n, seq, 201, err))
  <2>1. StoresAt(seq, 2)
        BY <1>1, <1>2, <1>3, <1>4 DEF StoresAt
  <2>2. err \in Errors
        OBVIOUS
  <2> QED BY ONLY <1>1, <2>1, <2>2, StoringCall
<1> QED BY <1>5 DEF seq

\* No row can be stored in a closed table.
LEMMA ClosedTables ==
    /\ \A t \in Closed : Columns[t] = IF t \in DOMAIN OfficeTables THEN OfficeTables[t]
                                      ELSE CrmTables[t]
    /\ \A t \in {"customers", "sales_orders", "invoices", "tenants", "users", "warehouses",
                 "stock_locations", "product_categories", "product_variants", "batches"} :
          t \notin Closed
<1>1. \A t \in Closed : /\ t \in Tables
                        /\ t \notin DOMAIN CatalogueTables
                        /\ t \notin DOMAIN StockTables
                        /\ t \notin DOMAIN SalesTables
                        /\ t \in DOMAIN OfficeTables <=> t \notin DOMAIN CrmTables
      BY TableNames DEF Closed, Tables
<1> DEFINE Cases(t) ==
             CASE t \in DOMAIN CatalogueTables -> CatalogueTables[t]
               [] t \in DOMAIN StockTables -> StockTables[t]
               [] t \in DOMAIN SalesTables -> SalesTables[t]
               [] t \in DOMAIN OfficeTables -> OfficeTables[t]
               [] t \in DOMAIN CrmTables -> CrmTables[t]
<1>2. ASSUME NEW t \in Closed
      PROVE  Columns[t] = IF t \in DOMAIN OfficeTables THEN OfficeTables[t] ELSE CrmTables[t]
  <2>1. CASE t \in DOMAIN OfficeTables
    <3>1. Columns[t] = Cases(t)
          BY <1>1 DEF Columns
    <3>2. Cases(t) = OfficeTables[t]
          BY <1>1, <2>1, Zenon
    <3> QED BY <2>1, <3>1, <3>2
  <2>2. CASE t \notin DOMAIN OfficeTables
    <3>1. Columns[t] = Cases(t)
          BY <1>1 DEF Columns
    <3>2. Cases(t) = CrmTables[t]
          BY <1>1, <2>2, Zenon
    <3> QED BY <2>2, <3>1, <3>2
  <2> QED BY <2>1, <2>2
<1>3. \A t \in {"customers", "sales_orders", "invoices", "tenants", "users", "warehouses",
                "stock_locations", "product_categories", "product_variants", "batches"} :
         t \notin Closed
      BY TableNames DEF Closed
<1> QED BY <1>2, <1>3

LEMMA InsertFacts ==
    ASSUME NEW t, NEW cols
    PROVE  /\ Insert(t, cols).kind = "insert" /\ InsertAs(t, cols, "draft").kind = "insert"
           /\ Insert(t, cols).table = t /\ InsertAs(t, cols, "draft").table = t
           /\ t \notin Closed => Lawful(Insert(t, cols)) /\ Lawful(InsertAs(t, cols, "draft"))
           /\ "employees" \in Owner(t) => Lawful(Insert(t, cols))
           /\ ~(cols \subseteq Columns[t]) => Lawful(Insert(t, cols))
<1>1. /\ Insert(t, cols).kind = "insert" /\ InsertAs(t, cols, "draft").kind = "insert"
      /\ Insert(t, cols).table = t /\ InsertAs(t, cols, "draft").table = t
      /\ Insert(t, cols).state = "" /\ InsertAs(t, cols, "draft").state = "draft"
      /\ Insert(t, cols).cols = cols
      BY DEF Insert, InsertAs, Statement
<1> QED BY <1>1 DEF Lawful, Executable

\* Into the tables that are open, with the state the request names.
LEMMA InsertAsFacts ==
    ASSUME NEW t, NEW cols, t \notin Closed,
           NEW state \in {"draft", "confirmed", "cancelled", "paid"}
    PROVE  /\ InsertAs(t, cols, state).kind = "insert" /\ InsertAs(t, cols, state).table = t
           /\ Lawful(InsertAs(t, cols, state))
BY DEF InsertAs, Statement, Lawful

\* Columns that AutoMigrate does not create.
LEMMA UnknownColumns ==
    /\ ~(EmployeeFields \subseteq Columns["employees"])
    /\ ~(PayrollFields \cup {"created_by"} \subseteq Columns["payroll_runs"])
    /\ ~(SupplierFields \subseteq Columns["suppliers"])
    /\ ~(OrderFields \subseteq Columns["purchase_orders"])
    /\ ~(LeadFields \subseteq Columns["crm_leads"])
    /\ ~(OpportunityFields \subseteq Columns["crm_opportunities"])
    /\ ~(ActivityFields \subseteq Columns["crm_activities"])
<1>1. "job_title" \in EmployeeFields /\ "job_title" \notin Columns["employees"]
  <2>1. Columns["employees"] = OfficeTables["employees"]
        BY ClosedTables, TableNames DEF Closed
  <2> QED BY <2>1 DEF EmployeeFields, OfficeTables, Stamps
<1>2. "created_by" \notin Columns["payroll_runs"]
  <2>1. Columns["payroll_runs"] = OfficeTables["payroll_runs"]
        BY ClosedTables, TableNames DEF Closed
  <2> QED BY <2>1 DEF OfficeTables
<1>3. "tax_id" \in SupplierFields /\ "tax_id" \notin Columns["suppliers"]
  <2>1. Columns["suppliers"] = OfficeTables["suppliers"]
        BY ClosedTables, TableNames DEF Closed
  <2> QED BY <2>1 DEF SupplierFields, OfficeTables, Stamps
<1>4. "currency" \in OrderFields /\ "currency" \notin Columns["purchase_orders"]
  <2>1. Columns["purchase_orders"] = OfficeTables["purchase_orders"]
        BY ClosedTables, TableNames DEF Closed
  <2> QED BY <2>1 DEF OrderFields, OfficeTables, Stamps
<1>5. "created_by" \in LeadFields /\ "created_by" \notin Columns["crm_leads"]
  <2>1. Columns["crm_leads"] = CrmTables["crm_leads"]
        BY ClosedTables, TableNames DEF Closed
  <2> QED BY <2>1 DEF LeadFields, CrmTables, Stamps
<1>6. "lead_id" \in OpportunityFields /\ "lead_id" \notin Columns["crm_opportunities"]
  <2>1. Columns["crm_opportunities"] = CrmTables["crm_opportunities"]
        BY ClosedTables, TableNames DEF Closed
  <2> QED BY <2>1 DEF OpportunityFields, CrmTables, Stamps
<1>7. "type" \in ActivityFields /\ "type" \notin Columns["crm_activities"]
  <2>1. Columns["crm_activities"] = CrmTables["crm_activities"]
        BY ClosedTables, TableNames DEF Closed
  <2> QED BY <2>1 DEF ActivityFields, CrmTables
<1> QED BY <1>1, <1>2, <1>3, <1>4, <1>5, <1>6, <1>7

(* Calls of neither kind. *)

Mild(s) == Lawful(s) /\ Event(s) = ""

LEMMA PlainCall ==
    ASSUME NEW call, NEW S, call.steps \in Seq(S),
           call.ok = 200 \/ call.ok = 201,
           call.err \in Errors,
           \A a \in S : Mild(a.stmt),
           call.name # "Register" => Closes(call.steps),
           call.ok = 201 /\ call # createWorkflow => Firm(call)
    PROVE  Sane(call)
<1> DEFINE seq == call.steps
<1>1. seq \in Seq(S)
      OBVIOUS
<1>2. \A step \in StepsOf(call) : \E k \in DOMAIN seq : step = seq[k]
      BY DEF StepsOf
<1>3. \A k \in DOMAIN seq : seq[k] \in StepsOf(call)
      BY DEF StepsOf
<1> HIDE DEF seq
<1>4. DOMAIN seq = 1..Len(seq) /\ Len(seq) \in Nat /\ \A k \in 1..Len(seq) : seq[k] \in S
      BY <1>1
<1>5. \A step \in StepsOf(call) : step \in S
      BY <1>2, <1>4
<1>6. \A k \in DOMAIN seq : Mild(seq[k].stmt)
      BY <1>4
<1>7. Announces(seq)
      BY <1>6 DEF Announces, Mild
<1>8. seq \in Seq(StepsOf(call))
  <2> DEFINE T == StepsOf(call)
  <2>1. \A k \in 1..Len(seq) : seq[k] \in T
        BY <1>3, <1>4
  <2> HIDE DEF T
  <2>2. seq \in Seq(T)
        BY <1>1, <1>4, <2>1
  <2> QED BY <2>2 DEF T
<1>9. call.steps \in Seq(StepsOf(call)) /\ Announces(call.steps)
      BY <1>7, <1>8 DEF seq
<1>10. \A step \in StepsOf(call) : Lawful(step.stmt)
  <2>1. \A s : Mild(s) => Lawful(s)
        BY DEF Mild
  <2> QED BY <1>5, <2>1
<1>11. \A step \in StepsOf(call) :
          Event(step.stmt) = "SalesOrderConfirmed" => ~Does(call, {"insert"})
       BY <1>5 DEF Mild
<1>12. call.ok \in {200, 201}
       OBVIOUS
<1> QED BY <1>9, <1>10, <1>11, <1>12 DEF Sane

(* The calls of each module. *)

LEMMA SaneHR == \A call \in HRCalls \cup AttendanceCalls : Sane(call)
<1>1. Sane(Call("ListEmployees", << Must(ListEmployees) >>, 200, 500))
      BY ErrorCodes, StepFacts, QuietStatements, Quiet1 DEF ListEmployees
<1>2. Sane(Call("GetEmployee", << Must(GetEmployee) >>, 200, 404))
      BY ErrorCodes, StepFacts, QuietStatements, Quiet1 DEF GetEmployee
<1>3. Sane(Call("CreateEmployee", CreateEmployee, 201, 400))
      BY ErrorCodes, InsertFacts, UnknownColumns, Store1 DEF CreateEmployee, InsertEmployee
<1>4. Sane(Call("UpdateEmployee", UpdateEmployee, 200, 400))
      BY ErrorCodes, StepFacts, QuietStatements, Quiet2
         DEF UpdateEmployee, GetEmployee, SetEmployee
<1>5. Quiet(GetEmployeeContract)
      BY DEF GetEmployeeContract, SelectJoin, Statement, Quiet
<1>6. Sane(Call("GetEmployeeContract", << Must(GetEmployeeContract) >>, 200, 404))
      BY <1>5, ErrorCodes, StepFacts, Quiet1
<1>7. Sane(Call("CreateContract", CreateContract, 201, 400))
  <2> DEFINE b == Must(GetEmployee)
             c == Drops(Update("contracts", {"is_active"}))
             s == Insert("contracts", ContractFields)
             S == {Validates, b, c, Must(s)}
             seq == << Validates, b, c, Must(s) >>
  <2>1. CreateContract = seq
        BY Joined22 DEF CreateContract, InsertContract
  <2>2. s.kind = "insert" /\ s.table # "invoices" /\ Lawful(s)
        BY InsertFacts DEF Owner
  <2>3. Quiet(Validates.stmt) /\ Quiet(b.stmt) /\ Quiet(c.stmt)
        BY StepFacts, QuietStatements DEF Validates, GetEmployee
  <2>4. Must(s).stmt = s /\ ~Must(s).dropped
        BY StepFacts
  <2> HIDE DEF b, c, s
  <2>5. seq \in Seq(S) /\ Len(seq) = 4
        OBVIOUS
  <2>6. seq[1] = Validates /\ seq[2] = b /\ seq[3] = c /\ seq[4] = Must(s)
        OBVIOUS
  <2> HIDE DEF S, seq
  <2>7. \A k \in 1..Len(seq) : k # 4 => Quiet(seq[k].stmt) /\ (k > 4 => seq[k].dropped)
        BY <2>3, <2>4, <2>5, <2>6
  <2>8. StoresAt(seq, 4)
    <3>1. /\ 4 \in 1..Len(seq) /\ ~seq[4].dropped /\ seq[4].stmt.kind = "insert"
          /\ seq[4].stmt.table # "invoices" /\ Lawful(seq[4].stmt)
          BY <2>2, <2>4, <2>5, <2>6
    <3> QED BY <2>7, <3>1 DEF StoresAt
  <2>9. 400 \in Errors
        BY ErrorCodes
  <2>10. Sane(Call("CreateContract", seq, 201, 400))
        BY ONLY <2>5, <2>8, <2>9, StoringCall
  <2> QED BY <2>1, <2>10
<1>8. Sane(Call("ListAttendance", << Must(ListAttendance) >>, 200, 500))
      BY ErrorCodes, StepFacts, QuietStatements, Quiet1 DEF ListAttendance
<1>9. Sane(Call("RecordAttendance", RecordAttendance, 201, 400))
      BY ErrorCodes, InsertFacts, Store1 DEF RecordAttendance, InsertAttendance, Owner
<1>10. Sane(Call("ListLeaveRequests", << Must(ListLeaveRequests) >>, 200, 500))
      BY ErrorCodes, StepFacts, QuietStatements, Quiet1 DEF ListLeaveRequests
<1>11. Sane(Call("CreateLeaveRequest", CreateLeaveRequest, 201, 400))
      BY ErrorCodes, InsertFacts, Store1 DEF CreateLeaveRequest, InsertLeaveRequest, Owner
<1>12. Quiet(ApproveLeave) /\ Quiet(RejectLeave)
      BY DEF ApproveLeave, RejectLeave, UpdateTo, Statement, Quiet
<1>13. Sane(Call("ApproveLeave", << Must(ApproveLeave) >>, 200, 500))
       /\ Sane(Call("RejectLeave", << Must(RejectLeave) >>, 200, 500))
      BY <1>12, ErrorCodes, StepFacts, Quiet1
<1>14. Sane(Call("ListPayrollRuns", << Must(ListPayrollRuns) >>, 200, 500))
      BY ErrorCodes, StepFacts, QuietStatements, Quiet1 DEF ListPayrollRuns
<1>15. Sane(Call("GeneratePayroll", GeneratePayroll, 201, 400))
  <2> DEFINE b == Must(ListEmployees)
             c == Drops(GetEmployeeContract)
             d == Drops(SelectJoin("contracts", {"basic_salary", "is_active"}, {"employees"}))
             s == Insert("payroll_runs", PayrollFields \cup {"created_by"})
             S == {Validates, b, c, d, Must(s)}
             seq == << Validates, b, c, d, Must(s) >>
  <2>1. GeneratePayroll = seq
        BY Joined32 DEF GeneratePayroll, InsertPayrollRun
  <2>2. s.kind = "insert" /\ s.table # "invoices" /\ Lawful(s)
        BY InsertFacts, UnknownColumns
  <2>3. Quiet(Validates.stmt) /\ Quiet(b.stmt) /\ Quiet(c.stmt) /\ Quiet(d.stmt)
        BY <1>5, StepFacts, QuietStatements DEF Validates, ListEmployees
  <2>4. Must(s).stmt = s /\ ~Must(s).dropped
        BY StepFacts
  <2> HIDE DEF b, c, d, s
  <2>5. seq \in Seq(S) /\ Len(seq) = 5
        OBVIOUS
  <2>6. seq[1] = Validates /\ seq[2] = b /\ seq[3] = c /\ seq[4] = d /\ seq[5] = Must(s)
        OBVIOUS
  <2> HIDE DEF S, seq
  <2>7. \A k \in 1..Len(seq) : k # 5 => Quiet(seq[k].stmt) /\ (k > 5 => seq[k].dropped)
        BY <2>3, <2>4, <2>5, <2>6
  <2>8. StoresAt(seq, 5)
    <3>1. /\ 5 \in 1..Len(seq) /\ ~seq[5].dropped /\ seq[5].stmt.kind = "insert"
          /\ seq[5].stmt.table # "invoices" /\ Lawful(seq[5].stmt)
          BY <2>2, <2>4, <2>5, <2>6
    <3> QED BY <2>7, <3>1 DEF StoresAt
  <2>9. 400 \in Errors
        BY ErrorCodes
  <2>10. Sane(Call("GeneratePayroll", seq, 201, 400))
        BY ONLY <2>5, <2>8, <2>9, StoringCall
  <2> QED BY <2>1, <2>10
<1>16. Sane(Call("GetHRStats", GetHRStats, 200, 500))
      BY ErrorCodes, StepFacts, QuietStatements, Quiet4 DEF GetHRStats
<1> QED BY <1>1, <1>2, <1>3, <1>4, <1>5, <1>6, <1>7, <1>8, <1>9, <1>10, <1>11, <1>12,
           <1>13, <1>14, <1>15, <1>16 DEF HRCalls, AttendanceCalls

LEMMA SanePurchases == \A call \in PurchaseCalls : Sane(call)
<1>1. Sane(Call("ListSuppliers", << Must(ListSuppliers) >>, 200, 500))
      BY ErrorCodes, StepFacts, QuietStatements, Quiet1 DEF ListSuppliers
<1>2. Sane(Call("CreateSupplier", CreateSupplier, 201, 400))
      BY ErrorCodes, InsertFacts, UnknownColumns, Store1 DEF CreateSupplier, InsertSupplier
<1>3. Sane(Call("ListPurchaseOrders", << Must(ListPurchaseOrders) >>, 200, 500))
      BY ErrorCodes, StepFacts, QuietStatements, Quiet1 DEF ListPurchaseOrders
<1>4. Sane(Call("CreatePurchaseOrder", CreatePurchaseOrder, 201, 400))
  <2> DEFINE b == Drops(Count("purchase_orders"))
             s == Insert("purchase_orders", OrderFields)
             S == {Validates, b, Must(s)}
             seq == << Validates, b, Must(s) >>
  <2>1. CreatePurchaseOrder = seq
        BY Joined12 DEF CreatePurchaseOrder, InsertPurchaseOrder
  <2>2. s.kind = "insert" /\ s.table # "invoices" /\ Lawful(s)
        BY InsertFacts, UnknownColumns
  <2>3. Quiet(Validates.stmt) /\ Quiet(b.stmt)
        BY StepFacts, QuietStatements DEF Validates
  <2>4. Must(s).stmt = s /\ ~Must(s).dropped
        BY StepFacts
  <2> HIDE DEF b, s
  <2>5. seq \in Seq(S) /\ Len(seq) = 3
        OBVIOUS
  <2>6. seq[1] = Validates /\ seq[2] = b /\ seq[3] = Must(s)
        OBVIOUS
  <2> HIDE DEF S, seq
  <2>7. \A k \in 1..Len(seq) : k # 3 => Quiet(seq[k].stmt) /\ (k > 3 => seq[k].dropped)
        BY <2>3, <2>4, <2>5, <2>6
  <2>8. StoresAt(seq, 3)
    <3>1. /\ 3 \in 1..Len(seq) /\ ~seq[3].dropped /\ seq[3].stmt.kind = "insert"
          /\ seq[3].stmt.table # "invoices" /\ Lawful(seq[3].stmt)
          BY <2>2, <2>4, <2>5, <2>6
    <3> QED BY <2>7, <3>1 DEF StoresAt
  <2>9. 400 \in Errors
        BY ErrorCodes
  <2>10. Sane(Call("CreatePurchaseOrder", seq, 201, 400))
        BY ONLY <2>5, <2>8, <2>9, StoringCall
  <2> QED BY <2>1, <2>10
<1> QED BY <1>1, <1>2, <1>3, <1>4 DEF PurchaseCalls

LEMMA SaneCrm == \A call \in LeadCalls \cup OpportunityCalls \cup ActivityCalls : Sane(call)
<1>1. Sane(Call("ListLeads", << Must(ListLeads) >>, 200, 500))
      BY ErrorCodes, StepFacts, QuietStatements, Quiet1 DEF ListLeads
<1>2. Sane(Call("GetLead", << Must(GetLead) >>, 200, 404))
      BY ErrorCodes, StepFacts, QuietStatements, Quiet1 DEF GetLead
<1>3. Sane(Call("CreateLead", CreateLead, 201, 400))
  <2> DEFINE s == InsertLead
             p == PublishEvent("LeadCreated")
             S == {Validates, Must(s), Must(p)}
             seq == << Validates, Must(s), Must(p) >>
             call == Call("CreateLead", CreateLead, 201, 400)
  <2>1. call.name = "CreateLead" /\ call.steps = seq /\ call.ok = 201 /\ call.err = 400
        BY DEF Call, CreateLead
  <2>2. s.kind = "insert" /\ s.table # "invoices" /\ Lawful(s)
        BY InsertFacts, UnknownColumns DEF InsertLead
  <2>3. p.kind = "publish" /\ ~CanFail(p)
        BY DEF PublishEvent, Statement, CanFail, IsSql
  <2>4. Mild(s) /\ Mild(p)
        BY <2>2, <2>3 DEF Mild, Event, Lawful
  <2>5. /\ Must(s).stmt = s /\ Must(p).stmt = p /\ ~Must(s).dropped
        /\ Quiet(Validates.stmt)
        BY StepFacts, QuietStatements DEF Validates
  <2>6. Mild(Validates.stmt)
        BY <2>5, QuietFacts DEF Mild
  <2> HIDE DEF s, p, call
  <2>7. seq \in Seq(S) /\ Len(seq) = 3 /\ DOMAIN seq = 1..3
        OBVIOUS
  <2>8. seq[1] = Validates /\ seq[2] = Must(s) /\ seq[3] = Must(p)
        OBVIOUS
  <2>9. \A x \in S : Mild(x.stmt)
        BY <2>4, <2>5, <2>6
  <2> HIDE DEF S, seq
  <2>10. Closes(seq)
    <3>1. Harmless(seq[3])
          BY <2>3, <2>5, <2>8 DEF Harmless
    <3>2. seq[1].stmt.kind # "insert"
          BY <2>5, <2>8 DEF Quiet
    <3>3. ASSUME NEW i \in 1..3, NEW j \in 1..3, i < j, seq[i].stmt.kind = "insert"
          PROVE  j = 3
      <4>1. i # 1
            BY <3>2, <3>3
      <4> QED BY <3>3, <4>1
    <3> QED BY <2>7, <3>1, <3>3 DEF Closes
  <2>11. Firm(call)
    <3>1. StepsOf(call) = {Validates, Must(s), Must(p)}
          BY <2>1, <2>7, <2>8 DEF StepsOf
    <3> QED BY <2>3, <2>5, <3>1 DEF Firm, Quiet
  <2>12. call.err \in Errors
         BY <2>1, ErrorCodes
  <2>13. call.name # "Register" => Closes(call.steps)
         BY <2>1, <2>10
  <2>14. call.ok = 201 /\ call # createWorkflow => Firm(call)
         BY <2>11
  <2>15. call.steps \in Seq(S) /\ (call.ok = 200 \/ call.ok = 201)
         BY <2>1, <2>7
  <2>16. Sane(call)
         BY ONLY <2>9, <2>12, <2>13, <2>14, <2>15, PlainCall
  <2> QED BY <2>16 DEF call
<1>4. Sane(Call("UpdateLead", UpdateLead, 200, 400))
      BY ErrorCodes, StepFacts, QuietStatements, Quiet2 DEF UpdateLead, GetLead, SetLead
<1>5. Sane(Call("DeleteLead", << Must(DeleteLead) >>, 200, 500))
      BY ErrorCodes, StepFacts, QuietStatements, Quiet1 DEF DeleteLead
<1>6. Sane(Call("ConvertToOpportunity", ConvertToOpportunity, 201, 400))
  <2> DEFINE a == Must(GetLead)
             d == Drops(SetLead)
             s == Insert("crm_opportunities", OpportunityFields)
             S == {a, Validates, Must(s), d}
             seq == << a, Validates, Must(s), d >>
  <2>1. ConvertToOpportunity = seq
    <3>1. << a >> \o << Validates, Must(s) >> = << a, Validates, Must(s) >>
          BY Joined12
    <3>2. << a, Validates, Must(s) >> \o << d >> = << a, Validates, Must(s), d >>
          BY Joined31
    <3>3. ConvertToOpportunity = << a >> \o << Validates, Must(s) >> \o << d >>
          BY DEF ConvertToOpportunity, CreateOpportunity, InsertOpportunity
    <3>4. ConvertToOpportunity = << a, Validates, Must(s), d >>
      <4> HIDE DEF a, d, s
      <4> QED BY <3>1, <3>2, <3>3, Zenon
    <3> QED BY <3>4
  <2>2. s.kind = "insert" /\ s.table # "invoices" /\ Lawful(s)
        BY InsertFacts, UnknownColumns
  <2>3. Quiet(a.stmt) /\ Quiet(Validates.stmt) /\ Quiet(d.stmt)
        BY StepFacts, QuietStatements DEF Validates, GetLead, SetLead
  <2>4. Must(s).stmt = s /\ ~Must(s).dropped /\ d.dropped
        BY StepFacts
  <2> HIDE DEF a, d, s
  <2>5. seq \in Seq(S) /\ Len(seq) = 4
        OBVIOUS
  <2>6. seq[1] = a /\ seq[2] = Validates /\ seq[3] = Must(s) /\ seq[4] = d
        OBVIOUS
  <2> HIDE DEF S, seq
  <2>7. \A k \in 1..Len(seq) : k # 3 => Quiet(seq[k].stmt) /\ (k > 3 => seq[k].dropped)
        BY <2>3, <2>4, <2>5, <2>6
  <2>8. StoresAt(seq, 3)
    <3>1. /\ 3 \in 1..Len(seq) /\ ~seq[3].dropped /\ seq[3].stmt.kind = "insert"
          /\ seq[3].stmt.table # "invoices" /\ Lawful(seq[3].stmt)
          BY <2>2, <2>4, <2>5, <2>6
    <3> QED BY <2>7, <3>1 DEF StoresAt
  <2>9. 400 \in Errors
        BY ErrorCodes
  <2>10. Sane(Call("ConvertToOpportunity", seq, 201, 400))
        BY ONLY <2>5, <2>8, <2>9, StoringCall
  <2> QED BY <2>1, <2>10
<1>7. Sane(Call("ListOpportunities", << Must(ListOpportunities) >>, 200, 500))
      BY ErrorCodes, StepFacts, QuietStatements, Quiet1 DEF ListOpportunities
<1>8. Sane(Call("GetOpportunity", << Must(GetOpportunity) >>, 200, 404))
      BY ErrorCodes, StepFacts, QuietStatements, Quiet1 DEF GetOpportunity
<1>9. Sane(Call("CreateOpportunity", CreateOpportunity, 201, 400))
      BY ErrorCodes, InsertFacts, UnknownColumns, Store1 DEF CreateOpportunity, InsertOpportunity
<1>10. /\ Sane(Call("UpdateOpportunity", UpdateOpportunity, 200, 400))
       /\ Sane(Call("WinOpportunity", WinOpportunity, 200, 400))
       /\ Sane(Call("LoseOpportunity", LoseOpportunity, 200, 400))
      BY ErrorCodes, StepFacts, QuietStatements, Quiet2
         DEF UpdateOpportunity, WinOpportunity, LoseOpportunity,
             GetOpportunity, SetOpportunity
<1>11. Sane(Call("ListActivities", << Must(ListActivities) >>, 200, 500))
      BY ErrorCodes, StepFacts, QuietStatements, Quiet1 DEF ListActivities
<1>12. Sane(Call("CreateActivity", CreateActivity, 201, 400))
      BY ErrorCodes, InsertFacts, UnknownColumns, Store1 DEF CreateActivity, InsertActivity
<1>13. Sane(Call("CompleteActivity", << Must(SetCompleted) >>, 200, 500))
      BY ErrorCodes, StepFacts, QuietStatements, Quiet1 DEF SetCompleted
<1>14. Sane(Call("GetPipelineStats", GetPipelineStats, 200, 500))
      BY ErrorCodes, StepFacts, QuietStatements, Quiet4 DEF GetPipelineStats
<1> QED BY <1>1, <1>2, <1>3, <1>4, <1>5, <1>6, <1>7, <1>8, <1>9, <1>10, <1>11, <1>12,
           <1>13, <1>14 DEF LeadCalls, OpportunityCalls, ActivityCalls

LEMMA SaneCatalogue == \A call \in CatalogueCalls : Sane(call)
<1>1. Sane(Call("ListProducts", SelectProducts, 200, 500))
      BY ErrorCodes, StepFacts, QuietStatements, Quiet2 DEF SelectProducts
<1>2. Sane(Call("GetProduct", << Validates, Must(FindProduct) >>, 200, 404))
      BY ErrorCodes, StepFacts, QuietStatements, Quiet2 DEF Validates, FindProduct
<1>3. Sane(Call("ListVariants", << Validates, Must(ListVariants) >>, 200, 500))
      BY ErrorCodes, StepFacts, QuietStatements, Quiet2 DEF Validates, ListVariants
<1>4. Sane(Call("CreateVariant", CreateVariant, 201, 422))
      BY ErrorCodes, InsertFacts, ClosedTables, Store1 DEF CreateVariant, InsertVariant
<1>5. Sane(Call("ListCategories", << Must(ListCategories) >>, 200, 500))
      BY ErrorCodes, StepFacts, QuietStatements, Quiet1 DEF ListCategories
<1>6. Sane(Call("CreateCategory", CreateCategory, 201, 422))
      BY ErrorCodes, InsertFacts, ClosedTables, Store1 DEF CreateCategory, InsertCategory
<1>7. Sane(Call("UpdateCategory", UpdateCategory, 200, 422))
      BY ErrorCodes, StepFacts, QuietStatements, Quiet2
         DEF UpdateCategory, Validates, SetCategory
<1>8. Sane(Call("DeleteCategory", DeleteCategory, 200, 422))
      BY ErrorCodes, StepFacts, QuietStatements, Quiet2
         DEF DeleteCategory, Validates, RemoveCategory
<1> QED BY <1>1, <1>2, <1>3, <1>4, <1>5, <1>6, <1>7, <1>8 DEF CatalogueCalls

LEMMA SaneWarehouses == \A call \in WarehouseCalls : Sane(call)
<1>1. Sane(Call("ListWarehouses", << Must(ListWarehouses) >>, 200, 500))
      BY ErrorCodes, StepFacts, QuietStatements, Quiet1 DEF ListWarehouses
<1>2. Sane(Call("CreateWarehouse", CreateWarehouse, 201, 422))
      BY ErrorCodes, InsertFacts, ClosedTables, Store1 DEF CreateWarehouse, InsertWarehouse
<1>3. Sane(Call("UpdateWarehouse", UpdateWarehouse, 200, 422))
      BY ErrorCodes, StepFacts, QuietStatements, Quiet2
         DEF UpdateWarehouse, Validates, SetWarehouse
<1>4. Sane(Call("DeleteWarehouse", DeleteWarehouse, 200, 422))
      BY ErrorCodes, StepFacts, QuietStatements, Quiet2
         DEF DeleteWarehouse, Validates, RemoveWarehouse
<1>5. Sane(Call("ListLocations", << Must(ListLocations) >>, 200, 500))
      BY ErrorCodes, StepFacts, QuietStatements, Quiet1 DEF ListLocations
<1>6. Sane(Call("CreateLocation", CreateLocation, 201, 422))
      BY ErrorCodes, InsertFacts, ClosedTables, Store1 DEF CreateLocation, InsertLocation
<1>7. Sane(Call("ListStockMoves", ListStockMoves, 200, 500))
      BY ErrorCodes, StepFacts, QuietStatements, Quiet2 DEF ListStockMoves
<1>8. Sane(Call("ListBatches", << Validates, Must(ListBatches) >>, 200, 500))
      BY ErrorCodes, StepFacts, QuietStatements, Quiet2 DEF Validates, ListBatches
<1>9. Sane(Call("CreateBatch", CreateBatch, 201, 422))
  <2> DEFINE b == Must(FindProduct)
             s == InsertBatch
             S == {Validates, b, Must(s)}
             seq == << Validates, b, Validates, Must(s) >>
  <2>1. CreateBatch = seq
        BY DEF CreateBatch
  <2>2. s.kind = "insert" /\ s.table # "invoices" /\ Lawful(s)
        BY InsertFacts, ClosedTables DEF InsertBatch
  <2>3. Quiet(Validates.stmt) /\ Quiet(b.stmt)
        BY StepFacts, QuietStatements DEF Validates, FindProduct
  <2>4. Must(s).stmt = s /\ ~Must(s).dropped
        BY StepFacts
  <2> HIDE DEF b, s
  <2>5. seq \in Seq(S) /\ Len(seq) = 4
        OBVIOUS
  <2>6. seq[1] = Validates /\ seq[2] = b /\ seq[3] = Validates /\ seq[4] = Must(s)
        OBVIOUS
  <2> HIDE DEF S, seq
  <2>7. \A k \in 1..Len(seq) : k # 4 => Quiet(seq[k].stmt) /\ (k > 4 => seq[k].dropped)
        BY <2>3, <2>4, <2>5, <2>6
  <2>8. StoresAt(seq, 4)
    <3>1. /\ 4 \in 1..Len(seq) /\ ~seq[4].dropped /\ seq[4].stmt.kind = "insert"
          /\ seq[4].stmt.table # "invoices" /\ Lawful(seq[4].stmt)
          BY <2>2, <2>4, <2>5, <2>6
    <3> QED BY <2>7, <3>1 DEF StoresAt
  <2>9. 422 \in Errors
        BY ErrorCodes
  <2>10. Sane(Call("CreateBatch", seq, 201, 422))
        BY ONLY <2>5, <2>8, <2>9, StoringCall
  <2> QED BY <2>1, <2>10
<1> QED BY <1>1, <1>2, <1>3, <1>4, <1>5, <1>6, <1>7, <1>8, <1>9 DEF WarehouseCalls

LEMMA SaneAccounting == \A call \in AccountingCalls : Sane(call)
<1>1. Sane(Call("ListAccounts", << Must(ListAccounts) >>, 200, 500))
      BY ErrorCodes, StepFacts, QuietStatements, Quiet1 DEF ListAccounts
<1>2. Sane(Call("ListJournalEntries", << Must(ListJournalEntries) >>, 200, 500))
      BY ErrorCodes, StepFacts, QuietStatements, Quiet1 DEF ListJournalEntries
<1>3. Sane(Call("CreateJournalEntry", CreateJournalEntry, 201, 400))
  <2> DEFINE a == Drops(Count("journal_entries"))
             s == Insert("journal_entries", EntryFields)
             r == Insert("journal_lines", {"id", "journal_entry_id", "account_id",
                                           "description", "debit", "credit"})
             S == {a, Validates, Must(s), Drops(r)}
             seq == << a, Validates, Must(s), Drops(r) >>
  <2>1. CreateJournalEntry = seq
        BY DEF CreateJournalEntry
  <2>2. Quiet(a.stmt) /\ Quiet(Validates.stmt)
        BY StepFacts, QuietStatements DEF Validates
  <2>3. "journal_entries" \notin Tables /\ "journal_entries" \notin Closed
        /\ "journal_lines" \notin Closed
        BY TableNames DEF Closed, Tables
  <2>4. /\ s.kind = "insert" /\ s.table = "journal_entries" /\ Lawful(s)
        /\ r.kind = "insert" /\ r.table = "journal_lines" /\ Lawful(r)
        BY <2>3, InsertFacts
  <2>5. ~Executable(s) /\ IsSql(s) /\ Event(s) = "" /\ Event(r) = ""
        BY <2>3, <2>4 DEF Executable, IsSql, Event
  <2>6. Must(s).stmt = s /\ ~Must(s).dropped /\ Drops(r).stmt = r /\ Drops(r).dropped
        BY StepFacts
  <2> HIDE DEF a, s, r
  <2>7. seq \in Seq(S) /\ Len(seq) = 4 /\ DOMAIN seq = 1..4
        OBVIOUS
  <2>8. seq[1] = a /\ seq[2] = Validates /\ seq[3] = Must(s) /\ seq[4] = Drops(r)
        OBVIOUS
  <2>9. \A x \in S : Mild(x.stmt)
        BY <2>2, <2>4, <2>5, <2>6, QuietFacts DEF Mild
  <2> HIDE DEF S, seq
  <2>10. Closes(seq)
    <3>1. seq[1].stmt.kind # "insert" /\ seq[2].stmt.kind # "insert"
          BY <2>2, <2>8 DEF Quiet
    <3>2. Harmless(seq[4])
          BY <2>6, <2>8 DEF Harmless
    <3>3. ASSUME NEW i \in 1..4, NEW j \in 1..4, i < j, seq[i].stmt.kind = "insert"
          PROVE  j = 4
          BY <3>1, <3>3
    <3> QED BY <2>7, <3>2, <3>3 DEF Closes
  <2> DEFINE call == Call("CreateJournalEntry", seq, 201, 400)
  <2>11. call.steps = seq /\ call.ok = 201 /\ call.err = 400 /\ 400 \in Errors
         BY ErrorCodes DEF Call
  <2> HIDE DEF call
  <2>12. Must(s) \in StepsOf(call)
         BY <2>7, <2>8, <2>11 DEF StepsOf
  <2>13. Firm(call)
         BY <2>5, <2>6, <2>12 DEF Firm
  <2>14. Sane(call)
         BY <2>7, <2>9, <2>10, <2>11, <2>13, PlainCall
  <2> QED BY <2>1, <2>14 DEF call
<1>4. Quiet(PostJournalEntry)
      BY DEF PostJournalEntry, UpdateTo, Statement, Quiet
<1>5. Sane(Call("PostJournalEntry", << Must(PostJournalEntry) >>, 200, 400))
      BY <1>4, ErrorCodes, StepFacts, Quiet1
<1> QED BY <1>1, <1>2, <1>3, <1>5 DEF AccountingCalls

LEMMA SaneReports == \A call \in ReportCalls : Sane(call)
<1>1. \A t, cols, joined : /\ Quiet(Drops(Select(t, cols)).stmt)
                           /\ Quiet(Drops(SelectJoin(t, cols, joined)).stmt)
                           /\ Quiet(Drops(Count(t)).stmt)
                           /\ Quiet(Drops(Malformed).stmt)
                           /\ Quiet(Must(Check).stmt)
      BY StepFacts, QuietStatements
<1>2. 500 \in Errors /\ 403 \in Errors
      BY ErrorCodes
<1>3. Sane(dashboardHandler)
  <2> DEFINE a == Must(Check)
             b == Drops(Select("invoices", {"tenant_id", "total", "state", "invoice_date"}))
             c == Drops(Select("sales_orders", {"tenant_id", "state", "order_date"}))
             d == Drops(Select("invoices", {"tenant_id", "state"}))
             e == Drops(Count("customers"))
             f == Drops(Select("employees", {"tenant_id", "is_active"}))
             g == Drops(Select("crm_opportunities", {"tenant_id", "stage"}))
             h == Drops(SelectJoin("products", {"tenant_id", "reorder_point"},
                                   {"stock_moves"}))
             S == {a, b, c, d, e, f, g, h}
             seq == << a, b, c, d, e, f, g, h >>
  <2>1. dashboardHandler = Call("dashboardHandler", seq, 200, 403)
        BY DEF dashboardHandler
  <2>2. /\ Quiet(a.stmt) /\ Quiet(b.stmt) /\ Quiet(c.stmt) /\ Quiet(d.stmt)
        /\ Quiet(e.stmt) /\ Quiet(f.stmt) /\ Quiet(g.stmt) /\ Quiet(h.stmt)
        BY <1>1
  <2> HIDE DEF a, b, c, d, e, f, g, h
  <2>3. seq \in Seq(S)
        OBVIOUS
  <2>4. AllQuiet(S)
        BY <2>2 DEF AllQuiet
  <2> HIDE DEF S, seq
  <2>5. Sane(Call("dashboardHandler", seq, 200, 403))
        BY <1>2, <2>3, <2>4, QuietCall
  <2> QED BY <2>1, <2>5
<1>4. Quiet(Ordered.stmt) /\ Quiet(Invoiced.stmt) /\ Quiet(InvoicedAs.stmt)
      /\ Quiet(JournalSum.stmt)
      BY <1>1 DEF Ordered, Invoiced, InvoicedAs, JournalSum
<1>5. Sane(salesSummaryReport)
      BY <1>2, <1>4, Quiet4 DEF salesSummaryReport, Reads
<1>6. Sane(revenueByMonthReport)
      BY <1>2, <1>4, Quiet2 DEF revenueByMonthReport, Reads
<1>7. Sane(topProductsReport)
      BY <1>1, <1>2, Quiet1 DEF topProductsReport, Reads
<1>8. Sane(topCustomersReport)
      BY <1>1, <1>2, Quiet1 DEF topCustomersReport, Reads
<1>9. Sane(inventoryValuationReport)
      BY <1>1, <1>2, Quiet1 DEF inventoryValuationReport, Reads
<1>10. Sane(arAgingReport)
      BY <1>1, <1>2, Quiet1 DEF arAgingReport, Reads
<1>11. Sane(apAgingReport)
      BY <1>1, <1>2, Quiet0 DEF apAgingReport, Reads
<1>12. Sane(payrollSummaryReport)
      BY <1>1, <1>2, Quiet1 DEF payrollSummaryReport, Reads
<1>13. Sane(crmPipelineReport)
      BY <1>1, <1>2, Quiet1 DEF crmPipelineReport, Reads
<1>14. Sane(profitLossReport)
      BY <1>2, <1>4, Quiet3 DEF profitLossReport, Reads
<1>15. Sane(expenseByCategoryReport)
      BY <1>2, <1>4, Quiet1 DEF expenseByCategoryReport, Reads
<1>16. Sane(stockMovementsReport)
      BY <1>1, <1>2, Quiet1 DEF stockMovementsReport, Reads
<1> QED BY <1>3, <1>5, <1>6, <1>7, <1>8, <1>9, <1>10, <1>11, <1>12, <1>13, <1>14, <1>15,
           <1>16 DEF ReportCalls


LEMMA Asked ==
    ASSUME NEW topic \in processAIQuestion
    PROVE  Sane(Call("aiAsk", << Validates >> \o topic, 200, 400))
<1> DEFINE A == InvoicedAs
           B == Drops(Select("employees", {"tenant_id", "is_active"}))
           C == Drops(Select("invoices", {"tenant_id", "state", "total"}))
           D == Drops(SelectJoin("products", {"tenant_id", "min_stock"}, {"stock_moves"}))
           E == Drops(Count("leads"))
           F == Drops(Select("opportunities", {"tenant_id", "stage", "expected_revenue"}))
           S == {Validates, A, B, C, D, E, F}
<1>1. processAIQuestion = {<< A >>, << B >>, << C >>, << D >>, << E, F >>, << >>}
      BY Zenon DEF processAIQuestion
<1>2. /\ Quiet(Validates.stmt) /\ Quiet(A.stmt) /\ Quiet(B.stmt) /\ Quiet(C.stmt)
      /\ Quiet(D.stmt) /\ Quiet(E.stmt) /\ Quiet(F.stmt)
      BY StepFacts, QuietStatements DEF Validates, InvoicedAs
<1> HIDE DEF A, B, C, D, E, F
<1>3. AllQuiet(S)
      BY <1>2 DEF AllQuiet
<1>4. topic \in Seq(S) /\ << Validates >> \in Seq(S)
  <2>1. /\ << A >> \in Seq(S) /\ << B >> \in Seq(S) /\ << C >> \in Seq(S)
        /\ << D >> \in Seq(S) /\ << E, F >> \in Seq(S) /\ << >> \in Seq(S)
        OBVIOUS
  <2>2. << Validates >> \in Seq(S)
        OBVIOUS
  <2> HIDE DEF S
  <2> QED BY <1>1, <2>1, <2>2
<1> HIDE DEF S
<1>5. << Validates >> \o topic \in Seq(S)
      BY <1>4, ConcatProperties
<1>6. 400 \in Errors
      BY ErrorCodes
<1> QED BY <1>3, <1>5, <1>6, QuietCall

LEMMA SaneDesk == \A call \in DeskCalls : Sane(call)
<1>1. \A t, cols : /\ Quiet(Drops(Select(t, cols)).stmt)
                   /\ Quiet(Drops(Get(t, cols)).stmt)
                   /\ Quiet(Drops(Update(t, cols)).stmt)
                   /\ Quiet(Drops(Delete(t)).stmt)
                   /\ Quiet(Drops(Count(t)).stmt)
                   /\ Quiet(Drops(Malformed).stmt)
      BY StepFacts, QuietStatements
<1>2. 500 \in Errors /\ 400 \in Errors /\ Quiet(Validates.stmt)
      BY ErrorCodes, StepFacts, QuietStatements DEF Validates
<1>3. Sane(getSettings)
      BY <1>1, <1>2, Quiet1 DEF getSettings, Reads
<1>4. Sane(updateSettings)
      BY <1>1, <1>2, Quiet2 DEF updateSettings
<1>5. Sane(listUsers)
      BY <1>1, <1>2, Quiet1 DEF listUsers, Reads
<1>6. Sane(aiInsights)
      BY <1>1, <1>2, Quiet3 DEF aiInsights, Reads
<1>7. Sane(aiAnomalies)
      BY <1>1, <1>2, Quiet1 DEF aiAnomalies, Reads
<1>8. Sane(aiForecast)
      BY <1>1, <1>2, Quiet1 DEF aiForecast, Reads
<1>9. Sane(listWorkflows)
      BY <1>1, <1>2, Quiet1 DEF listWorkflows, Reads
<1>10. Sane(updateWorkflow)
       BY <1>1, <1>2, Quiet1 DEF updateWorkflow, Reads
<1>11. Sane(deleteWorkflow)
       BY <1>1, <1>2, Quiet1 DEF deleteWorkflow, Reads
<1>12. Sane(toggleWorkflow)
       BY <1>1, <1>2, Quiet1 DEF toggleWorkflow, Reads
<1>13. Sane(listNotifications)
       BY <1>1, <1>2, Quiet1 DEF listNotifications, Reads
<1>14. Sane(markNotificationRead)
       BY <1>1, <1>2, Quiet1 DEF markNotificationRead, Reads
<1>15. Sane(markAllNotificationsRead)
       BY <1>1, <1>2, Quiet1 DEF markAllNotificationsRead, Reads
<1>16. Sane(createWorkflow)
  <2> DEFINE s == Insert("workflows", {"id", "tenant_id", "name", "trigger_event",
                    "trigger_condition", "steps", "is_active", "created_by"} \cup Stamps)
             S == {Validates, Drops(s)}
             seq == << Validates, Drops(s) >>
  <2>1. createWorkflow = Call("createWorkflow", seq, 201, 400)
        BY DEF createWorkflow
  <2>2. "workflows" \notin Closed
        BY TableNames DEF Closed
  <2>3. s.kind = "insert" /\ s.table = "workflows" /\ Lawful(s)
        BY <2>2, InsertFacts
  <2>4. Mild(s)
        BY <2>3 DEF Mild, Event
  <2>5. Mild(Validates.stmt) /\ Drops(s).stmt = s
        BY <1>2, QuietFacts, StepFacts DEF Mild
  <2> HIDE DEF s
  <2>6. seq \in Seq(S) /\ Len(seq) = 2 /\ DOMAIN seq = 1..2
        OBVIOUS
  <2>7. seq[1] = Validates /\ seq[2] = Drops(s)
        OBVIOUS
  <2>8. \A x \in S : Mild(x.stmt)
        BY <2>4, <2>5
  <2> HIDE DEF S, seq
  <2>9. Closes(seq)
    <3>1. seq[1].stmt.kind # "insert"
          BY <1>2, <2>7 DEF Quiet
    <3>2. ASSUME NEW i \in 1..2, NEW j \in 1..2, i < j
          PROVE  i = 1
          BY <3>2
    <3> QED BY <2>6, <3>1, <3>2 DEF Closes
  <2>10. /\ createWorkflow.steps = seq /\ createWorkflow.ok = 201
         /\ createWorkflow.err = 400
         BY <2>1 DEF Call
  <2> DEFINE call == createWorkflow
  <2>11. call.ok = 201 /\ call # createWorkflow => Firm(call)
         OBVIOUS
  <2>12. /\ call.steps \in Seq(S) /\ call.ok = 201 /\ call.err \in Errors
         /\ Closes(call.steps)
         BY <1>2, <2>6, <2>9, <2>10
  <2> HIDE DEF call
  <2>13. Sane(call)
         BY <2>8, <2>11, <2>12, PlainCall
  <2> QED BY <2>13 DEF call
<1>17. \A call \in aiAsk : Sane(call)
       BY Asked DEF aiAsk
<1> QED BY <1>3, <1>4, <1>5, <1>6, <1>7, <1>8, <1>9, <1>10, <1>11, <1>12, <1>13, <1>14,
           <1>15, <1>16, <1>17 DEF DeskCalls

LEMMA SaneSales == \A call \in CustomerCalls \cup OrderCalls \cup InvoiceCalls : Sane(call)
<1>1. Sane(Call("ListCustomers", << Must(ListCustomers) >>, 200, 500))
      BY ErrorCodes, StepFacts, QuietStatements, Quiet1 DEF ListCustomers
<1>2. Sane(Call("CreateCustomer", CreateCustomer, 201, 400))
      BY ErrorCodes, InsertFacts, ClosedTables, Store1 DEF CreateCustomer, InsertCustomer
<1>3. Sane(Call("GetCustomer", << Must(GetCustomer) >>, 200, 404))
      BY ErrorCodes, StepFacts, QuietStatements, Quiet1 DEF GetCustomer
<1>4. Sane(Call("ListOrders", << Must(ListSalesOrders) >>, 200, 500))
      BY ErrorCodes, StepFacts, QuietStatements, Quiet1 DEF ListSalesOrders
<1>5. ASSUME NEW state \in OrderStates
      PROVE  Sane(Call("CreateOrder", CreateSalesOrder(state), 201, 400))
  <2> DEFINE s == InsertSalesOrder(state)
  <2>1. s.kind = "insert" /\ s.table # "invoices" /\ Lawful(s)
        BY InsertAsFacts, ClosedTables DEF InsertSalesOrder, OrderStates
  <2> HIDE DEF s
  <2>2. Sane(Call("CreateOrder", << Validates, Must(s) >>, 201, 400))
        BY <2>1, ErrorCodes, Store1
  <2> QED BY <2>2 DEF s, CreateSalesOrder
<1>6. Sane(Call("ConfirmOrder", ConfirmOrder, 200, 400))
  <2> DEFINE s == UpdateOrderState("confirmed")
             p == PublishEvent("SalesOrderConfirmed")
             S == {Must(s), Must(p)}
             seq == << Must(s), Must(p) >>
             call == Call("ConfirmOrder", ConfirmOrder, 200, 400)
  <2>1. call.steps = seq /\ call.ok = 200 /\ call.err = 400
        BY DEF Call, ConfirmOrder
  <2>2. /\ s.kind = "update" /\ s.table = "sales_orders" /\ s.state = "confirmed"
        /\ p.kind = "publish"
        BY DEF UpdateOrderState, UpdateTo, PublishEvent, Statement
  <2>3. /\ Lawful(s) /\ Lawful(p) /\ Event(s) = "SalesOrderConfirmed" /\ Event(p) = ""
        /\ ~CanFail(p) /\ p = PublishEvent("SalesOrderConfirmed")
        BY <2>2 DEF Lawful, Event, CanFail, IsSql
  <2>4. Must(s).stmt = s /\ Must(p).stmt = p
        BY StepFacts
  <2> HIDE DEF s, p, call
  <2>5. seq \in Seq(S) /\ Len(seq) = 2 /\ DOMAIN seq = 1..2
        OBVIOUS
  <2>6. seq[1] = Must(s) /\ seq[2] = Must(p)
        OBVIOUS
  <2> HIDE DEF S, seq
  <2>7. StepsOf(call) = {Must(s), Must(p)}
        BY <2>1, <2>5, <2>6 DEF StepsOf
  <2>8. ~Does(call, {"insert"})
        BY <2>1, <2>2, <2>4, <2>5, <2>6 DEF Does
  <2>9. Closes(seq)
        BY <2>2, <2>4, <2>5, <2>6 DEF Closes
  <2>10. Announces(seq)
    <3>1. 2 \in DOMAIN seq /\ Harmless(seq[2]) /\ Event(seq[2].stmt) = ""
      <4>1. Harmless(seq[2])
            BY <2>3, <2>4, <2>6 DEF Harmless
      <4>2. 2 \in DOMAIN seq
            BY <2>5
      <4>3. Event(seq[2].stmt) = ""
            BY <2>3, <2>4, <2>6
      <4> QED BY <4>1, <4>2, <4>3
    <3>2. Event(seq[1].stmt) = "SalesOrderConfirmed" /\ seq[2].stmt = PublishEvent("SalesOrderConfirmed")
          BY <2>3, <2>4, <2>6
    <3>3. ASSUME NEW i \in DOMAIN seq, Event(seq[i].stmt) # ""
          PROVE  /\ \E j \in DOMAIN seq : /\ i < j
                                          /\ seq[j].stmt = PublishEvent(Event(seq[i].stmt))
                 /\ \A j \in DOMAIN seq : i < j => Harmless(seq[j])
      <4>1. i = 1
        <5>1. i = 1 \/ i = 2
              BY <2>5
        <5>2. i # 2
              BY <3>1, <3>3
        <5> QED BY <5>1, <5>2
      <4>2. \A j \in DOMAIN seq : i < j => j = 2
            BY <2>5, <4>1
      <4>3. i < 2
            BY <4>1
      <4> QED BY <3>1, <3>2, <4>1, <4>2, <4>3
    <3> QED BY <3>3 DEF Announces
  <2>11. call.steps \in Seq(StepsOf(call))
         BY <2>1, <2>5, <2>7 DEF S
  <2>12. \A step \in StepsOf(call) : Lawful(step.stmt)
         BY <2>3, <2>4, <2>7
  <2>13. call.ok \in {200, 201} /\ call.err \in Errors /\ call.ok # 201
         BY <2>1, ErrorCodes
  <2>14. Sane(call)
         BY <2>1, <2>8, <2>9, <2>10, <2>11, <2>12, <2>13 DEF Sane
  <2> QED BY <2>14 DEF call
<1>7. Quiet(UpdateOrderState("cancelled"))
      BY DEF UpdateOrderState, UpdateTo, Statement, Quiet
<1>8. Sane(Call("CancelOrder", CancelOrder, 200, 400))
      BY <1>7, ErrorCodes, StepFacts, Quiet1 DEF CancelOrder
<1>9. Sane(Call("ListInvoices", << Must(ListInvoices) >>, 200, 500))
      BY ErrorCodes, StepFacts, QuietStatements, Quiet1 DEF ListInvoices
<1>10. ASSUME NEW state \in InvoiceStates
       PROVE  Sane(Call("CreateInvoice", CreateInvoice(state), 201, 400))
  <2> DEFINE s == InsertInvoice(state)
             p == PublishEvent("InvoiceCreated")
             S == {Validates, Must(s), Must(p)}
             seq == << Validates, Must(s), Must(p) >>
             call == Call("CreateInvoice", CreateInvoice(state), 201, 400)
  <2>1. call.steps = seq /\ call.ok = 201 /\ call.err = 400
        BY DEF Call, CreateInvoice
  <2>2. s.kind = "insert" /\ s.table = "invoices" /\ Lawful(s)
        BY InsertAsFacts, ClosedTables DEF InsertInvoice, InvoiceStates
  <2>3. p.kind = "publish" /\ ~CanFail(p) /\ p = PublishEvent("InvoiceCreated")
        BY DEF PublishEvent, Statement, CanFail, IsSql
  <2>4. Lawful(p) /\ Event(s) = "InvoiceCreated" /\ Event(p) = ""
        BY <2>2, <2>3 DEF Lawful, Event
  <2>5. /\ Must(s).stmt = s /\ Must(p).stmt = p /\ ~Must(s).dropped
        /\ Quiet(Validates.stmt)
        BY StepFacts, QuietStatements DEF Validates
  <2>6. Event(Validates.stmt) = "" /\ Lawful(Validates.stmt)
        BY <2>5, QuietFacts
  <2> HIDE DEF s, p, call
  <2>7. seq \in Seq(S) /\ Len(seq) = 3 /\ DOMAIN seq = 1..3
        OBVIOUS
  <2>8. seq[1] = Validates /\ seq[2] = Must(s) /\ seq[3] = Must(p)
        OBVIOUS
  <2> HIDE DEF S, seq
  <2>9. StepsOf(call) = {Validates, Must(s), Must(p)}
        BY <2>1, <2>7, <2>8 DEF StepsOf
  <2>10. 3 \in DOMAIN seq /\ Harmless(seq[3]) /\ Event(seq[3].stmt) = ""
         /\ Event(seq[1].stmt) = "" /\ seq[1].stmt.kind # "insert"
    <3>1. 3 \in DOMAIN seq
          BY <2>7
    <3>2. Harmless(seq[3])
          BY <2>3, <2>5, <2>8 DEF Harmless
    <3>3. seq[1].stmt.kind # "insert"
          BY <2>5, <2>8 DEF Quiet
    <3>4. Event(seq[3].stmt) = "" /\ Event(seq[1].stmt) = ""
          BY <2>4, <2>5, <2>6, <2>8
    <3> QED BY <3>1, <3>2, <3>3, <3>4
  <2>11. Closes(seq)
    <3>1. ASSUME NEW i \in 1..3, NEW j \in 1..3, i < j, seq[i].stmt.kind = "insert"
          PROVE  j = 3
      <4>1. i # 1
            BY <2>10, <3>1
      <4> QED BY <3>1, <4>1
    <3> QED BY <2>7, <2>10, <3>1 DEF Closes
  <2>12. Announces(seq)
    <3>1. Event(seq[2].stmt) = "InvoiceCreated" /\ seq[3].stmt = PublishEvent("InvoiceCreated")
          BY <2>3, <2>4, <2>5, <2>8
    <3>2. ASSUME NEW i \in DOMAIN seq, Event(seq[i].stmt) # ""
          PROVE  /\ \E j \in DOMAIN seq : /\ i < j
                                          /\ seq[j].stmt = PublishEvent(Event(seq[i].stmt))
                 /\ \A j \in DOMAIN seq : i < j => Harmless(seq[j])
      <4>1. i = 2
        <5>1. i = 1 \/ i = 2 \/ i = 3
              BY <2>7
        <5>2. i # 1 /\ i # 3
              BY <2>10, <3>2
        <5> QED BY <5>1, <5>2
      <4>2. \A j \in DOMAIN seq : i < j => j = 3
            BY <2>7, <4>1
      <4>3. i < 3
            BY <4>1
      <4> QED BY <2>10, <3>1, <4>1, <4>2, <4>3
    <3> QED BY <3>2 DEF Announces
  <2>13. call.steps \in Seq(StepsOf(call))
         BY <2>1, <2>7, <2>9 DEF S
  <2>14. \A step \in StepsOf(call) : Lawful(step.stmt)
         BY <2>2, <2>4, <2>5, <2>6, <2>9
  <2>15. call.ok \in {200, 201} /\ call.err \in Errors
         BY <2>1, ErrorCodes
  <2>16. \A step \in StepsOf(call) : Event(step.stmt) # "SalesOrderConfirmed"
         BY <2>4, <2>5, <2>6, <2>9
  <2>17. Firm(call)
         BY <2>3, <2>5, <2>9 DEF Firm, Quiet
  <2>18. Sane(call)
         BY <2>1, <2>11, <2>12, <2>13, <2>14, <2>15, <2>16, <2>17 DEF Sane
  <2> QED BY <2>18 DEF call
<1> QED BY <1>1, <1>2, <1>3, <1>4, <1>5, <1>6, <1>8, <1>9, <1>10
      DEF CustomerCalls, OrderCalls, InvoiceCalls

LEMMA SaneAccounts == \A call \in AccountCalls : Sane(call)
<1> DEFINE V == Validates
           a == Must(FindBySlug)
           b == Must(FindByEmail)
           d == Drops(UpdateLastLogin)
           t == Must(InsertTenant)
           u == Must(InsertUser)
           last == << a, b, V, d, V >>
<1>1. Login = << V, a, b, V, d, V >>
      BY DEF Login
<1>2. Tail(Login) = last
      BY <1>1
<1>3. Quiet(V.stmt) /\ Quiet(a.stmt) /\ Quiet(b.stmt) /\ Quiet(d.stmt)
      BY StepFacts, QuietStatements DEF Validates, FindBySlug, FindByEmail, UpdateLastLogin
<1>4. /\ t.stmt.kind = "insert" /\ t.stmt.table = "tenants" /\ Lawful(t.stmt) /\ ~t.dropped
      /\ u.stmt.kind = "insert" /\ u.stmt.table = "users" /\ Lawful(u.stmt) /\ ~u.dropped
      BY StepFacts, InsertFacts, ClosedTables DEF InsertTenant, InsertUser
<1>5. Mild(t.stmt) /\ Mild(u.stmt)
      BY <1>4 DEF Mild, Event
<1>6. Mild(V.stmt) /\ Mild(a.stmt) /\ Mild(b.stmt) /\ Mild(d.stmt)
      BY <1>3, QuietFacts DEF Mild
<1>7. Register = << V, t, V, u >> \o Tail(Login)
      BY DEF Register
<1> HIDE DEF V, a, b, d, t, u
<1>8. Sane(Call("Login", Login, 200, 401))
  <2> DEFINE S == {V, a, b, d}
             seq == << V, a, b, V, d, V >>
  <2>1. seq \in Seq(S)
        OBVIOUS
  <2>2. AllQuiet(S)
        BY <1>3 DEF AllQuiet
  <2>3. 401 \in Errors
        BY ErrorCodes
  <2> HIDE DEF S, seq
  <2>4. Sane(Call("Login", seq, 200, 401))
        BY <2>1, <2>2, <2>3, QuietCall
  <2> QED BY <1>1, <2>4 DEF seq
<1>9. Sane(Call("Register", Register, 201, 400))
  <2> DEFINE S == {V, a, b, d, t, u}
             call == Call("Register", Register, 201, 400)
  <2>1. << V, t, V, u >> \in Seq(S) /\ last \in Seq(S)
        OBVIOUS
  <2>2. \A x \in S : Mild(x.stmt)
        BY <1>5, <1>6
  <2>3. \A x \in S : x.stmt.kind = "insert" => ~x.dropped
        BY <1>3, <1>4 DEF Quiet
  <2> HIDE DEF S, last
  <2>4. Register \in Seq(S)
        BY <1>2, <1>7, <2>1, ConcatProperties
  <2>5. /\ call.name = "Register" /\ call.steps = Register /\ call.ok = 201
        /\ call.err = 400 /\ 400 \in Errors
        BY ErrorCodes DEF Call
  <2> HIDE DEF call
  <2>6. \A step \in StepsOf(call) : step \in S
        BY <2>4, <2>5 DEF StepsOf
  <2>7. Firm(call)
        BY <2>3, <2>6 DEF Firm
  <2>8. Sane(call)
        BY <2>2, <2>4, <2>5, <2>7, PlainCall
  <2> QED BY <2>8 DEF call
<1>10. Sane(Call("Me", GetProfile, 200, 404))
       BY ErrorCodes, StepFacts, QuietStatements, Quiet1 DEF GetProfile, FindUserByID
<1> QED BY <1>8, <1>9, <1>10 DEF AccountCalls

AllCalls == UNION Desks

LEMMA EveryCallIsSane == \A call \in AllCalls : Sane(call)
BY SaneHR, SanePurchases, SaneCrm, SaneCatalogue, SaneWarehouses, SaneAccounting,
   SaneReports, SaneDesk, SaneSales, SaneAccounts DEF AllCalls, Desks

-----------------------------------------------------------------------------
(* The calls as they run. The parts of the invariant are about given values of *)
(* the variables: the desk D, the rows R, the flights F, the publications P,   *)
(* the orders S that were created as confirmed.                                *)

States == {"", "draft", "confirmed", "cancelled", "paid", "deleted"}

Contents == UNION {[I -> States] : I \in SUBSET (Fresh \cup {SeedId})}

AllSteps == UNION {StepsOf(call) : call \in AllCalls}

Flights ==
    [call : AllCalls \cup {Idle.call}, rest : Seq(AllSteps),
     id : Fresh \cup {SeedId, NoId}, new : Fresh \cup {NoId}, code : Nat]

Formed(D, R, F) ==
    /\ D \in Desks
    /\ R \in [Tables -> Contents]
    /\ F \in [Callers -> Flights]

\* No id is drawn for two calls.
Distinct(F) == \A c, d \in Callers : c # d /\ F[c].new # NoId => F[c].new # F[d].new

\* HR, CRM and purchases have stored nothing.
Bare(R) == \A t \in Closed : DOMAIN R[t] = IF t \in seedData THEN {SeedId} ELSE {}

Left(f) == {f.rest[k] : k \in DOMAIN f.rest}

\* What is certain of a statement that did not fail.
Done(f, s, R) ==
    IsSql(s) => /\ Executable(s)
                /\ s.kind = "insert" => f.new \in DOMAIN R[s.table]

Stored(f, R) == \E t \in Tables : f.new \in DOMAIN R[t]

\* As long as a call may still succeed, what it must do is done or still to come.
Honest(f, R) ==
    f.code = f.call.ok =>
       \A step \in StepsOf(f.call) : ~step.dropped => step \in Left(f) \/ Done(f, step.stmt, R)

\* Once a call has stored a row, nothing can make it fail.
Bound(f, R) ==
    f.call.name # "Register" /\ Stored(f, R) =>
       f.code = f.call.ok /\ \A step \in Left(f) : Harmless(step)

\* What is left of a call has the forms of the call as written.
Proper(f) ==
    /\ Left(f) \subseteq StepsOf(f.call)
    /\ f.call.name # "Register" => Closes(f.rest)
    /\ Announces(f.rest)
    /\ f.rest # << >> => f.code = f.call.ok
    /\ f.code = f.call.ok \/ f.code = f.call.err
    /\ (f.new # NoId) <=> Does(f.call, {"insert"})

Underway(f, D, R) == f.call \in D /\ Proper(f) /\ Honest(f, R) /\ Bound(f, R)

Followed(D, R, F) == \A c \in Callers : F[c] # Idle => Underway(F[c], D, R)

Subject(f) == IF f.new = NoId THEN f.id ELSE f.new

\* A call that will announce it, and cannot fail before.
WillTell(f, name, i) ==
    /\ Subject(f) = i
    /\ \E step \in Left(f) : step.stmt = PublishEvent(name)
    /\ \A step \in Left(f) : Harmless(step)

Told(F, P, name, i) == << name, i >> \in P \/ \E c \in Callers : WillTell(F[c], name, i)

Heard(R, S, F, P) ==
    /\ \A i \in DOMAIN R["sales_orders"] \ S :
          R["sales_orders"][i] = "confirmed" => Told(F, P, "SalesOrderConfirmed", i)
    /\ \A i \in DOMAIN R["invoices"] : Told(F, P, "InvoiceCreated", i)

OfficeIInv ==
    /\ restarts \in 0..MaxRestarts
    /\ Formed(desk, rows, flight)
    /\ Distinct(flight)
    /\ Bare(rows)
    /\ preset \subseteq Fresh \cup {SeedId}
    /\ Followed(desk, rows, flight)
    /\ restarts = 0 => Heard(rows, preset, flight, published)

LEMMA ContentFacts ==
    \A x : x \in Contents <=> /\ x \in [DOMAIN x -> States]
                              /\ DOMAIN x \subseteq Fresh \cup {SeedId}
<1>1. ASSUME NEW x \in Contents
      PROVE  x \in [DOMAIN x -> States] /\ DOMAIN x \subseteq Fresh \cup {SeedId}
  <2>1. PICK I \in SUBSET (Fresh \cup {SeedId}) : x \in [I -> States]
        BY DEF Contents
  <2>2. DOMAIN x = I
        BY <2>1
  <2> QED BY <2>1, <2>2
<1>2. ASSUME NEW x, x \in [DOMAIN x -> States], DOMAIN x \subseteq Fresh \cup {SeedId}
      PROVE  x \in Contents
      BY <1>2 DEF Contents
<1> QED BY <1>1, <1>2

LEMMA Publications ==
    ASSUME NEW name
    PROVE  PublishEvent(name).kind = "publish" /\ PublishEvent(name).state = name
BY DEF PublishEvent, Statement

LEMMA Split ==
    ASSUME NEW S, NEW seq \in Seq(S), seq # << >>
    PROVE  /\ Head(seq) = seq[1] /\ 1 \in DOMAIN seq /\ Head(seq) \in S
           /\ Tail(seq) \in Seq(S)
           /\ \A k \in DOMAIN Tail(seq) : /\ k \in Nat /\ k + 1 \in DOMAIN seq /\ 1 < k + 1
                                          /\ Tail(seq)[k] = seq[k + 1]
           /\ \A k \in DOMAIN seq : 1 < k => /\ k - 1 \in DOMAIN Tail(seq)
                                             /\ Tail(seq)[k - 1] = seq[k]
           /\ \A k \in DOMAIN seq : k \in Nat /\ (k = 1 \/ 1 < k)
<1>1. /\ Head(seq) = seq[1] /\ 1 \in DOMAIN seq /\ Head(seq) \in S
      OBVIOUS
<1>2. Tail(seq) \in Seq(S) /\ Len(Tail(seq)) = Len(seq) - 1 /\ Len(seq) \in Nat
      OBVIOUS
<1>3. DOMAIN seq = 1..Len(seq) /\ DOMAIN Tail(seq) = 1..Len(seq) - 1
      BY <1>2
<1>4. \A k \in 1..Len(seq) - 1 : Tail(seq)[k] = seq[k + 1]
      OBVIOUS
<1>5. \A k \in 1..Len(seq) - 1 : k \in Nat /\ k + 1 \in 1..Len(seq) /\ 1 < k + 1
      BY <1>2
<1>6. \A k \in 1..Len(seq) : 1 < k => k - 1 \in 1..Len(seq) - 1 /\ (k - 1) + 1 = k
      BY <1>2
<1>7. \A k \in 1..Len(seq) : k \in Nat /\ (k = 1 \/ 1 < k)
      BY <1>2
<1>8. \A k \in DOMAIN seq : 1 < k => k - 1 \in DOMAIN Tail(seq) /\ Tail(seq)[k - 1] = seq[k]
      BY <1>3, <1>4, <1>6
<1>9. \A k \in DOMAIN Tail(seq) : /\ k \in Nat /\ k + 1 \in DOMAIN seq /\ 1 < k + 1
                                  /\ Tail(seq)[k] = seq[k + 1]
      BY <1>3, <1>4, <1>5
<1>10. \A k \in DOMAIN seq : k \in Nat /\ (k = 1 \/ 1 < k)
       BY <1>3, <1>7
<1> QED BY <1>1, <1>2, <1>8, <1>9, <1>10

\* What a call's next step leaves of it.
LEMMA Shorter ==
    ASSUME NEW S, NEW seq \in Seq(S), seq # << >>
    PROVE  /\ Closes(seq) => Closes(Tail(seq))
           /\ Announces(seq) => Announces(Tail(seq))
           /\ {seq[k] : k \in DOMAIN seq} =
                 {Head(seq)} \cup {Tail(seq)[k] : k \in DOMAIN Tail(seq)}
           /\ Closes(seq) /\ Head(seq).stmt.kind = "insert" =>
                 \A k \in DOMAIN Tail(seq) : Harmless(Tail(seq)[k])
           /\ Announces(seq) /\ Event(Head(seq).stmt) # "" =>
                 /\ \E k \in DOMAIN Tail(seq) :
                       Tail(seq)[k].stmt = PublishEvent(Event(Head(seq).stmt))
                 /\ \A k \in DOMAIN Tail(seq) : Harmless(Tail(seq)[k])
<1> DEFINE h == Head(seq)
           r == Tail(seq)
<1>1. /\ h = seq[1] /\ 1 \in DOMAIN seq
      /\ \A k \in DOMAIN r : k \in Nat /\ k + 1 \in DOMAIN seq /\ 1 < k + 1 /\ r[k] = seq[k + 1]
      /\ \A k \in DOMAIN seq : 1 < k => k - 1 \in DOMAIN r /\ r[k - 1] = seq[k]
      /\ \A k \in DOMAIN seq : k \in Nat /\ (k = 1 \/ 1 < k)
      BY Split
<1> HIDE DEF h, r
<1>2. ASSUME Closes(seq)
      PROVE  Closes(r)
  <2>1. ASSUME NEW i \in DOMAIN r, NEW j \in DOMAIN r, i < j, r[i].stmt.kind = "insert"
        PROVE  Harmless(r[j])
    <3>1. i + 1 \in DOMAIN seq /\ j + 1 \in DOMAIN seq /\ r[i] = seq[i + 1] /\ r[j] = seq[j + 1]
          BY <1>1
    <3>2. i + 1 < j + 1
          BY <1>1, <2>1
    <3> QED BY <1>2, <2>1, <3>1, <3>2 DEF Closes
  <2> QED BY <2>1 DEF Closes
<1>3. ASSUME Announces(seq)
      PROVE  Announces(r)
  <2>1. ASSUME NEW i \in DOMAIN r, Event(r[i].stmt) # ""
        PROVE  /\ \E j \in DOMAIN r : i < j /\ r[j].stmt = PublishEvent(Event(r[i].stmt))
               /\ \A j \in DOMAIN r : i < j => Harmless(r[j])
    <3>1. i \in Nat /\ i + 1 \in DOMAIN seq /\ r[i] = seq[i + 1]
          BY <1>1
    <3>2. PICK j \in DOMAIN seq : i + 1 < j /\ seq[j].stmt = PublishEvent(Event(r[i].stmt))
          BY <1>3, <2>1, <3>1 DEF Announces
    <3>3. j \in Nat /\ 1 < j /\ i < j - 1
      <4>1. j \in Nat
            BY <1>1
      <4>2. i \in Nat /\ i + 1 < j
            BY <3>1, <3>2

      <4> QED BY <4>1, <4>2
    <3>4. j - 1 \in DOMAIN r /\ r[j - 1] = seq[j]
          BY <1>1, <3>3
    <3>5. ASSUME NEW k \in DOMAIN r, i < k
          PROVE  Harmless(r[k])
      <4>1. k \in Nat /\ k + 1 \in DOMAIN seq /\ r[k] = seq[k + 1]
            BY <1>1
      <4>2. i + 1 < k + 1
            BY <3>1, <3>5, <4>1
      <4> QED BY <1>3, <2>1, <3>1, <4>1, <4>2 DEF Announces
    <3> QED BY <3>2, <3>3, <3>4, <3>5
  <2> QED BY <2>1 DEF Announces
<1>4. {seq[k] : k \in DOMAIN seq} = {h} \cup {r[k] : k \in DOMAIN r}
  <2>1. \A k \in DOMAIN seq : seq[k] = h \/ \E j \in DOMAIN r : seq[k] = r[j]
        BY <1>1
  <2>2. \A j \in DOMAIN r : \E k \in DOMAIN seq : r[j] = seq[k]
        BY <1>1
  <2>3. \E k \in DOMAIN seq : h = seq[k]
        BY <1>1
  <2> QED BY <2>1, <2>2, <2>3
<1>5. ASSUME Closes(seq), h.stmt.kind = "insert"
      PROVE  \A k \in DOMAIN r : Harmless(r[k])
  <2>1. seq[1].stmt.kind = "insert" /\ 1 \in DOMAIN seq
        BY <1>1, <1>5
  <2>2. \A j \in DOMAIN seq : 1 < j => Harmless(seq[j])
        BY <1>5, <2>1 DEF Closes
  <2> QED BY <1>1, <2>2
<1>6. ASSUME Announces(seq), Event(h.stmt) # ""
      PROVE  /\ \E k \in DOMAIN r : r[k].stmt = PublishEvent(Event(h.stmt))
             /\ \A k \in DOMAIN r : Harmless(r[k])
  <2>1. PICK j \in DOMAIN seq : 1 < j /\ seq[j].stmt = PublishEvent(Event(h.stmt))
        BY <1>1, <1>6 DEF Announces
  <2>2. j - 1 \in DOMAIN r /\ r[j - 1] = seq[j]
        BY <1>1, <2>1
  <2>3. \A k \in DOMAIN seq : 1 < k => Harmless(seq[k])
        BY <1>1, <1>6 DEF Announces
  <2> QED BY <1>1, <2>1, <2>2, <2>3
<1>7. /\ Closes(seq) => Closes(r)
      /\ Announces(seq) => Announces(r)
      /\ {seq[k] : k \in DOMAIN seq} = {h} \cup {r[k] : k \in DOMAIN r}
      /\ Closes(seq) /\ h.stmt.kind = "insert" => \A k \in DOMAIN r : Harmless(r[k])
      /\ Announces(seq) /\ Event(h.stmt) # "" =>
            /\ \E k \in DOMAIN r : r[k].stmt = PublishEvent(Event(h.stmt))
            /\ \A k \in DOMAIN r : Harmless(r[k])
      BY <1>2, <1>3, <1>4, <1>5, <1>6
<1> QED BY <1>7 DEF h, r


StoresConfirmed(s) ==
    s.kind = "insert" /\ s.table = "sales_orders" /\ s.state = "confirmed"

\* A row that is there or was there stays so, a row that was not is the one the statement
\* stores, and only the confirmation of an order, or its creation, confirms one.
Grown(f, s, R) ==
    /\ \A t \in Tables : DOMAIN rows[t] \subseteq DOMAIN R[t]
    /\ \A t \in Tables : \A i \in DOMAIN R[t] :
          i \in DOMAIN rows[t] \/ (s.kind = "insert" /\ t = s.table /\ i = f.new)
    /\ s.kind = "insert" => s.table \in Tables /\ f.new \in DOMAIN R[s.table]
    /\ \A i \in DOMAIN R["sales_orders"] : R["sales_orders"][i] = "confirmed" =>
          \/ i \in DOMAIN rows["sales_orders"] /\ rows["sales_orders"][i] = "confirmed"
          \/ Event(s) = "SalesOrderConfirmed" /\ i = f.id
          \/ StoresConfirmed(s) /\ i = f.new

Marked(t, i, state) == [rows EXCEPT ![t] = [rows[t] EXCEPT ![i] = state]]

LEMMA UpdatedTable ==
    ASSUME rows \in [Tables -> Contents], NEW t \in Tables, NEW i \in DOMAIN rows[t],
           NEW state \in States, NEW R, R = Marked(t, i, state)
    PROVE  /\ R \in [Tables -> Contents]
           /\ \A u \in Tables : DOMAIN R[u] = DOMAIN rows[u]
           /\ \A u \in Tables : \A j \in DOMAIN rows[u] :
                 R[u][j] = rows[u][j] \/ (u = t /\ j = i /\ R[u][j] = state)
<1> DEFINE x == rows[t]
           y == [x EXCEPT ![i] = state]
<1>0. R = [rows EXCEPT ![t] = y]
      BY DEF Marked
<1>1. x \in Contents /\ i \in DOMAIN x
      OBVIOUS
<1> HIDE DEF x
<1>2. x \in [DOMAIN x -> States] /\ DOMAIN x \subseteq Fresh \cup {SeedId}
      BY <1>1, ContentFacts
<1>3. DOMAIN y = DOMAIN x /\ y \in [DOMAIN x -> States]
      BY <1>1, <1>2
<1>4. \A j \in DOMAIN x : (y[j] = x[j]) \/ (j = i /\ y[j] = state)
      BY <1>2
<1> HIDE DEF y
<1>5. y \in Contents
      BY <1>2, <1>3, ContentFacts
<1>6. R \in [Tables -> Contents]
      BY <1>0, <1>5
<1>7. \A u \in Tables : R[u] = IF u = t THEN y ELSE rows[u]
      BY <1>0
<1>8. \A u \in Tables : DOMAIN R[u] = DOMAIN rows[u]
      BY <1>3, <1>7 DEF x
<1>9. \A u \in Tables : \A j \in DOMAIN rows[u] :
         R[u][j] = rows[u][j] \/ (u = t /\ j = i /\ R[u][j] = state)
      BY <1>4, <1>7 DEF x
<1> QED BY <1>6, <1>8, <1>9

LEMMA InsertedRow ==
    ASSUME rows \in [Tables -> Contents], NEW t \in Tables, NEW i \in Fresh,
           NEW state \in States, NEW R,
           R = [rows EXCEPT ![t] =
                  [j \in DOMAIN @ \cup {i} |-> IF j = i THEN state ELSE @[j]]]
    PROVE  /\ R \in [Tables -> Contents]
           /\ \A u \in Tables : DOMAIN R[u] = DOMAIN rows[u] \cup (IF u = t THEN {i} ELSE {})
           /\ \A u \in Tables : \A j \in DOMAIN R[u] :
                 \/ j \in DOMAIN rows[u] /\ R[u][j] = rows[u][j]
                 \/ u = t /\ j = i /\ R[u][j] = state
<1> DEFINE x == rows[t]
           y == [j \in DOMAIN x \cup {i} |-> IF j = i THEN state ELSE x[j]]
<1>0. R = [rows EXCEPT ![t] = y]
      OBVIOUS
<1>1. x \in Contents
      OBVIOUS
<1> HIDE DEF x
<1>2. x \in [DOMAIN x -> States] /\ DOMAIN x \subseteq Fresh \cup {SeedId}
      BY <1>1, ContentFacts
<1>3. DOMAIN y = DOMAIN x \cup {i} /\ y \in [DOMAIN y -> States]
      BY <1>2
<1>4. \A j \in DOMAIN y : (j \in DOMAIN x /\ y[j] = x[j]) \/ (j = i /\ y[j] = state)
      OBVIOUS
<1> HIDE DEF y
<1>5. y \in Contents
      BY <1>2, <1>3, ContentFacts
<1>6. R \in [Tables -> Contents]
      BY <1>0, <1>5
<1>7. \A u \in Tables : R[u] = IF u = t THEN y ELSE rows[u]
      BY <1>0
<1>8. \A u \in Tables : DOMAIN R[u] = DOMAIN rows[u] \cup (IF u = t THEN {i} ELSE {})
      BY <1>3, <1>7 DEF x
<1>9. \A u \in Tables : \A j \in DOMAIN R[u] :
         \/ j \in DOMAIN rows[u] /\ R[u][j] = rows[u][j]
         \/ u = t /\ j = i /\ R[u][j] = state
      BY <1>4, <1>7 DEF x
<1> QED BY <1>6, <1>8, <1>9

LEMMA WhatIsWritten ==
    ASSUME rows \in [Tables -> Contents], Bare(rows),
           NEW f \in Flights, NEW s, Lawful(s), CanSucceed(f, s),
           s.kind = "insert" => f.new # NoId,
           NEW R, R = Written(f, s)
    PROVE  R \in [Tables -> Contents] /\ Bare(R) /\ Grown(f, s, R)
<1>1. f.new \in Fresh \cup {NoId}
      BY DEF Flights
<1>2. {"sales_orders", "employees"} \subseteq Tables /\ "employees" \in Closed \ seedData
      /\ "sales_orders" \notin Closed
      BY TableNames DEF Tables, Closed, seedData
<1>3. DOMAIN rows["employees"] = {}
      BY <1>2 DEF Bare
<1>4. Closed \subseteq Tables
      BY DEF Closed, Tables
<1>5. CASE s.kind = "insert"
  <2> DEFINE t == s.table
             i == f.new
  <2>1. Executable(s) /\ \A owner \in Owner(s.table) : Known(f, owner)
        BY <1>5 DEF CanSucceed, IsSql
  <2>2. t \in Tables
        BY <2>1 DEF Executable
  <2>3. ~Known(f, "employees")
        BY <1>3 DEF Known, Present
  <2>4. t \notin Closed /\ s.state \in {"", "draft", "confirmed", "cancelled", "paid"}
        BY <1>5, <2>1, <2>3 DEF Lawful
  <2>5. i \in Fresh /\ s.state \in States
        BY <1>1, <1>5, <2>4 DEF States
  <2>6. R = [rows EXCEPT ![t] =
               [j \in DOMAIN @ \cup {i} |-> IF j = i THEN s.state ELSE @[j]]]
        BY <1>5 DEF Written
  <2> HIDE DEF t, i
  <2>7. /\ R \in [Tables -> Contents]
        /\ \A u \in Tables : DOMAIN R[u] = DOMAIN rows[u] \cup (IF u = t THEN {i} ELSE {})
        /\ \A u \in Tables : \A j \in DOMAIN R[u] :
              \/ j \in DOMAIN rows[u] /\ R[u][j] = rows[u][j]
              \/ u = t /\ j = i /\ R[u][j] = s.state
        BY <2>2, <2>5, <2>6, InsertedRow
  <2>8. Bare(R)
        BY <1>4, <2>4, <2>7 DEF Bare, t
  <2>9. \A u \in Tables : DOMAIN rows[u] \subseteq DOMAIN R[u]
        BY <2>7
  <2>10. \A u \in Tables : \A j \in DOMAIN R[u] : j \in DOMAIN rows[u] \/ (u = t /\ j = i)
         BY <2>7
  <2>11. i \in DOMAIN R[t]
         BY <2>2, <2>7
  <2>12. \A j \in DOMAIN R["sales_orders"] : R["sales_orders"][j] = "confirmed" =>
            \/ j \in DOMAIN rows["sales_orders"] /\ rows["sales_orders"][j] = "confirmed"
            \/ StoresConfirmed(s) /\ j = i
    <3>1. "sales_orders" \in Tables
          BY TableNames DEF Tables
    <3>2. s.state = "confirmed" /\ t = "sales_orders" => StoresConfirmed(s)
          BY <1>5 DEF StoresConfirmed, t
    <3> QED BY ONLY <2>7, <3>1, <3>2
  <2> QED BY <1>5, <2>2, <2>7, <2>8, <2>9, <2>10, <2>11, <2>12 DEF Grown, t, i
<1>6. CASE s.kind \in {"update", "delete"} /\ R # rows
  <2> DEFINE t == s.table
             i == f.id
             state == IF s.kind = "update" THEN s.state ELSE "deleted"
  <2>1. Executable(s)
        BY <1>6 DEF CanSucceed, IsSql
  <2>2. t \in Tables
        BY <2>1 DEF Executable
  <2>3. i \in DOMAIN rows[t] /\ R = [rows EXCEPT ![t][i] = state]
        BY <1>6 DEF Written, Present
  <2>4. state \in States
    <3>1. CASE s.kind = "update"
      <4>1. ~(t \in Closed \ seedData)
            BY <2>3 DEF Bare
      <4>2. s.state \in {"", "confirmed", "cancelled"}
            BY <2>2, <3>1, <4>1 DEF Lawful
      <4> QED BY <3>1, <4>2 DEF States
    <3>2. CASE s.kind # "update"
          BY <3>2 DEF States
    <3> QED BY <3>1, <3>2
  <2>5. t = "sales_orders" /\ state = "confirmed" => Event(s) = "SalesOrderConfirmed"
        BY <1>6 DEF Event
  <2> HIDE DEF t, i, state
  <2>6. /\ R \in [Tables -> Contents]
        /\ \A u \in Tables : DOMAIN R[u] = DOMAIN rows[u]
        /\ \A u \in Tables : \A j \in DOMAIN rows[u] :
              R[u][j] = rows[u][j] \/ (u = t /\ j = i /\ R[u][j] = state)
    <3>1. i \in DOMAIN rows[t]
          BY <2>3
    <3>2. R = Marked(t, i, state)
          BY <2>3 DEF Marked
    <3> QED BY <2>2, <2>4, <3>1, <3>2, UpdatedTable
  <2>7. Bare(R)
        BY <1>4, <2>6 DEF Bare
  <2>8. \A j \in DOMAIN R["sales_orders"] : R["sales_orders"][j] = "confirmed" =>
            \/ j \in DOMAIN rows["sales_orders"] /\ rows["sales_orders"][j] = "confirmed"
            \/ Event(s) = "SalesOrderConfirmed" /\ j = i
        BY <1>2, <2>5, <2>6
  <2> QED BY <1>6, <2>6, <2>7, <2>8 DEF Grown, i
<1>7. CASE s.kind # "insert" /\ R = rows
      BY <1>7 DEF Grown
<1>8. s.kind \notin {"insert", "update", "delete"} => R = rows
      BY DEF Written
<1> QED BY <1>5, <1>6, <1>7, <1>8

With(f, r) == [f EXCEPT !.rest = r]

LEMMA Rested ==
    \A f \in Flights : \A r \in Seq(AllSteps) :
       /\ With(f, r) \in Flights
       /\ With(f, r).rest = r
       /\ With(f, r).call = f.call
       /\ With(f, r).id = f.id
       /\ With(f, r).new = f.new
       /\ With(f, r).code = f.code
<1> DEFINE A == AllCalls \cup {Idle.call}
           B == Seq(AllSteps)
           C == Fresh \cup {SeedId, NoId}
           E == Fresh \cup {NoId}
<1>1. SUFFICES ASSUME NEW f \in Flights, NEW r \in B
               PROVE  /\ With(f, r) \in Flights /\ With(f, r).rest = r
                      /\ With(f, r).call = f.call /\ With(f, r).id = f.id
                      /\ With(f, r).new = f.new /\ With(f, r).code = f.code
      OBVIOUS
<1> DEFINE g == [f EXCEPT !.rest = r]
<1>2. f \in [call : A, rest : B, id : C, new : E, code : Nat]
      BY DEF Flights
<1> HIDE DEF A, B, C, E
<1>3. g \in [call : A, rest : B, id : C, new : E, code : Nat]
      BY <1>2
<1>4. g.rest = r
      BY <1>2
<1>5. g.call = f.call /\ g.id = f.id /\ g.new = f.new /\ g.code = f.code
      BY <1>2
<1>6. g \in Flights
      BY <1>3 DEF Flights, A, B, C, E
<1>7. With(f, r) = g
      BY DEF With
<1> HIDE DEF g
<1> QED BY <1>4, <1>5, <1>6, <1>7

LEMMA SaneCalls ==
    ASSUME NEW D \in Desks, NEW call \in D
    PROVE  Sane(call) /\ call # Idle.call
<1>1. Sane(call)
      BY EveryCallIsSane DEF AllCalls
<1>2. Idle.call.ok = 0
      BY DEF Idle, Call
<1>3. call.ok # 0
      BY <1>1 DEF Sane
<1> QED BY <1>1, <1>2, <1>3

\* The answers "done" and "failed" are different.
LEMMA Answers ==
    ASSUME NEW call, Sane(call)
    PROVE  call.ok # call.err /\ call.ok \in Nat /\ call.err \in Nat
BY DEF Sane, Errors

\* What other calls do changes nothing for a call.
LEMMA UnderwayStays ==
    ASSUME NEW f, NEW D, NEW Q, NEW R, Underway(f, D, Q),
           \A t \in Tables : DOMAIN Q[t] \subseteq DOMAIN R[t],
           \A t \in Tables : f.new \in DOMAIN R[t] => f.new \in DOMAIN Q[t]
    PROVE  Underway(f, D, R)
<1>1. \A s : Done(f, s, Q) => Done(f, s, R)
      BY DEF Done, Executable
<1>2. Honest(f, R)
      BY <1>1 DEF Underway, Honest
<1>3. Stored(f, R) => Stored(f, Q)
      BY DEF Stored
<1>4. Bound(f, R)
      BY <1>3 DEF Underway, Bound
<1> QED BY <1>2, <1>4 DEF Underway

\* A call goes on: its next step is done, or its error is dropped.
LEMMA GoesOn ==
    ASSUME NEW f \in Flights, NEW D, NEW Q, NEW R, Underway(f, D, Q), f.rest # << >>,
           \A t \in Tables : DOMAIN Q[t] \subseteq DOMAIN R[t],
           Head(f.rest).dropped \/ Done(f, Head(f.rest).stmt, R),
           \/ Head(f.rest).stmt.kind = "insert"
           \/ \A t \in Tables : f.new \in DOMAIN R[t] => f.new \in DOMAIN Q[t]
    PROVE  /\ With(f, Tail(f.rest)) \in Flights /\ Underway(With(f, Tail(f.rest)), D, R)
           /\ Left(f) = {Head(f.rest)} \cup Left(With(f, Tail(f.rest)))
<1> DEFINE h == Head(f.rest)
           r == Tail(f.rest)
           g == With(f, r)
<1>1. f.rest \in Seq(AllSteps)
      BY DEF Flights
<1>2. r \in Seq(AllSteps)
      BY <1>1
<1>3. /\ g \in Flights /\ g.rest = r
      /\ g.call = f.call /\ g.id = f.id /\ g.new = f.new /\ g.code = f.code
  <2>1. f \in Flights
        OBVIOUS
  <2> HIDE DEF r
  <2> QED BY ONLY <1>2, <2>1, Rested
<1>4. /\ Closes(f.rest) => Closes(r)
      /\ Announces(f.rest) => Announces(r)
      /\ {f.rest[k] : k \in DOMAIN f.rest} = {h} \cup {r[k] : k \in DOMAIN r}
      /\ Closes(f.rest) /\ h.stmt.kind = "insert" => \A k \in DOMAIN r : Harmless(r[k])
      BY <1>1, Shorter
<1> HIDE DEF g, h, r
<1>5. Left(f) = {h} \cup Left(g)
      BY <1>3, <1>4 DEF Left
<1>6. Proper(f) /\ f.call \in D /\ Honest(f, Q) /\ Bound(f, Q) /\ f.code = f.call.ok
      BY DEF Underway, Proper
<1>7. Proper(g)
  <2>1. Left(g) \subseteq StepsOf(g.call)
        BY <1>3, <1>5, <1>6 DEF Proper
  <2>2. g.call.name # "Register" => Closes(g.rest)
        BY <1>3, <1>4, <1>6 DEF Proper
  <2>3. Announces(g.rest)
        BY <1>3, <1>4, <1>6 DEF Proper
  <2>4. g.code = g.call.ok
        BY <1>3, <1>6
  <2>5. (g.new # NoId) <=> Does(g.call, {"insert"})
        BY <1>3, <1>6 DEF Proper
  <2> QED BY <2>1, <2>2, <2>3, <2>4, <2>5 DEF Proper
<1>8. Honest(g, R)
  <2>1. \A s : Done(f, s, Q) => Done(g, s, R)
        BY <1>3 DEF Done, Executable
  <2>2. h.dropped \/ Done(g, h.stmt, R)
        BY <1>3 DEF Done, h
  <2>3. ASSUME NEW step \in StepsOf(g.call), ~step.dropped
        PROVE  step \in Left(g) \/ Done(g, step.stmt, R)
    <3>1. step \in Left(f) \/ Done(f, step.stmt, Q)
          BY <1>3, <1>6, <2>3 DEF Honest
    <3> QED BY <1>5, <2>1, <2>2, <2>3, <3>1
  <2> QED BY <2>3 DEF Honest
<1>9. Bound(g, R)
  <2>1. SUFFICES ASSUME g.call.name # "Register", Stored(g, R)
                 PROVE  \A step \in Left(g) : Harmless(step)
        BY <1>3, <1>6 DEF Bound
  <2>2. CASE h.stmt.kind = "insert"
    <3>1. Closes(f.rest)
          BY <1>3, <1>6, <2>1 DEF Proper
    <3> QED BY <1>3, <1>4, <2>2, <3>1 DEF Left
  <2>3. CASE h.stmt.kind # "insert"
    <3>1. Stored(f, Q)
          BY <1>3, <2>1, <2>3 DEF Stored, h
    <3>2. \A step \in Left(f) : Harmless(step)
          BY <1>3, <1>6, <2>1, <3>1 DEF Bound
    <3> QED BY <1>5, <3>2
  <2> QED BY <2>2, <2>3
<1> QED BY <1>3, <1>5, <1>6, <1>7, <1>8, <1>9 DEF Underway, g, h, r

GivenUp(f) == [f EXCEPT !.rest = << >>, !.code = f.call.err]

\* A call that fails has stored nothing, and owes no announcement.
LEMMA GivesUp ==
    ASSUME NEW f \in Flights, NEW D \in Desks, NEW R, Underway(f, D, R), f.rest # << >>,
           ~Harmless(Head(f.rest))
    PROVE  /\ GivenUp(f) \in Flights /\ GivenUp(f).new = f.new /\ Underway(GivenUp(f), D, R)
           /\ \A name, i : ~WillTell(f, name, i)
<1> DEFINE g == GivenUp(f)
<1>1. f.call \in D /\ Sane(f.call) /\ f.call.err \in Nat /\ f.call.ok # f.call.err
      BY SaneCalls, Answers DEF Underway
<1>2. f.rest \in Seq(AllSteps)
      BY DEF Flights
<1>3. Head(f.rest) \in Left(f)
      BY <1>2, Split DEF Left
<1>4. \A name, i : ~WillTell(f, name, i)
      BY <1>3 DEF WillTell
<1>5. /\ g.rest = << >> /\ g.code = f.call.err /\ g.call = f.call /\ g.id = f.id
      /\ g.new = f.new
      BY DEF Flights, GivenUp
<1>6. g \in Flights
  <2>1. << >> \in Seq(AllSteps)
        OBVIOUS
  <2> DEFINE e == [f EXCEPT !.rest = << >>]
  <2>2. e \in Flights /\ e.call = f.call
    <3>1. e = With(f, << >>)
          BY DEF With
    <3> HIDE DEF e
    <3> QED BY <2>1, <3>1, Rested
  <2>3. g = [e EXCEPT !.code = f.call.err]
        BY DEF GivenUp
  <2> HIDE DEF e, g
  <2> QED BY <1>1, <2>2, <2>3 DEF Flights
<1> HIDE DEF g
<1>7. Left(g) = {}
      BY <1>5 DEF Left
<1>8. Proper(f) /\ Bound(f, R)
      BY DEF Underway
<1>9. Proper(g)
  <2>1. Closes(g.rest) /\ Announces(g.rest)
        BY <1>5 DEF Closes, Announces
  <2>2. (g.new # NoId) <=> Does(g.call, {"insert"})
        BY <1>5, <1>8 DEF Proper, Does
  <2> QED BY <1>5, <1>7, <2>1, <2>2 DEF Proper
<1>10. Honest(g, R)
       BY <1>1, <1>5 DEF Honest
<1>11. Bound(g, R)
  <2>1. g.call.name = f.call.name /\ (Stored(g, R) => Stored(f, R))
        BY <1>5 DEF Stored
  <2>2. ~(f.call.name # "Register" /\ Stored(f, R))
        BY <1>3, <1>8 DEF Bound
  <2> QED BY <2>1, <2>2 DEF Bound
<1> QED BY <1>1, <1>4, <1>5, <1>6, <1>9, <1>10, <1>11 DEF Underway, g

Moved(F, c, g) == [F EXCEPT ![c] = g]

\* One call moves, and the rows it adds are its own.
LEMMA OneMoves ==
    ASSUME NEW F \in [Callers -> Flights], NEW c \in Callers, NEW g \in Flights,
           NEW D, NEW Q, NEW R,
           Distinct(F), Followed(D, Q, F),
           \A d \in Callers : d # c /\ g.new # NoId => F[d].new # g.new,
           g # Idle => Underway(g, D, R),
           \A t \in Tables : DOMAIN Q[t] \subseteq DOMAIN R[t],
           \A t \in Tables : \A i \in DOMAIN R[t] :
              i \in DOMAIN Q[t] \/ (i = F[c].new /\ i # NoId)
    PROVE  /\ Moved(F, c, g) \in [Callers -> Flights]
           /\ Distinct(Moved(F, c, g))
           /\ Followed(D, R, Moved(F, c, g))
<1> DEFINE G == Moved(F, c, g)
<1>1. G \in [Callers -> Flights] /\ G[c] = g /\ \A d \in Callers : d # c => G[d] = F[d]
      BY DEF Moved
<1> HIDE DEF G
<1>2. Distinct(G)
      BY <1>1 DEF Distinct
<1>3. ASSUME NEW d \in Callers, G[d] # Idle
      PROVE  Underway(G[d], D, R)
  <2>1. CASE d = c
        BY <1>1, <1>3, <2>1
  <2>2. CASE d # c
    <3>1. Underway(F[d], D, Q) /\ G[d] = F[d]
          BY <1>1, <1>3, <2>2 DEF Followed
    <3>2. \A t \in Tables : F[d].new \in DOMAIN R[t] => F[d].new \in DOMAIN Q[t]
          BY <2>2 DEF Distinct
    <3>3. Underway(F[d], D, R)
          BY <3>1, <3>2, UnderwayStays
    <3> QED BY <3>1, <3>3
  <2> QED BY <2>1, <2>2
<1>4. Followed(D, R, G)
      BY <1>3 DEF Followed
<1> QED BY <1>1, <1>2, <1>4 DEF G

\* One call moves, and what it owed it has announced or still will.
LEMMA ToldStays ==
    ASSUME NEW F \in [Callers -> Flights], NEW c \in Callers, NEW g,
           NEW P, NEW N, P \subseteq N,
           \A name, i : WillTell(F[c], name, i) => << name, i >> \in N \/ WillTell(g, name, i)
    PROVE  \A name, i : Told(F, P, name, i) => Told(Moved(F, c, g), N, name, i)
<1> DEFINE G == Moved(F, c, g)
<1>1. G[c] = g /\ \A d \in Callers : d # c => G[d] = F[d]
      BY DEF Moved
<1> HIDE DEF G
<1>2. ASSUME NEW name, NEW i, Told(F, P, name, i)
      PROVE  Told(G, N, name, i)
  <2>1. CASE << name, i >> \in P
        BY <2>1 DEF Told
  <2>2. CASE \E d \in Callers : WillTell(F[d], name, i)
    <3>1. PICK d \in Callers : WillTell(F[d], name, i)
          BY <2>2
    <3>2. CASE d = c
          BY <1>1, <3>1, <3>2 DEF Told
    <3>3. CASE d # c
      <4>1. WillTell(G[d], name, i)
            BY <1>1, <3>1, <3>3
      <4> QED BY <4>1 DEF Told
    <3> QED BY <3>2, <3>3
  <2> QED BY <1>2, <2>1, <2>2 DEF Told
<1> QED BY <1>2 DEF G

LEMMA HeardStays ==
    ASSUME NEW Q, NEW S, NEW R, NEW T, NEW F, NEW G, NEW P, NEW N, Heard(Q, S, F, P),
           \A name, i : Told(F, P, name, i) => Told(G, N, name, i),
           \A i \in DOMAIN R["sales_orders"] \ T : R["sales_orders"][i] = "confirmed" =>
              \/ /\ i \in DOMAIN Q["sales_orders"] \ S
                 /\ Q["sales_orders"][i] = "confirmed"
              \/ Told(G, N, "SalesOrderConfirmed", i),
           \A i \in DOMAIN R["invoices"] :
              i \in DOMAIN Q["invoices"] \/ Told(G, N, "InvoiceCreated", i)
    PROVE  Heard(R, T, G, N)
BY DEF Heard

LEMMA IdleFacts ==
    /\ Idle \in Flights /\ Idle.rest = << >> /\ Idle.new = NoId /\ Idle.id = NoId
    /\ \A name, i : ~WillTell(Idle, name, i)
<1>1. << >> \in Seq(AllSteps) /\ 0 \in Nat
      OBVIOUS
<1>2. Idle.rest = << >> /\ Idle.new = NoId /\ Idle.id = NoId
      BY DEF Idle
<1>3. Idle \in Flights
      BY <1>1 DEF Idle, Flights
<1>4. Left(Idle) = {}
      BY <1>2 DEF Left
<1> QED BY <1>2, <1>3, <1>4 DEF WillTell

LEMMA StartKeeps ==
    ASSUME OfficeIInv, NEW c \in Callers, Start(c)
    PROVE  OfficeIInv'
<1> USE DEF OfficeIInv, Formed
<1>1. PICK call \in desk : \E id \in Fresh \cup {SeedId, NoId} :
         \E new \in (Fresh \ Drawn) \cup {NoId} :
            /\ (new # NoId) <=> Does(call, {"insert"})
            /\ flight' = [flight EXCEPT ![c] =
                  [call |-> call, rest |-> call.steps, id |-> id, new |-> new,
                   code |-> call.ok]]
      BY DEF Start
<1>2. PICK id \in Fresh \cup {SeedId, NoId}, new \in (Fresh \ Drawn) \cup {NoId} :
            /\ (new # NoId) <=> Does(call, {"insert"})
            /\ flight' = [flight EXCEPT ![c] =
                  [call |-> call, rest |-> call.steps, id |-> id, new |-> new,
                   code |-> call.ok]]
      BY <1>1
<1>3. /\ UNCHANGED << desk, rows, published, preset, restarts >> /\ flight[c] = Idle
      BY DEF Start
<1> DEFINE g == [call |-> call, rest |-> call.steps, id |-> id, new |-> new, code |-> call.ok]
<1>4. g.call = call /\ g.rest = call.steps /\ g.new = new /\ g.code = call.ok
      OBVIOUS
<1>5. Sane(call) /\ call.ok \in Nat /\ call \in AllCalls
      BY SaneCalls, Answers DEF AllCalls
<1>6. g \in Flights
  <2>1. call.steps \in Seq(StepsOf(call)) /\ StepsOf(call) \subseteq AllSteps
        BY <1>5 DEF Sane, AllSteps
  <2>2. call.steps \in Seq(AllSteps)
    <3> DEFINE A == StepsOf(call)
               B == AllSteps
               seq == call.steps
    <3>1. seq \in Seq(A) /\ A \subseteq B
          BY <2>1
    <3> HIDE DEF A, B, seq
    <3>2. seq \in Seq(B)
          BY ONLY <3>1
    <3> QED BY <3>2 DEF B, seq
  <2> QED BY <1>5, <2>2 DEF Flights
<1>7. flight' = Moved(flight, c, g)
      BY <1>2 DEF Moved
<1>8. \A t \in Tables : DOMAIN rows[t] \subseteq Fresh \cup {SeedId}
      BY ContentFacts
<1>9. \A t \in Tables : new \notin DOMAIN rows[t]
      BY <1>8, BackOfficeAssumption DEF Drawn
<1>10. \A d \in Callers : d # c /\ new # NoId => flight[d].new # new
       BY DEF Drawn
<1>11. Left(g) = StepsOf(call)
       BY <1>4 DEF Left, StepsOf
<1>12. Proper(g)
  <2>1. g.call.name # "Register" => Closes(g.rest)
        BY <1>4, <1>5 DEF Sane
  <2>2. Announces(g.rest)
        BY <1>4, <1>5 DEF Sane
  <2>3. (g.new # NoId) <=> Does(g.call, {"insert"})
        BY <1>2, <1>4
  <2> HIDE DEF g
  <2> QED BY <1>4, <1>11, <2>1, <2>2, <2>3 DEF Proper
<1> HIDE DEF g
<1>13. Honest(g, rows)
       BY <1>4, <1>11 DEF Honest
<1>14. Bound(g, rows)
       BY <1>4, <1>9 DEF Bound, Stored
<1>15. Underway(g, desk, rows)
       BY <1>4, <1>12, <1>13, <1>14 DEF Underway
<1>16. /\ flight' \in [Callers -> Flights] /\ Distinct(flight')
       /\ Followed(desk, rows, flight')
  <2>1. \A d \in Callers : d # c /\ g.new # NoId => flight[d].new # g.new
        BY <1>4, <1>10
  <2>2. flight \in [Callers -> Flights] /\ Distinct(flight) /\ Followed(desk, rows, flight)
        OBVIOUS
  <2>3. \A t \in Tables : \A i \in DOMAIN rows[t] : i \in DOMAIN rows[t]
        OBVIOUS
  <2>4. c \in Callers
        OBVIOUS
  <2>5. /\ Moved(flight, c, g) \in [Callers -> Flights] /\ Distinct(Moved(flight, c, g))
        /\ Followed(desk, rows, Moved(flight, c, g))
        BY ONLY <1>6, <1>15, <2>1, <2>2, <2>3, <2>4, OneMoves
  <2> QED BY ONLY <1>7, <2>5
<1>17. restarts = 0 => Heard(rows, preset, flight', published)
  <2>1. \A name, i : ~WillTell(flight[c], name, i)
        BY <1>3, IdleFacts
  <2>2. \A name, i : Told(flight, published, name, i) => Told(flight', published, name, i)
    <3>1. c \in Callers /\ flight \in [Callers -> Flights]
          OBVIOUS
    <3> QED BY ONLY <1>7, <2>1, <3>1, ToldStays
  <2> QED BY <2>2, HeardStays
<1> QED BY <1>3, <1>16, <1>17

LEMMA AtWork ==
    ASSUME OfficeIInv, NEW c \in Callers, flight[c].rest # << >>
    PROVE  /\ flight[c] \in Flights /\ Underway(flight[c], desk, rows)
           /\ Sane(flight[c].call)
           /\ Head(flight[c].rest) \in StepsOf(flight[c].call)
           /\ Lawful(Head(flight[c].rest).stmt)
<1> DEFINE f == flight[c]
<1>1. f \in Flights /\ f # Idle
      BY IdleFacts DEF OfficeIInv, Formed
<1>2. Underway(f, desk, rows)
      BY <1>1 DEF OfficeIInv, Followed
<1>3. f.call \in desk /\ Proper(f)
      BY <1>2 DEF Underway
<1>4. desk \in Desks
      BY DEF OfficeIInv, Formed
<1>5. Sane(f.call)
      BY <1>3, <1>4, SaneCalls
<1>6. f.rest \in Seq(AllSteps)
      BY <1>1 DEF Flights
<1>7. Head(f.rest) \in Left(f)
      BY <1>6, Split DEF Left
<1>8. Head(f.rest) \in StepsOf(f.call)
      BY <1>3, <1>7 DEF Proper
<1>9. Lawful(Head(f.rest).stmt)
      BY <1>5, <1>8 DEF Sane
<1> QED BY <1>1, <1>2, <1>5, <1>8, <1>9

\* Who is confirmed from its creation, after a statement.
LEMMA PresetMoves ==
    ASSUME NEW f \in Flights, NEW s, s.kind = "insert" => f.new # NoId,
           preset \subseteq Fresh \cup {SeedId}, NEW T, T = PresetBy(f, s)
    PROVE  /\ T \subseteq Fresh \cup {SeedId}
           /\ StoresConfirmed(s) => f.new \in T
           /\ \A i \in preset \ T : Event(s) = "SalesOrderConfirmed" /\ i = f.id
<1>1. f.new \in Fresh \cup {NoId}
      BY DEF Flights
<1>2. CASE StoresConfirmed(s)
      BY <1>1, <1>2 DEF StoresConfirmed, PresetBy
<1>3. CASE Event(s) = "SalesOrderConfirmed" /\ ~StoresConfirmed(s)
  <2>1. s.kind = "update" /\ s.table = "sales_orders" /\ s.state = "confirmed"
        BY <1>3 DEF Event
  <2> QED BY <1>3, <2>1 DEF PresetBy
<1>4. CASE Event(s) # "SalesOrderConfirmed" /\ ~StoresConfirmed(s)
  <2>1. ~(s.kind = "update" /\ s.table = "sales_orders" /\ s.state = "confirmed")
        BY <1>4 DEF Event
  <2>2. T = preset
        BY <1>4, <2>1 DEF PresetBy, StoresConfirmed
  <2> QED BY <1>4, <2>2
<1> QED BY <1>2, <1>3, <1>4

LEMMA SucceedKeeps ==
    ASSUME OfficeIInv, NEW c \in Callers, Succeed(c)
    PROVE  OfficeIInv'
<1> DEFINE f == flight[c]
           h == Head(f.rest)
           s == h.stmt
           g == With(f, Tail(f.rest))
<1>1. /\ f.rest # << >> /\ CanSucceed(f, s) /\ rows' = Written(f, s)
      /\ published' = IF s.kind = "publish"
                      THEN published \cup {<< s.state, IF f.new = NoId THEN f.id ELSE f.new >>}
                      ELSE published
      /\ preset' = PresetBy(f, s)
      /\ flight' = Moved(flight, c, g)
      /\ desk' = desk /\ restarts' = restarts
      BY DEF Succeed, Goes, With, Moved, OfficeIInv, Formed
<1>2. /\ f \in Flights /\ Underway(f, desk, rows) /\ Sane(f.call)
      /\ h \in StepsOf(f.call) /\ Lawful(s)
      BY <1>1, AtWork
<1>3. /\ restarts \in 0..MaxRestarts /\ desk \in Desks
      /\ rows \in [Tables -> Contents] /\ flight \in [Callers -> Flights] /\ Distinct(flight)
      /\ Bare(rows) /\ preset \subseteq Fresh \cup {SeedId}
      /\ Followed(desk, rows, flight)
      /\ restarts = 0 => Heard(rows, preset, flight, published)
      BY DEF OfficeIInv, Formed
<1>4. Proper(f)
      BY <1>2 DEF Underway
<1>5. s.kind = "insert" => f.new # NoId
  <2>1. s.kind = "insert" => Does(f.call, {"insert"})
        BY <1>2 DEF Does, StepsOf
  <2> QED BY <1>4, <2>1 DEF Proper
<1>6. c \in Callers /\ f = flight[c]
      OBVIOUS
<1>7. g = With(f, Tail(f.rest))
      OBVIOUS
<1>8. f.rest \in Seq(AllSteps) /\ h = Head(f.rest)
      BY <1>2 DEF Flights
<1>9. Tail(f.rest) \in Seq(AllSteps)
      BY <1>1, <1>8
<1>10. g.new = f.new /\ g.id = f.id /\ g.rest = Tail(f.rest)
       BY ONLY <1>2, <1>9, Rested
<1> HIDE DEF f, g
<1>11. /\ Announces(f.rest) /\ Event(s) # "" =>
             /\ \E k \in DOMAIN Tail(f.rest) : Tail(f.rest)[k].stmt = PublishEvent(Event(s))
             /\ \A k \in DOMAIN Tail(f.rest) : Harmless(Tail(f.rest)[k])
       BY ONLY <1>1, <1>8, Shorter
<1> HIDE DEF h
<1>12. rows' \in [Tables -> Contents] /\ Bare(rows') /\ Grown(f, s, rows')
       BY ONLY <1>1, <1>2, <1>3, <1>5, WhatIsWritten
<1>13. h.dropped \/ Done(f, h.stmt, rows')
  <2>1. s.kind = "insert" => f.new \in DOMAIN rows'[s.table]
        BY <1>12 DEF Grown
  <2>2. IsSql(s) => Executable(s)
        BY <1>1 DEF CanSucceed
  <2> QED BY <2>1, <2>2 DEF Done
<1>14. \A t \in Tables : DOMAIN rows[t] \subseteq DOMAIN rows'[t]
       BY <1>12 DEF Grown
<1>15. \A t \in Tables : \A i \in DOMAIN rows'[t] :
          i \in DOMAIN rows[t] \/ (s.kind = "insert" /\ t = s.table /\ i = f.new)
       BY <1>12 DEF Grown
<1>16. \/ h.stmt.kind = "insert"
       \/ \A t \in Tables : f.new \in DOMAIN rows'[t] => f.new \in DOMAIN rows[t]
       BY <1>15
<1>17. g \in Flights /\ Underway(g, desk, rows') /\ Left(f) = {h} \cup Left(g)
       BY ONLY <1>1, <1>2, <1>7, <1>8, <1>13, <1>14, <1>16, GoesOn
<1>18. /\ flight' \in [Callers -> Flights] /\ Distinct(flight')
       /\ Followed(desk, rows', flight')
  <2>1. \A d \in Callers : d # c /\ g.new # NoId => flight[d].new # g.new
        BY <1>3, <1>6, <1>10 DEF Distinct
  <2>2. \A t \in Tables : \A i \in DOMAIN rows'[t] :
           i \in DOMAIN rows[t] \/ (i = flight[c].new /\ i # NoId)
        BY <1>5, <1>6, <1>15
  <2>3. /\ Moved(flight, c, g) \in [Callers -> Flights] /\ Distinct(Moved(flight, c, g))
        /\ Followed(desk, rows', Moved(flight, c, g))
        BY ONLY <1>3, <1>6, <1>14, <1>17, <2>1, <2>2, OneMoves
  <2> QED BY ONLY <1>1, <2>3
<1>19. /\ preset' \subseteq Fresh \cup {SeedId}
       /\ StoresConfirmed(s) => f.new \in preset'
       /\ \A i \in preset \ preset' : Event(s) = "SalesOrderConfirmed" /\ i = f.id
       BY ONLY <1>1, <1>2, <1>3, <1>5, PresetMoves
<1>20. ASSUME restarts = 0
       PROVE  Heard(rows', preset', flight', published')
  <2>1. published \subseteq published'
        BY <1>1
  <2>2. ASSUME NEW name, NEW i, WillTell(f, name, i)
        PROVE  << name, i >> \in published' \/ WillTell(g, name, i)
    <3>1. /\ Subject(f) = i
          /\ \E step \in Left(f) : step.stmt = PublishEvent(name)
          /\ \A step \in Left(f) : Harmless(step)
          BY <2>2 DEF WillTell
    <3>2. Subject(g) = i
          BY <1>10, <3>1 DEF Subject
    <3>3. CASE s = PublishEvent(name)
      <4>1. s.kind = "publish" /\ s.state = name
            BY <3>3, Publications
      <4> QED BY <1>1, <3>1, <4>1 DEF Subject
    <3>4. CASE s # PublishEvent(name)
      <4>1. \E step \in Left(g) : step.stmt = PublishEvent(name)
            BY <1>17, <3>1, <3>4
      <4> QED BY <1>17, <3>1, <3>2, <4>1 DEF WillTell
    <3> QED BY <3>3, <3>4
  <2>3. \A name, i : Told(flight, published, name, i) => Told(flight', published', name, i)
    <3>1. \A name, i : WillTell(flight[c], name, i) =>
             << name, i >> \in published' \/ WillTell(g, name, i)
          BY <1>6, <2>2
    <3>2. \A name, i : Told(flight, published, name, i) =>
                          Told(Moved(flight, c, g), published', name, i)
          BY ONLY <1>3, <1>6, <2>1, <3>1, ToldStays
    <3> QED BY ONLY <1>1, <3>2
  <2>4. ASSUME NEW name, Event(s) = name, name # ""
        PROVE  Told(flight', published', name, Subject(f))
    <3>1. Announces(f.rest)
          BY <1>4 DEF Proper
    <3>2. /\ \E step \in Left(g) : step.stmt = PublishEvent(name)
          /\ \A step \in Left(g) : Harmless(step)
          BY <1>10, <1>11, <2>4, <3>1 DEF Left
    <3>3. Subject(g) = Subject(f)
          BY <1>10 DEF Subject
    <3>4. WillTell(g, name, Subject(f))
          BY <3>2, <3>3 DEF WillTell
    <3>5. flight'[c] = g
          BY <1>1, <1>3 DEF Moved
    <3> QED BY <1>6, <3>4, <3>5 DEF Told
  <2>5. Event(s) = "SalesOrderConfirmed" => Subject(f) = f.id
    <3>1. Event(s) = "SalesOrderConfirmed" => ~Does(f.call, {"insert"})
          BY <1>2 DEF Sane
    <3> QED BY <1>4, <3>1 DEF Proper, Subject
  <2>6. \A i \in DOMAIN rows'["sales_orders"] \ preset' :
           rows'["sales_orders"][i] = "confirmed" =>
              \/ /\ i \in DOMAIN rows["sales_orders"] \ preset
                 /\ rows["sales_orders"][i] = "confirmed"
              \/ Told(flight', published', "SalesOrderConfirmed", i)
    <3>1. \A i \in DOMAIN rows'["sales_orders"] : rows'["sales_orders"][i] = "confirmed" =>
             \/ i \in DOMAIN rows["sales_orders"] /\ rows["sales_orders"][i] = "confirmed"
             \/ (Event(s) = "SalesOrderConfirmed" /\ i = f.id)
             \/ (StoresConfirmed(s) /\ i = f.new)
          BY <1>12 DEF Grown
    <3>2. Event(s) = "SalesOrderConfirmed" =>
             Told(flight', published', "SalesOrderConfirmed", f.id)
          BY <2>4, <2>5
    <3> QED BY ONLY <1>19, <3>1, <3>2
  <2>7. \A i \in DOMAIN rows'["invoices"] :
           i \in DOMAIN rows["invoices"] \/ Told(flight', published', "InvoiceCreated", i)
    <3>1. "invoices" \in Tables
          BY TableNames DEF Tables
    <3>2. s.kind = "insert" /\ s.table = "invoices" =>
             Told(flight', published', "InvoiceCreated", f.new)
      <4>1. SUFFICES ASSUME s.kind = "insert", s.table = "invoices"
                     PROVE  Told(flight', published', "InvoiceCreated", f.new)
            OBVIOUS
      <4>2. Event(s) = "InvoiceCreated" /\ Subject(f) = f.new
            BY <1>5, <4>1 DEF Event, Subject
      <4> QED BY <2>4, <4>2
    <3> QED BY <1>15, <3>1, <3>2
  <2>8. Heard(rows, preset, flight, published)
        BY <1>3, <1>20
  <2> QED BY ONLY <2>3, <2>6, <2>7, <2>8, HeardStays
<1> QED BY <1>1, <1>3, <1>12, <1>18, <1>19, <1>20 DEF OfficeIInv, Formed

LEMMA FailKeeps ==
    ASSUME OfficeIInv, NEW c \in Callers, Fail(c)
    PROVE  OfficeIInv'
<1> DEFINE f == flight[c]
           h == Head(f.rest)
           dropping == With(f, Tail(f.rest))
           failing == GivenUp(f)
           g == IF h.dropped THEN dropping ELSE failing
<1>1. /\ f.rest # << >> /\ CanFail(h.stmt)
      /\ desk' = desk /\ rows' = rows /\ published' = published /\ preset' = preset
      /\ restarts' = restarts
      BY DEF Fail
<1>2. /\ restarts \in 0..MaxRestarts /\ desk \in Desks
      /\ rows \in [Tables -> Contents] /\ flight \in [Callers -> Flights] /\ Distinct(flight)
      /\ Bare(rows) /\ preset \subseteq Fresh \cup {SeedId}
      /\ Followed(desk, rows, flight)
      /\ restarts = 0 => Heard(rows, preset, flight, published)
      BY DEF OfficeIInv, Formed
<1>3. flight' = Moved(flight, c, g)
  <2>1. CASE h.dropped
        BY <2>1 DEF Fail, Goes, With, Moved
  <2>2. CASE ~h.dropped
    <3>1. flight' = [flight EXCEPT ![c].rest = << >>, ![c].code = f.call.err]
          BY <2>2 DEF Fail
    <3>2. flight' = [flight EXCEPT ![c] = failing]
          BY <1>2, <3>1 DEF GivenUp
    <3> QED BY <2>2, <3>2 DEF Moved
  <2> QED BY <2>1, <2>2
<1>4. f \in Flights /\ Underway(f, desk, rows)
      BY <1>1, AtWork
<1>5. c \in Callers /\ f = flight[c]
      OBVIOUS
<1>6. f.rest \in Seq(AllSteps) /\ h = Head(f.rest)
      BY <1>4 DEF Flights
<1>7. Tail(f.rest) \in Seq(AllSteps)
      BY <1>1, <1>6
<1>8. /\ dropping = With(f, Tail(f.rest)) /\ failing = GivenUp(f)
      /\ h.dropped => g = dropping
      /\ ~h.dropped => g = failing
      OBVIOUS
<1>9. dropping.new = f.new /\ dropping.id = f.id
      BY ONLY <1>4, <1>7, Rested
<1>10. \A name : CanFail(h.stmt) => h.stmt # PublishEvent(name)
       BY Publications DEF CanFail, IsSql
<1> HIDE DEF f, h, dropping, failing, g
<1>11. \A t \in Tables : DOMAIN rows[t] \subseteq DOMAIN rows[t]
       OBVIOUS
<1>12. \A t \in Tables : f.new \in DOMAIN rows[t] => f.new \in DOMAIN rows[t]
       OBVIOUS
<1>13. /\ g \in Flights /\ g.new = f.new /\ Underway(g, desk, rows)
       /\ \A name, i : WillTell(f, name, i) => WillTell(g, name, i)
  <2>1. CASE h.dropped
    <3>1. /\ dropping \in Flights /\ Underway(dropping, desk, rows)
          /\ Left(f) = {h} \cup Left(dropping)
          BY ONLY <1>1, <1>4, <1>6, <1>8, <1>11, <1>12, <2>1, GoesOn
    <3>2. ASSUME NEW name, NEW i, WillTell(f, name, i)
          PROVE  WillTell(dropping, name, i)
      <4>1. /\ Subject(f) = i
            /\ \E step \in Left(f) : step.stmt = PublishEvent(name)
            /\ \A step \in Left(f) : Harmless(step)
            BY <3>2 DEF WillTell
      <4>2. Subject(dropping) = i
            BY <1>9, <4>1 DEF Subject
      <4>3. \E step \in Left(dropping) : step.stmt = PublishEvent(name)
            BY <1>1, <1>10, <3>1, <4>1
      <4> QED BY <3>1, <4>1, <4>2, <4>3 DEF WillTell
    <3> QED BY <1>8, <1>9, <2>1, <3>1, <3>2
  <2>2. CASE ~h.dropped
    <3>1. ~Harmless(h)
          BY <1>1, <2>2 DEF Harmless
    <3>2. /\ failing \in Flights /\ failing.new = f.new /\ Underway(failing, desk, rows)
          /\ \A name, i : ~WillTell(f, name, i)
          BY ONLY <1>1, <1>2, <1>4, <1>6, <1>8, <3>1, GivesUp
    <3> QED BY <1>8, <2>2, <3>2
  <2> QED BY <2>1, <2>2
<1>14. /\ Moved(flight, c, g) \in [Callers -> Flights] /\ Distinct(Moved(flight, c, g))
       /\ Followed(desk, rows, Moved(flight, c, g))
  <2>1. \A d \in Callers : d # c /\ g.new # NoId => flight[d].new # g.new
        BY <1>2, <1>5, <1>13 DEF Distinct
  <2>2. \A t \in Tables : \A i \in DOMAIN rows[t] : i \in DOMAIN rows[t]
        OBVIOUS
  <2> QED BY ONLY <1>2, <1>5, <1>13, <2>1, <2>2, OneMoves
<1>15. restarts = 0 => Heard(rows, preset, Moved(flight, c, g), published)
  <2>1. \A name, i : WillTell(flight[c], name, i) =>
           << name, i >> \in published \/ WillTell(g, name, i)
        BY <1>5, <1>13
  <2>2. \A name, i : Told(flight, published, name, i) =>
                        Told(Moved(flight, c, g), published, name, i)
        BY ONLY <1>2, <1>5, <2>1, ToldStays
  <2> QED BY ONLY <1>2, <2>2, HeardStays
<1> QED BY <1>1, <1>2, <1>3, <1>14, <1>15 DEF OfficeIInv, Formed

LEMMA AnswerKeeps ==
    ASSUME OfficeIInv, NEW c \in Callers, Answer(c)
    PROVE  OfficeIInv'
<1>1. /\ flight[c].rest = << >> /\ flight' = Moved(flight, c, Idle)
      /\ desk' = desk /\ rows' = rows /\ published' = published /\ preset' = preset
      /\ restarts' = restarts
      BY DEF Answer, Moved
<1>2. /\ restarts \in 0..MaxRestarts /\ desk \in Desks
      /\ rows \in [Tables -> Contents] /\ flight \in [Callers -> Flights] /\ Distinct(flight)
      /\ Bare(rows) /\ preset \subseteq Fresh \cup {SeedId}
      /\ Followed(desk, rows, flight)
      /\ restarts = 0 => Heard(rows, preset, flight, published)
      BY DEF OfficeIInv, Formed
<1>3. c \in Callers
      OBVIOUS
<1>4. \A name, i : ~WillTell(flight[c], name, i)
      BY <1>1 DEF WillTell, Left
<1>5. /\ Moved(flight, c, Idle) \in [Callers -> Flights] /\ Distinct(Moved(flight, c, Idle))
      /\ Followed(desk, rows, Moved(flight, c, Idle))
  <2>1. \A d \in Callers : d # c /\ Idle.new # NoId => flight[d].new # Idle.new
        BY IdleFacts
  <2>2. \A t \in Tables : \A i \in DOMAIN rows[t] : i \in DOMAIN rows[t]
        OBVIOUS
  <2>3. \A t \in Tables : DOMAIN rows[t] \subseteq DOMAIN rows[t]
        OBVIOUS
  <2>4. Idle \in Flights
        BY IdleFacts
  <2> QED BY ONLY <1>2, <1>3, <2>1, <2>2, <2>3, <2>4, OneMoves
<1>6. restarts = 0 => Heard(rows, preset, Moved(flight, c, Idle), published)
  <2>1. \A name, i : Told(flight, published, name, i) =>
                        Told(Moved(flight, c, Idle), published, name, i)
        BY ONLY <1>2, <1>3, <1>4, ToldStays
  <2> QED BY ONLY <1>2, <2>1, HeardStays
<1> QED BY <1>1, <1>2, <1>5, <1>6 DEF OfficeIInv, Formed

LEMMA RestartKeeps ==
    ASSUME OfficeIInv, Restart
    PROVE  OfficeIInv'
<1>1. /\ restarts < MaxRestarts /\ restarts' = restarts + 1
      /\ rows' = [t \in Tables |-> [i \in DOMAIN rows[t] |->
                    IF i = SeedId /\ rows[t][i] = "deleted" THEN "" ELSE rows[t][i]]]
      /\ flight' = [c \in Callers |-> Idle]
      /\ desk' = desk /\ preset' = preset
      BY DEF Restart, AutoMigrate
<1>2. /\ restarts \in 0..MaxRestarts /\ desk \in Desks
      /\ rows \in [Tables -> Contents] /\ Bare(rows)
      /\ preset \subseteq Fresh \cup {SeedId}
      BY DEF OfficeIInv, Formed
<1>3. restarts' \in 0..MaxRestarts /\ restarts' # 0
  <2>1. MaxRestarts \in Nat
        BY BackOfficeAssumption DEF BackOfficeAssumption
  <2>2. restarts \in 0..MaxRestarts /\ restarts < MaxRestarts /\ restarts' = restarts + 1
        BY <1>1, <1>2
  <2> QED BY ONLY <2>1, <2>2
<1>4. ASSUME NEW t \in Tables
      PROVE  rows'[t] \in Contents /\ DOMAIN rows'[t] = DOMAIN rows[t]
  <2> DEFINE x == rows[t]
             y == [i \in DOMAIN x |->
                     IF i = SeedId /\ x[i] = "deleted" THEN "" ELSE x[i]]
  <2>1. rows'[t] = y
        BY <1>1
  <2>2. x \in [DOMAIN x -> States] /\ DOMAIN x \subseteq Fresh \cup {SeedId}
    <3>1. x \in Contents
          BY <1>2
    <3> HIDE DEF x
    <3> QED BY <3>1, ContentFacts
  <2>3. "" \in States
        BY DEF States
  <2> HIDE DEF x
  <2>4. DOMAIN y = DOMAIN x /\ y \in [DOMAIN y -> States]
        BY <2>2, <2>3
  <2> HIDE DEF y
  <2>5. y \in Contents
        BY <2>2, <2>4, ContentFacts
  <2> QED BY <2>1, <2>4, <2>5 DEF x
<1>5. rows' \in [Tables -> Contents]
  <2>1. rows' = [t \in Tables |-> rows'[t]]
        BY <1>1
  <2> QED BY <1>4, <2>1
<1>6. Bare(rows')
  <2>1. Closed \subseteq Tables
        BY DEF Closed, Tables
  <2> QED BY <1>2, <1>4, <2>1 DEF Bare
<1>7. \A c \in Callers : flight'[c] = Idle
      BY <1>1
<1>8. flight' \in [Callers -> Flights]
      BY <1>1, IdleFacts
<1>9. Distinct(flight') /\ Followed(desk, rows', flight')
      BY <1>7, IdleFacts DEF Distinct, Followed
<1> QED BY <1>1, <1>2, <1>3, <1>5, <1>6, <1>8, <1>9 DEF OfficeIInv, Formed

LEMMA OfficeStarts ==
    ASSUME OfficeInit
    PROVE  OfficeIInv
<1>1. /\ desk \in Desks
      /\ rows = [t \in Tables |-> [i \in IF t \in seedData THEN {SeedId} ELSE {} |-> ""]]
      /\ flight = [c \in Callers |-> Idle]
      /\ preset = {}
      /\ restarts = 0
      BY DEF OfficeInit
<1>2. restarts \in 0..MaxRestarts
  <2>1. MaxRestarts \in Nat
        BY BackOfficeAssumption DEF BackOfficeAssumption
  <2>2. restarts = 0
        BY <1>1
  <2> QED BY ONLY <2>1, <2>2
<1>3. ASSUME NEW t \in Tables
      PROVE  /\ rows[t] \in Contents
             /\ DOMAIN rows[t] = IF t \in seedData THEN {SeedId} ELSE {}
  <2> DEFINE I == IF t \in seedData THEN {SeedId} ELSE {}
             x == [i \in I |-> ""]
  <2>1. rows[t] = x /\ I \subseteq Fresh \cup {SeedId}
        BY <1>1
  <2>2. "" \in States
        BY DEF States
  <2> HIDE DEF I
  <2>3. DOMAIN x = I /\ x \in [DOMAIN x -> States]
        BY <2>2
  <2> HIDE DEF x
  <2>4. x \in Contents
        BY <2>1, <2>3, ContentFacts
  <2> QED BY <2>1, <2>3, <2>4 DEF I
<1>4. rows \in [Tables -> Contents]
  <2>1. rows = [t \in Tables |-> rows[t]]
        BY <1>1
  <2> QED BY <1>3, <2>1
<1>5. Bare(rows)
  <2>1. Closed \subseteq Tables
        BY DEF Closed, Tables
  <2> QED BY <1>3, <2>1 DEF Bare
<1>6. \A c \in Callers : flight[c] = Idle
      BY <1>1
<1>7. flight \in [Callers -> Flights]
      BY <1>1, IdleFacts
<1>8. Distinct(flight) /\ Followed(desk, rows, flight)
      BY <1>6, IdleFacts DEF Distinct, Followed
<1>9. Heard(rows, preset, flight, published)
  <2>1. /\ "sales_orders" \in Tables /\ "invoices" \in Tables
        /\ "sales_orders" \notin seedData /\ "invoices" \notin seedData
        BY TableNames DEF Tables, seedData
  <2>2. DOMAIN rows["sales_orders"] = {} /\ DOMAIN rows["invoices"] = {}
        BY <1>3, <2>1
  <2> QED BY <2>2 DEF Heard
<1> QED BY <1>1, <1>2, <1>4, <1>5, <1>7, <1>8, <1>9 DEF OfficeIInv, Formed

LEMMA OfficeKeeps == OfficeIInv /\ [OfficeNext]_officeVars => OfficeIInv'
<1>1. ASSUME OfficeIInv, NEW c \in Callers, CallStep(c)
      PROVE  OfficeIInv'
      BY <1>1, StartKeeps, SucceedKeeps, FailKeeps, AnswerKeeps DEF CallStep
<1>2. ASSUME OfficeIInv, Restart
      PROVE  OfficeIInv'
      BY <1>2, RestartKeeps
<1>3. ASSUME OfficeIInv, UNCHANGED officeVars
      PROVE  OfficeIInv'
      BY <1>3 DEF OfficeIInv, officeVars
<1> QED BY <1>1, <1>2, <1>3 DEF OfficeNext

LEMMA OfficeSafe == OfficeSpec => []OfficeIInv
<1>1. OfficeInit => OfficeIInv
      BY OfficeStarts
<1> QED BY <1>1, OfficeKeeps, PTL DEF OfficeSpec

-----------------------------------------------------------------------------
(* What follows. *)

\* Requests and rows keep their forms, whatever the calls and however they are
\* interleaved: no statement writes a state that its table does not know (sales_repo.go:180,
\* 197, 285), and a request waits for a call of the API.
THEOREM OfficeTyped == OfficeSpec => []OfficeTypeOK
<1>1. ASSUME OfficeIInv
      PROVE  OfficeTypeOK
  <2>1. ASSUME NEW t \in Tables
        PROVE  /\ DOMAIN rows[t] \subseteq Fresh \cup {SeedId}
               /\ \A i \in DOMAIN rows[t] : rows[t][i] \in States
    <3> DEFINE x == rows[t]
    <3>1. x \in Contents
          BY <1>1 DEF OfficeIInv, Formed
    <3> HIDE DEF x
    <3>2. x \in [DOMAIN x -> States] /\ DOMAIN x \subseteq Fresh \cup {SeedId}
          BY <3>1, ContentFacts
    <3> QED BY <3>2 DEF x
  <2>2. \A c \in Callers : flight[c] = Idle \/ flight[c].call \in desk
        BY <1>1 DEF OfficeIInv, Followed, Underway
  <2>3. DOMAIN rows = Tables
        BY <1>1 DEF OfficeIInv, Formed
  <2> QED BY <1>1, <2>1, <2>2, <2>3 DEF OfficeTypeOK, OfficeIInv, Formed, States
<1> QED BY <1>1, OfficeSafe, PTL

\* HR, CRM and purchases store nothing (hr_repo.go:164, purchases_repo.go:100, 203,
\* crm_repo.go:138, 273):
\* the inserts they begin with name columns that AutoMigrate does not create, and what
\* could be executed refers to an employee, of whom there is none.
THEOREM NothingIsKept == OfficeSpec => []NoOfficeRecords
<1>1. OfficeIInv => NoOfficeRecords
      BY DEF OfficeIInv, Bare, NoOfficeRecords, Closed
<1> QED BY <1>1, OfficeSafe, PTL

\* An order that ConfirmOrder has confirmed and a stored invoice have been announced or are
\* about to be, as long as the server has not been restarted (sales_usecase.go:62-68,
\* 84-88): between the statement and the publication no error can end the call. An order
\* that its creating request declares confirmed is left out (sales_repo.go:180).
THEOREM EventsFollow == OfficeSpec => []StoredIsAnnounced
<1>1. ASSUME OfficeIInv
      PROVE  StoredIsAnnounced
  <2>1. ASSUME NEW name, NEW i, Told(flight, published, name, i)
        PROVE  << name, i >> \in published \/ Pending(name, i)
    <3>1. CASE << name, i >> \in published
          BY <3>1
    <3>2. CASE \E c \in Callers : WillTell(flight[c], name, i)
      <4>1. PICK c \in Callers : WillTell(flight[c], name, i)
            BY <3>2
      <4>2. /\ i \in {flight[c].id, flight[c].new}
            /\ \E k \in DOMAIN flight[c].rest : flight[c].rest[k].stmt = PublishEvent(name)
            BY <4>1 DEF WillTell, Subject, Left
      <4> QED BY <4>2 DEF Pending
    <3> QED BY <2>1, <3>1, <3>2 DEF Told
  <2>2. restarts = 0 => Heard(rows, preset, flight, published)
        BY <1>1 DEF OfficeIInv
  <2> QED BY <2>1, <2>2 DEF StoredIsAnnounced, Heard
<1> QED BY <1>1, OfficeSafe, PTL

LEMMA AnsweredCall ==
    ASSUME OfficeIInv, NEW c \in Callers, NEW codes, Answered(c, codes)
    PROVE  /\ Underway(flight[c], desk, rows) /\ Sane(flight[c].call)
           /\ Left(flight[c]) = {} /\ flight[c].code \in codes
<1>1. flight[c] # Idle /\ flight[c].rest = << >> /\ flight[c].code \in codes
      BY DEF Answered, Answer
<1>2. Underway(flight[c], desk, rows) /\ desk \in Desks
      BY <1>1 DEF OfficeIInv, Followed, Formed
<1>3. Sane(flight[c].call)
      BY <1>2, SaneCalls DEF Underway
<1>4. Left(flight[c]) = {}
      BY <1>1 DEF Left
<1> QED BY <1>1, <1>2, <1>3, <1>4

\* A call that answers 201 has stored its row, but for createWorkflow
\* (cmd/server/extra_handlers.go:969): the error of the insert is never dropped, or another
\* statement the call needs cannot be executed.
THEOREM CreatedMeansStored == OfficeSpec => CreatedIsStored
<1> DEFINE Stores == \A c \in Callers :
             Answered(c, {201}) /\ flight[c].call # createWorkflow =>
                \A t \in Inserts(flight[c].call) : flight[c].new \in DOMAIN rows[t]
<1>1. ASSUME OfficeIInv
      PROVE  Stores
  <2>1. SUFFICES ASSUME NEW c \in Callers, Answered(c, {201}),
                        flight[c].call # createWorkflow,
                        NEW t \in Inserts(flight[c].call)
                 PROVE  flight[c].new \in DOMAIN rows[t]
        OBVIOUS
  <2> DEFINE f == flight[c]
  <2>2. /\ Underway(f, desk, rows) /\ Sane(f.call) /\ Left(f) = {} /\ f.code = 201
        BY <1>1, <2>1, AnsweredCall
  <2>3. f.code = f.call.ok
        BY <2>2 DEF Underway, Proper, Sane, Errors
  <2>4. Firm(f.call)
        BY <2>1, <2>2, <2>3 DEF Sane
  <2>5. \A step \in StepsOf(f.call) : ~step.dropped => Done(f, step.stmt, rows)
        BY <2>2, <2>3 DEF Underway, Honest
  <2>6. PICK step \in StepsOf(f.call) : step.stmt.kind = "insert" /\ step.stmt.table = t
        BY <2>1 DEF Inserts, StepsOf
  <2>7. ~step.dropped
        BY <2>4, <2>5, <2>6 DEF Firm, Done
  <2> QED BY <2>5, <2>6, <2>7 DEF Done, IsSql
<1>2. OfficeIInv /\ [OfficeNext]_officeVars => [Stores]_officeVars
      BY <1>1
<1>3. OfficeSpec => [][Stores]_officeVars
      BY <1>2, OfficeSafe, PTL DEF OfficeSpec
<1> QED BY <1>3 DEF CreatedIsStored

\* A call that answers with an error leaves no row of its own, except that of a tenant
\* whose user Register could not create (auth_usecase.go:97-137).
THEOREM RefusedMeansNothing == OfficeSpec => RefusedLeavesNothing
<1> DEFINE Leaves == \A c \in Callers :
             Answered(c, {400, 404, 422, 500}) /\ flight[c].call.name # "Register" =>
                \A t \in Tables : flight[c].new \notin DOMAIN rows[t]
<1>1. ASSUME OfficeIInv
      PROVE  Leaves
  <2>1. SUFFICES ASSUME NEW c \in Callers, Answered(c, {400, 404, 422, 500}),
                        flight[c].call.name # "Register",
                        NEW t \in Tables, flight[c].new \in DOMAIN rows[t]
                 PROVE  FALSE
        OBVIOUS
  <2> DEFINE f == flight[c]
  <2>2. /\ Underway(f, desk, rows) /\ Sane(f.call) /\ f.code \in {400, 404, 422, 500}
        BY <1>1, <2>1, AnsweredCall
  <2>3. f.code = f.call.ok
        BY <2>1, <2>2 DEF Underway, Bound, Stored
  <2> QED BY <2>2, <2>3 DEF Sane
<1>2. OfficeIInv /\ [OfficeNext]_officeVars => [Leaves]_officeVars
      BY <1>1
<1>3. OfficeSpec => [][Leaves]_officeVars
      BY <1>2, OfficeSafe, PTL DEF OfficeSpec
<1> QED BY <1>3 DEF RefusedLeavesNothing

=============================================================================
