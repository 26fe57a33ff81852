------------------------------ MODULE BackOffice ------------------------------
(***************************************************************************)
(* GoERP: the server that runs the calls of the modules it extends, several *)
(* at a time and with no transaction around them. Each statement is a step  *)
(* of its own: the process may stop between two of them.                    *)
(***************************************************************************)
EXTENDS ErpOffice, ErpCrm, ErpReports, ErpSales, ErpInventory, Naturals

CONSTANTS
    SeedId,        \* the row that seedData put in every seeded table
    Fresh,         \* the ids the server draws; as the customer of an order, any other id
    NoId,
    Callers,       \* requests in progress at a time
    MaxRestarts    \* bound: restarts of the server

ASSUME BackOfficeAssumption ==
    /\ NoId \notin Fresh \cup {SeedId} /\ SeedId \notin Fresh
    /\ MaxRestarts \in Nat

VARIABLES
    desk,          \* the calls made in this behaviour
    rows,          \* per table, the rows it has or had and their state
    flight,        \* the call each caller waits for
    published,     \* events published so far, with the row they are about
    preset,        \* orders created as confirmed, which ConfirmOrder has not reached since
    restarts

officeVars == << desk, rows, flight, published, preset, restarts >>

\* No desk depends on rows that another one writes, save orders on customers, which
\* nobody deletes: the seeded one stands for them. Each desk is checked with itself, and
\* the empty one stands for a server that only serves products and stock.
Desks == {
    {}, HRCalls \cup AttendanceCalls, LeadCalls \cup OpportunityCalls \cup ActivityCalls,
    PurchaseCalls, AccountingCalls, ReportCalls, DeskCalls, AccountCalls,
    OrderCalls, CustomerCalls \cup InvoiceCalls, CatalogueCalls, WarehouseCalls }

seedData == {
    "tenants", "users", "warehouses", "stock_locations", "product_categories", "products",
    "stock_moves", "batches", "product_variants", "customers", "suppliers" }

Idle == [call |-> Call("", << >>, 0, 0), rest |-> << >>, id |-> NoId, new |-> NoId, code |-> 0]

OfficeInit ==
    /\ desk \in Desks
    /\ rows = [t \in Tables |-> [i \in IF t \in seedData THEN {SeedId} ELSE {} |-> ""]]
    /\ flight = [c \in Callers |-> Idle]
    /\ published = {}
    /\ preset = {}
    /\ restarts = 0

-----------------------------------------------------------------------------
(* Statements *)

Present(t, i) == i \in DOMAIN rows[t] /\ rows[t][i] # "deleted"
Known(f, t) == Present(t, f.id) \/ Present(t, f.new)

\* The rows a statement needs: the one it fetches, the one it makes a row refer to.
CanSucceed(f, s) ==
    IsSql(s) =>
        /\ Executable(s)
        /\ s.kind = "get" => Known(f, s.table)
        /\ s.kind = "insert" => \A owner \in Owner(s.table) : Known(f, owner)

\* Any statement may fail: a UNIQUE or REFERENCES the request violates, a full disk.
CanFail(s) == IsSql(s) \/ s.kind = "check"

\* An update or a delete of a row that is not there succeeds all the same.
Written(f, s) ==
    LET t == s.table IN
    CASE s.kind = "insert" ->
            [rows EXCEPT ![t] =
               [i \in DOMAIN @ \cup {f.new} |-> IF i = f.new THEN s.state ELSE @[i]]]
      [] s.kind = "update" /\ s.state # "" /\ Present(t, f.id) ->
            [rows EXCEPT ![t][f.id] = s.state]
      [] s.kind = "delete" /\ Present(t, f.id) -> [rows EXCEPT ![t][f.id] = "deleted"]
      [] OTHER -> rows

PresetBy(f, s) ==
    CASE s.kind = "insert" /\ s.table = "sales_orders" /\ s.state = "confirmed" ->
            preset \cup {f.new}
      [] s.kind = "update" /\ s.table = "sales_orders" /\ s.state = "confirmed" ->
            preset \ {f.id}
      [] OTHER -> preset

-----------------------------------------------------------------------------
(* Calls *)

Does(call, kinds) == \E k \in DOMAIN call.steps : call.steps[k].stmt.kind \in kinds

Drawn == {i \in Fresh : \/ \E t \in Tables : i \in DOMAIN rows[t]
                        \/ \E c \in Callers : flight[c].new = i}

\* id is the row named in the request, whichever table it is looked up in.
Start(c) ==
    /\ flight[c] = Idle
    /\ \E call \in desk,
          id \in Fresh \cup {SeedId, NoId},
          new \in (Fresh \ Drawn) \cup {NoId} :
        /\ (new # NoId) <=> Does(call, {"insert"})
        /\ (id # NoId) <=> Does(call, {"get", "insert", "update", "delete"})
        /\ flight' = [flight EXCEPT ![c] =
              [call |-> call, rest |-> call.steps, id |-> id, new |-> new,
               code |-> call.ok]]
    /\ UNCHANGED << desk, rows, published, preset, restarts >>

Goes(c, rest) == flight' = [flight EXCEPT ![c].rest = rest]

\* The next statement, look or publication of c's call succeeds.
Succeed(c) ==
    LET f == flight[c]  s == Head(f.rest).stmt IN
    /\ f.rest # << >>
    /\ CanSucceed(f, s)
    /\ rows' = Written(f, s)
    /\ published' = IF s.kind = "publish"
                    THEN published \cup {<< s.state, IF f.new = NoId THEN f.id ELSE f.new >>}
                    ELSE published
    /\ preset' = PresetBy(f, s)
    /\ Goes(c, Tail(f.rest))
    /\ UNCHANGED << desk, restarts >>

\* An error that the code drops lets the call go on; another one is its answer.
Fail(c) ==
    LET f == flight[c] IN
    /\ f.rest # << >>
    /\ CanFail(Head(f.rest).stmt)
    /\ IF Head(f.rest).dropped
       THEN Goes(c, Tail(f.rest))
       ELSE flight' = [flight EXCEPT ![c].rest = << >>, ![c].code = f.call.err]
    /\ UNCHANGED << desk, rows, published, preset, restarts >>

Answer(c) ==
    /\ flight[c] # Idle
    /\ flight[c].rest = << >>
    /\ flight' = [flight EXCEPT ![c] = Idle]
    /\ UNCHANGED << desk, rows, published, preset, restarts >>

\* INSERT OR IGNORE: a seeded row that was deleted is there again.
AutoMigrate ==
    rows' = [t \in Tables |-> [i \in DOMAIN rows[t] |->
                IF i = SeedId /\ rows[t][i] = "deleted" THEN "" ELSE rows[t][i]]]

Restart ==
    /\ restarts < MaxRestarts
    /\ restarts' = restarts + 1
    /\ AutoMigrate
    /\ flight' = [c \in Callers |-> Idle]
    /\ UNCHANGED << desk, published, preset >>

CallStep(c) == Start(c) \/ Succeed(c) \/ Fail(c) \/ Answer(c)

OfficeNext == (\E c \in Callers : CallStep(c)) \/ Restart

OfficeSpec == OfficeInit /\ [][OfficeNext]_officeVars

-----------------------------------------------------------------------------
(* Properties *)

\* Requests and rows are of the forms the code gives them.
OfficeTypeOK ==
    /\ desk \in Desks
    /\ DOMAIN rows = Tables
    /\ \A t \in Tables :
        /\ DOMAIN rows[t] \subseteq Fresh \cup {SeedId}
        /\ \A i \in DOMAIN rows[t] :
              rows[t][i] \in {"", "draft", "confirmed", "cancelled", "paid", "deleted"}
    /\ \A c \in Callers : flight[c] = Idle \/ flight[c].call \in desk
    /\ preset \subseteq Fresh \cup {SeedId}
    /\ restarts \in 0..MaxRestarts

Inserts(call) ==
    {call.steps[k].stmt.table :
        k \in {l \in DOMAIN call.steps : call.steps[l].stmt.kind = "insert"}}

Answered(c, codes) == Answer(c) /\ flight[c].code \in codes

\* A call answered as "created" has stored its rows, also when other calls and failures
\* come between its statements: in no call is the error of the insert that matters
\* dropped. There is no table of workflows, and createWorkflow does answer 201.
CreatedIsStored ==
    [][\A c \in Callers :
         Answered(c, {201}) /\ flight[c].call # createWorkflow =>
            \A t \in Inserts(flight[c].call) : flight[c].new \in DOMAIN rows[t]]_officeVars

\* A call answered with an error has left no row behind, although no transaction would
\* take one back: nothing that can fail comes after the insert. Register is the exception:
\* the tenant stays when its user cannot be created or logged in.
RefusedLeavesNothing ==
    [][\A c \in Callers :
         Answered(c, {400, 404, 422, 500}) /\ flight[c].call.name # "Register" =>
            \A t \in Tables : flight[c].new \notin DOMAIN rows[t]]_officeVars

\* HR, CRM and purchases store nothing, whatever is asked in whatever order: the
\* statements they begin with name columns AutoMigrate does not create, and what could
\* be executed refers to an employee that cannot exist.
NoOfficeRecords ==
    \A t \in DOMAIN OfficeTables \cup DOMAIN CrmTables :
        DOMAIN rows[t] = IF t \in seedData THEN {SeedId} ELSE {}

Pending(name, i) ==
    \E c \in Callers : /\ PublishEvent(name) \in {flight[c].rest[k].stmt : k \in DOMAIN flight[c].rest}
                       /\ i \in {flight[c].id, flight[c].new}

\* An order that ConfirmOrder has confirmed and an invoice that is stored have been
\* announced on the bus, or their call is about to, whatever other calls do to the row and
\* although the order may be confirmed twice, cancelled in between or created as confirmed:
\* only a restart between the statement and the publication loses the event. An order
\* whose creating request says that it is confirmed is confirmed without any event.
StoredIsAnnounced ==
    restarts = 0 =>
        /\ \A i \in DOMAIN rows["sales_orders"] \ preset :
              rows["sales_orders"][i] = "confirmed" =>
                 \/ << "SalesOrderConfirmed", i >> \in published
                 \/ Pending("SalesOrderConfirmed", i)
        /\ \A i \in DOMAIN rows["invoices"] :
              << "InvoiceCreated", i >> \in published \/ Pending("InvoiceCreated", i)
=============================================================================
