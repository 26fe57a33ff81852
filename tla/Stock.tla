-------------------------------- MODULE Stock ---------------------------------
(***************************************************************************)
(* GoERP: products, stock moves and reorder alerts. The stock of a product  *)
(* is not stored: it is what its moves brought to a location less what they *)
(* took from one. A move out starts a goroutine that reads the product      *)
(* again and announces a low stock; nothing restarts it after a crash.      *)
(***************************************************************************)
EXTENDS Integers, FiniteSets

CONSTANTS
    Products,
    NoProduct,
    Levels,        \* the values of min_stock_level and reorder_point
    Quantities,    \* the quantities moved
    PageSize,      \* products on the page of GetLowStockProducts
    MaxMoving,     \* bound: products there are once stock has moved
    MaxMoved,      \* bound: what may be brought, or taken, per product
    MaxChecks,     \* bound: goroutines per product
    MaxFaults      \* bound: crashes and failed reads

ASSUME StockAssumption ==
    /\ NoProduct \notin [active : BOOLEAN, tracked : BOOLEAN, min : Levels, reorder : Levels]
    /\ Levels \subseteq Nat
    /\ Quantities \subseteq Nat \ {0}
    /\ PageSize \in Nat \ {0}
    /\ MaxMoving \in Nat /\ MaxMoved \in Nat /\ MaxChecks \in Nat /\ MaxFaults \in Nat

VARIABLES
    product,       \* rows of products
    into, outOf,   \* sums of the moves done with a to_location, a from_location
    checks,        \* goroutines that have not read the product yet
    announcing,    \* goroutines that have read it as low
    owed,          \* history: a checked move made the stock low, not announced since
    faults

stockVars == << product, into, outOf, checks, announcing, owed, faults >>

Settings == [active : BOOLEAN, tracked : BOOLEAN, min : Levels, reorder : Levels]
Existing == {p \in Products : product[p] # NoProduct}
CurrentStock(p) == into[p] - outOf[p]

\* What checkReorderAlert calls low.
AtReorderPoint(p) == product[p].reorder > 0 /\ CurrentStock(p) <= product[p].reorder

StockInit ==
    /\ product \in [Products -> {NoProduct} \cup {s \in Settings : s.active}]
    /\ into \in [Products -> {0} \cup Quantities]
    /\ \A p \in Products : product[p] = NoProduct => into[p] = 0
    /\ outOf = [p \in Products |-> 0]
    /\ checks = [p \in Products |-> 0]
    /\ announcing = [p \in Products |-> 0]
    /\ owed = {}
    /\ faults = 0

-----------------------------------------------------------------------------
(* Products *)

\* Debts that remain: a stock that is no longer low need not be announced.
StillOwed(debts) ==
    {p \in debts : product'[p].reorder > 0 /\ into'[p] - outOf'[p] <= product'[p].reorder}

InsertProduct(p, s) ==
    /\ product' = [product EXCEPT ![p] = s]
    /\ UNCHANGED << into, outOf, checks, announcing, owed, faults >>

Consistent(s) == s.reorder > 0 /\ s.min > 0 => s.reorder >= s.min

Touched == {p \in Products : outOf[p] + checks[p] + announcing[p] > 0}

CreateProduct(p) ==
    /\ p \notin Existing
    /\ Touched = {} \/ Cardinality(Existing) < MaxMoving
    /\ \E s \in Settings : s.active /\ Consistent(s) /\ InsertProduct(p, s)

SetProduct(p, s) ==
    /\ product' = [product EXCEPT ![p] = s]
    /\ UNCHANGED << into, outOf, checks, announcing, faults >>
    /\ owed' = StillOwed(owed)

\* Every field is replaced by the request's; reorder and min are not compared here.
UpdateProduct(p) == p \in Existing /\ \E s \in Settings : SetProduct(p, s)

\* The row stays: its moves go on to be accepted and counted.
DeleteProduct(p) == p \in Existing /\ SetProduct(p, [product[p] EXCEPT !.active = FALSE])

-----------------------------------------------------------------------------
(* Moves; each is published too, as StockMoved, to which nobody has subscribed. *)

\* Writes the move; from and to say whether it has such a location.
InsertMove(p, q, from, to) ==
    /\ outOf' = [outOf EXCEPT ![p] = IF from THEN @ + q ELSE @]
    /\ into' = [into EXCEPT ![p] = IF to THEN @ + q ELSE @]
    /\ outOf'[p] <= MaxMoved /\ into'[p] <= MaxMoved
    /\ Cardinality(Existing) <= MaxMoving
    /\ UNCHANGED << product, announcing, faults >>

\* Mutant of StartCheck: the goroutine is forgotten.
StartNoCheck(p) ==
    /\ UNCHANGED checks
    /\ owed' = StillOwed(owed \cup IF AtReorderPoint(p) THEN {} ELSE {p})

StartCheck(p) ==
    /\ checks[p] + announcing[p] < MaxChecks
    /\ checks' = [checks EXCEPT ![p] = @ + 1]
    /\ owed' = StillOwed(owed \cup IF AtReorderPoint(p) THEN {} ELSE {p})

NoCheck(p) == UNCHANGED checks /\ owed' = StillOwed(owed)

Locations(type, from, to) ==
    /\ type = "in" => to
    /\ type \in {"out", "scrap"} => from
    /\ type = "transfer" => from /\ to

MoveTypes == {"in", "out", "transfer", "adjust", "return", "scrap"}

\* Nothing compares the quantity with the stock.
CreateStockMove(p) ==
    \E type \in MoveTypes, q \in Quantities, from, to \in BOOLEAN :
        /\ p \in Existing
        /\ Locations(type, from, to)
        /\ InsertMove(p, q, from, to)
        /\ IF type \in {"out", "scrap"} THEN StartCheck(p) ELSE NoCheck(p)

\* Without a location the move counts on neither side, and is answered all the same.
AdjustStock(p) ==
    \E q \in Quantities, negative, located \in BOOLEAN :
        /\ p \in Existing
        /\ InsertMove(p, q, negative /\ located, ~negative /\ located)
        /\ IF negative THEN StartCheck(p) ELSE NoCheck(p)

-----------------------------------------------------------------------------
(* checkReorderAlert: reads the product, then publishes StockLow. *)

CheckReads(p) ==
    /\ checks[p] > 0
    /\ checks' = [checks EXCEPT ![p] = @ - 1]
    /\ announcing' = [announcing EXCEPT ![p] = IF AtReorderPoint(p) THEN @ + 1 ELSE @]
    /\ UNCHANGED << product, into, outOf, owed, faults >>

\* Mutant of CheckPublishes: an announcement is made twice.
CheckPublishesTwice(p) ==
    /\ announcing[p] > 0
    /\ announcing' = [announcing EXCEPT ![p] = @ - 2]
    /\ owed' = owed \ {p}
    /\ UNCHANGED << product, into, outOf, checks, faults >>

CheckPublishes(p) ==
    /\ announcing[p] > 0
    /\ announcing' = [announcing EXCEPT ![p] = @ - 1]
    /\ owed' = owed \ {p}
    /\ UNCHANGED << product, into, outOf, checks, faults >>

Fault == faults < MaxFaults /\ faults' = faults + 1

\* GetProduct returns an error: the goroutine ends, and nobody is told.
CheckFails(p) ==
    /\ checks[p] > 0
    /\ Fault
    /\ checks' = [checks EXCEPT ![p] = @ - 1]
    /\ UNCHANGED << product, into, outOf, announcing, owed >>

\* The goroutines die with the process.
StockCrash ==
    /\ Fault
    /\ checks' = [p \in Products |-> 0]
    /\ announcing' = [p \in Products |-> 0]
    /\ UNCHANGED << product, into, outOf, owed >>

StockStep(p) ==
    \/ CreateProduct(p) \/ UpdateProduct(p) \/ DeleteProduct(p)
    \/ CreateStockMove(p) \/ AdjustStock(p)
    \/ CheckReads(p) \/ CheckFails(p) \/ CheckPublishes(p)

StockNext == (\E p \in Products : StockStep(p)) \/ StockCrash

StockSpec == StockInit /\ [][StockNext]_stockVars

-----------------------------------------------------------------------------
(* The queries that say which products are low *)

\* is_active and low_stock are filters of the request.
Matching(activeOnly, lowOnly) ==
    {p \in Existing :
        /\ activeOnly => product[p].active
        /\ lowOnly => /\ CurrentStock(p) <= product[p].min
                      /\ product[p].min > 0
                      /\ product[p].tracked}

\* The first page. Which products are on it depends on the time they were created.
ListProducts(activeOnly, lowOnly, size) ==
    LET found == Matching(activeOnly, lowOnly) IN
    IF Cardinality(found) <= size
    THEN {found}
    ELSE {page \in SUBSET found : Cardinality(page) = size}

\* Its answer says nothing of another page: the total it gives is that of the active
\* products, low or not.
GetLowStockProducts == ListProducts(TRUE, TRUE, PageSize)

\* The products GetInventoryStats counts in low_stock_count and in out_of_stock.
\* Mutant of LowStockCounted: a stock equal to the minimum is not low.
LowStockCountedBelow ==
    {p \in Existing :
        /\ product[p].active /\ product[p].tracked /\ product[p].min > 0
        /\ CurrentStock(p) < product[p].min}

LowStockCounted ==
    {p \in Existing :
        /\ product[p].active /\ product[p].tracked /\ product[p].min > 0
        /\ CurrentStock(p) <= product[p].min}

OutOfStockCounted ==
    {p \in Existing : product[p].active /\ product[p].tracked /\ CurrentStock(p) <= 0}

GetStockSummary ==
    [p \in {q \in Existing : product[q].active /\ product[q].tracked} |->
        [isLow |-> product[p].min > 0 /\ CurrentStock(p) <= product[p].min,
         needsReorder |-> product[p].reorder > 0 /\ CurrentStock(p) <= product[p].reorder]]

-----------------------------------------------------------------------------
(* Properties *)

\* The variables have the values the code gives them.
StockTypeOK ==
    /\ product \in [Products -> Settings \cup {NoProduct}]
    /\ into \in [Products -> Nat] /\ outOf \in [Products -> Nat]
    /\ checks \in [Products -> Nat] /\ announcing \in [Products -> Nat]
    /\ owed \subseteq Existing
    /\ faults \in Nat

\* The three queries, written apart, agree: the count of the statistics and the marks of
\* the summary name the same products, and so does the list of low products as long as
\* they fit on its page; past that it is a full page of them. A product that is out of
\* stock and has a minimum is among them, and one that owes an announcement is marked for
\* reorder in the summary it appears in.
LowStockViewsAgree ==
    /\ \A list \in GetLowStockProducts :
          /\ list \subseteq LowStockCounted
          /\ IF Cardinality(LowStockCounted) <= PageSize
             THEN list = LowStockCounted
             ELSE Cardinality(list) = PageSize
    /\ LowStockCounted = {p \in DOMAIN GetStockSummary : GetStockSummary[p].isLow}
    /\ \A p \in OutOfStockCounted : product[p].min > 0 => p \in LowStockCounted
    /\ \A p \in owed \cap DOMAIN GetStockSummary : GetStockSummary[p].needsReorder

\* A move out, a scrapping or a negative adjustment that brings the stock down to the
\* reorder point is announced, unless the stock recovers first: until then a goroutine
\* is on its way. Only a crash or an error of its read loses the announcement.
DropsAreAnnounced ==
    faults = 0 => \A p \in owed : checks[p] + announcing[p] > 0
=============================================================================
