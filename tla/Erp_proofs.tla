---------------------------- MODULE Erp_proofs ----------------------------
(***************************************************************************)
(* The whole of GoERP. No call of the API and no restart does to the stock  *)
(* what a step of Stock could not, nor does the stock do to the tables of   *)
(* the back office what a step of BackOffice could not: what each promises  *)
(* by itself, the server promises.                                          *)
(***************************************************************************)
EXTENDS Erp, Stock_proofs, BackOffice_proofs

\* The server's behaviours are, for its products, behaviours of Stock.
LEMMA ErpImplementsStock == ErpSpec => StockSpec
<1>1. ErpInit => StockInit
      BY DEF ErpInit
<1>2. ErpNext => [StockNext]_stockVars
      BY DEF ErpNext, StockNext
<1>3. UNCHANGED erpVars => UNCHANGED stockVars
      BY DEF erpVars
<1>4. [ErpNext]_erpVars => [StockNext]_stockVars
      BY <1>2, <1>3
<1> QED BY <1>1, <1>4, PTL DEF ErpSpec, StockSpec

\* They are, for its requests and tables, behaviours of BackOffice.
LEMMA ErpImplementsOffice == ErpSpec => OfficeSpec
<1>1. ErpInit => OfficeInit
      BY DEF ErpInit
<1>2. ErpNext => [OfficeNext]_officeVars
      BY DEF ErpNext, OfficeNext
<1>3. UNCHANGED erpVars => UNCHANGED officeVars
      BY DEF erpVars
<1>4. [ErpNext]_erpVars => [OfficeNext]_officeVars
      BY <1>2, <1>3
<1> QED BY <1>1, <1>4, PTL DEF ErpSpec, OfficeSpec

-----------------------------------------------------------------------------
(* The stock *)

\* A move out, a scrapping or a negative adjustment that brings the stock down to the
\* reorder point is announced unless a crash or a failed read loses the goroutine
\* (inventory_usecase.go:394-398, 635-651), whatever else the server is asked.
THEOREM ReorderAnnounced == ErpSpec => []DropsAreAnnounced
BY ErpImplementsStock, StockCorrect, PTL

\* The list, the statistics and the summary agree on which products are low: the list is
\* all of them if they fit on its page, which has 200 products, and a full page of them if
\* they do not (inventory_usecase.go:467-480; inventory_repo.go:25-119, 567, 613).
THEOREM ViewsOfStockAgree == ErpSpec => []LowStockViewsAgree
BY ErpImplementsStock, StockCorrect, PTL

-----------------------------------------------------------------------------
(* The back office, with the stock at work beside it *)

\* Requests, rows, products and goroutines keep their forms: no statement and no move
\* writes what its table or product does not know.
THEOREM ErpTyped == ErpSpec => []ErpTypeOK
<1>1. OfficeTypeOK /\ StockTypeOK => ErpTypeOK
      BY DEF ErpTypeOK
<1> QED BY <1>1, ErpImplementsOffice, ErpImplementsStock, OfficeTyped, StockCorrect, PTL

\* HR, CRM and purchases store nothing, whatever is asked of them (hr_repo.go:164,
\* purchases_repo.go:100, 203, crm_repo.go:138, 273).
THEOREM NoRecordIsKept == ErpSpec => []NoOfficeRecords
BY ErpImplementsOffice, NothingIsKept, PTL

\* An order that ConfirmOrder has confirmed and a stored invoice are announced, or a request
\* is about to announce them, until the server restarts (sales_usecase.go:62-68, 84-88). An
\* order that was created as confirmed is left out: nobody announces it
\* (sales_repo.go:180).
THEOREM SalesAreAnnounced == ErpSpec => []StoredIsAnnounced
BY ErpImplementsOffice, EventsFollow, PTL

\* Who is answered 201 finds the row, but for a workflow (extra_handlers.go:969).
THEOREM CreatedIsThere == ErpSpec => CreatedIsStored
BY ErpImplementsOffice, CreatedMeansStored, PTL

\* Who is answered with an error has left nothing behind, but for Register's tenant
\* (auth_usecase.go:97-137).
THEOREM RefusedIsGone == ErpSpec => RefusedLeavesNothing
BY ErpImplementsOffice, RefusedMeansNothing, PTL
=============================================================================
