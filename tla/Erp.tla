--------------------------------- MODULE Erp ----------------------------------
(***************************************************************************)
(* GoERP: the products and the stock (Stock) and all the rest (BackOffice)  *)
(* are served by one process, so one restart ends the requests of the one   *)
(* and the goroutines of the other.                                         *)
(***************************************************************************)
EXTENDS BackOffice, Stock

erpVars == << officeVars, stockVars >>

\* A behaviour has either a desk at work or products, to keep the instances small.
ErpInit ==
    /\ OfficeInit
    /\ StockInit
    /\ desk # {} => Existing = {}

ErpNext ==
    \/ (\E c \in Callers : CallStep(c)) /\ UNCHANGED stockVars
    \/ desk = {} /\ (\E p \in Products : StockStep(p)) /\ UNCHANGED officeVars
    \/ Restart /\ StockCrash

ErpSpec == ErpInit /\ [][ErpNext]_erpVars

\* Requests, rows, products and goroutines have the forms the code gives them.
ErpTypeOK == OfficeTypeOK /\ StockTypeOK
=============================================================================
