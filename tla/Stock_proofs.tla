--------------------------- MODULE Stock_proofs ---------------------------
(***************************************************************************)
(* The reorder alerts of GoERP for any number of products, moves, checks     *)
(* and quantities.                                                           *)
(*                                                                         *)
(* A goroutine announces what it reads when it comes to read, not what its   *)
(* move saw. What has to be shown is that a drop that is still owed is still *)
(* visible in the row and the moves (IInv: Owing), so that whichever         *)
(* goroutine reads next announces it.                                        *)
(***************************************************************************)
EXTENDS Stock, TLAPS

\* What is owed can be read: the stock is still low, against the row as it is now.
Owing == \A p \in owed : AtReorderPoint(p)

StockIInv == StockTypeOK /\ Owing /\ DropsAreAnnounced

-----------------------------------------------------------------------------
LEMMA SettingsType ==
    ASSUME StockTypeOK, NEW p \in Products
    PROVE  /\ p \in Existing => product[p] \in Settings
           /\ CurrentStock(p) \in Int
           /\ \A s \in Settings : s # NoProduct /\ s.reorder \in Nat /\ s.min \in Nat
<1>1. p \in Existing => product[p] \in Settings
      BY DEF StockTypeOK, Existing
<1>2. CurrentStock(p) \in Int
      BY DEF StockTypeOK, CurrentStock
<1>3. NoProduct \notin Settings
      BY StockAssumption DEF Settings
<1>4. \A s \in Settings : s.reorder \in Nat /\ s.min \in Nat
      BY StockAssumption DEF Settings
<1> QED BY <1>1, <1>2, <1>3, <1>4

LEMMA StockInitIInv == StockInit => StockIInv
<1> SUFFICES ASSUME StockInit PROVE StockIInv
    OBVIOUS
<1> USE StockAssumption
<1>1. product \in [Products -> Settings \cup {NoProduct}]
      BY DEF StockInit, Settings
<1>2. into \in [Products -> Nat] /\ outOf \in [Products -> Nat]
  <2>1. {0} \cup Quantities \subseteq Nat /\ into \in [Products -> {0} \cup Quantities]
        BY DEF StockInit
  <2> QED BY <2>1 DEF StockInit
<1>3. /\ checks \in [Products -> Nat] /\ announcing \in [Products -> Nat]
      /\ owed = {} /\ faults = 0
      BY DEF StockInit
<1> QED BY <1>1, <1>2, <1>3 DEF StockIInv, StockTypeOK, Owing, DropsAreAnnounced

\* What remains of some debts is part of them and low.
LEMMA StillOwedIsLow ==
    ASSUME NEW debts, owed' = StillOwed(debts)
    PROVE  owed' \subseteq debts /\ Owing'
BY DEF StillOwed, Owing, AtReorderPoint, CurrentStock

-----------------------------------------------------------------------------
(* One step of a product *)

LEMMA CreateProductKeeps ==
    ASSUME StockIInv, NEW p \in Products, CreateProduct(p)
    PROVE  StockIInv'
<1>1. PICK s \in Settings : InsertProduct(p, s)
      BY DEF CreateProduct
<1>2. /\ p \notin Existing /\ product' = [product EXCEPT ![p] = s]
      /\ UNCHANGED << into, outOf, checks, announcing, owed, faults >>
      BY <1>1 DEF CreateProduct, InsertProduct
<1>3. \A q \in owed : q \in Products /\ q # p /\ product'[q] = product[q]
      BY <1>2 DEF StockIInv, StockTypeOK, Existing
<1>4. StockTypeOK'
      BY <1>2, <1>3 DEF StockIInv, StockTypeOK, Existing
<1>5. Owing' /\ DropsAreAnnounced'
      BY <1>2, <1>3 DEF StockIInv, Owing, AtReorderPoint, CurrentStock, DropsAreAnnounced
<1> QED BY <1>4, <1>5 DEF StockIInv

LEMMA SetProductKeeps ==
    ASSUME StockIInv, NEW p \in Products, p \in Existing, NEW s \in Settings, SetProduct(p, s)
    PROVE  StockIInv'
<1>1. /\ product' = [product EXCEPT ![p] = s] /\ owed' = StillOwed(owed)
      /\ UNCHANGED << into, outOf, checks, announcing, faults >>
      BY DEF SetProduct
<1>2. owed' \subseteq owed /\ Owing'
      BY <1>1, StillOwedIsLow
<1>3. s # NoProduct
      BY SettingsType DEF StockIInv
<1>4. StockTypeOK'
      BY <1>1, <1>2, <1>3 DEF StockIInv, StockTypeOK, Existing
<1>5. DropsAreAnnounced'
      BY <1>1, <1>2 DEF StockIInv, DropsAreAnnounced
<1> QED BY <1>2, <1>4, <1>5 DEF StockIInv

LEMMA ProductStepsKeep ==
    ASSUME StockIInv, NEW p \in Products, UpdateProduct(p) \/ DeleteProduct(p)
    PROVE  StockIInv'
<1>1. CASE UpdateProduct(p)
      BY <1>1, SetProductKeeps DEF UpdateProduct
<1>2. CASE DeleteProduct(p)
  <2>1. p \in Existing /\ SetProduct(p, [product[p] EXCEPT !.active = FALSE])
        BY <1>2 DEF DeleteProduct
  <2>2. product[p] \in Settings
        BY <2>1, SettingsType DEF StockIInv
  <2>3. [product[p] EXCEPT !.active = FALSE] \in Settings
        BY <2>2 DEF Settings
  <2> QED BY <2>1, <2>3, SetProductKeeps
<1> QED BY <1>1, <1>2

\* A move, with a goroutine or without one.
LEMMA MoveKeeps ==
    ASSUME StockIInv, NEW p \in Products, p \in Existing, NEW q \in Quantities,
           NEW from \in BOOLEAN, NEW to \in BOOLEAN, InsertMove(p, q, from, to),
           StartCheck(p) \/ NoCheck(p)
    PROVE  StockIInv'
<1> USE StockAssumption
<1>1. /\ outOf' = [outOf EXCEPT ![p] = IF from THEN @ + q ELSE @]
      /\ into' = [into EXCEPT ![p] = IF to THEN @ + q ELSE @]
      /\ UNCHANGED << product, announcing, faults >>
      BY DEF InsertMove
<1>2. into' \in [Products -> Nat] /\ outOf' \in [Products -> Nat]
  <2>1. q \in Nat /\ into \in [Products -> Nat] /\ outOf \in [Products -> Nat]
        BY DEF StockIInv, StockTypeOK
  <2>2. into[p] + q \in Nat /\ outOf[p] + q \in Nat
        BY <2>1
  <2> QED BY <2>1, <2>2, <1>1
<1>3. CASE StartCheck(p)
  <2>1. /\ checks' = [checks EXCEPT ![p] = @ + 1]
        /\ owed' = StillOwed(owed \cup IF AtReorderPoint(p) THEN {} ELSE {p})
        BY <1>3 DEF StartCheck
  <2>2. owed' \subseteq owed \cup {p} /\ Owing'
        BY <2>1, StillOwedIsLow
  <2>3. StockTypeOK'
    <3>1. checks' \in [Products -> Nat]
          BY <2>1 DEF StockIInv, StockTypeOK
    <3>2. Existing' = Existing /\ owed' \subseteq Existing
          BY <1>1, <2>2 DEF StockIInv, StockTypeOK, Existing
    <3> QED BY <1>1, <1>2, <3>1, <3>2 DEF StockIInv, StockTypeOK
  <2>4. DropsAreAnnounced'
        BY <1>1, <2>1, <2>2 DEF StockIInv, StockTypeOK, Existing, DropsAreAnnounced
  <2> QED BY <2>2, <2>3, <2>4 DEF StockIInv
<1>4. CASE NoCheck(p)
  <2>1. checks' = checks /\ owed' = StillOwed(owed)
        BY <1>4 DEF NoCheck
  <2>2. owed' \subseteq owed /\ Owing'
        BY <2>1, StillOwedIsLow
  <2>3. StockTypeOK'
        BY <1>1, <1>2, <2>1, <2>2 DEF StockIInv, StockTypeOK, Existing
  <2>4. DropsAreAnnounced'
        BY <1>1, <2>1, <2>2 DEF StockIInv, DropsAreAnnounced
  <2> QED BY <2>2, <2>3, <2>4 DEF StockIInv
<1> QED BY <1>3, <1>4

LEMMA MovesKeep ==
    ASSUME StockIInv, NEW p \in Products, CreateStockMove(p) \/ AdjustStock(p)
    PROVE  StockIInv'
<1>1. CASE CreateStockMove(p)
  <2>1. PICK q \in Quantities, from \in BOOLEAN, to \in BOOLEAN :
            /\ p \in Existing
            /\ InsertMove(p, q, from, to)
            /\ StartCheck(p) \/ NoCheck(p)
        BY <1>1 DEF CreateStockMove
  <2> QED BY <2>1, MoveKeeps
<1>2. CASE AdjustStock(p)
  <2>1. PICK q \in Quantities, negative \in BOOLEAN, located \in BOOLEAN :
            /\ p \in Existing
            /\ InsertMove(p, q, negative /\ located, ~negative /\ located)
            /\ StartCheck(p) \/ NoCheck(p)
        BY <1>2 DEF AdjustStock
  <2> QED BY <2>1, MoveKeeps
<1> QED BY <1>1, <1>2

\* A goroutine reads what is owed as low, since it still is.
LEMMA CheckReadsKeeps ==
    ASSUME StockIInv, NEW p \in Products, CheckReads(p)
    PROVE  StockIInv'
<1>1. /\ checks[p] > 0 /\ checks' = [checks EXCEPT ![p] = @ - 1]
      /\ announcing' = [announcing EXCEPT ![p] = IF AtReorderPoint(p) THEN @ + 1 ELSE @]
      /\ UNCHANGED << product, into, outOf, owed, faults >>
      BY DEF CheckReads
<1>2. StockTypeOK'
      BY <1>1 DEF StockIInv, StockTypeOK, Existing
<1>3. Owing'
      BY <1>1 DEF StockIInv, Owing, AtReorderPoint, CurrentStock
<1>4. DropsAreAnnounced'
  <2> SUFFICES ASSUME faults = 0, NEW q \in owed PROVE checks'[q] + announcing'[q] > 0
      BY <1>1 DEF DropsAreAnnounced
  <2>1. /\ q \in Products /\ AtReorderPoint(q) /\ checks[q] + announcing[q] > 0
        /\ checks[q] \in Nat /\ announcing[q] \in Nat
        BY DEF StockIInv, StockTypeOK, Existing, Owing, DropsAreAnnounced
  <2> QED BY <2>1, <1>1 DEF StockIInv, StockTypeOK
<1> QED BY <1>2, <1>3, <1>4 DEF StockIInv

LEMMA CheckPublishesKeeps ==
    ASSUME StockIInv, NEW p \in Products, CheckPublishes(p)
    PROVE  StockIInv'
<1>1. /\ announcing[p] > 0 /\ announcing' = [announcing EXCEPT ![p] = @ - 1]
      /\ owed' = owed \ {p} /\ UNCHANGED << product, into, outOf, checks, faults >>
      BY DEF CheckPublishes
<1>2. StockTypeOK'
      BY <1>1 DEF StockIInv, StockTypeOK, Existing
<1>3. Owing' /\ DropsAreAnnounced'
      BY <1>1 DEF StockIInv, StockTypeOK, Owing, AtReorderPoint, CurrentStock, DropsAreAnnounced
<1> QED BY <1>2, <1>3 DEF StockIInv

LEMMA FaultsKeep ==
    ASSUME StockIInv, StockCrash \/ \E p \in Products : CheckFails(p)
    PROVE  StockIInv'
<1>1. faults \in Nat /\ faults' = faults + 1 /\ UNCHANGED << product, into, outOf, owed >>
      BY DEF StockCrash, CheckFails, Fault, StockIInv, StockTypeOK
<1>2. checks' \in [Products -> Nat] /\ announcing' \in [Products -> Nat]
      BY DEF StockCrash, CheckFails, StockIInv, StockTypeOK
<1>3. StockTypeOK'
      BY <1>1, <1>2 DEF StockIInv, StockTypeOK, Existing
<1>4. Owing' /\ DropsAreAnnounced'
      BY <1>1 DEF StockIInv, Owing, AtReorderPoint, CurrentStock, DropsAreAnnounced
<1> QED BY <1>3, <1>4 DEF StockIInv

LEMMA StockNextIInv == StockIInv /\ [StockNext]_stockVars => StockIInv'
<1> SUFFICES ASSUME StockIInv, [StockNext]_stockVars PROVE StockIInv'
    OBVIOUS
<1>1. ASSUME NEW p \in Products, StockStep(p) PROVE StockIInv'
      BY <1>1, CreateProductKeeps, ProductStepsKeep, MovesKeep, CheckReadsKeeps,
         CheckPublishesKeeps, FaultsKeep DEF StockStep
<1>2. CASE StockCrash
      BY <1>2, FaultsKeep
<1>3. CASE UNCHANGED stockVars
      BY <1>3 DEF stockVars, StockIInv, StockTypeOK, Existing, Owing, AtReorderPoint,
         CurrentStock, DropsAreAnnounced
<1> QED BY <1>1, <1>2, <1>3 DEF StockNext

\* The views, written apart over the same rows and moves. The list of low products is
\* one page of the rows that match.
LEMMA ViewsAgree == StockIInv => LowStockViewsAgree
<1> SUFFICES ASSUME StockIInv PROVE LowStockViewsAgree
    OBVIOUS
<1>1. Matching(TRUE, TRUE) = LowStockCounted
      BY DEF Matching, LowStockCounted
<1>2. ASSUME NEW list \in GetLowStockProducts
      PROVE  /\ list \subseteq LowStockCounted
             /\ IF Cardinality(LowStockCounted) <= PageSize
                THEN list = LowStockCounted
                ELSE Cardinality(list) = PageSize
  <2>1. list \in IF Cardinality(LowStockCounted) <= PageSize
                 THEN {LowStockCounted}
                 ELSE {page \in SUBSET LowStockCounted : Cardinality(page) = PageSize}
        BY <1>1 DEF GetLowStockProducts, ListProducts
  <2>2. CASE Cardinality(LowStockCounted) <= PageSize
        BY ONLY <2>1, <2>2
  <2>3. CASE ~(Cardinality(LowStockCounted) <= PageSize)
        BY ONLY <2>1, <2>3
  <2> QED BY <2>2, <2>3
<1>3. LowStockCounted = {p \in DOMAIN GetStockSummary : GetStockSummary[p].isLow}
      BY DEF LowStockCounted, GetStockSummary
<1>4. ASSUME NEW p \in OutOfStockCounted, product[p].min > 0 PROVE p \in LowStockCounted
  <2>1. /\ p \in Existing /\ product[p].active /\ product[p].tracked
        /\ CurrentStock(p) <= 0
        BY DEF OutOfStockCounted
  <2>2. product[p].min \in Nat /\ CurrentStock(p) \in Int
        BY <2>1, SettingsType DEF StockIInv, Existing
  <2>3. CurrentStock(p) <= product[p].min
        BY <2>1, <2>2, <1>4
  <2> QED BY <2>1, <2>3, <1>4 DEF LowStockCounted
<1>5. ASSUME NEW p \in owed \cap DOMAIN GetStockSummary PROVE GetStockSummary[p].needsReorder
      BY DEF StockIInv, Owing, AtReorderPoint, GetStockSummary
<1> QED BY <1>2, <1>3, <1>4, <1>5 DEF LowStockViewsAgree

\* Both hold of the stock on its own: a drop to the reorder point is announced unless a
\* crash or a failed read prevents it, and the views of low stock agree, the list as far
\* as its page of PageSize products goes (inventory_usecase.go:394-398, 467-480, 635-651;
\* inventory_repo.go:25-119, 567, 613).
THEOREM StockCorrect == StockSpec => [](StockTypeOK /\ DropsAreAnnounced /\ LowStockViewsAgree)
<1>1. StockIInv => StockTypeOK /\ DropsAreAnnounced /\ LowStockViewsAgree
      BY ViewsAgree DEF StockIInv
<1> QED BY <1>1, StockInitIInv, StockNextIInv, PTL DEF StockSpec
=============================================================================
