----------------------------- MODULE ErpInventory -----------------------------
(***************************************************************************)
(* GoERP: categories, warehouses, locations, variants and batches, and the  *)
(* lists of products and moves. Products and the stock: module Stock.       *)
(***************************************************************************)
EXTENDS ErpSchema

(* inventory_repo.go *)

ProductFields == Columns["products"]

SelectProducts ==
    << Must(SelectJoin("products", ProductFields, {"product_categories", "stock_moves"})),
       Drops(Count("products")) >>

FindProduct == Get("products", ProductFields)

CategoryFields == {"id", "tenant_id", "name", "parent_id", "description", "created_at"}

ListCategories == SelectJoin("product_categories", CategoryFields, {"products"})
InsertCategory == Insert("product_categories", CategoryFields)
SetCategory == Update("product_categories", CategoryFields \ {"created_at"})
RemoveCategory == Delete("product_categories")

WarehouseFields ==
    {"id", "tenant_id", "name", "code", "address", "city", "country", "is_active",
     "created_at"}

ListWarehouses ==
    SelectJoin("warehouses", WarehouseFields \cup {"manager_id"}, {"stock_locations"})
InsertWarehouse == Insert("warehouses", WarehouseFields)
SetWarehouse == Update("warehouses", WarehouseFields \ {"created_at"})
RemoveWarehouse == Update("warehouses", {"id", "tenant_id", "is_active"})

LocationFields ==
    {"id", "warehouse_id", "name", "code", "location_type", "parent_id", "created_at"}

ListLocations == SelectJoin("stock_locations", LocationFields, {"warehouses"})
InsertLocation == Insert("stock_locations", LocationFields)

ListStockMoves ==
    << Must(SelectJoin("stock_moves", Columns["stock_moves"], {"products", "stock_locations"})),
       Drops(Count("stock_moves")) >>

BatchFields == Columns["batches"]

ListBatches == SelectJoin("batches", BatchFields, {"products"})
InsertBatch == Insert("batches", BatchFields)

VariantFields == Columns["product_variants"]

\* Its use case passes the product's id for the tenant's and the reverse.
ListVariants == SelectJoin("product_variants", VariantFields, {"products"})
InsertVariant == Insert("product_variants", VariantFields)

(* inventory_usecase.go *)

\* Mutant of CreateCategory: the error of the INSERT is dropped.
CreateCategoryUnchecked == << Validates, Drops(InsertCategory) >>

CreateCategory == << Validates, Must(InsertCategory) >>
UpdateCategory == << Validates, Must(SetCategory) >>
DeleteCategory == << Validates, Must(RemoveCategory) >>
CreateWarehouse == << Validates, Must(InsertWarehouse) >>
UpdateWarehouse == << Validates, Must(SetWarehouse) >>
DeleteWarehouse == << Validates, Must(RemoveWarehouse) >>
CreateLocation == << Validates, Must(InsertLocation) >>

\* The second check: the product tracks batches, the dates are in order and not past.
CreateBatch == << Validates, Must(FindProduct), Validates, Must(InsertBatch) >>

CreateVariant == << Validates, Must(InsertVariant) >>

(* inventory_handler.go *)

CatalogueCalls == {
    Call("ListProducts", SelectProducts, 200, 500),
    Call("GetProduct", << Validates, Must(FindProduct) >>, 200, 404),
    Call("ListVariants", << Validates, Must(ListVariants) >>, 200, 500),
    Call("CreateVariant", CreateVariant, 201, 422),
    Call("ListCategories", << Must(ListCategories) >>, 200, 500),
    Call("CreateCategory", CreateCategory, 201, 422),
    Call("UpdateCategory", UpdateCategory, 200, 422),
    Call("DeleteCategory", DeleteCategory, 200, 422) }

WarehouseCalls == {
    Call("ListWarehouses", << Must(ListWarehouses) >>, 200, 500),
    Call("CreateWarehouse", CreateWarehouse, 201, 422),
    Call("UpdateWarehouse", UpdateWarehouse, 200, 422),
    Call("DeleteWarehouse", DeleteWarehouse, 200, 422),
    Call("ListLocations", << Must(ListLocations) >>, 200, 500),
    Call("CreateLocation", CreateLocation, 201, 422),
    Call("ListStockMoves", ListStockMoves, 200, 500),
    Call("ListBatches", << Validates, Must(ListBatches) >>, 200, 500),
    Call("CreateBatch", CreateBatch, 201, 422) }
=============================================================================
