\* One administrator takes a product off sale while two visitors ask.
SPECIFICATION FairCatalogSpec
CONSTANTS
    Products = {laptop}
    Categories = {electronics, laptops}
    Prices = {50}
    Tasks = {t1, t2}
    Visitors = {v1, v2}
    Root = Root
    Absent = Absent
    Nothing = Nothing
PROPERTY
    ListsOnlyOnSale
CHECK_DEADLOCK FALSE
