\* Searches made and deleted, filters, modes and orders changed, rows chosen and
\* images fetched while the items are refreshed.
CONSTANTS
    Items = {1, 2}
    Tabs = {1}
    TabOf <- ItemTabs
    Filters = {"rarity", "colors", "priced", "mods"}
    Accepts <- Accepting
    Icon <- ItemIcons
    Relative = {2}
    Budgets <- SomeBudgets
SPECIFICATION Spec
INVARIANTS WindowTypeOK TabsTellTheirSearch CurrentIsFiltered OwnFilters ImageIsOfTheItem
PROPERTIES OnlyUserSelects
CHECK_DEADLOCK FALSE
