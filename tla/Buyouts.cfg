\* Prices of the user and of the game through refreshes, restarts and crashes.
CONSTANTS
    Names = {"item"}
    Labels = {"A", "B"}
    Notes = {"text", "p1"}
    TextOf <- LabelTexts
    RemoveOnly = {"B"}
    Prices = {"p1"}
    MaxItems = 2
    MaxTabs = 1
    MaxEdits = 2
SPECIFICATION Spec
INVARIANTS BuyoutsInv InheritedFollowsTab PricedIsRefreshed GamePriceWins
PROPERTIES OwnPriceSurvives
CHECK_DEADLOCK FALSE
