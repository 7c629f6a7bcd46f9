CONSTANTS
    MaxBookLevels = 2
    MaxOrdersPerLevel = 2
    MaxTrades = 2
    DepthRows = 1
    Prices = {1, 2, 3}
    Quantities = {0, 1, 3}
    MaxOrders = 5
    NoOrder = NoOrder
SPECIFICATION Spec
INVARIANTS LevelsConsistent ReportsTrue 
PROPERTY ImplementsPriceTime
