CONSTANTS
    Width = 8
    QtyWidth = 4
    Scale = 1
    Reference = 2
    Limits <- SmallLimits
    WireMessages <- SmallMessages
    MaxEvaluations = 4
    Symbols = {PETR4, VALE3}
    EmptySymbol = None
    DefaultSymbol = PETR4
    Prices = {1, 2}
    Quantities = {0, 1, 2}
    MaxOrders = 4
    NoOrder = NoOrder
SPECIFICATION Spec
INVARIANTS ApprovedIffSafe RestingWithinLimits QuantityConserved WireQuantityKept
PROPERTY ImplementsPriceTime
