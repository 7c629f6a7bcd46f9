CONSTANTS
    Messages <- SmallMessages
    IntMax = 99
    SeqMax = 99
    Decimals = 2
    PriceWidth = 16
SPECIFICATION Spec
INVARIANTS DamageIsLocal PriceTruncated
