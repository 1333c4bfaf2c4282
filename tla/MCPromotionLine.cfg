CONSTANTS
    i1 = i1
    i2 = i2
    Images <- TwoImages
    NoImage = NoImage
    Quotes = {0, 1}
    Fees = {0, 1}
SPECIFICATION Spec
SYMMETRY Symmetry
INVARIANTS
    StageIsNeverAbnormal
    FreightMatchesRecall
    OpenMoneyKeepsActive
    CompletionStaysTrue
    CancelledLeavesWarehouse
CHECK_DEADLOCK FALSE
