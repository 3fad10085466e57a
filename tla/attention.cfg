CONSTANTS
    SeqK = 3
    MaxSeqQ = 2
    MaxScore = 2
    BlockSizes = {1, 2, 4}
    Pow <- PowersOfTwo
    NegInf = NegInf
    NaN = NaN
SPECIFICATION TilesSpec
INVARIANTS
    MatchesStandard
CHECK_DEADLOCK FALSE
