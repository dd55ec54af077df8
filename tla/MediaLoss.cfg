SPECIFICATION MediaSpec
CONSTANTS
    MaxIndex = 1
    MaxDepth = 3
    Width = 64
    Increase = 5
    InitRates <- MCInitRates
    Word = 32
    Half = 8
    Overhead = 2
    Reports <- MCReports
    Bounds <- MCBounds
    MaxTunes = 2
PROPERTY LossCapsRate
