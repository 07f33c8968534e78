SPECIFICATION TablesSpec
CONSTANTS
    t1 = t1 t2 = t2 t3 = t3 x = x y = y
    a = a b = b c = c d = d e = e
    Threads <- Three
    Texts <- XY
    MaxCalls = 2
    MemThreads <- TwoThreads
    Worker = "worker"
    Blocks <- TwoBlocks
    Sizes <- HugeSizes
    Limits <- OneCeiling
    Width = 32
    System = 9
    Free = free
    Deleted = deleted
    Names <- MCNames
    Hash <- MCHash
    InitialCapacity = 8
    SmallTable = 1
    ShrinkAbove = 8
    MaxCount = 2
INVARIANTS
    Interned
    MemoryExact
    ProbesSound
PROPERTIES
    Refines
    Counts
CHECK_DEADLOCK FALSE
