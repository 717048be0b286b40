\* Three machines, created at up to three different times.
CONSTANTS
    m1 = m1
    m2 = m2
    m3 = m3
    MACs = {m1, m2, m3}
    KeyOrder <- MCKeyOrder
    NoNode = NoNode
    MaxIP = 1
    MaxClock = 2
SPECIFICATION ListingSpec
INVARIANTS ListSorted
PROPERTY ListOrderKept
