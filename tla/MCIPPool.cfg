\* The range is 2 to 4, up to the largest address; 0 and 1 lie outside.  Six
\* clients are one more than there are addresses.  A scan that never ends stops
\* the pool, and time stops at MaxClock: hence no check for deadlock.
CONSTANTS
    MACs = {m1, m2, m3, m4, m5, m6}
    MaxIP = 4
    MaxClock = 3
    PoolStart = 2
    PoolEnd = 4
    LeaseTime = 1
    NoLease = NoLease
    NoMAC = NoMAC
SPECIFICATION PoolSpec
SYMMETRY Symmetry
INVARIANTS PoolTypeOK IndexConsistent ServedWhileFree
PROPERTIES RangeLeftWhenFull LeaseKept KeepsBook
CHECK_DEADLOCK FALSE
