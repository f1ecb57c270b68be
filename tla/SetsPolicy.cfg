SPECIFICATION MCSpec
CONSTANTS
    k1 = k1  k2 = k2  k3 = k3  v1 = v1  v2 = v2
    k = k  K = K  l = l  m = m  h1 = h1  h2 = h2  h3 = h3  o1 = o1  o2 = o2
    Keys <- ThreeKeys
    Values <- TwoValues
    Hashes <- CollidingHashes
    FirstEntries = 2
    FirstBuckets = 2
    MaxReserve = 1
    Handles <- ThreeHandles
    Elements <- AllKeys
    Semantics <- TwoSemantics
    Class <- Classes
    Valid <- ValidKeys
    Bytes = "bytes"
    Owners <- TwoOwners
    Borrowed = "borrowed"
SYMMETRY Symmetry
INVARIANT PolicyOfNonEmpty
