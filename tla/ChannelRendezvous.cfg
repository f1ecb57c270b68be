SPECIFICATION FairSpec
CONSTANTS
    s1 = s1
    r1 = r1
    r2 = r2
    Senders <- OneSender
    Receivers <- TwoReceivers
    Capacity = 0
    MaxSends = 3
INVARIANTS ReceiversCounted
PROPERTIES ImplementsQueue TimedReturns SomeoneMeets
