SPECIFICATION FairSpec
CONSTANTS
    s1 = s1
    r1 = r1
    r2 = r2
    Senders <- OneSender
    Receivers <- TwoReceivers
    Capacity = 2
    MaxSends = 4
INVARIANTS NoLostWakeup
PROPERTIES ImplementsQueue BufferServed
