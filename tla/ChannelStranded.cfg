SPECIFICATION Spec
CONSTANTS
    s1 = s1
    r1 = r1
    r2 = r2
    Senders <- OneSender
    Receivers <- OneReceiver
    Capacity = 0
    MaxSends = 1
INVARIANT
    Unbuffered
