CONSTANTS
    Dialer = d
    Listener = l
    Greeting <- MCGreeting
    Greetings <- MCGreetings
    Advertises = TRUE
    PollLimit = 8
    QueueMax = 1
    ImportMax = 1
    MaxBlocks = 3
    MaxFaults = 1
SPECIFICATION FairSpec
INVARIANTS   StrangersStayOut
PROPERTY DialerCatchesUp
