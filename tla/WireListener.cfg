CONSTANTS
    Dialer = d
    Listener = l
    Greeting <- MCGreeting
    Greetings <- MCGreetings
    Advertises = TRUE
    PollLimit = 8
    QueueMax = 1
    ImportMax = 1
    MaxBlocks = 2
    MaxFaults = 0
SPECIFICATION FairSpec

PROPERTY ListenerCatchesUp
