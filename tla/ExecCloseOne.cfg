\* close() on a thread pool of one.
SPECIFICATION FairSpec
CONSTANTS
    Workers = {k1}
    Commands = {a}
    Cursors = {c}
    Polled = {}
    Closes = {x}
    SyncCloses = {}
    MaxPoolSize = 1
PROPERTIES
    CloseResolves
CHECK_DEADLOCK FALSE
