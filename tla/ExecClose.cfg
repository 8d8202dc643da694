\* One connection, a polled cursor, both ways to close.  As many workers as
\* pollers and closers, and one to spare.
SPECIFICATION FairSpec
CONSTANTS
    Workers = {k1, k2, k3}
    Commands = {a, b}
    Cursors = {c}
    Polled = {c}
    Closes = {x}
    SyncCloses = {s}
    MaxPoolSize = 1
INVARIANTS
    RunsOnce
    HeldByTheLiving
    ClosedIsQuiet
PROPERTIES
    FuturesResolve
