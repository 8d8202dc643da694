\* Every thread may use every method, checkOut() included.  No symmetry, one
\* property is temporal.  The deadlock that checkOut() can run into (see
\* PoolCheckOut.cfg) is a real end state.
SPECIFICATION FairSpec
CONSTANTS
    Threads = {t1, t2, t3, t4, t5}
    NoThread = NoThread
    Handles = {h1, h2, h3, h4}
    NoHandle = NoHandle
    MaxPoolSize = 3
    BlockingCallers = {t1, t2, t3, t4, t5}
INVARIANTS
    NoLostWakeup
    DestroyNeverBlocks
    NoCheckInAfterClose
PROPERTIES
    ImplementsPromise
    CloseCompletes
CHECK_DEADLOCK FALSE
