\* One thread uses the blocking checkOut().
SPECIFICATION FairSpec
CONSTANTS
    Threads = {t1, t2}
    NoThread = NoThread
    Handles = {h1}
    NoHandle = NoHandle
    MaxPoolSize = 1
    BlockingCallers = {t1}
PROPERTY CheckOutReturns
CHECK_DEADLOCK FALSE
