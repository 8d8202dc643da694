\* A find cursor with a session, a tailable one without, a change stream with.
SPECIFICATION FairSpec
CONSTANTS
    Threads = {t1, t2, t3}
    NoThread = NoThread
    NumDocs = 2
    Kinds = {{"lazy", "session"}, {"lazy", "tailable"}, {"tailable", "session"}}
INVARIANTS
    NoDestroyDuringIO
    InOrderOnce
    NothingLost
    DeadAfterEnd
PROPERTIES
    DeadStaysDead
    KillCompletes
\* A cursor whose init threw has no further step.
CHECK_DEADLOCK FALSE
