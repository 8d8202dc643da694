\* Two transactions over connections that fail before, while and after a
\* command arrives.
SPECIFICATION Spec
CONSTANTS
    MaxTxn = 2
INVARIANTS
    CommitReported
    AbortIsFinal
    FailedMeansNotCommitted
    EndAborts
\* An ended session stops.
CHECK_DEADLOCK FALSE
