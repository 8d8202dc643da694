\* One operation at a time, every pair of times.
SPECIFICATION Spec
CONSTANTS
    Ops = {a, b}
    NoSession = NoSession
    MaxTimestamp = 2
    MaxIncrement = 1
    Sequential = TRUE
INVARIANTS
    NoLeak
    RunsOnLiveSession
    CausalOrder
