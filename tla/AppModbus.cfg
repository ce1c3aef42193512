\* run() and stop() in any order, run() at most twice; as many pool threads as
\* there can be poll tasks.
SPECIFICATION FairSpec
CONSTANTS
    Devices = {"d1", "d2", "bad"}
    Usable = {"d1", "d2"}
    Workers = {w1, w2, w3, w4}
    MaxRuns = 2
INVARIANTS
    StopWaitsForPolls
PROPERTIES
    RunStartsPolling
    StopReturns
