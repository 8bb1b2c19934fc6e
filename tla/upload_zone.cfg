\* Two files for one slot, two polls, every deletion; no symmetry, for the
\* liveness property.
SPECIFICATION Spec
CONSTANTS
    f1 = f1  f2 = f2
    Files = {f1, f2}
    MaxConcurrent = 1
    MaxPolls = 2
    MaxDeletes = 2
INVARIANTS TypeOK SlotsExact NoIdleSlot PendingIsQueued ConfirmedIsStored
PROPERTY EveryUploadSettles
CHECK_DEADLOCK FALSE
