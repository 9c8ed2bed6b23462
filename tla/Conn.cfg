SPECIFICATION FairSpec
CONSTANTS
    Phases = 4
    HasDeadline = {2, 3, 4}
INVARIANTS
    CleanHandoff
    OwnDeadlineOnly
    CancellationReported
PROPERTIES
    PhaseEnds
\* The connection is closed and every phase has returned.
CHECK_DEADLOCK FALSE
