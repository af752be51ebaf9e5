SPECIFICATION Spec
CONSTANTS
    Requests <- MCRequests
    MaxRuns = 3
INVARIANTS
    PassMeansEvidence
    ReportedIdIsOnBoard
PROPERTIES
    RunsOwnBuild
CHECK_DEADLOCK FALSE
