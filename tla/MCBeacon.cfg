SPECIFICATION Spec
CONSTANTS
    Expected <- MCExpected
    Plans <- MCPlans
    Passing <- MCPassing
    SummaryCopies = 2
    Noise <- MCNoise
    MaxUnread = 6
    Troubles <- MCTroubles
INVARIANTS
    FilterIsDecode
    OneFaultLosesNothing
    PassIsOneBoot
    SelftestPassIsWhole
    ReportIsOfTheVerdict
    CleanAuditPasses
