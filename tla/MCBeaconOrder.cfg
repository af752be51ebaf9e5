SPECIFICATION Spec
CONSTANTS
    Expected <- MCExpected
    Plans <- WholePlans
    Passing <- MCPassing
    SummaryCopies = 12
    Noise <- MCNoise
    MaxUnread = 10
    Troubles <- NoTroubles
INVARIANTS
    OrderErrorIsTrue
