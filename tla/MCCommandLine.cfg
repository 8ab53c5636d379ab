SPECIFICATION Spec
CONSTANTS
    Tokens <- MCTokens
    MaxTokens = 3
    Systems <- MCSystems
INVARIANTS
    ReportsAsTested
    ExitTellsTheReport
