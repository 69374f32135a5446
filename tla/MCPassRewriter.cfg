\* Two passes and a header; options chosen up to six times.
SPECIFICATION Spec
CONSTANTS
    f1 = f1
    f2 = f2
    h = h
    None = None
    Passes <- MCPasses
    Matches <- MCMatches
    Unfixed <- MCUnfixed
    MaxRuns = 6
INVARIANTS
    ProbesDistinct
    SizeFits
    LogTellsProbes
