CONSTANTS
    ItemCounts = {0, 2}
    Protocols = {33, 37}
    Targets <- MCTargets
    Works <- MCWorks
    Tokens <- MCTokens
    Causes = {0, 2}
    Chunks = {1, 1000}
SPECIFICATION Spec
INVARIANTS
    ServerReadsRequest
    WhereItBelongs
    ChunkingDoesNotMatter
