\* Up to three chunks or blocks; prose without brackets.
SPECIFICATION Spec
CONSTANTS
    Target <- Leads
    Chunks <- UpToThreeChunks
    Blocks <- UpToThreeBlocks
    Objects <- TwoObjects
    Prose <- PlainProse
INVARIANTS
    TypeOK
    CitesEverySourceOnce
    JsonIsFound
CHECK_DEADLOCK FALSE
