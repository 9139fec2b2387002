\* Two runs of three entries, the last one kept; a reader of
\* everything or of the last entry.
CONSTANTS
    MaxRuns = 2
    MaxEntries = 3
    Kept = 1
    Tails = {1, 6}
SPECIFICATION Spec
CHECK_DEADLOCK FALSE
INVARIANTS
    FileIsInOrder
    ReadersMissNothing
