\* The loops over a playbook, and the decoder of frames with streams of up to
\* six bytes, against their definitions.
CONSTANTS
    a = a
    b = b
    c = c
    Labels = {a, b, c}
    BooksToCheck <- MCBooks
    MaxFrameBytes = 2
    MaxStream = 6
SPECIFICATION MCSpec
INVARIANTS
    ReachableLoopIsExact
    CascadeIsExact
    CycleSearchIsExact
    ValidMeansReachable
    ChunksDoNotMatter
