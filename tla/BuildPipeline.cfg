\* Three commands; two builds of a lock and a file, with two writes of others.
SPECIFICATION MCSpec
CONSTANTS
    Commands = 3
    Members = 1
    Contents <- MCContents
    Modes <- MCModes
    Meddlings = 2
INVARIANTS
    ReportsTrue
    PiecesOfOneRun
    ReceiptTrue
    CaptureIsSnapshot
