SPECIFICATION FairMsigSpec
CONSTANTS
    Reads = {d1, d2}
    Levels = {alice}
    \* The contract before and after chunked proposals, and one that is not complete.
    Contracts = {
        {"actions", "tables", "proposal"},
        {"actions", "tables", "proposal", "getproposal", "getproposal_result",
         "propchunks", "chunk_fields", "approve_hash"},
        {"tables", "proposal"}}
    ConfiguredStrategy = "auto"
    Pieces = 2
    ScanLimit = 1
    MaxHeight = 3
    Absent = Absent
    Pending = Pending
INVARIANTS BytesAreOneTransaction QuietReadsAreTheChain
PROPERTIES ReadsEnd
CHECK_DEADLOCK FALSE
