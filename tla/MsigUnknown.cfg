\* One read of a proposal whose contract is whole; get_abi may fail.
SPECIFICATION MsigSpec
CONSTANTS
    Reads = {d1}
    Levels = {alice}
    Contracts = {
        {"actions", "tables", "proposal"}}
    ConfiguredStrategy = "auto"
    Pieces = 2
    ScanLimit = 2
    MaxHeight = 1
    Absent = Absent
    Pending = Pending
INVARIANT UnknownKeepsTheView
CHECK_DEADLOCK FALSE
