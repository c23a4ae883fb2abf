SPECIFICATION LockedSpec
CONSTANTS
    Procs = {p1, p2}
    NoProc = NoProc
    Locked = {p1, p2}
    Reloading = {}
    Hashes = {h1, h2}
    MaxCount = 2
    MaxNotes = 2
    MaxCrashes = 1
SYMMETRY Symmetry
INVARIANTS
    Readable
    MarksKept
PROPERTIES
    BookImplements
