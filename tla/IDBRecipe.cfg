SPECIFICATION Spec
CONSTANTS
    Procs = {p1}
    NoProc = NoProc
    Locked = {}
    Reloading = {p1}
    Hashes = {h1, h2}
    MaxCount = 1
    MaxNotes = 1
    MaxCrashes = 0
INVARIANTS
    MarksKept
