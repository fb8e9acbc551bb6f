\* Two requests at once, with crashes and refused calls
SPECIFICATION WatchedSpec
CONSTANTS
    Request = {r1, r2}
    TotalChunks = 2
    MaxClaims = 2
    MaxFaults = 2
SYMMETRY Symmetry
INVARIANTS TypeOK FilesKept HonestUnlessOvertaken
PROPERTY AssemblyPromised
CHECK_DEADLOCK FALSE
