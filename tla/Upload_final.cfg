\* A status poll after expiry
SPECIFICATION Spec
CONSTANTS
    Request = {r1}
    TotalChunks = 2
    MaxClaims = 1
    MaxFaults = 0
PROPERTY CompletedIsFinal
CHECK_DEADLOCK FALSE
