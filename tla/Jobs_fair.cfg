\* Calls that do not overlap, and what goes on without them, under fairness
SPECIFICATION JobsFairSpec
CONSTANTS
    Request = {r1}
    TotalChunks = 2
    MaxClaims = 2
    MaxFaults = 0
    Hook = {h1}
    Delivery = {d1, d2}
    Sender = {s1}
    RetryDelays = 2
    LastSecret = 1
    Nobody = Nobody
    Rule = {rule1}
    Periods = {1}
    HoursPerDay = 2
    DaysPerYear = 2
    JobTake = 2
    MaxLate = 1
    MaxLapses = 1
    Copy = {"flags", "logging"}
    Loader = {l1, l2}
    Changer = {ch1}
    MaxVersion = 2
INVARIANTS JobsTypeOK OncePerSlot
PROPERTIES UploadsSettle DeliveriesPromised DeliveryEnds RuleMovesOn ChangesArrive
CHECK_DEADLOCK FALSE
