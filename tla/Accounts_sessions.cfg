\* Two requests at once, of any kind
SPECIFICATION WatchedSpec
CONSTANTS
    User = {u1, u2}
    Provider = {google, github}
    Token = {t1, t2, t3}
    Request = {r1, r2}
    NULL = NULL
SYMMETRY Symmetry
INVARIANTS TypeOK OneTokenPerLogin OnlyVerified
PROPERTIES SessionsPromised NobodyLockedOut
CHECK_DEADLOCK FALSE
