\* The nightly deletion of an account that is due
SPECIFICATION FairSpec
CONSTANTS
    User = {u1}
    Provider = {google}
    Token = {t1}
    Request = {r1}
    NULL = NULL
PROPERTY DueDeleted
CHECK_DEADLOCK FALSE
