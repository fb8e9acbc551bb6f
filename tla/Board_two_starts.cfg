\* Two overlapping start() calls on two sprints of a board
SPECIFICATION Spec
CONSTANTS
    p1 = p1  p2 = p2  c1 = c1  i2 = i2
    Project <- Projects
    Sprint = {s1, s2}
    Column = {c1, c2}
    Issue = {i1}
    Request = {r1, r2}
    Category = {"TODO", "DONE"}
    SprintProject <- SprintOne
    ColumnProject <- ColumnOne
    IssueProject <- IssueOne
    DefaultCategory <- TodoFirst
    NULL = NULL
    KEEP = KEEP
INVARIANT OneActivePerBoard
CHECK_DEADLOCK FALSE
