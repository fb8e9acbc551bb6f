\* Two requests at once on one board; none overtakes what the other has read
SPECIFICATION ApartSpec
CONSTANTS
    p1 = p1  p2 = p2  c1 = c1  i2 = i2
    Project <- Projects
    Sprint = {s1, s2}
    Column = {c1, c2}
    Issue = {i1}
    Request = {r1, r2}
    Category = {"TODO", "IN_PROGRESS", "DONE"}
    SprintProject <- SprintOne
    ColumnProject <- ColumnOne
    IssueProject <- IssueOne
    DefaultCategory <- TodoFirst
    NULL = NULL
    KEEP = KEEP
SYMMETRY Symmetry
PROPERTIES HandlersAtomic CardsKeepAColumn CompletionSweepsBoard StampMatchesColumn
CHECK_DEADLOCK FALSE
