\* Two requests at once; a sprint, a column and an issue of one project, two issues of another
SPECIFICATION Spec
CONSTANTS
    p1 = p1  p2 = p2  c1 = c1  i2 = i2
    Project <- Projects
    Sprint = {s1}
    Column = {c1}
    Issue = {i1, i2, i3}
    Request = {r1, r2}
    Category = {"DONE"}
    SprintProject <- SprintOne
    ColumnProject <- ColumnOne
    IssueProject <- IssueSplit
    DefaultCategory <- NoColumn
    NULL = NULL
    KEEP = KEEP
SYMMETRY ScopeSymmetry
INVARIANTS TypeOK ReferencesInScope
PROPERTY SprintLifecycle
CHECK_DEADLOCK FALSE
