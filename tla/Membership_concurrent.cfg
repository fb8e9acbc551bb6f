\* Two requests at once, one of which changes and removes workspace members
SPECIFICATION Spec
CONSTANTS
    User = {a, b, c}
    Creator = a
    Link = {l1}
    Request = {r1, r2}
    Manager = {r1}
    WorkspaceRole = {"OWNER", "ADMIN"}
    ProjectRole = {"LEAD", "DEVELOPER"}
    MaxUses <- OneUse
    MaxMembers = 0
    NULL = NULL
SYMMETRY Symmetry
INVARIANTS TypeOK HasOwner UsesBounded LeadKeepsRole
CHECK_DEADLOCK FALSE
