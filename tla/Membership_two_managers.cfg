\* Two transfers, role changes or removals at once
SPECIFICATION Spec
CONSTANTS
    User = {a, b, c}
    Creator = a
    Link = {l1}
    Request = {r1, r2}
    Manager = {r1, r2}
    WorkspaceRole = {"OWNER", "ADMIN", "MEMBER"}
    ProjectRole = {"LEAD", "DEVELOPER"}
    MaxUses <- OneUse
    MaxMembers = 0
    NULL = NULL
SYMMETRY Symmetry
INVARIANT HasOwner
CHECK_DEADLOCK FALSE
