\* One issue created with a custom field
SPECIFICATION CreationSpec
CONSTANTS
    User = {u1}
    IssueRow = {ir1}
    Field = {fd1}
    CommentRow = {cm1}
    Value = {v1}
    FieldRequest = {rq1}
    None = None
PROPERTY CreatedFieldsStored
CHECK_DEADLOCK FALSE
