------------------------------ MODULE Creation ------------------------------
(***************************************************************************)
(* The issues of one project as IssuesService, CustomFieldsService,        *)
(* CommentsService and IssuesWatchersService make them: an issue is        *)
(* created in a transaction whose callback starts work on other            *)
(* connections, which see the issue only once it is committed.  A request  *)
(* gives at most one custom field; a watch is never awaited.               *)
(***************************************************************************)
CONSTANTS
    User, IssueRow, Field, CommentRow,
    Value,        \* values a field may take
    FieldRequest, \* requests under way at the same time
    None          \* no user, issue, field, value or comment

ASSUME CreationAssumption == None \notin User \cup IssueRow \cup Field \cup CommentRow \cup Value

VARIABLES
    created,    \* created[i]: an Issue row; OPEN: inserted and not committed
    field,      \* field[f]: a CustomFieldDef row, and the values that suit it
    fieldValue, \* fieldValue[i][f]: the CustomFieldValue row, None when there is none
    watching,   \* the IssueWatcher rows
    autoWatch,  \* upserts of autoWatch that nobody waits for
    remark,     \* remark[k]: a Comment row
    request     \* request[r]: where that request is

creationVars == <<created, field, fieldValue, watching, autoWatch, remark, request>>

-----------------------------------------------------------------------------
Row == {"UNUSED", "LIVE", "GONE"}
CreatedRecord == [row: Row \cup {"OPEN"}, assignee: User \cup {None}]
FieldRecord == [row: Row, suits: SUBSET Value]
RemarkRecord == [row: Row, issue: IssueRow \cup {None}, author: User \cup {None},
                 parent: CommentRow \cup {None}]
RequestRecord ==
    [pc: {"idle", "change", "defs", "value", "commit", "comment"}, makes: BOOLEAN,
     user: User \cup {None}, issue: IssueRow \cup {None}, before: User \cup {None},
     assignee: User \cup {None}, field: Field \cup {None}, value: Value \cup {None},
     fits: BOOLEAN, parent: CommentRow \cup {None}]

NoRequest ==
    [pc |-> "idle", makes |-> FALSE, user |-> None, issue |-> None, before |-> None,
     assignee |-> None, field |-> None, value |-> None, fits |-> FALSE, parent |-> None]

CreationTypeOK ==
    /\ created \in [IssueRow -> CreatedRecord]
    /\ field \in [Field -> FieldRecord]
    /\ fieldValue \in [IssueRow -> [Field -> Value \cup {None}]]
    /\ watching \in SUBSET (IssueRow \X User)
    /\ autoWatch \in SUBSET (IssueRow \X User)
    /\ remark \in [CommentRow -> RemarkRecord]
    /\ request \in [FieldRequest -> RequestRecord]

CreationInit ==
    /\ created = [i \in IssueRow |-> [row |-> "UNUSED", assignee |-> None]]
    /\ field = [f \in Field |-> [row |-> "UNUSED", suits |-> {}]]
    /\ fieldValue = [i \in IssueRow |-> [f \in Field |-> None]]
    /\ watching = {}
    /\ autoWatch = {}
    /\ remark = [k \in CommentRow |->
                    [row |-> "UNUSED", issue |-> None, author |-> None, parent |-> None]]
    /\ request = [r \in FieldRequest |-> NoRequest]

There(i) == created[i].row = "LIVE"
Defined(f) == field[f].row = "LIVE"
Posted(k) == remark[k].row = "LIVE"

(* An upsert that refers to an issue or a field that no other connection *)
(* sees fails on its foreign key.                                        *)
Upserted(i, f, v) == IF There(i) /\ Defined(f) THEN [fieldValue EXCEPT ![i][f] = v] ELSE fieldValue

-----------------------------------------------------------------------------
(* CustomFieldsService: create, update, delete.  Every value suits a TEXT *)
(* field, its options a SELECT field, which has some.                     *)

Suits == SUBSET Value \ {{}}

CreateField(f, suits) ==
    /\ field[f].row = "UNUSED"
    /\ field' = [field EXCEPT ![f] = [row |-> "LIVE", suits |-> suits]]
    /\ UNCHANGED <<created, fieldValue, watching, autoWatch, remark, request>>

UpdateField(f, suits) ==
    /\ Defined(f)
    /\ field' = [field EXCEPT ![f].suits = suits]
    /\ UNCHANGED <<created, fieldValue, watching, autoWatch, remark, request>>

DeleteField(f) ==
    /\ Defined(f)
    /\ field' = [field EXCEPT ![f] = [row |-> "GONE", suits |-> {}]]
    /\ fieldValue' = [i \in IssueRow |-> [fieldValue[i] EXCEPT ![f] = None]]
    /\ UNCHANGED <<created, watching, autoWatch, remark, request>>

-----------------------------------------------------------------------------
(* IssuesService.create and update *)

(* Inside the transaction: the row, and the watches of the two users. *)
OpenIssue(r, u, assignee, f, v) ==
    \E i \in IssueRow :
        /\ request[r].pc = "idle"
        /\ created[i].row = "UNUSED"
        /\ created' = [created EXCEPT ![i] = [row |-> "OPEN", assignee |-> assignee]]
        /\ autoWatch' = autoWatch \cup ({i} \X ({u, assignee} \ {None}))
        /\ request' = [request EXCEPT ![r] =
               [NoRequest EXCEPT !.pc = IF f = None THEN "commit" ELSE "defs", !.makes = TRUE,
                    !.user = u, !.issue = i, !.field = f, !.value = v]]
        /\ UNCHANGED <<field, fieldValue, watching, remark>>

UpdateIssue(r, u, i, assignee, f, v) ==
    /\ request[r].pc = "idle"
    /\ There(i)
    /\ request' = [request EXCEPT ![r] =
           [NoRequest EXCEPT !.pc = "change", !.user = u, !.issue = i, !.assignee = assignee,
                !.before = created[i].assignee, !.field = f, !.value = v]]
    /\ UNCHANGED <<created, field, fieldValue, watching, autoWatch, remark>>

(* The transaction of update; of an issue that is gone it fails. *)
CommitUpdate(r) ==
    LET q == request[r]
    IN  /\ q.pc = "change"
        /\ IF There(q.issue)
           THEN /\ created' = [created EXCEPT ![q.issue].assignee = q.assignee]
                /\ autoWatch' = IF q.assignee \notin {q.before, None, q.user}
                                THEN autoWatch \cup {<<q.issue, q.assignee>>}
                                ELSE autoWatch
                /\ request' = [request EXCEPT ![r] =
                       IF q.field = None THEN NoRequest ELSE [q EXCEPT !.pc = "defs"]]
           ELSE /\ request' = [request EXCEPT ![r] = NoRequest]
                /\ UNCHANGED <<created, autoWatch>>
        /\ UNCHANGED <<field, fieldValue, watching, remark>>

(* applyCustomFieldValues: the definition, and what suits it now, are read *)
ReadDefs(r) ==
    LET q == request[r]
    IN  /\ q.pc = "defs"
        /\ request' = [request EXCEPT ![r] =
               IF Defined(q.field)
               THEN [q EXCEPT !.pc = "value", !.fits = q.value \in field[q.field].suits]
               ELSE IF q.makes THEN [q EXCEPT !.pc = "commit"] ELSE NoRequest]
        /\ UNCHANGED <<created, field, fieldValue, watching, autoWatch, remark>>

(* A value that does not suit the field deletes the row.  An upsert that *)
(* fails is caught and logged, and the request goes on.                  *)
WriteValue(r) ==
    LET q == request[r]
    IN  /\ q.pc = "value"
        /\ fieldValue' = IF q.fits
                     THEN Upserted(q.issue, q.field, q.value)
                     ELSE [fieldValue EXCEPT ![q.issue][q.field] = None]
        /\ request' = [request EXCEPT ![r] =
               IF q.makes THEN [q EXCEPT !.pc = "commit"] ELSE NoRequest]
        /\ UNCHANGED <<created, field, watching, autoWatch, remark>>

CommitCreate(r) ==
    /\ request[r].pc = "commit"
    /\ created' = [created EXCEPT ![request[r].issue].row = "LIVE"]
    /\ request' = [request EXCEPT ![r] = NoRequest]
    /\ UNCHANGED <<field, fieldValue, watching, autoWatch, remark>>

(* The request fails or the process ends; an open transaction rolls back. *)
RequestFails(r) ==
    LET q == request[r]
    IN  /\ q.pc # "idle"
        /\ created' = IF q.makes
                      THEN [created EXCEPT ![q.issue] = [row |-> "GONE", assignee |-> None]]
                      ELSE created
        /\ request' = [request EXCEPT ![r] = NoRequest]
        /\ UNCHANGED <<field, fieldValue, watching, autoWatch, remark>>

(* Values, watches and comments go with their issue. *)
DropIssue(i) ==
    /\ There(i)
    /\ created' = [created EXCEPT ![i] = [row |-> "GONE", assignee |-> None]]
    /\ fieldValue' = [fieldValue EXCEPT ![i] = [f \in Field |-> None]]
    /\ watching' = {w \in watching : w[1] # i}
    /\ remark' = [k \in CommentRow |->
                     IF remark[k].issue = i
                     THEN [row |-> "GONE", issue |-> None, author |-> None, parent |-> None]
                     ELSE remark[k]]
    /\ UNCHANGED <<field, autoWatch, request>>

-----------------------------------------------------------------------------
(* IssuesWatchersService *)

AutoWatch(i, u) ==
    /\ <<i, u>> \in autoWatch
    /\ autoWatch' = autoWatch \ {<<i, u>>}
    /\ watching' = IF There(i) THEN watching \cup {<<i, u>>} ELSE watching
    /\ UNCHANGED <<created, field, fieldValue, remark, request>>

Watch(i, u) ==
    /\ There(i)
    /\ watching' = watching \cup {<<i, u>>}
    /\ UNCHANGED <<created, field, fieldValue, autoWatch, remark, request>>

Unwatch(i, u) ==
    /\ There(i)
    /\ watching' = watching \ {<<i, u>>}
    /\ UNCHANGED <<created, field, fieldValue, autoWatch, remark, request>>

-----------------------------------------------------------------------------
(* CommentsService: the parent is checked, and the comment inserted later. *)

BeginComment(r, u, i, parent) ==
    /\ request[r].pc = "idle"
    /\ There(i)
    /\ parent # None => Posted(parent) /\ remark[parent].issue = i
    /\ request' = [request EXCEPT ![r] =
           [NoRequest EXCEPT !.pc = "comment", !.user = u, !.issue = i, !.parent = parent]]
    /\ UNCHANGED <<created, field, fieldValue, watching, autoWatch, remark>>

(* The insert fails when the issue or the parent is gone. *)
InsertComment(r) ==
    LET q == request[r]
    IN  /\ q.pc = "comment"
        /\ There(q.issue)
        /\ q.parent # None => Posted(q.parent)
        /\ \E k \in CommentRow :
              /\ remark[k].row = "UNUSED"
              /\ remark' = [remark EXCEPT ![k] = [row |-> "LIVE", issue |-> q.issue,
                                                  author |-> q.user, parent |-> q.parent]]
        /\ autoWatch' = autoWatch \cup {<<q.issue, q.user>>}
        /\ request' = [request EXCEPT ![r] = NoRequest]
        /\ UNCHANGED <<created, field, fieldValue, watching>>

(* By its author; its replies stay, without a parent. *)
DeleteComment(k) ==
    /\ Posted(k)
    /\ remark' = [x \in CommentRow |->
                     IF x = k
                     THEN [row |-> "GONE", issue |-> None, author |-> None, parent |-> None]
                     ELSE IF remark[x].parent = k
                     THEN [remark[x] EXCEPT !.parent = None]
                     ELSE remark[x]]
    /\ UNCHANGED <<created, field, fieldValue, watching, autoWatch, request>>

-----------------------------------------------------------------------------
(* A value is given with a field, or neither is. *)
Given == (Field \X Value) \cup {<<None, None>>}

CreationNext ==
    \/ \E f \in Field :
          \/ \E suits \in Suits : CreateField(f, suits) \/ UpdateField(f, suits)
          \/ DeleteField(f)
    \/ \E r \in FieldRequest :
          \/ \E u \in User, assignee \in User \cup {None}, g \in Given :
                \/ OpenIssue(r, u, assignee, g[1], g[2])
                \/ \E i \in IssueRow : UpdateIssue(r, u, i, assignee, g[1], g[2])
          \/ CommitUpdate(r)
          \/ ReadDefs(r)
          \/ WriteValue(r)
          \/ CommitCreate(r)
          \/ RequestFails(r)
          \/ \E u \in User, i \in IssueRow, parent \in CommentRow \cup {None} :
                BeginComment(r, u, i, parent)
          \/ InsertComment(r)
    \/ \E i \in IssueRow :
          \/ DropIssue(i)
          \/ \E u \in User : AutoWatch(i, u) \/ Watch(i, u) \/ Unwatch(i, u)
    \/ \E k \in CommentRow : DeleteComment(k)

CreationSpec == CreationInit /\ [][CreationNext]_creationVars

-----------------------------------------------------------------------------
(* A reply answers a comment of its own issue, whatever was deleted between *)
(* the check of its parent and its insert.                                  *)
RepliesInIssue ==
    \A k \in CommentRow :
        Posted(k) /\ remark[k].parent # None =>
            /\ Posted(remark[k].parent)
            /\ remark[remark[k].parent].issue = remark[k].issue

(* The value of a custom field that suited the field is stored when the    *)
(* creation of the issue commits, unless the field is gone by then.        *)
CreatedFieldsStored ==
    [][\A r \in FieldRequest :
          LET q == request[r]
          IN  CommitCreate(r) /\ q.fits /\ Defined(q.field) => fieldValue'[q.issue][q.field] = q.value
      ]_creationVars
=============================================================================
