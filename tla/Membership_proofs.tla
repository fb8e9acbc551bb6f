-------------------------- MODULE Membership_proofs --------------------------
(***************************************************************************)
(* Theorems about Membership for any set of users, links and requests.     *)
(***************************************************************************)
EXTENDS Membership, TLAPS

USE MembershipAssumption

LEMMA IdleTyped == Idle \in RequestRecord
BY DEF Idle, RequestRecord, PC

LEMMA LinkTyped ==
    ASSUME NEW state \in {"UNUSED", "LIVE", "EXPIRED", "GONE"}
    PROVE  NoLink(state) \in LinkRecord
BY DEF NoLink, LinkRecord

(* Forgetting row ids only shrinks what the requests of that kind hold.    *)
LEMMA Forgotten ==
    ASSUME TypeOK, NEW pcs, NEW S
    PROVE  /\ ForgetRows(pcs, S) \in [Request -> RequestRecord]
           /\ \A q \in Request :
                 /\ ForgetRows(pcs, S)[q].pc = req[q].pc
                 /\ ForgetRows(pcs, S)[q].actor = req[q].actor
                 /\ ForgetRows(pcs, S)[q].role = req[q].role
                 /\ ForgetRows(pcs, S)[q].link = req[q].link
                 /\ ForgetRows(pcs, S)[q].who =
                       IF req[q].pc \in pcs THEN req[q].who \ S ELSE req[q].who
BY DEF TypeOK, ForgetRows, RequestRecord

(* What the last conjunct of TypeOK says of one request record.            *)
WellFilled(rec) ==
    /\ rec.pc \in {"add", "role", "join"} => rec.role \in WorkspaceRole
    /\ rec.pc \in {"addProject", "roleProject"} => rec.role \in ProjectRole
    /\ rec.pc = "join" => rec.link \in Link
    /\ rec.pc \in {"transfer", "createProject"} => rec.actor \in User

LEMMA RequestTyped ==
    ASSUME TypeOK, NEW r \in Request, NEW rec \in RequestRecord, WellFilled(rec),
           Enter(r, rec)
    PROVE  /\ req' \in [Request -> RequestRecord]
           /\ \A q \in Request : WellFilled(req[q])'
BY DEF TypeOK, WellFilled, Enter, At

LEMMA LeaveTyped ==
    ASSUME TypeOK, NEW r \in Request, Leave(r)
    PROVE  /\ req' \in [Request -> RequestRecord]
           /\ \A q \in Request : WellFilled(req[q])'
<1>1. WellFilled(Idle)
  BY DEF WellFilled, Idle
<1> QED
  BY <1>1, IdleTyped, RequestTyped DEF Leave, Enter

LEMMA ForgottenFilled ==
    ASSUME TypeOK, NEW pcs, NEW S, NEW q \in Request
    PROVE  WellFilled(ForgetRows(pcs, S)[q])
<1>1. WellFilled(req[q])
  BY DEF TypeOK, WellFilled, At
<1>2. /\ ForgetRows(pcs, S)[q].pc = req[q].pc
      /\ ForgetRows(pcs, S)[q].actor = req[q].actor
      /\ ForgetRows(pcs, S)[q].role = req[q].role
      /\ ForgetRows(pcs, S)[q].link = req[q].link
  BY DEF ForgetRows, TypeOK, RequestRecord
<1> QED
  BY <1>1, <1>2 DEF WellFilled

LEMMA ForgetTyped ==
    ASSUME TypeOK, NEW pcs, NEW S, req' = ForgetRows(pcs, S)
    PROVE  /\ req' \in [Request -> RequestRecord]
           /\ \A q \in Request : WellFilled(req[q])'
<1>1. ASSUME NEW q \in Request PROVE WellFilled(req'[q])
  BY ForgottenFilled
<1> QED
  BY <1>1, Forgotten DEF WellFilled

LEMMA ForgetLeaveTyped ==
    ASSUME TypeOK, NEW pcs, NEW S, NEW r \in Request,
           req' = [ForgetRows(pcs, S) EXCEPT ![r] = Idle]
    PROVE  /\ req' \in [Request -> RequestRecord]
           /\ \A q \in Request : WellFilled(req[q])'
<1>1. WellFilled(Idle)
  BY DEF WellFilled, Idle
<1>2. ForgetRows(pcs, S) \in [Request -> RequestRecord]
  BY Forgotten
<1>3. ASSUME NEW q \in Request PROVE WellFilled(req'[q])
  BY <1>1, <1>2, ForgottenFilled
<1> QED
  BY <1>2, <1>3, IdleTyped DEF WellFilled

(* TypeOK from its parts: the tables, and the requests.                    *)
Tables ==
    /\ account \subseteq User
    /\ workspace \in BOOLEAN
    /\ owner \in User
    /\ role \in [User -> WorkspaceRole \cup {NULL}]
    /\ link \in [Link -> LinkRecord]
    /\ \A l \in Link : link[l].state \in {"LIVE", "EXPIRED"} => link[l].role \in WorkspaceRole
    /\ project \in {"UNUSED", "LIVE", "GONE"}
    /\ lead \in User \cup {NULL}
    /\ member \in [User -> ProjectRole \cup {NULL}]

LEMMA TypePartsNext ==
    ASSUME Tables', req' \in [Request -> RequestRecord],
           \A q \in Request : WellFilled(req[q])'
    PROVE  TypeOK'
BY DEF TypeOK, Tables, WellFilled, At

LEMMA TablesFrame ==
    ASSUME TypeOK, UNCHANGED <<account, workspaceRows, projectRows>>
    PROVE  Tables'
BY DEF TypeOK, Tables, workspaceRows, projectRows

LEMMA RequestsFrame ==
    ASSUME TypeOK, UNCHANGED req
    PROVE  /\ req' \in [Request -> RequestRecord]
           /\ \A q \in Request : WellFilled(req[q])'
BY DEF TypeOK, WellFilled, At

LEMMA DropTyped ==
    ASSUME TypeOK, DropWorkspace, account' \subseteq User
    PROVE  TypeOK'
<1>1. link' \in [Link -> LinkRecord] /\ \A l \in Link : link'[l].state = "GONE"
  BY LinkTyped DEF DropWorkspace, NoLink
<1>2. Tables'
  BY <1>1 DEF TypeOK, Tables, DropWorkspace
<1> QED
  BY <1>2, ForgetTyped, TypePartsNext DEF DropWorkspace

LEMMA ManagerStepType ==
    ASSUME TypeOK, NEW r \in Request, ManagerStep(r)
    PROVE  TypeOK'
<1>1. ASSUME NEW u \in User, RemoveMemberRead(r, u) PROVE TypeOK'
  <2>1. [Idle EXCEPT !.pc = "remove", !.who = {u}] \in RequestRecord
    BY DEF Idle, RequestRecord, PC
  <2> QED
    BY <1>1, <2>1, RequestTyped, TablesFrame, TypePartsNext DEF RemoveMemberRead, WellFilled, Idle
<1>2. ASSUME NEW a \in User, NEW u \in User, TransferRead(r, a, u) PROVE TypeOK'
  <2>1. [Idle EXCEPT !.pc = "transfer", !.actor = a, !.who = {u}] \in RequestRecord
    BY DEF Idle, RequestRecord, PC
  <2> QED
    BY <1>2, <2>1, RequestTyped, TablesFrame, TypePartsNext DEF TransferRead, WellFilled, Idle
<1>3. ASSUME NEW u \in User, NEW new \in WorkspaceRole, UpdateMemberRead(r, u, new) PROVE TypeOK'
  <2>1. [Idle EXCEPT !.pc = "role", !.who = {u}, !.role = new] \in RequestRecord
    BY DEF Idle, RequestRecord, PC
  <2> QED
    BY <1>3, <2>1, RequestTyped, TablesFrame, TypePartsNext DEF UpdateMemberRead, WellFilled, Idle
<1>4. CASE TransferWrite(r)
  <2>1. Tables'
    BY <1>4 DEF TypeOK, Tables, TransferWrite, Transferred, projectRows, RequestRecord
  <2> QED
    BY <1>4, <2>1, LeaveTyped, TypePartsNext DEF TransferWrite
<1>5. CASE UpdateMemberWrite(r)
  <2>1. req[r].role \in WorkspaceRole
    BY <1>5 DEF TypeOK, UpdateMemberWrite, At
  <2>2. Tables'
    BY <1>5, <2>1 DEF TypeOK, Tables, UpdateMemberWrite, projectRows
  <2> QED
    BY <1>5, <2>2, LeaveTyped, TypePartsNext DEF UpdateMemberWrite
<1>6. CASE RemoveMemberWrite(r)
  <2>1. Tables'
    BY <1>6 DEF TypeOK, Tables, RemoveMemberWrite, projectRows
  <2> QED
    BY <1>6, <2>1, ForgetLeaveTyped, TypePartsNext DEF RemoveMemberWrite
<1> QED
  BY <1>1, <1>2, <1>3, <1>4, <1>5, <1>6 DEF ManagerStep

LEMMA MemberStepType ==
    ASSUME TypeOK, NEW r \in Request, MemberStep(r)
    PROVE  TypeOK'
<1>1. ASSUME NEW u \in User, NEW new \in WorkspaceRole, AddMemberRead(r, u, new) PROVE TypeOK'
  <2>1. [Idle EXCEPT !.pc = "add", !.who = {u}, !.role = new] \in RequestRecord
    BY DEF Idle, RequestRecord, PC
  <2> QED
    BY <1>1, <2>1, RequestTyped, TablesFrame, TypePartsNext DEF AddMemberRead, WellFilled, Idle
<1>2. CASE AddMemberWrite(r)
  <2>1. req[r].role \in WorkspaceRole
    BY <1>2 DEF TypeOK, AddMemberWrite, At
  <2>2. Tables'
    BY <1>2, <2>1 DEF TypeOK, Tables, AddMemberWrite, projectRows
  <2> QED
    BY <1>2, <2>2, LeaveTyped, TypePartsNext DEF AddMemberWrite
<1>3. CASE DeleteWorkspace(r)
  BY <1>3, DropTyped DEF DeleteWorkspace, TypeOK
<1> QED
  BY <1>1, <1>2, <1>3 DEF MemberStep

LEMMA LinkStepType ==
    ASSUME TypeOK, NEW r \in Request, LinkStep(r)
    PROVE  TypeOK'
<1>1. ASSUME NEW l \in Link, NEW u \in User, JoinRead(r, l, u) PROVE TypeOK'
  <2>1. link[l].role \in WorkspaceRole
    BY <1>1 DEF TypeOK, JoinRead, ValidLink
  <2>2. [Idle EXCEPT !.pc = "join", !.who = {u}, !.role = link[l].role, !.link = l] \in RequestRecord
    BY <2>1 DEF Idle, RequestRecord, PC
  <2> QED
    BY <1>1, <2>1, <2>2, RequestTyped, TablesFrame, TypePartsNext DEF JoinRead, WellFilled, Idle
<1>2. ASSUME NEW l \in Link, NEW u \in User, NEW new \in WorkspaceRole, CreateLink(r, l, u, new)
      PROVE  TypeOK'
  <2>1. [state |-> "LIVE", by |-> u, role |-> new, used |-> 0] \in LinkRecord
    BY DEF LinkRecord
  <2>2. Tables'
    BY <1>2, <2>1 DEF TypeOK, Tables, CreateLink, projectRows
  <2> QED
    BY <1>2, <2>2, RequestsFrame, TypePartsNext DEF CreateLink
<1>3. ASSUME NEW l \in Link, RevokeLink(r, l) PROVE TypeOK'
  <2>1. NoLink("GONE") \in LinkRecord /\ NoLink("GONE").state = "GONE"
    BY LinkTyped DEF NoLink
  <2>2. Tables'
    BY <1>3, <2>1 DEF TypeOK, Tables, RevokeLink, projectRows
  <2> QED
    BY <1>3, <2>2, RequestsFrame, TypePartsNext DEF RevokeLink
<1>4. CASE JoinCommit(r)
  <2>1. req[r].role \in WorkspaceRole /\ req[r].link \in Link
    BY <1>4 DEF TypeOK, JoinCommit, At
  <2>2. PICK u \in req[r].who :
            \/ /\ role' = [role EXCEPT ![u] = req[r].role]
               /\ link' = [link EXCEPT ![req[r].link].used = @ + 1]
               /\ LinkRow(req[r].link)
            \/ UNCHANGED <<role, link>>
    BY <1>4 DEF JoinCommit, HasRoom
  <2>3. /\ [link[req[r].link] EXCEPT !.used = @ + 1] \in LinkRecord
        /\ [link[req[r].link] EXCEPT !.used = @ + 1].state = link[req[r].link].state
        /\ [link[req[r].link] EXCEPT !.used = @ + 1].role = link[req[r].link].role
    BY <2>1 DEF TypeOK, LinkRecord
  <2>4. role' \in [User -> WorkspaceRole \cup {NULL}]
    BY <2>1, <2>2 DEF TypeOK
  <2>5. /\ link' \in [Link -> LinkRecord]
        /\ \A l \in Link : link'[l].state \in {"LIVE", "EXPIRED"} => link'[l].role \in WorkspaceRole
    <3>1. CASE UNCHANGED link
      BY <3>1 DEF TypeOK
    <3>2. CASE link' = [link EXCEPT ![req[r].link].used = @ + 1] /\ LinkRow(req[r].link)
      <4>1. /\ \A l \in Link \ {req[r].link} : link'[l] = link[l]
            /\ link'[req[r].link] = [link[req[r].link] EXCEPT !.used = @ + 1]
        BY <2>1, <3>2 DEF TypeOK
      <4>2. link' \in [Link -> LinkRecord]
        BY <2>1, <2>3, <3>2 DEF TypeOK
      <4> QED
        BY <2>3, <4>1, <4>2 DEF TypeOK
    <3> QED
      BY <2>2, <3>1, <3>2
  <2>6. UNCHANGED <<account, workspace, owner, project, lead, member>> /\ Leave(r)
    BY <1>4 DEF JoinCommit, projectRows
  <2>7. Tables'
    BY <2>4, <2>5, <2>6 DEF TypeOK, Tables
  <2> QED
    BY <2>6, <2>7, LeaveTyped, TypePartsNext
<1> QED
  BY <1>1, <1>2, <1>3, <1>4 DEF LinkStep

LEMMA ProjectStepType ==
    ASSUME TypeOK, NEW r \in Request, ProjectStep(r)
    PROVE  TypeOK'
<1>1. ASSUME NEW u \in User, CreateProjectRead(r, u) PROVE TypeOK'
  <2>1. [Idle EXCEPT !.pc = "createProject", !.actor = u] \in RequestRecord
    BY DEF Idle, RequestRecord, PC
  <2> QED
    BY <1>1, <2>1, RequestTyped, TablesFrame, TypePartsNext DEF CreateProjectRead, WellFilled, Idle
<1>2. ASSUME NEW u \in User, RemoveProjectMemberRead(r, u) PROVE TypeOK'
  <2>1. [Idle EXCEPT !.pc = "removeProject", !.who = {u}] \in RequestRecord
    BY DEF Idle, RequestRecord, PC
  <2> QED
    BY <1>2, <2>1, RequestTyped, TablesFrame, TypePartsNext
       DEF RemoveProjectMemberRead, WellFilled, Idle
<1>3. ASSUME NEW u \in User, NEW new \in ProjectRole, UpdateMemberRoleRead(r, u, new)
      PROVE  TypeOK'
  <2>1. [Idle EXCEPT !.pc = "roleProject", !.who = {u}, !.role = new] \in RequestRecord
    BY DEF Idle, RequestRecord, PC
  <2> QED
    BY <1>3, <2>1, RequestTyped, TablesFrame, TypePartsNext
       DEF UpdateMemberRoleRead, WellFilled, Idle
<1>4. ASSUME NEW S \in SUBSET User, NEW new \in ProjectRole, AddProjectMembersRead(r, S, new)
      PROVE  TypeOK'
  <2>1. [Idle EXCEPT !.pc = "addProject", !.who = S, !.role = new] \in RequestRecord
    BY DEF Idle, RequestRecord, PC
  <2> QED
    BY <1>4, <2>1, RequestTyped, TablesFrame, TypePartsNext
       DEF AddProjectMembersRead, WellFilled, Idle
<1>5. CASE CreateProjectWrite(r)
  <2>1. req[r].actor \in User
    BY <1>5 DEF TypeOK, CreateProjectWrite, At
  <2>2. Tables'
    BY <1>5, <2>1 DEF TypeOK, Tables, CreateProjectWrite, workspaceRows, projectRows
  <2> QED
    BY <1>5, <2>2, LeaveTyped, TypePartsNext DEF CreateProjectWrite
<1>6. CASE DeleteProject(r)
  <2>1. Tables'
    BY <1>6 DEF TypeOK, Tables, DeleteProject, workspaceRows
  <2> QED
    BY <1>6, <2>1, ForgetTyped, TypePartsNext DEF DeleteProject
<1>7. CASE AddProjectMembersWrite(r)
  <2>1. req[r].role \in ProjectRole
    BY <1>7 DEF TypeOK, AddProjectMembersWrite, At
  <2>2. Tables'
    BY <1>7, <2>1 DEF TypeOK, Tables, AddProjectMembersWrite, workspaceRows
  <2> QED
    BY <1>7, <2>2, LeaveTyped, TypePartsNext DEF AddProjectMembersWrite
<1>8. CASE UpdateMemberRoleWrite(r)
  <2>1. req[r].role \in ProjectRole
    BY <1>8 DEF TypeOK, UpdateMemberRoleWrite, At
  <2>2. Tables'
    BY <1>8, <2>1 DEF TypeOK, Tables, UpdateMemberRoleWrite, workspaceRows
  <2> QED
    BY <1>8, <2>2, LeaveTyped, TypePartsNext DEF UpdateMemberRoleWrite
<1>9. CASE RemoveProjectMemberWrite(r)
  <2>1. Tables'
    BY <1>9 DEF TypeOK, Tables, RemoveProjectMemberWrite, workspaceRows
  <2> QED
    BY <1>9, <2>1, ForgetLeaveTyped, TypePartsNext DEF RemoveProjectMemberWrite
<1> QED
  BY <1>1, <1>2, <1>3, <1>4, <1>5, <1>6, <1>7, <1>8, <1>9 DEF ProjectStep

LEMMA EnvironmentType ==
    ASSUME TypeOK, (\E l \in Link : LinkExpires(l)) \/ (\E u \in User : DeleteAccount(u))
    PROVE  TypeOK'
<1>1. ASSUME NEW l \in Link, LinkExpires(l) PROVE TypeOK'
  <2>1. [link[l] EXCEPT !.state = "EXPIRED"] \in LinkRecord
    BY DEF TypeOK, LinkRecord
  <2>2. [link[l] EXCEPT !.state = "EXPIRED"].role = link[l].role
    BY DEF TypeOK, LinkRecord
  <2>3. Tables'
    BY <1>1, <2>1, <2>2 DEF TypeOK, Tables, LinkExpires, projectRows
  <2> QED
    BY <1>1, <2>3, RequestsFrame, TypePartsNext DEF LinkExpires
<1>2. ASSUME NEW u \in User, DeleteAccount(u) PROVE TypeOK'
  <2>1. CASE workspace /\ owner = u
    BY <1>2, <2>1, DropTyped DEF DeleteAccount, TypeOK
  <2>2. CASE ~(workspace /\ owner = u)
    <3>1. Tables'
      BY <1>2, <2>2 DEF TypeOK, Tables, DeleteAccount
    <3> QED
      BY <1>2, <2>2, <3>1, ForgetTyped, TypePartsNext DEF DeleteAccount
  <2> QED
    BY <2>1, <2>2
<1> QED
  BY <1>1, <1>2

LEMMA TypeInductive == TypeOK /\ [Next]_vars => TypeOK'
<1> SUFFICES ASSUME TypeOK, [Next]_vars PROVE TypeOK'
  OBVIOUS
<1>1. CASE UNCHANGED vars
  BY <1>1 DEF vars, workspaceRows, projectRows, TypeOK, At
<1>2. CASE Next
  BY <1>2, ManagerStepType, MemberStepType, LinkStepType, ProjectStepType, EnvironmentType DEF Next
<1> QED
  BY <1>1, <1>2

(* The tables and what every request remembers keep their types.           *)
THEOREM TypeCorrect == Spec => []TypeOK
<1>1. Init => TypeOK
  BY IdleTyped, LinkTyped DEF Init, TypeOK, At, Idle, NoLink
<1> QED
  BY <1>1, TypeInductive, PTL DEF Spec

-----------------------------------------------------------------------------
(* A link's uses only grow at a join that the transaction finds in bounds. *)
LEMMA UsesInductive == TypeOK /\ UsesBounded /\ [Next]_vars => UsesBounded'
<1> SUFFICES ASSUME TypeOK, UsesBounded, [Next]_vars PROVE UsesBounded'
  OBVIOUS
<1>1. CASE UNCHANGED link
  BY <1>1 DEF UsesBounded
<1>2. CASE DropWorkspace
  BY <1>2 DEF UsesBounded, DropWorkspace, NoLink
<1>3. ASSUME NEW r \in Request, LinkStep(r) PROVE UsesBounded'
  <2>1. ASSUME NEW l \in Link, NEW u \in User, NEW new \in WorkspaceRole, CreateLink(r, l, u, new)
        PROVE  UsesBounded'
    BY <2>1 DEF UsesBounded, CreateLink, TypeOK
  <2>2. ASSUME NEW l \in Link, RevokeLink(r, l) PROVE UsesBounded'
    BY <2>2 DEF UsesBounded, RevokeLink, NoLink, TypeOK
  <2>3. CASE JoinCommit(r)
    BY <2>3, <1>1 DEF UsesBounded, JoinCommit, HasRoom, TypeOK, LinkRecord
  <2> QED
    BY <1>1, <1>3, <2>1, <2>2, <2>3 DEF LinkStep, JoinRead, workspaceRows
<1>4. ASSUME NEW l \in Link, LinkExpires(l) PROVE UsesBounded'
  BY <1>4 DEF UsesBounded, LinkExpires, TypeOK, LinkRecord
<1>5. ASSUME NEW u \in User, DeleteAccount(u) PROVE UsesBounded'
  BY <1>1, <1>2, <1>5 DEF DeleteAccount
<1>6. ASSUME NEW r \in Manager, ManagerStep(r) PROVE UsesBounded'
  BY <1>1, <1>6 DEF ManagerStep, RemoveMemberRead, TransferRead, UpdateMemberRead, TransferWrite,
       UpdateMemberWrite, RemoveMemberWrite, workspaceRows
<1>7. ASSUME NEW r \in Request, MemberStep(r) PROVE UsesBounded'
  BY <1>1, <1>2, <1>7 DEF MemberStep, AddMemberRead, AddMemberWrite, DeleteWorkspace, workspaceRows
<1>8. ASSUME NEW r \in Request, ProjectStep(r) PROVE UsesBounded'
  BY <1>1, <1>8 DEF ProjectStep, CreateProjectRead, RemoveProjectMemberRead, UpdateMemberRoleRead,
       AddProjectMembersRead, CreateProjectWrite, DeleteProject, AddProjectMembersWrite,
       UpdateMemberRoleWrite, RemoveProjectMemberWrite, workspaceRows
<1> QED
  BY <1>1, <1>3, <1>4, <1>5, <1>6, <1>7, <1>8 DEF Next, vars, workspaceRows

(* No number of concurrent joins takes more uses than the link was given.  *)
THEOREM UsesSafety == Spec => []UsesBounded
<1>1. Init => UsesBounded
  BY DEF Init, UsesBounded, NoLink
<1> QED
  BY <1>1, TypeCorrect, UsesInductive, PTL DEF Spec

-----------------------------------------------------------------------------
(* LeadInv, step by step.  What a request may turn into without touching   *)
(* the project: it still holds only row ids it held, or the new one is not *)
(* the lead's; and it is creating the project only if it was.              *)
LeadQuiet ==
    \A q \in Request :
        /\ req'[q].pc \in ProjectRowIds =>
              \/ lead \notin req'[q].who /\ \A u \in req'[q].who : member[u] # NULL
              \/ req[q].pc \in ProjectRowIds /\ req'[q].who \subseteq req[q].who
        /\ req'[q].pc = "createProject" => req[q].pc = "createProject"

LEMMA LeadFrame ==
    ASSUME LeadInv, TypeOK', UNCHANGED projectRows, workspace' => workspace, LeadQuiet
    PROVE  LeadInv'
BY DEF LeadInv, LeadKeepsRole, projectRows, LeadQuiet, At

LEMMA QuietLeave ==
    ASSUME TypeOK, NEW r \in Request, Leave(r)
    PROVE  LeadQuiet
BY IdleTyped DEF TypeOK, LeadQuiet, Leave, Idle, ProjectRowIds

LEMMA QuietForget ==
    ASSUME TypeOK, NEW pcs, NEW S, req' = ForgetRows(pcs, S)
    PROVE  LeadQuiet
BY DEF LeadQuiet, ForgetRows, TypeOK, RequestRecord

LEMMA QuietForgetLeave ==
    ASSUME TypeOK, NEW pcs, NEW S, NEW r \in Request,
           req' = [ForgetRows(pcs, S) EXCEPT ![r] = Idle]
    PROVE  LeadQuiet
BY DEF LeadQuiet, ForgetRows, TypeOK, RequestRecord, Idle, ProjectRowIds

(* When the project goes, nothing is left to hold.                         *)
LEMMA LeadDropped ==
    ASSUME LeadInv, TypeOK', project' = "GONE", lead' = NULL,
           member' = [u \in User |-> NULL], LeadQuiet,
           \A q \in Request : req'[q].pc \in ProjectRowIds => req'[q].who = {},
           \/ workspace' = FALSE
           \/ project = "LIVE" /\ workspace' = workspace
    PROVE  LeadInv'
<1>1. \A q \in Request : NULL \notin req'[q].who
  BY DEF TypeOK, RequestRecord
<1>2. \A q \in Request : req'[q].pc = "createProject" => req[q].pc = "createProject"
  BY DEF LeadQuiet
<1> QED
  BY <1>1, <1>2 DEF LeadInv, LeadKeepsRole, At

(* Roles that change without a row coming or going, the lead's excepted.   *)
LEMMA LeadRowsKept ==
    ASSUME LeadInv, TypeOK', UNCHANGED <<workspace, project, lead>>, LeadQuiet,
           lead \in User => member'[lead] = member[lead],
           \A u \in User : member'[u] = NULL <=> member[u] = NULL
    PROVE  LeadInv'
<1>0. TypeOK
  BY DEF LeadInv
<1>1. project = "LIVE" => lead \in User /\ member'[lead] = "LEAD"
  BY DEF LeadInv, LeadKeepsRole
<1>2. project # "LIVE" => member' = [u \in User |-> NULL]
  <2>1. project # "LIVE" => \A u \in User : member[u] = NULL
    BY DEF LeadInv
  <2>2. project # "LIVE" => \A u \in User : member'[u] = NULL
    BY <2>1
  <2> QED
    BY <2>2 DEF TypeOK
<1>3. \A q \in Request : req'[q].pc \in ProjectRowIds =>
         lead \notin req'[q].who /\ \A u \in req'[q].who : member'[u] # NULL
  <2> SUFFICES ASSUME NEW q \in Request, req'[q].pc \in ProjectRowIds
               PROVE  lead \notin req'[q].who /\ \A u \in req'[q].who : member'[u] # NULL
    OBVIOUS
  <2>1. lead \notin req'[q].who /\ \A u \in req'[q].who : member[u] # NULL
    BY DEF LeadInv, LeadQuiet
  <2>2. req'[q].who \subseteq User
    BY DEF TypeOK, RequestRecord
  <2> QED
    BY <2>1, <2>2
<1>4. \A q \in Request : At(q, "createProject")' => At(q, "createProject")
  BY DEF LeadQuiet, At
<1> QED
  BY <1>1, <1>2, <1>3, <1>4 DEF LeadInv, LeadKeepsRole

(* Forgetting every member row leaves nothing to hold.                     *)
LEMMA AllForgotten ==
    ASSUME TypeOK, NEW pcs, ProjectRowIds \subseteq pcs, req' = ForgetRows(pcs, User)
    PROVE  \A q \in Request : req'[q].pc \in ProjectRowIds => req'[q].who = {}
<1> SUFFICES ASSUME NEW q \in Request, req'[q].pc \in ProjectRowIds PROVE req'[q].who = {}
  OBVIOUS
<1>1. req'[q].pc = req[q].pc
  BY DEF ForgetRows, TypeOK, RequestRecord
<1>2. req'[q] = [req[q] EXCEPT !.who = @ \ User]
  BY <1>1 DEF ForgetRows
<1>3. req[q] \in RequestRecord
  BY DEF TypeOK
<1> QED
  BY <1>2, <1>3 DEF RequestRecord

LEMMA LeadManagerStep ==
    ASSUME LeadInv, TypeOK', NEW r \in Request, ManagerStep(r)
    PROVE  LeadInv'
<1> USE DEF ProjectRowIds, workspaceRows
<1>0. TypeOK
  BY DEF LeadInv
<1>1. ASSUME NEW u \in User, RemoveMemberRead(r, u) PROVE LeadInv'
  BY <1>0, <1>1, LeadFrame DEF RemoveMemberRead, LeadQuiet, Enter, Idle, TypeOK
<1>2. ASSUME NEW a \in User, NEW u \in User, TransferRead(r, a, u) PROVE LeadInv'
  BY <1>0, <1>2, LeadFrame DEF TransferRead, LeadQuiet, Enter, Idle, TypeOK
<1>3. ASSUME NEW u \in User, NEW new \in WorkspaceRole, UpdateMemberRead(r, u, new) PROVE LeadInv'
  BY <1>0, <1>3, LeadFrame DEF UpdateMemberRead, LeadQuiet, Enter, Idle, TypeOK
<1>4. CASE TransferWrite(r)
  BY <1>0, <1>4, LeadFrame, QuietLeave DEF TransferWrite
<1>5. CASE UpdateMemberWrite(r)
  BY <1>0, <1>5, LeadFrame, QuietLeave DEF UpdateMemberWrite
<1>6. CASE RemoveMemberWrite(r)
  BY <1>0, <1>6, LeadFrame, QuietForgetLeave DEF RemoveMemberWrite
<1> QED
  BY <1>1, <1>2, <1>3, <1>4, <1>5, <1>6 DEF ManagerStep

LEMMA LeadMemberStep ==
    ASSUME LeadInv, TypeOK', NEW r \in Request, MemberStep(r)
    PROVE  LeadInv'
<1> USE DEF ProjectRowIds, workspaceRows
<1>0. TypeOK
  BY DEF LeadInv
<1>1. ASSUME NEW u \in User, NEW new \in WorkspaceRole, AddMemberRead(r, u, new) PROVE LeadInv'
  BY <1>0, <1>1, LeadFrame DEF AddMemberRead, LeadQuiet, Enter, Idle, TypeOK
<1>2. CASE AddMemberWrite(r)
  BY <1>0, <1>2, LeadFrame, QuietLeave DEF AddMemberWrite
<1>3. CASE DeleteWorkspace(r)
  <2>1. LeadQuiet
    BY <1>0, <1>3, QuietForget DEF DeleteWorkspace, DropWorkspace
  <2>2. \A q \in Request : req'[q].pc \in ProjectRowIds => req'[q].who = {}
    BY <1>0, <1>3, AllForgotten DEF DeleteWorkspace, DropWorkspace
  <2> QED
    BY <1>3, <2>1, <2>2, LeadDropped DEF DeleteWorkspace, DropWorkspace
<1> QED
  BY <1>1, <1>2, <1>3 DEF MemberStep

LEMMA LeadLinkStep ==
    ASSUME LeadInv, TypeOK', NEW r \in Request, LinkStep(r)
    PROVE  LeadInv'
<1> USE DEF ProjectRowIds, workspaceRows
<1>0. TypeOK
  BY DEF LeadInv
<1>1. ASSUME NEW l \in Link, NEW u \in User, JoinRead(r, l, u) PROVE LeadInv'
  BY <1>0, <1>1, LeadFrame DEF JoinRead, LeadQuiet, Enter, Idle, TypeOK
<1>2. ASSUME NEW l \in Link, NEW u \in User, NEW new \in WorkspaceRole, CreateLink(r, l, u, new)
      PROVE  LeadInv'
  BY <1>0, <1>2, LeadFrame DEF CreateLink, LeadQuiet
<1>3. ASSUME NEW l \in Link, RevokeLink(r, l) PROVE LeadInv'
  BY <1>0, <1>3, LeadFrame DEF RevokeLink, LeadQuiet
<1>4. CASE JoinCommit(r)
  BY <1>0, <1>4, LeadFrame, QuietLeave DEF JoinCommit
<1> QED
  BY <1>1, <1>2, <1>3, <1>4 DEF LinkStep

LEMMA LeadProjectStep ==
    ASSUME LeadInv, TypeOK', NEW r \in Request, ProjectStep(r)
    PROVE  LeadInv'
<1> USE DEF ProjectRowIds, workspaceRows
<1>0. TypeOK
  BY DEF LeadInv
<1>1. ASSUME NEW u \in User, CreateProjectRead(r, u) PROVE LeadInv'
  BY <1>0, <1>1 DEF CreateProjectRead, FreshProject, LeadInv, LeadKeepsRole, projectRows, Enter,
     Idle, At, TypeOK
<1>2. ASSUME NEW u \in User, RemoveProjectMemberRead(r, u) PROVE LeadInv'
  <2>1. u # lead
    BY <1>2 DEF RemoveProjectMemberRead, NotLead, LeadInv, LeadKeepsRole
  <2>2. LeadQuiet
    BY <1>0, <1>2, <2>1 DEF RemoveProjectMemberRead, NotLead, LeadQuiet, Enter, Idle, TypeOK
  <2> QED
    BY <1>2, <2>2, LeadFrame DEF RemoveProjectMemberRead
<1>3. ASSUME NEW u \in User, NEW new \in ProjectRole, UpdateMemberRoleRead(r, u, new)
      PROVE  LeadInv'
  <2>1. u # lead
    BY <1>3 DEF UpdateMemberRoleRead, NotLead, LeadInv, LeadKeepsRole
  <2>2. LeadQuiet
    BY <1>0, <1>3, <2>1 DEF UpdateMemberRoleRead, NotLead, LeadQuiet, Enter, Idle, TypeOK
  <2> QED
    BY <1>3, <2>2, LeadFrame DEF UpdateMemberRoleRead
<1>4. ASSUME NEW S \in SUBSET User, NEW new \in ProjectRole, AddProjectMembersRead(r, S, new)
      PROVE  LeadInv'
  BY <1>0, <1>4, LeadFrame DEF AddProjectMembersRead, LeadQuiet, Enter, Idle, TypeOK
<1>5. CASE CreateProjectWrite(r)
  <2>1. CASE ~(workspace /\ req[r].actor \in account)
    BY <1>0, <1>5, <2>1, LeadFrame, QuietLeave DEF CreateProjectWrite
  <2>2. CASE workspace /\ req[r].actor \in account
    <3>1. project = "UNUSED" /\ \A q \in Request : At(q, "createProject") => q = r
      BY <1>5, <2>2 DEF CreateProjectWrite, LeadInv
    <3>2. /\ project' = "LIVE" /\ lead' = req[r].actor /\ req[r].actor \in User
          /\ member' = [member EXCEPT ![req[r].actor] = "LEAD"] /\ Leave(r)
      BY <1>0, <1>5, <2>2 DEF CreateProjectWrite, TypeOK
    <3>3. \A q \in Request : ~At(q, "createProject")'
      BY <1>0, <3>1, <3>2 DEF Leave, Idle, At, TypeOK
    <3>4. member'[lead'] = "LEAD"
      BY <1>0, <3>2 DEF TypeOK
    <3>5. \A q \in Request : req'[q].pc \in ProjectRowIds => req'[q].who = {}
      <4>1. \A q \in Request : req[q].pc \in ProjectRowIds => req[q].who = {}
        BY <1>0, <3>1 DEF LeadInv, TypeOK, RequestRecord
      <4> QED
        BY <1>0, <3>2, <4>1 DEF Leave, Idle, TypeOK
    <3> QED
      BY <3>2, <3>3, <3>4, <3>5 DEF LeadInv, LeadKeepsRole
  <2> QED
    BY <2>1, <2>2
<1>6. CASE DeleteProject(r)
  <2>1. LeadQuiet
    BY <1>0, <1>6, QuietForget DEF DeleteProject
  <2>2. project = "LIVE"
    BY <1>0, <1>6 DEF DeleteProject, Leading, LeadInv
  <2>3. \A q \in Request : req'[q].pc \in ProjectRowIds => req'[q].who = {}
    BY <1>0, <1>6, AllForgotten DEF DeleteProject
  <2> QED
    BY <1>6, <2>1, <2>2, <2>3, LeadDropped DEF DeleteProject
<1>7. CASE AddProjectMembersWrite(r)
  <2>1. LeadQuiet
    BY <1>0, <1>7, QuietLeave DEF AddProjectMembersWrite
  <2>2. CASE ~InsertsAll(req[r].who)
    <3>1. member' = [u \in User |-> member[u]]
      BY <1>7, <2>2 DEF AddProjectMembersWrite
    <3>2. UNCHANGED projectRows /\ UNCHANGED workspace
      BY <1>0, <1>7, <3>1 DEF AddProjectMembersWrite, TypeOK, projectRows
    <3> QED
      BY <2>1, <3>2, LeadFrame
  <2>3. CASE InsertsAll(req[r].who)
    <3>1. project = "LIVE" /\ \A u \in req[r].who : member[u] = NULL
      BY <2>3 DEF InsertsAll
    <3>2. /\ member' = [u \in User |-> IF u \in req[r].who THEN req[r].role ELSE member[u]]
          /\ UNCHANGED <<workspace, project, lead>>
      BY <1>7, <2>3 DEF AddProjectMembersWrite
    <3>3. lead \in User /\ member[lead] = "LEAD" /\ lead \notin req[r].who
      BY <3>1 DEF LeadInv, LeadKeepsRole
    <3>4. req[r].role # NULL
      BY <1>0, <1>7 DEF AddProjectMembersWrite, TypeOK, At
    <3>5. member'[lead'] = "LEAD" /\ \A u \in User : member[u] # NULL => member'[u] # NULL
      BY <3>2, <3>3, <3>4
    <3>6. ASSUME NEW q \in Request, req'[q].pc \in ProjectRowIds
          PROVE  lead' \notin req'[q].who /\ \A u \in req'[q].who : member'[u] # NULL
      <4>1. lead \notin req'[q].who /\ \A u \in req'[q].who : member[u] # NULL
        BY <2>1, <3>6 DEF LeadInv, LeadQuiet
      <4>2. req'[q].who \subseteq User
        BY DEF TypeOK, RequestRecord
      <4> QED
        BY <3>2, <3>5, <4>1, <4>2
    <3>7. \A q \in Request : At(q, "createProject")' => At(q, "createProject")
      BY <2>1 DEF LeadQuiet, At
    <3> QED
      BY <3>1, <3>2, <3>3, <3>5, <3>6, <3>7 DEF LeadInv, LeadKeepsRole
  <2> QED
    BY <2>2, <2>3
<1>8. CASE UpdateMemberRoleWrite(r)
  <2>1. req[r].role \in ProjectRole /\ req[r].pc \in ProjectRowIds
    BY <1>0, <1>8 DEF UpdateMemberRoleWrite, TypeOK, At
  <2>2. /\ lead \in User => member'[lead] = member[lead]
        /\ \A u \in User : member'[u] = NULL <=> member[u] = NULL
    BY <1>0, <1>8, <2>1 DEF UpdateMemberRoleWrite, LeadInv, TypeOK
  <2>3. LeadQuiet /\ UNCHANGED <<workspace, project, lead>>
    BY <1>0, <1>8, QuietLeave DEF UpdateMemberRoleWrite
  <2> QED
    BY <2>2, <2>3, LeadRowsKept
<1>9. CASE RemoveProjectMemberWrite(r)
  <2>1. \A q \in Request : req'[q].pc \in ProjectRowIds =>
           req[q].pc \in ProjectRowIds /\ req'[q].who \subseteq req[q].who \ req[r].who
    <3> DEFINE left == ForgetRows(ProjectRowIds, req[r].who)
    <3>1. req' = [left EXCEPT ![r] = Idle]
      BY <1>9 DEF RemoveProjectMemberWrite
    <3>2. /\ left = [q \in Request |-> left[q]]
          /\ \A q \in Request :
                /\ left[q].pc = req[q].pc
                /\ req[q].pc \in ProjectRowIds => left[q].who = req[q].who \ req[r].who
      <4>1. ASSUME NEW q \in Request
            PROVE  /\ left[q].pc = req[q].pc
                   /\ req[q].pc \in ProjectRowIds => left[q].who = req[q].who \ req[r].who
        <5>1. req[q] \in RequestRecord
          BY <1>0 DEF TypeOK
        <5>2. left[q] = IF req[q].pc \in ProjectRowIds
                        THEN [req[q] EXCEPT !.who = @ \ req[r].who] ELSE req[q]
          BY DEF ForgetRows
        <5> HIDE DEF left
        <5> QED
          BY <5>1, <5>2 DEF RequestRecord
      <4>2. left = [q \in Request |-> left[q]]
        BY DEF ForgetRows
      <4> HIDE DEF left
      <4> QED
        BY <4>1, <4>2
    <3> HIDE DEF left
    <3>3. Idle.pc \notin ProjectRowIds
      BY DEF Idle, ProjectRowIds
    <3> QED
      BY <3>1, <3>2, <3>3
  <2>2. LeadQuiet /\ UNCHANGED <<workspace, project, lead>>
    BY <1>0, <1>9, QuietForgetLeave DEF RemoveProjectMemberWrite
  <2>3. lead \notin req[r].who
    BY <1>0, <1>9 DEF RemoveProjectMemberWrite, LeadInv, At
  <2>4. member' = [u \in User |-> IF u \in req[r].who THEN NULL ELSE member[u]]
    BY <1>9 DEF RemoveProjectMemberWrite
  <2>5. project = "LIVE" => lead \in User /\ member[lead] = "LEAD" /\ member'[lead] = "LEAD"
    BY <2>3, <2>4 DEF LeadInv, LeadKeepsRole
  <2>6. project # "LIVE" => member' = [u \in User |-> NULL]
    BY <2>4 DEF LeadInv
  <2>7. \A q \in Request : req'[q].pc \in ProjectRowIds =>
           lead \notin req'[q].who /\ \A u \in req'[q].who : member'[u] # NULL
    BY <1>0, <2>1, <2>4 DEF LeadInv, TypeOK, RequestRecord
  <2>8. \A q \in Request : At(q, "createProject")' => At(q, "createProject")
    BY <2>2 DEF LeadQuiet, At
  <2> QED
    BY <2>2, <2>5, <2>6, <2>7, <2>8 DEF LeadInv, LeadKeepsRole
<1> QED
  BY <1>1, <1>2, <1>3, <1>4, <1>5, <1>6, <1>7, <1>8, <1>9 DEF ProjectStep

LEMMA LeadEnvironment ==
    ASSUME LeadInv, TypeOK', (\E l \in Link : LinkExpires(l)) \/ (\E u \in User : DeleteAccount(u))
    PROVE  LeadInv'
<1>0. TypeOK
  BY DEF LeadInv
<1>1. ASSUME NEW l \in Link, LinkExpires(l) PROVE LeadInv'
  BY <1>1, LeadFrame DEF LinkExpires, LeadQuiet
<1>2. ASSUME NEW u \in User, DeleteAccount(u) PROVE LeadInv'
  <2>1. CASE workspace /\ owner = u
    <3>1. DropWorkspace
      BY <1>2, <2>1 DEF DeleteAccount
    <3>2. LeadQuiet
      BY <1>0, <3>1, QuietForget DEF DropWorkspace
    <3>3. \A q \in Request : req'[q].pc \in ProjectRowIds => req'[q].who = {}
      <4>1. ProjectRowIds \subseteq WorkspaceRowIds \cup ProjectRowIds
        OBVIOUS
      <4> QED
        BY <1>0, <3>1, <4>1, AllForgotten DEF DropWorkspace
    <3> QED
      BY <3>1, <3>2, <3>3, LeadDropped DEF DropWorkspace
  <2>2. CASE ~(workspace /\ owner = u)
    <3>1. /\ member' = [member EXCEPT ![u] = NULL]
          /\ req' = ForgetRows(WorkspaceRowIds \cup ProjectRowIds, {u})
          /\ UNCHANGED <<workspace, project, lead>> /\ u # lead
      BY <1>2, <2>2 DEF DeleteAccount, Deletable
    <3>2. \A q \in Request : req'[q].pc \in ProjectRowIds =>
             req[q].pc \in ProjectRowIds /\ req'[q].who = req[q].who \ {u}
      BY <1>0, <3>1 DEF ForgetRows, TypeOK, RequestRecord
    <3>3. \A q \in Request : At(q, "createProject")' => At(q, "createProject")
      BY <1>0, <3>1 DEF ForgetRows, TypeOK, RequestRecord, At
    <3>4. project = "LIVE" => lead \in User /\ member'[lead] = "LEAD"
      BY <1>0, <3>1 DEF LeadInv, LeadKeepsRole, TypeOK
    <3>5. project # "LIVE" => member' = [v \in User |-> NULL]
      BY <3>1 DEF LeadInv
    <3>6. \A q \in Request : req'[q].pc \in ProjectRowIds =>
             lead \notin req'[q].who /\ \A v \in req'[q].who : member'[v] # NULL
      <4> SUFFICES ASSUME NEW q \in Request, req'[q].pc \in ProjectRowIds
                   PROVE  lead \notin req'[q].who /\ \A v \in req'[q].who : member'[v] # NULL
        OBVIOUS
      <4>1. req[q].pc \in ProjectRowIds /\ req'[q].who = req[q].who \ {u}
        BY <3>2
      <4>2. lead \notin req[q].who /\ \A v \in req[q].who : member[v] # NULL
        BY <4>1 DEF LeadInv
      <4>3. req[q].who \subseteq User
        BY <1>0 DEF TypeOK, RequestRecord
      <4>4. \A v \in User \ {u} : member'[v] = member[v]
        BY <1>0, <3>1 DEF TypeOK
      <4> QED
        BY <4>1, <4>2, <4>3, <4>4
    <3> QED
      BY <3>1, <3>3, <3>4, <3>5, <3>6 DEF LeadInv, LeadKeepsRole
  <2> QED
    BY <2>1, <2>2
<1> QED
  BY <1>1, <1>2

LEMMA LeadInductive == LeadInv /\ [Next]_vars => LeadInv'
<1> SUFFICES ASSUME LeadInv, [Next]_vars PROVE LeadInv'
  OBVIOUS
<1>0. TypeOK /\ TypeOK'
  BY TypeInductive DEF LeadInv
<1>1. CASE UNCHANGED vars
  BY <1>0, <1>1, LeadFrame DEF vars, workspaceRows, LeadQuiet
<1>2. CASE Next
  BY <1>0, <1>2, LeadManagerStep, LeadMemberStep, LeadLinkStep, LeadProjectStep, LeadEnvironment
     DEF Next
<1> QED
  BY <1>1, <1>2

(* Whatever overlaps, the user leadId names keeps the LEAD row.            *)
THEOREM LeadSafety == Spec => []LeadKeepsRole
<1>1. Init => LeadInv
  <2> SUFFICES ASSUME Init PROVE LeadInv
    OBVIOUS
  <2>1. TypeOK
    BY IdleTyped, LinkTyped DEF Init, TypeOK, At, Idle, NoLink
  <2> QED
    BY <2>1 DEF Init, LeadInv, LeadKeepsRole, At, Idle, ProjectRowIds
<1>2. LeadInv => LeadKeepsRole
  BY DEF LeadInv
<1> QED
  BY <1>1, <1>2, LeadInductive, PTL DEF Spec

-----------------------------------------------------------------------------
(* OwnerInv, step by step.  OwnerQuiet: no request gets hold of a row id   *)
(* other than one it held, or starts a role change.                        *)
OwnerQuiet ==
    \A q \in Request :
        /\ req'[q].pc \in WorkspaceRowIds =>
              req[q].pc \in WorkspaceRowIds /\ req'[q].who \subseteq req[q].who
        /\ req'[q].pc = "transfer" =>
              req[q].pc = "transfer" /\ req'[q].actor = req[q].actor /\ req'[q].who = req[q].who

LEMMA OwnerFrame ==
    ASSUME OwnerInv, TypeOK', UNCHANGED <<account, workspace, owner, role>>, OwnerQuiet
    PROVE  OwnerInv'
BY DEF OwnerInv, HasOwner, OwnerQuiet, At, Members, WorkspaceRowIds

(* Rows that appear, or change their role, and never the owner's.          *)
LEMMA OwnerRowsKept ==
    ASSUME OwnerInv, TypeOK', UNCHANGED <<account, workspace, owner>>, OwnerQuiet,
           workspace => role'[owner] = role[owner],
           \A u \in User : role[u] # NULL => role'[u] # NULL,
           \A u \in User : role'[u] # NULL => workspace /\ u \in account
    PROVE  OwnerInv'
<1>1. HasOwner'
  BY DEF OwnerInv, HasOwner
<1>2. ~workspace' => role' = [u \in User |-> NULL]
  BY DEF TypeOK
<1>3. Members' \subseteq account'
  BY DEF Members
<1>4. ASSUME NEW q \in Request, req'[q].pc \in WorkspaceRowIds
      PROVE  q \in Manager /\ owner' \notin req'[q].who /\ \A u \in req'[q].who : role'[u] # NULL
  <2>1. /\ q \in Manager /\ owner \notin req'[q].who
        /\ \A u \in req'[q].who : role[u] # NULL
    BY <1>4 DEF OwnerInv, OwnerQuiet
  <2>2. req'[q].who \subseteq User
    BY DEF TypeOK, RequestRecord
  <2> QED
    BY <2>1, <2>2
<1>5. ASSUME NEW q \in Request, req'[q].pc = "transfer"
      PROVE  q \in Manager /\ req'[q].actor \notin req'[q].who
  BY <1>5 DEF OwnerInv, OwnerQuiet, At
<1> QED
  BY <1>1, <1>2, <1>3, <1>4, <1>5 DEF OwnerInv, At

(* A row is inserted for a user that has none.                              *)
LEMMA OwnerInserted ==
    ASSUME OwnerInv, TypeOK', UNCHANGED <<account, workspace, owner>>, OwnerQuiet,
           NEW u, NEW new \in WorkspaceRole,
           \/ Insertable(u) /\ role' = [role EXCEPT ![u] = new]
           \/ role' = role
    PROVE  OwnerInv'
<1>0. TypeOK
  BY DEF OwnerInv
<1>1. CASE role' = role
  BY <1>1, OwnerFrame
<1>2. CASE Insertable(u) /\ role' = [role EXCEPT ![u] = new]
  <2>1. workspace /\ u \in account /\ u \in User /\ role[u] = NULL
    BY <1>0, <1>2 DEF Insertable, Members, TypeOK
  <2>2. u # owner
    BY <2>1 DEF OwnerInv, HasOwner
  <2>3. \A v \in User : role'[v] = IF v = u THEN new ELSE role[v]
    BY <1>0, <1>2 DEF TypeOK
  <2>4. \A v \in User : role[v] # NULL => workspace /\ v \in account
    BY DEF OwnerInv, Members
  <2> QED
    BY <1>0, <2>1, <2>2, <2>3, <2>4, OwnerRowsKept DEF TypeOK
<1> QED
  BY <1>1, <1>2

LEMMA OwnerQuietLeave ==
    ASSUME TypeOK, NEW r \in Request, Leave(r)
    PROVE  OwnerQuiet
BY IdleTyped DEF TypeOK, OwnerQuiet, Leave, Idle, WorkspaceRowIds

LEMMA OwnerQuietForget ==
    ASSUME TypeOK, NEW S, req' = ForgetRows(ProjectRowIds, S)
    PROVE  OwnerQuiet
BY DEF OwnerQuiet, ForgetRows, TypeOK, RequestRecord, WorkspaceRowIds, ProjectRowIds

LEMMA OwnerQuietForgetLeave ==
    ASSUME TypeOK, NEW S, NEW r \in Request,
           req' = [ForgetRows(ProjectRowIds, S) EXCEPT ![r] = Idle]
    PROVE  OwnerQuiet
BY DEF OwnerQuiet, ForgetRows, TypeOK, RequestRecord, Idle, WorkspaceRowIds, ProjectRowIds

(* Rows of S are deleted, none of them the owner's, and forgotten.         *)
LEMMA OwnerRowsDropped ==
    ASSUME OwnerInv, TypeOK', NEW S \in SUBSET User, UNCHANGED <<workspace, owner>>,
           workspace => owner \notin S,
           role' = [u \in User |-> IF u \in S THEN NULL ELSE role[u]],
           account \ S \subseteq account', account' \subseteq account,
           \A q \in Request :
              /\ req'[q].pc \in WorkspaceRowIds =>
                    req[q].pc \in WorkspaceRowIds /\ req'[q].who \subseteq req[q].who \ S
              /\ req'[q].pc = "transfer" =>
                    /\ req[q].pc = "transfer"
                    /\ req'[q].actor = req[q].actor /\ req'[q].who = req[q].who
    PROVE  OwnerInv'
<1>0. TypeOK
  BY DEF OwnerInv
<1>1. HasOwner'
  BY <1>0 DEF OwnerInv, HasOwner, TypeOK
<1>2. ~workspace' => role' = [u \in User |-> NULL]
  BY DEF OwnerInv
<1>3. Members' \subseteq account'
  BY DEF OwnerInv, Members
<1>4. ASSUME NEW q \in Request, req'[q].pc \in WorkspaceRowIds
      PROVE  q \in Manager /\ owner' \notin req'[q].who /\ \A u \in req'[q].who : role'[u] # NULL
  <2>1. req[q].pc \in WorkspaceRowIds /\ req'[q].who \subseteq req[q].who \ S
    BY <1>4
  <2>2. q \in Manager /\ owner \notin req[q].who /\ \A u \in req[q].who : role[u] # NULL
    BY <2>1 DEF OwnerInv
  <2>3. req[q].who \subseteq User
    BY <1>0 DEF TypeOK, RequestRecord
  <2> QED
    BY <2>1, <2>2, <2>3
<1>5. ASSUME NEW q \in Request, req'[q].pc = "transfer"
      PROVE  q \in Manager /\ req'[q].actor \notin req'[q].who
  BY <1>5 DEF OwnerInv, At
<1> QED
  BY <1>1, <1>2, <1>3, <1>4, <1>5 DEF OwnerInv, At

LEMMA OwnerDropped ==
    ASSUME OwnerInv, TypeOK', DropWorkspace
    PROVE  OwnerInv'
<1>0. TypeOK
  BY DEF OwnerInv
<1>1. ~workspace' /\ owner' = owner /\ role' = [u \in User |-> NULL]
  BY DEF DropWorkspace
<1>2. HasOwner' /\ Members' = {}
  BY <1>1 DEF HasOwner, Members
<1>3. ASSUME NEW q \in Request
      PROVE  /\ req'[q].pc = req[q].pc /\ req'[q].actor = req[q].actor
             /\ req'[q].who = IF req[q].pc \in WorkspaceRowIds \cup ProjectRowIds
                              THEN req[q].who \ User ELSE req[q].who
             /\ req[q].who \subseteq User
  BY <1>0 DEF DropWorkspace, ForgetRows, TypeOK, RequestRecord
<1>4. ASSUME NEW q \in Request, req'[q].pc \in WorkspaceRowIds
      PROVE  q \in Manager /\ req'[q].who = {}
  BY <1>3, <1>4 DEF OwnerInv
<1>5. ASSUME NEW q \in Request, req'[q].pc = "transfer"
      PROVE  q \in Manager /\ req'[q].actor \notin req'[q].who
  BY <1>3, <1>5 DEF OwnerInv, At, WorkspaceRowIds, ProjectRowIds
<1> QED
  BY <1>1, <1>2, <1>4, <1>5 DEF OwnerInv, At

(* Ownership does not pass to a member whose row a removal or a change of  *)
(* role has read and is about to write.                                    *)
TransferApart ==
    owner' # owner =>
        \A q \in Request : req[q].pc \in WorkspaceRowIds => owner' \notin req[q].who

LEMMA OwnerManagerStep ==
    ASSUME OwnerInv, TypeOK', NEW r \in Manager, ManagerStep(r),
           TransferWrite(r) => TransferApart
    PROVE  OwnerInv'
<1>0. TypeOK /\ r \in Request
  BY DEF OwnerInv
<1>1. ASSUME NEW u \in User, NotOwner(u), NEW rec \in RequestRecord, Enter(r, rec),
             rec.pc \in WorkspaceRowIds, rec.who = {u}, UNCHANGED <<account, workspace, owner, role>>
      PROVE  OwnerInv'
  <2>1. workspace /\ u # owner /\ role[u] # NULL
    BY <1>1 DEF NotOwner, Members, OwnerInv, HasOwner
  <2> QED
    BY <1>0, <1>1, <2>1 DEF OwnerInv, HasOwner, Enter, At, Members, WorkspaceRowIds, TypeOK
<1>2. ASSUME NEW u \in User, RemoveMemberRead(r, u) PROVE OwnerInv'
  <2>1. [Idle EXCEPT !.pc = "remove", !.who = {u}] \in RequestRecord
    BY DEF Idle, RequestRecord, PC
  <2> QED
    BY <1>1, <1>2, <2>1 DEF RemoveMemberRead, workspaceRows, WorkspaceRowIds, Idle
<1>3. ASSUME NEW u \in User, NEW new \in WorkspaceRole, UpdateMemberRead(r, u, new) PROVE OwnerInv'
  <2>1. [Idle EXCEPT !.pc = "role", !.who = {u}, !.role = new] \in RequestRecord
    BY DEF Idle, RequestRecord, PC
  <2> QED
    BY <1>1, <1>3, <2>1 DEF UpdateMemberRead, workspaceRows, WorkspaceRowIds, Idle
<1>4. ASSUME NEW a \in User, NEW u \in User, TransferRead(r, a, u) PROVE OwnerInv'
  BY <1>0, <1>4 DEF TransferRead, workspaceRows, OwnerInv, HasOwner, Enter, At, Idle, Members,
     WorkspaceRowIds, TypeOK
<1>5. CASE TransferWrite(r)
  <2>1. OwnerQuiet
    BY <1>0, <1>5, OwnerQuietLeave DEF TransferWrite
  <2>2. PICK u \in req[r].who :
            \/ Transferable(req[r].actor, u) /\ Transferred(req[r].actor, u)
            \/ UNCHANGED <<owner, role>>
    BY <1>5 DEF TransferWrite
  <2>3. CASE UNCHANGED <<owner, role>>
    BY <1>5, <2>1, <2>3, OwnerFrame DEF TransferWrite
  <2>4. CASE Transferable(req[r].actor, u) /\ Transferred(req[r].actor, u)
    <3>1. /\ req[r].actor \in Members /\ u \in Members /\ req[r].actor # u
          /\ owner' = u
          /\ role' = [role EXCEPT ![req[r].actor] = "ADMIN", ![u] = "OWNER"]
          /\ UNCHANGED <<account, workspace>> /\ Leave(r)
      BY <1>0, <1>5, <2>4 DEF TransferWrite, Transferable, Transferred, OwnerInv, At
    <3>2. Members' = Members /\ role'[owner'] = "OWNER"
      BY <1>0, <3>1 DEF Members, TypeOK
    <3>3. workspace
      BY <3>1 DEF OwnerInv, Members
    <3>4. /\ req'[r].pc = "idle"
          /\ \A q \in Request \ {r} : req'[q] = req[q]
      BY <1>0, <3>1 DEF Leave, Idle, TypeOK
    <3>5. ASSUME NEW q \in Request, req'[q].pc \in WorkspaceRowIds
          PROVE  q \in Manager /\ owner' \notin req'[q].who /\ \A v \in req'[q].who : role'[v] # NULL
      <4>1. q # r /\ req'[q] = req[q]
        BY <3>4, <3>5 DEF WorkspaceRowIds
      <4>2. q \in Manager /\ owner \notin req[q].who /\ \A v \in req[q].who : role[v] # NULL
        BY <3>5, <4>1 DEF OwnerInv
      <4>3. owner' \notin req[q].who
        BY <1>5, <3>5, <4>1, <4>2 DEF TransferApart
      <4>4. req[q].who \subseteq User
        BY <1>0 DEF TypeOK, RequestRecord
      <4> QED
        BY <3>2, <4>1, <4>2, <4>3, <4>4 DEF Members
    <3>6. ASSUME NEW q \in Request, req'[q].pc = "transfer"
          PROVE  q \in Manager /\ req'[q].actor \notin req'[q].who
      BY <3>4, <3>6 DEF OwnerInv, At
    <3>7. HasOwner' /\ (~workspace' => role' = [v \in User |-> NULL]) /\ Members' \subseteq account'
      BY <3>1, <3>2, <3>3 DEF OwnerInv, HasOwner
    <3> QED
      BY <3>5, <3>6, <3>7 DEF OwnerInv, At
  <2> QED
    BY <2>2, <2>3, <2>4
<1>6. CASE UpdateMemberWrite(r)
  <2>1. /\ role' = [u \in User |-> IF u \in req[r].who THEN req[r].role ELSE role[u]]
        /\ UNCHANGED <<account, workspace, owner>> /\ At(r, "role")
    BY <1>6 DEF UpdateMemberWrite
  <2>2. owner \notin req[r].who /\ req[r].role # NULL /\ \A u \in req[r].who : role[u] # NULL
    BY <1>0, <2>1 DEF OwnerInv, TypeOK, At, WorkspaceRowIds
  <2>3. OwnerQuiet
    BY <1>0, <1>6, OwnerQuietLeave DEF UpdateMemberWrite
  <2>4. /\ role'[owner] = role[owner]
        /\ \A u \in User : role'[u] # NULL <=> role[u] # NULL
    BY <1>0, <2>1, <2>2 DEF TypeOK
  <2>5. \A u \in User : role[u] # NULL => workspace /\ u \in account
    BY DEF OwnerInv, Members
  <2> QED
    BY <2>1, <2>3, <2>4, <2>5, OwnerRowsKept
<1>7. CASE RemoveMemberWrite(r)
  <2>1. /\ role' = [u \in User |-> IF u \in req[r].who THEN NULL ELSE role[u]]
        /\ req' = [ForgetRows(WorkspaceRowIds, req[r].who) EXCEPT ![r] = Idle]
        /\ UNCHANGED <<account, workspace, owner>> /\ At(r, "remove")
    BY <1>7 DEF RemoveMemberWrite
  <2>2. owner \notin req[r].who /\ req[r].who \in SUBSET User
    BY <1>0, <2>1 DEF OwnerInv, TypeOK, RequestRecord, At, WorkspaceRowIds
  <2>3. ASSUME NEW q \in Request
        PROVE  \/ req'[q].pc = "idle"
               \/ /\ req'[q].pc = req[q].pc /\ req'[q].actor = req[q].actor
                  /\ req'[q].who = IF req[q].pc \in WorkspaceRowIds THEN req[q].who \ req[r].who
                                   ELSE req[q].who
    <3>1. CASE q = r
      BY <1>0, <2>1, <3>1 DEF ForgetRows, Idle
    <3>2. CASE q # r
      <4>1. req'[q] = (ForgetRows(WorkspaceRowIds, req[r].who))[q]
        BY <2>1, <3>2 DEF ForgetRows
      <4>2. req[q] \in RequestRecord
        BY <1>0 DEF TypeOK
      <4> QED
        BY <4>1, <4>2 DEF ForgetRows, RequestRecord
    <3> QED
      BY <3>1, <3>2
  <2>4. \A q \in Request :
           /\ req'[q].pc \in WorkspaceRowIds =>
                 req[q].pc \in WorkspaceRowIds /\ req'[q].who \subseteq req[q].who \ req[r].who
           /\ req'[q].pc = "transfer" =>
                 /\ req[q].pc = "transfer"
                 /\ req'[q].actor = req[q].actor /\ req'[q].who = req[q].who
    BY <2>3 DEF WorkspaceRowIds
  <2> QED
    BY <2>1, <2>2, <2>4, OwnerRowsDropped
<1> QED
  BY <1>2, <1>3, <1>4, <1>5, <1>6, <1>7 DEF ManagerStep

LEMMA OwnerMemberStep ==
    ASSUME OwnerInv, TypeOK', NEW r \in Request, MemberStep(r)
    PROVE  OwnerInv'
<1>0. TypeOK
  BY DEF OwnerInv
<1>1. ASSUME NEW u \in User, NEW new \in WorkspaceRole, AddMemberRead(r, u, new) PROVE OwnerInv'
  <2>1. OwnerQuiet
    BY <1>0, <1>1 DEF AddMemberRead, OwnerQuiet, Enter, Idle, TypeOK, WorkspaceRowIds
  <2> QED
    BY <1>1, <2>1, OwnerFrame DEF AddMemberRead, workspaceRows
<1>2. CASE AddMemberWrite(r)
  <2>1. OwnerQuiet /\ UNCHANGED <<account, workspace, owner>>
    BY <1>0, <1>2, OwnerQuietLeave DEF AddMemberWrite
  <2>2. req[r].role \in WorkspaceRole
    BY <1>0, <1>2 DEF AddMemberWrite, TypeOK, At
  <2>3. PICK u \in req[r].who :
           role' = IF Insertable(u) THEN [role EXCEPT ![u] = req[r].role] ELSE role
    BY <1>2 DEF AddMemberWrite
  <2> QED
    BY <2>1, <2>2, <2>3, OwnerInserted DEF TypeOK
<1>3. CASE DeleteWorkspace(r)
  BY <1>3, OwnerDropped DEF DeleteWorkspace
<1> QED
  BY <1>1, <1>2, <1>3 DEF MemberStep

LEMMA OwnerLinkStep ==
    ASSUME OwnerInv, TypeOK', NEW r \in Request, LinkStep(r)
    PROVE  OwnerInv'
<1>0. TypeOK
  BY DEF OwnerInv
<1>1. ASSUME NEW l \in Link, NEW u \in User, JoinRead(r, l, u) PROVE OwnerInv'
  <2>1. OwnerQuiet
    BY <1>0, <1>1 DEF JoinRead, OwnerQuiet, Enter, Idle, TypeOK, WorkspaceRowIds
  <2> QED
    BY <1>1, <2>1, OwnerFrame DEF JoinRead, workspaceRows
<1>2. ASSUME NEW l \in Link, NEW u \in User, NEW new \in WorkspaceRole, CreateLink(r, l, u, new)
      PROVE  OwnerInv'
  BY <1>2, OwnerFrame DEF CreateLink, OwnerQuiet
<1>3. ASSUME NEW l \in Link, RevokeLink(r, l) PROVE OwnerInv'
  BY <1>3, OwnerFrame DEF RevokeLink, OwnerQuiet
<1>4. CASE JoinCommit(r)
  <2>1. OwnerQuiet /\ UNCHANGED <<account, workspace, owner>>
    BY <1>0, <1>4, OwnerQuietLeave DEF JoinCommit
  <2>2. req[r].role \in WorkspaceRole
    BY <1>0, <1>4 DEF JoinCommit, TypeOK, At
  <2>3. PICK u \in req[r].who : \/ Insertable(u) /\ role' = [role EXCEPT ![u] = req[r].role]
                                \/ role' = role
    BY <1>4 DEF JoinCommit
  <2> QED
    BY <2>1, <2>2, <2>3, OwnerInserted DEF TypeOK
<1> QED
  BY <1>1, <1>2, <1>3, <1>4 DEF LinkStep

LEMMA OwnerProjectStep ==
    ASSUME OwnerInv, TypeOK', NEW r \in Request, ProjectStep(r)
    PROVE  OwnerInv'
<1>0. TypeOK
  BY DEF OwnerInv
<1>1. OwnerQuiet
  <2>1. ASSUME NEW u \in User, CreateProjectRead(r, u) PROVE OwnerQuiet
    BY <1>0, <2>1 DEF CreateProjectRead, OwnerQuiet, Enter, Idle, TypeOK, WorkspaceRowIds
  <2>2. ASSUME NEW u \in User, RemoveProjectMemberRead(r, u) PROVE OwnerQuiet
    BY <1>0, <2>2 DEF RemoveProjectMemberRead, OwnerQuiet, Enter, Idle, TypeOK, WorkspaceRowIds
  <2>3. ASSUME NEW u \in User, NEW new \in ProjectRole, UpdateMemberRoleRead(r, u, new)
        PROVE  OwnerQuiet
    BY <1>0, <2>3 DEF UpdateMemberRoleRead, OwnerQuiet, Enter, Idle, TypeOK, WorkspaceRowIds
  <2>4. ASSUME NEW S \in SUBSET User, NEW new \in ProjectRole, AddProjectMembersRead(r, S, new)
        PROVE  OwnerQuiet
    BY <1>0, <2>4 DEF AddProjectMembersRead, OwnerQuiet, Enter, Idle, TypeOK, WorkspaceRowIds
  <2>5. CASE Leave(r)
    BY <1>0, <2>5, OwnerQuietLeave
  <2>6. CASE DeleteProject(r)
    BY <1>0, <2>6, OwnerQuietForget DEF DeleteProject
  <2>7. CASE RemoveProjectMemberWrite(r)
    BY <1>0, <2>7, OwnerQuietForgetLeave DEF RemoveProjectMemberWrite
  <2> QED
    BY <2>1, <2>2, <2>3, <2>4, <2>5, <2>6, <2>7 DEF ProjectStep, CreateProjectWrite,
       AddProjectMembersWrite, UpdateMemberRoleWrite
<1>2. UNCHANGED <<account, workspace, owner, role>>
  BY DEF ProjectStep, CreateProjectRead, RemoveProjectMemberRead, UpdateMemberRoleRead,
       AddProjectMembersRead, CreateProjectWrite, DeleteProject, AddProjectMembersWrite,
       UpdateMemberRoleWrite, RemoveProjectMemberWrite, workspaceRows
<1> QED
  BY <1>1, <1>2, OwnerFrame

LEMMA OwnerEnvironment ==
    ASSUME OwnerInv, TypeOK', (\E l \in Link : LinkExpires(l)) \/ (\E u \in User : DeleteAccount(u))
    PROVE  OwnerInv'
<1>0. TypeOK
  BY DEF OwnerInv
<1>1. ASSUME NEW l \in Link, LinkExpires(l) PROVE OwnerInv'
  BY <1>1, OwnerFrame DEF LinkExpires, OwnerQuiet
<1>2. ASSUME NEW u \in User, DeleteAccount(u) PROVE OwnerInv'
  <2>1. CASE workspace /\ owner = u
    BY <1>2, <2>1, OwnerDropped DEF DeleteAccount
  <2>2. CASE ~(workspace /\ owner = u)
    <3>1. /\ role' = [role EXCEPT ![u] = NULL] /\ account' = account \ {u}
          /\ req' = ForgetRows(WorkspaceRowIds \cup ProjectRowIds, {u})
          /\ UNCHANGED <<workspace, owner>>
      BY <1>2, <2>2 DEF DeleteAccount
    <3>2. role' = [v \in User |-> IF v \in {u} THEN NULL ELSE role[v]]
      BY <1>0, <3>1 DEF TypeOK
    <3>3. ASSUME NEW q \in Request
          PROVE  /\ req'[q].pc = req[q].pc /\ req'[q].actor = req[q].actor
                 /\ req'[q].who = IF req[q].pc \in WorkspaceRowIds \cup ProjectRowIds
                                  THEN req[q].who \ {u} ELSE req[q].who
      BY <1>0, <3>1 DEF ForgetRows, TypeOK, RequestRecord
    <3>4. \A q \in Request :
             /\ req'[q].pc \in WorkspaceRowIds =>
                   req[q].pc \in WorkspaceRowIds /\ req'[q].who \subseteq req[q].who \ {u}
             /\ req'[q].pc = "transfer" =>
                   /\ req[q].pc = "transfer"
                   /\ req'[q].actor = req[q].actor /\ req'[q].who = req[q].who
      BY <3>3 DEF WorkspaceRowIds, ProjectRowIds
    <3> DEFINE S == {u}
    <3>5. /\ S \in SUBSET User /\ (workspace => owner \notin S)
          /\ role' = [v \in User |-> IF v \in S THEN NULL ELSE role[v]]
          /\ account \ S \subseteq account' /\ account' \subseteq account
          /\ \A q \in Request :
                /\ req'[q].pc \in WorkspaceRowIds =>
                      req[q].pc \in WorkspaceRowIds /\ req'[q].who \subseteq req[q].who \ S
                /\ req'[q].pc = "transfer" =>
                      /\ req[q].pc = "transfer"
                      /\ req'[q].actor = req[q].actor /\ req'[q].who = req[q].who
      BY <2>2, <3>1, <3>2, <3>4
    <3> HIDE DEF S
    <3> QED
      BY <3>1, <3>5, OwnerRowsDropped
  <2> QED
    BY <2>1, <2>2
<1> QED
  BY <1>1, <1>2

LEMMA OwnerInductive ==
    ASSUME OwnerInv, [Next]_vars, \A r \in Manager : TransferWrite(r) => TransferApart
    PROVE  OwnerInv'
<1>0. TypeOK /\ TypeOK'
  BY TypeInductive DEF OwnerInv
<1>1. CASE UNCHANGED vars
  BY <1>0, <1>1, OwnerFrame DEF vars, workspaceRows, OwnerQuiet
<1>2. CASE Next
  BY <1>0, <1>2, OwnerManagerStep, OwnerMemberStep, OwnerLinkStep, OwnerProjectStep,
     OwnerEnvironment DEF Next
<1> QED
  BY <1>1, <1>2

LEMMA OwnerInit == Init => OwnerInv
<1> SUFFICES ASSUME Init PROVE OwnerInv
  OBVIOUS
<1>1. TypeOK
  BY IdleTyped, LinkTyped DEF Init, TypeOK, At, Idle, NoLink
<1> QED
  BY <1>1 DEF Init, OwnerInv, HasOwner, At, Idle, WorkspaceRowIds, Members

(* With any number of overlapping managers the workspace is without OWNER  *)
(* for one reason only: ownership passed to a member whose row a removal   *)
(* or a change of role had already read and had yet to write.              *)
THEOREM OwnerLostByStaleRow == Spec /\ [][TransferApart]_vars => []HasOwner
<1>1. ASSUME OwnerInv, [Next]_vars, [TransferApart]_vars PROVE OwnerInv'
  <2>1. CASE UNCHANGED vars
    <3>1. \A r \in Manager : TransferWrite(r) => TransferApart
      BY <2>1 DEF vars, workspaceRows, TransferApart
    <3> QED
      BY <1>1, <3>1, OwnerInductive
  <2>2. CASE TransferApart
    BY <1>1, <2>2, OwnerInductive
  <2> QED
    BY <1>1, <2>1, <2>2
<1>2. OwnerInv => HasOwner
  BY DEF OwnerInv
<1> QED
  BY <1>1, <1>2, OwnerInit, PTL DEF Spec

=============================================================================
