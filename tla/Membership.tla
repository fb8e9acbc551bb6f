----------------------------- MODULE Membership -----------------------------
(***************************************************************************)
(* One workspace, its invite links and one project: who is a member, with  *)
(* which role.  WorkspacesService, InviteLinksService and ProjectsService, *)
(* and the deletion of accounts (GdprService, UsersService).               *)
(*                                                                         *)
(* A handler that reads and then writes is two steps; req[r] holds what    *)
(* the write still uses.  The caller's own role check is merged with the   *)
(* read after it: no later step uses its result.  A member row addressed   *)
(* by its id is forgotten by the requests that hold the id once it is      *)
(* deleted, for the same user may come back with another row.              *)
(***************************************************************************)
EXTENDS Naturals, FiniteSets

CONSTANTS
    User, Creator,     \* accounts, and the one that created the workspace
    Link,              \* invite link ids
    Request,           \* requests in flight at the same time
    Manager,           \* those that transfer ownership, change or remove members
    WorkspaceRole, ProjectRole,
    MaxUses,           \* MaxUses[l]: the cap link l is created with, or NULL
    MaxMembers,        \* quota of members, 0 for none
    NULL               \* SQL NULL, and the absence of a row

ASSUME MembershipAssumption ==
    /\ Creator \in User /\ NULL \notin User \cup Link
    /\ Manager \subseteq Request
    /\ {"OWNER", "ADMIN"} \subseteq WorkspaceRole /\ "LEAD" \in ProjectRole
    /\ NULL \notin WorkspaceRole \cup ProjectRole
    /\ MaxUses \in [Link -> (Nat \ {0}) \cup {NULL}]

VARIABLES
    account,    \* users that exist
    workspace,  \* the workspace row exists
    owner,      \* Workspace.ownerId
    role,       \* role[u]: WorkspaceMember.role, or NULL
    link,       \* link[l]: state, creator, role and usedCount
    project,    \* the project row: UNUSED, LIVE or GONE
    lead,       \* Project.leadId
    member,     \* member[u]: ProjectMember.role, or NULL
    req         \* req[r]: where request r is and what it remembers

workspaceRows == <<workspace, owner, role, link>>
projectRows == <<project, lead, member>>
vars == <<account, workspaceRows, projectRows, req>>

-----------------------------------------------------------------------------
PC == {"idle", "transfer", "add", "role", "remove", "join",
       "createProject", "addProject", "roleProject", "removeProject"}

RequestRecord ==
    [pc: PC, actor: User \cup {NULL}, who: SUBSET User,
     role: WorkspaceRole \cup ProjectRole \cup {NULL}, link: Link \cup {NULL}]

Idle == [pc |-> "idle", actor |-> NULL, who |-> {}, role |-> NULL, link |-> NULL]

IsIdle(r) == req[r].pc = "idle"
At(r, pc) == req[r].pc = pc
Enter(r, rec) == req' = [req EXCEPT ![r] = rec]
Leave(r) == req' = [req EXCEPT ![r] = Idle]

(* The member rows of S are gone, and the requests that hold their ids know *)
(* nothing else; the request that deletes them is done.                     *)
ForgetRows(pcs, S) == [q \in Request |->
    IF req[q].pc \in pcs THEN [req[q] EXCEPT !.who = @ \ S] ELSE req[q]]
WorkspaceRowIds == {"role", "remove"}
ProjectRowIds == {"roleProject", "removeProject"}

LinkRecord ==
    [state: {"UNUSED", "LIVE", "EXPIRED", "GONE"}, by: User \cup {NULL},
     role: WorkspaceRole \cup {NULL}, used: Nat]
NoLink(state) == [state |-> state, by |-> NULL, role |-> NULL, used |-> 0]

TypeOK ==
    /\ account \subseteq User
    /\ workspace \in BOOLEAN
    /\ owner \in User
    /\ role \in [User -> WorkspaceRole \cup {NULL}]
    /\ link \in [Link -> LinkRecord]
    /\ \A l \in Link : link[l].state \in {"LIVE", "EXPIRED"} => link[l].role \in WorkspaceRole
    /\ project \in {"UNUSED", "LIVE", "GONE"}
    /\ lead \in User \cup {NULL}
    /\ member \in [User -> ProjectRole \cup {NULL}]
    /\ req \in [Request -> RequestRecord]
    /\ \A r \in Request :
          /\ req[r].pc \in {"add", "role", "join"} => req[r].role \in WorkspaceRole
          /\ req[r].pc \in {"addProject", "roleProject"} => req[r].role \in ProjectRole
          /\ At(r, "join") => req[r].link \in Link
          /\ req[r].pc \in {"transfer", "createProject"} => req[r].actor \in User

(* The creator has just made the workspace. *)
Init ==
    /\ account = User
    /\ workspace = TRUE /\ owner = Creator
    /\ role = [u \in User |-> IF u = Creator THEN "OWNER" ELSE NULL]
    /\ link = [l \in Link |-> NoLink("UNUSED")]
    /\ project = "UNUSED" /\ lead = NULL
    /\ member = [u \in User |-> NULL]
    /\ req = [r \in Request |-> Idle]

Members == {u \in User : role[u] # NULL}
Has(u, roles) == role[u] \in roles
Managed == \E u \in User : Has(u, {"OWNER", "ADMIN"})     \* assertRole passes

-----------------------------------------------------------------------------
(* WorkspacesService *)

TransferRead(r, a, u) ==
    /\ IsIdle(r)
    /\ Has(a, {"OWNER"})
    /\ u # a /\ u \in Members
    /\ Enter(r, [Idle EXCEPT !.pc = "transfer", !.actor = a, !.who = {u}])
    /\ UNCHANGED <<account, workspaceRows, projectRows>>

(* The three updates commit together, or roll back when a row is missing. *)
Transferable(a, u) == {a, u} \subseteq Members
Transferred(a, u) == owner' = u /\ role' = [role EXCEPT ![a] = "ADMIN", ![u] = "OWNER"]

TransferWrite(r) ==
    /\ At(r, "transfer")
    /\ \E u \in req[r].who :
          \/ Transferable(req[r].actor, u) /\ Transferred(req[r].actor, u)
          \/ ~Transferable(req[r].actor, u) /\ UNCHANGED <<owner, role>>
    /\ Leave(r)
    /\ UNCHANGED <<account, workspace, link, projectRows>>

AddMemberRead(r, u, new) ==
    /\ IsIdle(r)
    /\ Managed
    /\ u \in account \ Members
    /\ MaxMembers = 0 \/ Cardinality(Members) < MaxMembers
    /\ Enter(r, [Idle EXCEPT !.pc = "add", !.who = {u}, !.role = new])
    /\ UNCHANGED <<account, workspaceRows, projectRows>>

(* The unique index and the foreign keys decide. *)
Insertable(u) == workspace /\ u \in account \ Members

AddMemberWrite(r) ==
    /\ At(r, "add")
    /\ \E u \in req[r].who :
          role' = IF Insertable(u) THEN [role EXCEPT ![u] = req[r].role] ELSE role
    /\ Leave(r)
    /\ UNCHANGED <<account, workspace, owner, link, projectRows>>

(* updateMember and removeMember refuse the row of an OWNER when they read it. *)
AnyMember(u) == u \in Members
NotOwner(u) == u \in Members /\ role[u] # "OWNER"

UpdateMemberRead(r, u, new) ==
    /\ IsIdle(r)
    /\ Managed
    /\ NotOwner(u)
    /\ Enter(r, [Idle EXCEPT !.pc = "role", !.who = {u}, !.role = new])
    /\ UNCHANGED <<account, workspaceRows, projectRows>>

UpdateMemberWrite(r) ==
    /\ At(r, "role")
    /\ role' = [u \in User |-> IF u \in req[r].who THEN req[r].role ELSE role[u]]
    /\ Leave(r)
    /\ UNCHANGED <<account, workspace, owner, link, projectRows>>

RemoveMemberRead(r, u) ==
    /\ IsIdle(r)
    /\ Managed
    /\ NotOwner(u)
    /\ Enter(r, [Idle EXCEPT !.pc = "remove", !.who = {u}])
    /\ UNCHANGED <<account, workspaceRows, projectRows>>

(* The user's ProjectMember rows stay. *)
RemoveMemberWrite(r) ==
    /\ At(r, "remove")
    /\ role' = [u \in User |-> IF u \in req[r].who THEN NULL ELSE role[u]]
    /\ req' = [ForgetRows(WorkspaceRowIds, req[r].who) EXCEPT ![r] = Idle]
    /\ UNCHANGED <<account, workspace, owner, link, projectRows>>

(* The row and, by ON DELETE CASCADE, its members, links and projects *)
DropWorkspace ==
    /\ workspace' = FALSE /\ UNCHANGED owner
    /\ role' = [u \in User |-> NULL]
    /\ link' = [l \in Link |-> NoLink("GONE")]
    /\ project' = "GONE" /\ lead' = NULL
    /\ member' = [u \in User |-> NULL]
    /\ req' = ForgetRows(WorkspaceRowIds \cup ProjectRowIds, User)

(* by its OWNER, or by an administrator of the installation *)
DeleteWorkspace(r) ==
    /\ IsIdle(r)
    /\ workspace
    /\ DropWorkspace
    /\ UNCHANGED account

-----------------------------------------------------------------------------
(* InviteLinksService *)

CreateLink(r, l, u, new) ==
    /\ IsIdle(r)
    /\ Has(u, {"OWNER", "ADMIN"})
    /\ new # "OWNER"
    /\ link[l].state = "UNUSED"
    /\ link' = [link EXCEPT ![l] = [state |-> "LIVE", by |-> u, role |-> new, used |-> 0]]
    /\ UNCHANGED <<account, workspace, owner, role, projectRows, req>>

LinkRow(l) == link[l].state \in {"LIVE", "EXPIRED"}

RevokeLink(r, l) ==
    /\ IsIdle(r)
    /\ Managed
    /\ LinkRow(l)
    /\ link' = [link EXCEPT ![l] = NoLink("GONE")]
    /\ UNCHANGED <<account, workspace, owner, role, projectRows, req>>

LinkExpires(l) ==
    /\ link[l].state = "LIVE"
    /\ link' = [link EXCEPT ![l].state = "EXPIRED"]
    /\ UNCHANGED <<account, workspace, owner, role, projectRows, req>>

(* findValidLink *)
AnyLink(l) == MaxUses[l] # NULL => link[l].used < MaxUses[l]
ValidLink(l) ==
    link[l].state = "LIVE" /\ (MaxUses[l] # NULL => link[l].used < MaxUses[l])

JoinRead(r, l, u) ==
    /\ IsIdle(r)
    /\ ValidLink(l)
    /\ u \in account
    /\ Enter(r, [Idle EXCEPT !.pc = "join", !.who = {u}, !.role = link[l].role, !.link = l])
    /\ UNCHANGED <<account, workspaceRows, projectRows>>

(* The transaction: an existing member burns no use; the member row and the *)
(* increment commit together unless the row lock let another join go first  *)
(* and take the last use.                                                   *)
RoomUnchecked(l) == LinkRow(l)
HasRoom(l) == LinkRow(l) /\ (MaxUses[l] # NULL => link[l].used + 1 <= MaxUses[l])

JoinCommit(r) ==
    /\ At(r, "join")
    /\ \E u \in req[r].who :
          \/ /\ Insertable(u) /\ HasRoom(req[r].link)
             /\ role' = [role EXCEPT ![u] = req[r].role]
             /\ link' = [link EXCEPT ![req[r].link].used = @ + 1]
          \/ /\ ~(Insertable(u) /\ HasRoom(req[r].link))
             /\ UNCHANGED <<role, link>>
    /\ Leave(r)
    /\ UNCHANGED <<account, workspace, owner, projectRows>>

-----------------------------------------------------------------------------
(* ProjectsService *)

FreshProject == project = "UNUSED" /\ \A q \in Request : ~At(q, "createProject")

CreateProjectRead(r, u) ==
    /\ IsIdle(r)
    /\ FreshProject
    /\ u \in Members
    /\ Enter(r, [Idle EXCEPT !.pc = "createProject", !.actor = u])
    /\ UNCHANGED <<account, workspaceRows, projectRows>>

CreateProjectWrite(r) ==
    /\ At(r, "createProject")
    /\ IF workspace /\ req[r].actor \in account
       THEN /\ project' = "LIVE" /\ lead' = req[r].actor
            /\ member' = [member EXCEPT ![req[r].actor] = "LEAD"]
       ELSE UNCHANGED projectRows
    /\ Leave(r)
    /\ UNCHANGED <<account, workspaceRows>>

(* assertProjectAccess: workspace managers, and workspace members that are *)
(* members of the project; assertRole looks at the project role only.      *)
HasAccess(u) == Has(u, {"OWNER", "ADMIN"}) \/ (u \in Members /\ member[u] # NULL)
Leading(u, roles) == member[u] \in roles

DeleteProject(r) ==
    /\ IsIdle(r)
    /\ \E u \in User : HasAccess(u) /\ Leading(u, {"LEAD"})
    /\ project' = "GONE" /\ lead' = NULL
    /\ member' = [u \in User |-> NULL]
    /\ req' = ForgetRows(ProjectRowIds, User)
    /\ UNCHANGED <<account, workspaceRows>>

(* addMember and, for several users, bulkAddMembers *)
AddProjectMembersRead(r, S, new) ==
    /\ IsIdle(r)
    /\ \E u \in User : HasAccess(u) /\ Leading(u, {"LEAD", "ADMIN"})
    /\ S # {} /\ \A u \in S : u \in Members /\ member[u] = NULL
    /\ Enter(r, [Idle EXCEPT !.pc = "addProject", !.who = S, !.role = new])
    /\ UNCHANGED <<account, workspaceRows, projectRows>>

(* One row that exists already fails the whole insert. *)
InsertsAll(S) == project = "LIVE" /\ S \subseteq account /\ \A u \in S : member[u] = NULL

AddProjectMembersWrite(r) ==
    /\ At(r, "addProject")
    /\ member' = [u \in User |-> IF u \in req[r].who /\ InsertsAll(req[r].who)
                                 THEN req[r].role ELSE member[u]]
    /\ Leave(r)
    /\ UNCHANGED <<account, workspaceRows, project, lead>>

NotLead(u) == member[u] \notin {NULL, "LEAD"}

UpdateMemberRoleRead(r, u, new) ==
    /\ IsIdle(r)
    /\ \E a \in User : Leading(a, {"LEAD", "ADMIN"})
    /\ NotLead(u)
    /\ Enter(r, [Idle EXCEPT !.pc = "roleProject", !.who = {u}, !.role = new])
    /\ UNCHANGED <<account, workspaceRows, projectRows>>

UpdateMemberRoleWrite(r) ==
    /\ At(r, "roleProject")
    /\ member' = [u \in User |-> IF u \in req[r].who THEN req[r].role ELSE member[u]]
    /\ Leave(r)
    /\ UNCHANGED <<account, workspaceRows, project, lead>>

RemoveProjectMemberRead(r, u) ==
    /\ IsIdle(r)
    /\ \E a \in User : Leading(a, {"LEAD", "ADMIN"})
    /\ NotLead(u)
    /\ Enter(r, [Idle EXCEPT !.pc = "removeProject", !.who = {u}])
    /\ UNCHANGED <<account, workspaceRows, projectRows>>

RemoveProjectMemberWrite(r) ==
    /\ At(r, "removeProject")
    /\ member' = [u \in User |-> IF u \in req[r].who THEN NULL ELSE member[u]]
    /\ req' = [ForgetRows(ProjectRowIds, req[r].who) EXCEPT ![r] = Idle]
    /\ UNCHANGED <<account, workspaceRows, project, lead>>

-----------------------------------------------------------------------------
(* user.delete: ON DELETE RESTRICT keeps a project's lead and the creator of *)
(* a link, also when the cascade would delete that project or link: the rows *)
(* that point at the user are checked before the cascade reaches any other.  *)
RestrictIgnored(u) == \A l \in Link : link[l].by # u
Deletable(u) == u # lead /\ \A l \in Link : link[l].by # u

DeleteAccount(u) ==
    /\ u \in account
    /\ Deletable(u)
    /\ account' = account \ {u}
    /\ IF workspace /\ owner = u THEN DropWorkspace
       ELSE /\ role' = [role EXCEPT ![u] = NULL]
            /\ member' = [member EXCEPT ![u] = NULL]
            /\ req' = ForgetRows(WorkspaceRowIds \cup ProjectRowIds, {u})
            /\ UNCHANGED <<workspace, owner, link, project, lead>>

-----------------------------------------------------------------------------
ManagerStep(r) ==
    \/ \E u \in User : \/ RemoveMemberRead(r, u)
                       \/ \E a \in User : TransferRead(r, a, u)
                       \/ \E new \in WorkspaceRole : UpdateMemberRead(r, u, new)
    \/ TransferWrite(r) \/ UpdateMemberWrite(r) \/ RemoveMemberWrite(r)

MemberStep(r) ==
    \/ \E u \in User, new \in WorkspaceRole : AddMemberRead(r, u, new)
    \/ AddMemberWrite(r) \/ DeleteWorkspace(r)

LinkStep(r) ==
    \/ \E l \in Link, u \in User : \/ JoinRead(r, l, u)
                                   \/ \E new \in WorkspaceRole : CreateLink(r, l, u, new)
    \/ \E l \in Link : RevokeLink(r, l)
    \/ JoinCommit(r)

ProjectStep(r) ==
    \/ \E u \in User : \/ CreateProjectRead(r, u) \/ RemoveProjectMemberRead(r, u)
                       \/ \E new \in ProjectRole : UpdateMemberRoleRead(r, u, new)
    \/ \E S \in SUBSET User, new \in ProjectRole : AddProjectMembersRead(r, S, new)
    \/ CreateProjectWrite(r) \/ DeleteProject(r) \/ AddProjectMembersWrite(r)
    \/ UpdateMemberRoleWrite(r) \/ RemoveProjectMemberWrite(r)

Next ==
    \/ \E r \in Manager : ManagerStep(r)
    \/ \E r \in Request : MemberStep(r) \/ LinkStep(r) \/ ProjectStep(r)
    \/ \E l \in Link : LinkExpires(l)
    \/ \E u \in User : DeleteAccount(u)

Spec == Init /\ [][Next]_vars

-----------------------------------------------------------------------------
(* Safety *)

(* The workspace always has an OWNER, and ownerId names it ("so the         *)
(* workspace never observes zero OWNERs"), with one Manager request at a    *)
(* time whatever joins, adds and account deletions run beside it.           *)
HasOwner == workspace => owner \in account /\ role[owner] = "OWNER"

(* Concurrent joins never take more uses than the link has ("so two         *)
(* concurrent joins can't both squeeze through when only 1 slot remained"). *)
UsesBounded == \A l \in Link : MaxUses[l] # NULL => link[l].used <= MaxUses[l]

(* The project's leadId keeps its LEAD row for as long as the project       *)
(* exists: role changes, removals and account deletions may overlap freely, *)
(* because no operation takes LEAD away from the user leadId names.         *)
LeadKeepsRole == project = "LIVE" => member[lead] = "LEAD"

(* The inductive invariants behind LeadKeepsRole and HasOwner: a request    *)
(* that is about to write a member row by its id is not about to write the  *)
(* row of the lead, or of the owner.                                        *)
LeadInv ==
    /\ TypeOK /\ LeadKeepsRole
    /\ project # "LIVE" => member = [u \in User |-> NULL] /\ lead = NULL
    /\ project = "LIVE" => lead \in User
    /\ \A r \in Request : At(r, "createProject") =>
          /\ project = "UNUSED" \/ ~workspace
          /\ \A q \in Request : At(q, "createProject") => q = r
    /\ \A r \in Request : req[r].pc \in ProjectRowIds =>
          lead \notin req[r].who /\ \A u \in req[r].who : member[u] # NULL

OwnerInv ==
    /\ TypeOK /\ HasOwner
    /\ ~workspace => role = [u \in User |-> NULL]
    /\ Members \subseteq account
    /\ \A r \in Request : req[r].pc \in WorkspaceRowIds \cup {"transfer"} => r \in Manager
    /\ \A r \in Request : req[r].pc \in WorkspaceRowIds =>
          owner \notin req[r].who /\ \A u \in req[r].who : role[u] # NULL
    /\ \A r \in Request : At(r, "transfer") => req[r].actor \notin req[r].who

=============================================================================
