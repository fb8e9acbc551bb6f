-------------------------------- MODULE Admins ------------------------------
(***************************************************************************)
(* UsersService for the admins of the installation.  A request is let      *)
(* through on the row of its caller as JwtAuthGuard and RolesGuard read    *)
(* it, and writes the row of somebody else later: nothing looks at the     *)
(* caller again.  A caller shows a session, and then his row must be       *)
(* active, or a personal access token, for which nobody asks that.         *)
(***************************************************************************)
CONSTANTS
    Person,         \* user ids
    FirstAdmin,     \* the admin of the seed
    AdminRequest    \* requests under way at the same time

ASSUME AdminsAssumption == FirstAdmin \in Person

VARIABLES
    person,         \* person[p]: role, active and whether the row is there
    adminRequest,   \* adminRequest[r]: where request r is
    overlapped,     \* a request wrote when its caller was not what he had been
                    \* when it was let through, or an admin who was left
                    \* deleted his own account
    inactiveWrote   \* a request wrote that a deactivated admin made by token

adminsVars == <<person, adminRequest, overlapped, inactiveWrote>>

-----------------------------------------------------------------------------
AdminOps == {"promote", "demote", "activate", "deactivate", "remove"}

PersonRecord == [there: BOOLEAN, admin: BOOLEAN, active: BOOLEAN]

(* acting: the caller was active when the request was let through *)
AdminRequestRecord ==
    [pc: {"idle", "authorised"}, caller: Person, acting: BOOLEAN, op: AdminOps,
     target: Person]

NoAdminRequest ==
    [pc |-> "idle", caller |-> FirstAdmin, acting |-> TRUE, op |-> "promote",
     target |-> FirstAdmin]

AdminsTypeOK ==
    /\ person \in [Person -> PersonRecord]
    /\ adminRequest \in [AdminRequest -> AdminRequestRecord]
    /\ {overlapped, inactiveWrote} \subseteq BOOLEAN

AdminsInit ==
    /\ person = [p \in Person |-> [there |-> TRUE, admin |-> p = FirstAdmin, active |-> TRUE]]
    /\ adminRequest = [r \in AdminRequest |-> NoAdminRequest]
    /\ overlapped = FALSE
    /\ inactiveWrote = FALSE

IsAdmin(p) == person[p].there /\ person[p].admin
ActingAdmin(p) == IsAdmin(p) /\ person[p].active

-----------------------------------------------------------------------------
(* JwtStrategy.validate asks for an active row, resolveBearerToken for a    *)
(* row only: whoever was active once may hold a token since.               *)
LetIn(p, byToken) == person[p].there /\ (byToken \/ person[p].active)

(* RolesGuard, then the check against oneself *)
MayTargetAnyone(p, q) == person[p].admin
MayTarget(p, q) == person[p].admin /\ p # q

Authorise(r, p, byToken, op, q) ==
    /\ adminRequest[r].pc = "idle"
    /\ LetIn(p, byToken)
    /\ MayTarget(p, q)
    /\ adminRequest' = [adminRequest EXCEPT
                           ![r] = [pc |-> "authorised", caller |-> p,
                                   acting |-> person[p].active, op |-> op, target |-> q]]
    /\ UNCHANGED <<person, overlapped, inactiveWrote>>

(* updateRole, setActive, remove: of a row that is gone they throw. *)
Written(row, op) ==
    CASE op = "promote" -> [row EXCEPT !.admin = TRUE]
      [] op = "demote" -> [row EXCEPT !.admin = FALSE]
      [] op = "activate" -> [row EXCEPT !.active = TRUE]
      [] op = "deactivate" -> [row EXCEPT !.active = FALSE]
      [] op = "remove" -> [row EXCEPT !.there = FALSE, !.admin = FALSE, !.active = FALSE]

WritePerson(r) ==
    LET req == adminRequest[r]
    IN  /\ req.pc = "authorised"
        /\ person[req.target].there
        /\ person' = [person EXCEPT ![req.target] = Written(@, req.op)]
        /\ overlapped' = (overlapped \/ ~IsAdmin(req.caller)
                                     \/ (req.acting /\ ~ActingAdmin(req.caller)))
        /\ inactiveWrote' = (inactiveWrote \/ ~req.acting)
        /\ adminRequest' = [adminRequest EXCEPT ![r] = NoAdminRequest]

(* The target is gone, or has rows that keep it from being deleted. *)
AdminRequestFails(r) ==
    /\ adminRequest[r].pc = "authorised"
    /\ adminRequest' = [adminRequest EXCEPT ![r] = NoAdminRequest]
    /\ UNCHANGED <<person, overlapped, inactiveWrote>>

(* gdpr: the account goes at its owner's own request. *)
OwnDeletion(p) ==
    /\ person[p].there
    /\ person' = [person EXCEPT ![p] = Written(@, "remove")]
    /\ overlapped' = (overlapped \/ IsAdmin(p))
    /\ UNCHANGED <<adminRequest, inactiveWrote>>

-----------------------------------------------------------------------------
AdminsNext ==
    \/ \E r \in AdminRequest, p, q \in Person, byToken \in BOOLEAN, op \in AdminOps :
          Authorise(r, p, byToken, op, q)
    \/ \E r \in AdminRequest : WritePerson(r) \/ AdminRequestFails(r)
    \/ \E p \in Person : OwnDeletion(p)

AdminsSpec == AdminsInit /\ [][AdminsNext]_adminsVars

-----------------------------------------------------------------------------
(* There is always an admin: no request and no sequence of requests that   *)
(* follow one another removes the last one, by role or by deletion; and    *)
(* as long as no deactivated admin used a token, one who is active is      *)
(* left, too.  Two admins who act on each other at the same time can undo  *)
(* both, and so can an admin who deletes his own account.                  *)
AdminRemains ==
    overlapped \/ /\ \E p \in Person : IsAdmin(p)
                  /\ inactiveWrote \/ \E p \in Person : ActingAdmin(p)
=============================================================================
