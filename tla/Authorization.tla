--------------------------- MODULE Authorization ---------------------------
(***************************************************************************)
(* The authorization service (backend/internal/services/authorization.go), *)
(* seen by one user who makes one kind of request again and again while    *)
(* administrators change roles, permissions, attributes and tasks.         *)
(*                                                                         *)
(* IsAuthorized reads the database up to five times - permission,          *)
(* attributes, admin role, task, owner - each read a statement of its own, *)
(* with no transaction around them.  AssignRole reads and then inserts.    *)
(***************************************************************************)
EXTENDS Naturals

CONSTANTS
    Roles,           \* all created; "admin" is one of them
    Departments,
    OwnDepartment,   \* the department column of the other task's owner
    Administrators,
    Requests         \* what the user may ask for

ASSUME AuthorizationConstants ==
    /\ "admin" \in Roles /\ OwnDepartment \in Departments
    /\ Requests \subseteq [resource : {"task", "profile", "other"},
                           action : {"create", "read", "update", "delete"},
                           target : {"own", "foreign", "none"}]

VARIABLES
    assigned,   \* assigned[r]: the user's row of user_roles for role r
    granted,    \* roles with a role_permissions row for what is asked
    department, \* the user's attribute "department", or {}
    task,       \* the row of the task asked for: "there" or "gone"
    assigning,  \* assigning[a]: the roles administrator a is about to insert
    request,    \* what the user asks for
    phase,      \* the next read of IsAuthorized, or its decision
    attribute,  \* userAttrs["department"] as read, or {}
    seen,       \* history: what the policy said while IsAuthorized ran
    changes     \* history: writes while IsAuthorized ran, 0, 1 or 2 for more

tables == <<assigned, granted, department, task>>
authorizationVars == <<assigned, granted, department, task, assigning, request,
                       phase, attribute, seen, changes>>

Reads == {"permission", "attributes", "admin", "task", "owner"}
\* "unread" denies because the owner could not be read.
Decisions == {"allowed", "denied", "unread", "error"}

AuthorizationTypeOK ==
    /\ assigned \in [Roles -> {"none", "live", "revoked"}]
    /\ granted \subseteq Roles /\ department \subseteq Departments
    /\ task \in {"there", "gone"}
    /\ assigning \in [Administrators -> SUBSET Roles]
    /\ request \in Requests
    /\ phase \in Reads \cup Decisions
    /\ attribute \subseteq Departments
    /\ seen \subseteq {"allowed", "denied"} /\ changes \in 0..2

AuthorizationInit ==
    /\ assigned = [r \in Roles |-> "none"] /\ granted = {}
    /\ department = {} /\ task = "there"
    /\ assigning = [a \in Administrators |-> {}]
    /\ request \in Requests
    /\ phase = "denied" /\ attribute = {}
    /\ seen = {} /\ changes = 0
-----------------------------------------------------------------------------
(* Mutant: a revoked role still counts.                                    *)
RevokedStillCounts(r) == assigned[r] # "none"

HasRole(r) == assigned[r] = "live"
HasPermission == \E r \in granted : HasRole(r)

\* The owner of the foreign task is a colleague, and reading is all one may do.
ColleagueMay == attribute = {OwnDepartment} /\ request.action = "read"

\* evaluateUserABACPolicy.
UserPolicy == request.target = "foreign" => request.action \notin {"update", "delete"}

(* What the policy says of the tables as they are now: the property's own  *)
(* account of it, which no step uses.                                      *)
VerdictOf(a, g, d, t) ==
    IF /\ \E r \in g : a[r] = "live"
       /\ \/ a["admin"] = "live"
          \/ request.resource = "other"
          \/ /\ request.resource = "profile"
             /\ request.target = "foreign" => request.action \in {"read", "create"}
          \/ /\ request.resource = "task"
             /\ \/ request.action = "create" \/ request.target = "none"
                \/ t = "there" /\ request.target = "own"
                \/ t = "there" /\ request.action = "read" /\ d = {OwnDepartment}
    THEN "allowed" ELSE "denied"

Verdict == VerdictOf(assigned, granted, department, task)

Running == phase \in Reads
Decide(yes) == phase' = IF yes THEN "allowed" ELSE "denied"

\* A write, noticed by the history of the evaluation under way.
Written ==
    /\ UNCHANGED <<request, phase, attribute>>
    /\ seen' = IF Running THEN seen \cup {Verdict'} ELSE seen
    /\ changes' = IF Running /\ changes < 2 THEN changes + 1 ELSE changes

Unwritten == UNCHANGED <<assigned, granted, department, task, assigning, request>>

\* IsAuthorized is called.
Ask ==
    /\ ~Running
    /\ phase' = "permission"
    /\ attribute' = {}
    /\ seen' = {Verdict} /\ changes' = 0
    /\ Unwritten

ReadPermission ==
    /\ phase = "permission"
    /\ phase' = IF HasPermission THEN "attributes" ELSE "denied"
    /\ UNCHANGED <<attribute, seen, changes>> /\ Unwritten

\* evaluateABACPolicies.
ReadAttributes ==
    /\ phase = "attributes"
    /\ attribute' = department
    /\ phase' = "admin"
    /\ UNCHANGED <<seen, changes>> /\ Unwritten

ReadAdmin ==
    /\ phase = "admin"
    /\ CASE HasRole("admin") -> Decide(TRUE)
         [] ~HasRole("admin") /\ request.resource = "profile" -> Decide(UserPolicy)
         [] ~HasRole("admin") /\ request.resource = "other" -> Decide(TRUE)
         [] ~HasRole("admin") /\ request.resource = "task" ->
              phase' = IF request.action = "create" \/ request.target = "none"
                       THEN "allowed" ELSE "task"
    /\ UNCHANGED <<attribute, seen, changes>> /\ Unwritten

\* evaluateTaskABACPolicy.
ReadTask ==
    /\ phase = "task"
    /\ phase' = IF task = "gone" THEN "denied"
                ELSE IF request.target = "own" THEN "allowed"
                ELSE IF attribute # {} THEN "owner" ELSE "denied"
    /\ UNCHANGED <<attribute, seen, changes>> /\ Unwritten

ReadOwner ==
    /\ phase = "owner"
    /\ Decide(ColleagueMay)
    /\ UNCHANGED <<attribute, seen, changes>> /\ Unwritten

\* A read fails: an error, except that an unread owner is no colleague.
ReadFails ==
    /\ Running
    /\ phase' = IF phase = "owner" THEN "unread" ELSE "error"
    /\ UNCHANGED <<attribute, seen, changes>> /\ Unwritten

\* AssignRole looks for the row; rows with deleted_at are not found.
LookForRole(a, r) ==
    /\ assigning[a] = {} /\ ~HasRole(r)
    /\ assigning' = [assigning EXCEPT ![a] = {r}]
    /\ UNCHANGED <<assigned, granted, department, task, request, phase,
                   attribute, seen, changes>>

\* AssignRole inserts: the primary key (user_id, role_id) rejects a second
\* row, also where the first is a revoked one.
InsertRole(a) ==
    /\ assigning[a] # {}
    /\ assigning' = [assigning EXCEPT ![a] = {}]
    /\ \/ /\ \E r \in assigning[a] :
                assigned[r] = "none" /\ assigned' = [assigned EXCEPT ![r] = "live"]
          /\ UNCHANGED <<granted, department, task>>
          /\ Written
       \/ /\ \A r \in assigning[a] : assigned[r] # "none"
          /\ UNCHANGED <<tables, request, phase, attribute, seen, changes>>

RevokeRole(r) ==
    /\ HasRole(r)
    /\ assigned' = [assigned EXCEPT ![r] = "revoked"]
    /\ UNCHANGED <<granted, department, task, assigning>>
    /\ Written

\* Nothing takes a grant back; granting twice fails on the primary key.
GrantPermissionToRole(r) ==
    /\ r \notin granted
    /\ granted' = granted \cup {r}
    /\ UNCHANGED <<assigned, department, task, assigning>>
    /\ Written

\* UNIQUE (user_id, key): an attribute is set once.
SetUserAttribute(d) ==
    /\ department = {}
    /\ department' = {d}
    /\ UNCHANGED <<assigned, granted, task, assigning>>
    /\ Written

DeleteTask ==
    /\ task = "there" /\ task' = "gone"
    /\ UNCHANGED <<assigned, granted, department, assigning>>
    /\ Written

IsAuthorized == \/ Ask \/ ReadPermission \/ ReadAttributes \/ ReadAdmin
                \/ ReadTask \/ ReadOwner \/ ReadFails

AuthorizationNext ==
    \/ IsAuthorized
    \/ \E a \in Administrators : InsertRole(a) \/ \E r \in Roles : LookForRole(a, r)
    \/ \E r \in Roles : RevokeRole(r) \/ GrantPermissionToRole(r)
    \/ \E d \in Departments : SetUserAttribute(d)
    \/ DeleteTask

AuthorizationSpec == AuthorizationInit /\ [][AuthorizationNext]_authorizationVars
-----------------------------------------------------------------------------
(* Five reads without a transaction still give a decision the policy gave  *)
(* at some moment of the evaluation, as long as at most one write came in  *)
(* between; an owner who could not be read may only deny.  With two writes *)
(* it can allow what no moment allowed: the admin role granted after the   *)
(* role that carried the permission was revoked.                           *)
DecisionIsExplained ==
    changes < 2 =>
        /\ phase = "allowed" => "allowed" \in seen
        /\ phase = "denied" /\ seen # {} => "denied" \in seen

(* The tables hold what the schema admits, and decisions are explained.    *)
AuthorizationInv == AuthorizationTypeOK /\ DecisionIsExplained
=============================================================================
