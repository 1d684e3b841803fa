------------------------------ MODULE Organization ------------------------------
(***************************************************************************)
(* backend/services/organization_service.py and the signup of              *)
(* auth_service.py: the members of an organization, their roles, and the   *)
(* invitations to it.  The routes are plain functions, so FastAPI handles  *)
(* requests in parallel threads, each with a database session of its own.  *)
(*                                                                         *)
(* A request is a few queries and one commit.  PostgreSQL runs the         *)
(* transactions at READ COMMITTED: a query sees what has been committed,   *)
(* and what the session has loaded is not read again.  SQLAlchemy writes   *)
(* at the commit, and only the columns whose value changed.                *)
(***************************************************************************)
EXTENDS Naturals, FiniteSets

CONSTANTS
    Users,        \* primary keys; a key is used once
    Emails,
    Levels,       \* access levels
    Invitations,
    InvitedEmail, InvitedRole,  \* of each invitation
    OtherRoles,   \* TEAM_LEAD and MEMBER, which no route tells apart
    Founder,      \* the user whose signup created the organization
    Workers       \* threads that handle requests

Roles == {"ORG_ADMIN"} \cup OtherRoles

ASSUME ConstantsAssumption ==
    /\ InvitedEmail \in [Invitations -> Emails]
    /\ InvitedRole \in [Invitations -> Roles]
    /\ Founder \in Users
    /\ {"ORG_ADMIN", "none", "elsewhere"} \cap OtherRoles = {}
    /\ Emails # {} /\ Levels # {}

VARIABLES
    \* the tables
    role,     \* "none": no row; "elsewhere": a user of another organization
    email, level,
    used,     \* keys that have been used
    status,   \* of the invitations
    overdue,  \* invitations whose expires_at has passed
    \* the requests
    step,     \* what each worker does next
    req,      \* its request and what it has loaded
    \* history
    joined    \* the users each invitation has created

tables == <<role, email, level, used, status, overdue>>
vars == <<tables, step, req, joined>>

AnyEmail == CHOOSE e \in Emails : TRUE
AnyLevel == CHOOSE l \in Levels : TRUE
Keep == "keep"   \* the field is absent from the request

Row(u) == role[u] # "none"
Member(u) == role[u] \in Roles
Admin(u) == role[u] = "ORG_ADMIN"
EmailTaken(e) == \E u \in Users : Row(u) /\ email[u] = e

Idle == [kind |-> "none"]

Init ==
    /\ role = [u \in Users |-> IF u = Founder THEN "ORG_ADMIN" ELSE "none"]
    /\ email = [u \in Users |-> AnyEmail]
    /\ level = [u \in Users |-> AnyLevel]
    /\ used = {Founder}
    /\ status = [i \in Invitations |-> "PENDING"]
    /\ overdue = {}
    /\ step = [w \in Workers |-> "idle"]
    /\ req = [w \in Workers |-> Idle]
    /\ joined = [i \in Invitations |-> {}]

-----------------------------------------------------------------------------
\* What the steps of a request are made of

Goto(w, s, r) ==
    /\ step' = [step EXCEPT ![w] = s]
    /\ req' = [req EXCEPT ![w] = r]

\* The request is over: answered, rejected or rolled back.
End(w) == Goto(w, "idle", Idle)

ReadOnly == UNCHANGED <<tables, joined>>

\* Mutant: the table has no unique constraint.
UniqueMutant(e) == TRUE

\* users.email is unique.
Unique(e) == ~EmailTaken(e)

\* A row for a new user.
Insert(u, e, r) ==
    /\ u \notin used
    /\ used' = used \cup {u}
    /\ role' = [role EXCEPT ![u] = r]
    /\ email' = [email EXCEPT ![u] = e]
    /\ \E l \in Levels : level' = [level EXCEPT ![u] = l]

\* The same query in create_invitation, accept_invitation and signup.
CheckEmail(w) ==
    /\ step[w] = "email"
    /\ IF EmailTaken(req[w].email) THEN End(w) ELSE Goto(w, "insert", req[w])
    /\ ReadOnly

\* Mutant: the status is committed when the insert fails.
RolledBackMutant(w) ==
    IF req[w].kind = "accept"
    THEN status' = [status EXCEPT ![req[w].invitation] = "ACCEPTED"]
    ELSE UNCHANGED status

RolledBack(w) == UNCHANGED status

\* The commit violates the constraint: everything is rolled back.
InsertFails(w) ==
    /\ step[w] = "insert"
    /\ ~Unique(req[w].email)
    /\ RolledBack(w)
    /\ End(w)
    /\ UNCHANGED <<role, email, level, used, overdue, joined>>

\* get_current_user and RequireRole("ORG_ADMIN")
Authenticated(u) == Admin(u)

-----------------------------------------------------------------------------
\* create_invitation: an administrator adds a user; signup: a user and an
\* organization of its own.

BeginInvite(w, u, e) ==
    /\ step[w] = "idle" /\ Authenticated(u)
    /\ Goto(w, "email", [kind |-> "invite", email |-> e])
    /\ ReadOnly

BeginSignup(w, e) ==
    /\ step[w] = "idle"
    /\ Goto(w, "email", [kind |-> "signup", email |-> e])
    /\ ReadOnly

InsertUser(w) ==
    /\ step[w] = "insert" /\ req[w].kind \in {"invite", "signup"}
    /\ Unique(req[w].email)
    /\ \E u \in Users, r \in Roles \cup {"elsewhere"} :
          /\ (r = "elsewhere") = (req[w].kind = "signup")
          /\ Insert(u, req[w].email, r)
    /\ End(w)
    /\ UNCHANGED <<status, overdue, joined>>

-----------------------------------------------------------------------------
\* accept_invitation

TimePasses(i) ==
    /\ i \notin overdue
    /\ overdue' = overdue \cup {i}
    /\ UNCHANGED <<role, email, level, used, status, step, req, joined>>

BeginAccept(w, i) ==
    /\ step[w] = "idle"
    /\ status[i] = "PENDING"
    /\ Goto(w, IF i \in overdue THEN "expire" ELSE "email",
            [kind |-> "accept", invitation |-> i, email |-> InvitedEmail[i]])
    /\ ReadOnly

Expire(w) ==
    /\ step[w] = "expire"
    /\ status' = [status EXCEPT ![req[w].invitation] = "EXPIRED"]
    /\ End(w)
    /\ UNCHANGED <<role, email, level, used, overdue, joined>>

\* The user and the status are committed together.
AcceptInvitation(w) ==
    /\ step[w] = "insert" /\ req[w].kind = "accept"
    /\ Unique(req[w].email)
    /\ LET i == req[w].invitation
       IN  /\ \E u \in Users :
                 /\ Insert(u, req[w].email, InvitedRole[i])
                 /\ joined' = [joined EXCEPT ![i] = @ \cup {u}]
           /\ status' = [status EXCEPT ![i] = "ACCEPTED"]
    /\ End(w)
    /\ UNCHANGED overdue

-----------------------------------------------------------------------------
\* remove_member and update_member_role

\* Mutant: administrators may remove and demote themselves.
AllowedTargetMutant(u, t) == Member(t)

AllowedTarget(u, t) == Member(t) /\ t # u

\* The requester is read, then the target; the row of the target stays as it
\* was loaded.
BeginChange(w, u, k) ==
    /\ step[w] = "idle" /\ Authenticated(u)
    /\ Goto(w, "target", [kind |-> k, by |-> u])
    /\ ReadOnly

LoadRemoved(w, t) ==
    /\ step[w] = "target" /\ req[w].kind = "remove"
    /\ AllowedTarget(req[w].by, t)
    /\ Goto(w, "delete", [kind |-> "remove", by |-> req[w].by, target |-> t])
    /\ ReadOnly

LoadUpdated(w, t, r, l) ==
    /\ step[w] = "target" /\ req[w].kind = "update"
    /\ AllowedTarget(req[w].by, t)
    /\ Goto(w, "write",
            [kind |-> "update", by |-> req[w].by, target |-> t,
             newRole |-> r, newLevel |-> l,
             loadedRole |-> role[t], loadedLevel |-> level[t]])
    /\ ReadOnly

\* The target does not exist, is in another organization or is the requester.
Rejected(w) ==
    /\ step[w] = "target"
    /\ End(w)
    /\ ReadOnly

Delete(w) ==
    /\ step[w] = "delete"
    /\ role' = [role EXCEPT ![req[w].target] = "none"]
    /\ email' = [email EXCEPT ![req[w].target] = AnyEmail]
    /\ level' = [level EXCEPT ![req[w].target] = AnyLevel]
    /\ End(w)
    /\ UNCHANGED <<used, status, overdue, joined>>

\* A column is written if its value is not the loaded one.
Written(new, loaded, current) ==
    IF new \in {Keep, loaded} THEN current ELSE new

Update(w) ==
    /\ step[w] = "write"
    /\ LET r == req[w]
           t == r.target
       IN  /\ Row(t)
           /\ role' = [role EXCEPT ![t] = Written(r.newRole, r.loadedRole, @)]
           /\ level' = [level EXCEPT ![t] = Written(r.newLevel, r.loadedLevel, @)]
    /\ End(w)
    /\ UNCHANGED <<email, used, status, overdue, joined>>

\* The row has been deleted: StaleDataError, or nothing to write.
UpdateFails(w) ==
    /\ step[w] = "write"
    /\ ~Row(req[w].target)
    /\ End(w)
    /\ ReadOnly

-----------------------------------------------------------------------------
Request(w) ==
    \/ \E u \in Users :
          \/ \E e \in Emails : BeginInvite(w, u, e)
          \/ \E k \in {"remove", "update"} : BeginChange(w, u, k)
    \/ \E e \in Emails : BeginSignup(w, e)
    \/ \E i \in Invitations : BeginAccept(w, i)

Handle(w) ==
    \/ CheckEmail(w) \/ InsertUser(w) \/ InsertFails(w)
    \/ AcceptInvitation(w) \/ Expire(w)
    \/ \E t \in Users :
          \/ LoadRemoved(w, t)
          \/ \E r \in Roles \cup {Keep}, l \in Levels \cup {Keep} :
                LoadUpdated(w, t, r, l)
    \/ Rejected(w) \/ Delete(w) \/ Update(w) \/ UpdateFails(w)

Next ==
    \/ \E w \in Workers : Request(w) \/ Handle(w)
    \/ \E i \in Invitations : TimePasses(i)

Spec == Init /\ [][Next]_vars
-----------------------------------------------------------------------------
TypeOK ==
    /\ role \in [Users -> Roles \cup {"none", "elsewhere"}]
    /\ email \in [Users -> Emails] /\ level \in [Users -> Levels]
    /\ used \subseteq Users
    /\ status \in [Invitations -> {"PENDING", "ACCEPTED", "EXPIRED"}]
    /\ overdue \subseteq Invitations
    /\ step \in [Workers -> {"idle", "email", "insert", "expire", "target",
                             "delete", "write"}]
    /\ joined \in [Invitations -> SUBSET Users]

\* However checks and inserts of invitations, acceptances and signups overlap,
\* no two users have the same email.
OneUserPerEmail ==
    \A u, v \in Users : (Row(u) /\ Row(v) /\ email[u] = email[v]) => u = v

\* An accepted invitation has created its user, and one that is still pending
\* has not.
AcceptedHasJoined ==
    \A i \in Invitations :
        /\ status[i] = "ACCEPTED" => joined[i] # {}
        /\ joined[i] # {} => status[i] # "PENDING"

\* An organization loses its last administrator only to a request whose author
\* was an administrator when it was authenticated and is none any more.
LastAdminFallsToStaleAdmin ==
    [][((\E u \in Users : Admin(u)) /\ ~(\E u \in Users : Admin(u))') =>
        \E w \in Workers :
            step[w] \in {"delete", "write"} /\ step'[w] = "idle"
                /\ ~Admin(req[w].by)]_vars
=============================================================================
