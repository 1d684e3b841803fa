------------------------------- MODULE Sessions ------------------------------
(***************************************************************************)
(* The life of a user's sessions: login, refresh, the check of a token, a  *)
(* change of the password, the update of the profile, and what an admin    *)
(* does to a client (backend/services/auth_service.py, settings_service.py *)
(* and admin_service.py, core/crypto.py, core/dependencies.py).            *)
(*                                                                         *)
(* Time is counted in units of the life of an access token.  A password is *)
(* the number of its hash: every password that is set is a new one.  A     *)
(* request that writes has loaded its rows in one step and commits in a    *)
(* later one; the ORM writes the columns that the request changed and no   *)
(* other.  Nothing looks at is_active, and nothing ends a token before its *)
(* time.                                                                   *)
(***************************************************************************)
EXTENDS Integers, NoneValue

CONSTANTS
    People, Admins,  \* Admins have the role SUPER_ADMIN
    Addresses,         \* addresses as they are written
    Lower,          \* each address in lower case
    FirstEmail,     \* the address each user signed up with, in lower case
    Requests,       \* requests that are handled at the same time
    AccessTTL, RefreshTTL,
    MaxNow,         \* bound on the time
    MaxPasswords    \* bound on the passwords that are set

\* Addresses are unique when users sign up, and stored in lower case.
ASSUME SessionsAssumption ==
    /\ AccessTTL \in Nat /\ RefreshTTL \in Nat
    /\ \A u, v \in People : FirstEmail[u] = FirstEmail[v] => u = v
    /\ \A u \in People : Lower[FirstEmail[u]] = FirstEmail[u]

VARIABLES
    now,
    user,           \* the row of each user, None once it is removed
    tokens,         \* the tokens that clients hold and that have not expired
    request,        \* what each request in progress has loaded
    passwords,      \* how many passwords have been set
    loggedIn,       \* history: when each user last logged in,
    renamed         \*          and whose address a profile update has written

sessionVars == <<now, user, tokens, request, passwords, loggedIn, renamed>>

SessionInit ==
    /\ now = 0 /\ passwords = 1
    /\ user = [u \in People |->
                 [email |-> FirstEmail[u], password |-> 1, active |-> TRUE]]
    /\ tokens = {}
    /\ request = [r \in Requests |-> None]
    /\ loggedIn = [u \in People |-> None]
    /\ renamed = {}

Exists(u) == user[u] # None

\* The user that a query by address finds: the column is unique.
Found(email) == {u \in People : Exists(u) /\ user[u].email = email}

-----------------------------------------------------------------------------
AccessToken(u) == [kind |-> "access", user |-> u, exp |-> now + AccessTTL]
RefreshToken(u) == [kind |-> "refresh", user |-> u, exp |-> now + RefreshTTL]
Tokens(u) == {AccessToken(u), RefreshToken(u)}

\* A token whose time is over does not decode any more.
Advance ==
    /\ now < MaxNow
    /\ now' = now + 1
    /\ tokens' = {t \in tokens : t.exp >= now'}
    /\ UNCHANGED <<user, request, passwords, loggedIn, renamed>>

\* login() with the right password; the address is looked up in lower case.
LogIn(email) ==
    \E u \in Found(Lower[email]) :
      /\ tokens' = tokens \cup Tokens(u)
      /\ loggedIn' = [loggedIn EXCEPT ![u] = now]
      /\ UNCHANGED <<now, user, request, passwords, renamed>>

\* Mutant: the type of the token is not verified.
RefreshableMutant(t) == Exists(t.user)

Refreshable(t) == t.kind = "refresh" /\ Exists(t.user)

\* refresh_token() returns an access token and no refresh token.
Refresh(t) ==
    /\ Refreshable(t)
    /\ tokens' = tokens \cup {AccessToken(t.user)}
    /\ UNCHANGED <<now, user, request, passwords, loggedIn, renamed>>

-----------------------------------------------------------------------------
\* get_current_user(): a token of either kind, of a user who exists
KnownUser(t) == Exists(t.user)
SuperAdmin(t) == KnownUser(t) /\ t.user \in Admins

Load(r, kind, u, value) ==
    /\ request[r] = None
    /\ request' = [request EXCEPT ![r] =
                     [kind |-> kind, user |-> u, value |-> value]]
    /\ UNCHANGED <<now, user, tokens, loggedIn, renamed>>

NewPassword(r, kind, u) ==
    /\ passwords < MaxPasswords
    /\ passwords' = passwords + 1
    /\ Load(r, kind, u, passwords')

\* change_password() with the old password right in the row it loaded
BeginPassword(r, t) == KnownUser(t) /\ NewPassword(r, "change", t.user)

\* reset_client_password() and toggle_client_status() by an admin, of any user
BeginReset(r, t, u) ==
    /\ SuperAdmin(t) /\ Exists(u)
    /\ NewPassword(r, "reset", u)

BeginToggle(r, t, u) ==
    /\ SuperAdmin(t) /\ Exists(u)
    /\ Load(r, "toggle", u, ~user[u].active)
    /\ UNCHANGED passwords

\* update_profile() looks for the address as it is written; one that is the
\* user's already is not written.
BeginProfile(r, t, email) ==
    /\ KnownUser(t)
    /\ Found(email) = {}
    /\ Load(r, "profile", t.user, email)
    /\ UNCHANGED passwords

Column(kind) == CASE kind = "toggle" -> "active"
                  [] kind = "profile" -> "email"
                  [] OTHER -> "password"

\* Mutant: the column has no UNIQUE constraint, only the check before it.
UniqueEmailMutant(q) == TRUE

UniqueEmail(q) == q.kind = "profile" => Found(q.value) \subseteq {q.user}

Commit(r) ==
    LET q == request[r]
    IN /\ q # None /\ Exists(q.user) /\ UniqueEmail(q)
       /\ user' = [user EXCEPT ![q.user][Column(q.kind)] = q.value]
       /\ renamed' = IF q.kind = "profile"
                       THEN renamed \cup {q.user} ELSE renamed
       /\ request' = [request EXCEPT ![r] = None]
       /\ UNCHANGED <<now, tokens, passwords, loggedIn>>

\* The constraint, a row that is gone or the connection makes it fail.
Fail(r) ==
    /\ request[r] # None
    /\ request' = [request EXCEPT ![r] = None]
    /\ UNCHANGED <<now, user, tokens, passwords, loggedIn, renamed>>

\* remove_member() of the user's organization
RemoveUser(u) ==
    /\ Exists(u)
    /\ user' = [user EXCEPT ![u] = None]
    /\ UNCHANGED <<now, tokens, request, passwords, loggedIn, renamed>>

SessionNext ==
    \/ Advance
    \/ \E e \in Addresses : LogIn(e)
    \/ \E t \in tokens : Refresh(t)
    \/ \E r \in Requests :
         \/ \E t \in tokens :
              \/ BeginPassword(r, t)
              \/ \E e \in Addresses : BeginProfile(r, t, e)
              \/ \E u \in People : BeginReset(r, t, u) \/ BeginToggle(r, t, u)
         \/ Commit(r) \/ Fail(r)
    \/ \E u \in People : RemoveUser(u)

SessionSpec == SessionInit /\ [][SessionNext]_sessionVars

-----------------------------------------------------------------------------
\* However often a session is refreshed, no token of a user outlives the last
\* login by more than the life of a refresh token and that of the access token
\* it was exchanged for in its last moment.
SessionsEnd ==
    \A t \in tokens : t.exp <= loggedIn[t.user] + RefreshTTL + AccessTTL

\* An address leads to one account, the one that stores it, whatever profile
\* updates cross; only a user who has changed it may be beyond the reach of
\* login, which looks for the lower case of what is stored as written.
AddressFindsOwner ==
    \A u \in People : Exists(u) =>
      /\ Found(user[u].email) = {u}
      /\ u \notin renamed => Found(Lower[user[u].email]) = {u}
=============================================================================
