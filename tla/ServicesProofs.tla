--------------------------- MODULE ServicesProofs ---------------------------
(***************************************************************************)
(* Proofs about services of the API, for any users, threads, requests,     *)
(* rows and checks: Organization and Sessions, whose requests commit what  *)
(* they have loaded before; Integrations, whose lists are overwritten by   *)
(* threads that do not wait for each other; Accounts, whose links and      *)
(* onboarding are read and written by requests that cross; HealthService,  *)
(* which asks one part after the other while they fail; AdminQueries,      *)
(* whose pages and reports are put together from queries of different      *)
(* moments; and MCServices, which runs them side by side.                  *)
(***************************************************************************)
EXTENDS MCServices, FiniteSetTheorems, SequenceTheorems, TLAPS

-----------------------------------------------------------------------------
(***************************************************************************)
(* Organization: what a request has loaded may be stale, but some of it    *)
(* stays true until its commit: it does not aim at its own author, and     *)
(* what it will write are roles and levels.                                *)
(***************************************************************************)
Steps == {"idle", "email", "insert", "expire", "target", "delete", "write"}

\* The rows, as TypeOK has them, and under keys that have been used.
TablesOK ==
    /\ \A u \in Users : role[u] # "none" => u \in used
    /\ role \in [Users -> Roles \cup {"none", "elsewhere"}]
    /\ email \in [Users -> Emails] /\ level \in [Users -> Levels]
    /\ used \subseteq Users
    /\ status \in [Invitations -> {"PENDING", "ACCEPTED", "EXPIRED"}]
    /\ overdue \subseteq Invitations
    /\ joined \in [Invitations -> SUBSET Users]

\* What a request has in hand at each step.
RequestOK(w) ==
    /\ step[w] \in {"email", "insert"} =>
          /\ req[w].kind \in {"invite", "signup", "accept"}
          /\ req[w].email \in Emails
    /\ step[w] \in {"email", "insert", "expire"} =>
          (req[w].kind = "accept" => req[w].invitation \in Invitations)
    /\ step[w] = "expire" => req[w].kind = "accept"
    /\ step[w] \in {"target", "delete", "write"} => req[w].by \in Users
    /\ step[w] \in {"delete", "write"} => req[w].target \in Users \ {req[w].by}
    /\ step[w] = "write" =>
          /\ req[w].newRole \in Roles \cup {Keep}
          /\ req[w].newLevel \in Levels \cup {Keep}

MemberRequestsOK ==
    /\ step \in [Workers -> Steps] /\ DOMAIN req = Workers
    /\ \A w \in Workers : RequestOK(w)

OrganizationInv == TablesOK /\ MemberRequestsOK /\ OneUserPerEmail /\ AcceptedHasJoined

-----------------------------------------------------------------------------
(***************************************************************************)
(* What the steps of a request have in common                              *)
(***************************************************************************)

\* A step of one worker leaves the other requests alone.
LEMMA GotoFacts ==
    ASSUME MemberRequestsOK, NEW w \in Workers, NEW s \in Steps, NEW r, Goto(w, s, r)
    PROVE  /\ step' \in [Workers -> Steps] /\ DOMAIN req' = Workers
           /\ step'[w] = s /\ req'[w] = r
           /\ \A v \in Workers \ {w} : step'[v] = step[v] /\ req'[v] = req[v]
BY DEF MemberRequestsOK, Goto

LEMMA GotoStep ==
    ASSUME MemberRequestsOK, NEW w \in Workers, NEW s \in Steps, NEW r, Goto(w, s, r),
           RequestOK(w)'
    PROVE  MemberRequestsOK'
<1>1. /\ step' \in [Workers -> Steps] /\ DOMAIN req' = Workers
      /\ \A v \in Workers \ {w} : step'[v] = step[v] /\ req'[v] = req[v]
  BY GotoFacts
<1>2. \A v \in Workers \ {w} : RequestOK(v)'
  BY <1>1 DEF MemberRequestsOK, RequestOK
<1> QED BY <1>1, <1>2 DEF MemberRequestsOK

LEMMA EndStep ==
    ASSUME MemberRequestsOK, NEW w \in Workers, End(w)
    PROVE  MemberRequestsOK' /\ step'[w] = "idle"
<1>1. Goto(w, "idle", Idle) /\ "idle" \in Steps
  BY DEF End, Steps
<1>2. step'[w] = "idle"
  BY <1>1, GotoFacts
<1>3. RequestOK(w)'
  BY <1>2 DEF RequestOK
<1> QED BY <1>1, <1>2, <1>3, GotoStep

LEMMA ReadOnlyStep ==
    ASSUME OrganizationInv, ReadOnly, MemberRequestsOK' PROVE OrganizationInv'
BY DEF OrganizationInv, ReadOnly, tables, TablesOK, OneUserPerEmail, AcceptedHasJoined,
   Row

\* A row is inserted whose email no other row has.
LEMMA InsertStep ==
    ASSUME TablesOK, OneUserPerEmail, NEW u \in Users, NEW e \in Emails,
           NEW r \in Roles \cup {"elsewhere"}, Insert(u, e, r), Unique(e)
    PROVE  /\ role' \in [Users -> Roles \cup {"none", "elsewhere"}]
           /\ email' \in [Users -> Emails] /\ level' \in [Users -> Levels]
           /\ used' \subseteq Users
           /\ \A v \in Users : role'[v] # "none" => v \in used'
           /\ OneUserPerEmail'
<1>1. /\ role' = [role EXCEPT ![u] = r] /\ email' = [email EXCEPT ![u] = e]
      /\ used' = used \cup {u}
  BY DEF Insert
<1>2. level' \in [Users -> Levels]
  BY DEF Insert, TablesOK
<1>3. /\ role' \in [Users -> Roles \cup {"none", "elsewhere"}]
      /\ email' \in [Users -> Emails] /\ used' \subseteq Users
      /\ email'[u] = e
      /\ \A v \in Users \ {u} : role'[v] = role[v] /\ email'[v] = email[v]
  BY <1>1 DEF TablesOK
<1>4. \A v \in Users : Row(v) => email[v] # e
  BY DEF Unique, EmailTaken
<1>5. OneUserPerEmail'
  BY <1>3, <1>4 DEF OneUserPerEmail, Row
<1>6. \A v \in Users : role'[v] # "none" => v \in used'
  BY <1>1, <1>3 DEF TablesOK
<1> QED BY <1>2, <1>3, <1>5, <1>6

\* A row disappears or changes its role: no email is given to anybody.
LEMMA NoNewEmail ==
    ASSUME OneUserPerEmail,
           \A v \in Users : Row(v)' => Row(v) /\ email'[v] = email[v]
    PROVE  OneUserPerEmail'
BY DEF OneUserPerEmail

-----------------------------------------------------------------------------
(***************************************************************************)
(* Every action keeps the invariant                                        *)
(***************************************************************************)

LEMMA InitialInv == Init => OrganizationInv
<1> SUFFICES ASSUME Init PROVE OrganizationInv
  OBVIOUS
<1>1. AnyEmail \in Emails /\ AnyLevel \in Levels
  BY ConstantsAssumption DEF AnyEmail, AnyLevel
<1>2. TablesOK
  BY <1>1, ConstantsAssumption DEF Init, TablesOK, Roles
<1>3. MemberRequestsOK
  BY DEF Init, MemberRequestsOK, RequestOK, Steps
<1>4. OneUserPerEmail
  BY ConstantsAssumption DEF Init, OneUserPerEmail, Row
<1>5. AcceptedHasJoined
  BY DEF Init, AcceptedHasJoined
<1> QED BY <1>2, <1>3, <1>4, <1>5 DEF OrganizationInv

LEMMA BeginInviteStep ==
    ASSUME OrganizationInv, NEW w \in Workers, NEW u \in Users, NEW e \in Emails,
           BeginInvite(w, u, e)
    PROVE  OrganizationInv'
<1> DEFINE r == [kind |-> "invite", email |-> e]
<1>1. MemberRequestsOK /\ Goto(w, "email", r) /\ "email" \in Steps /\ ReadOnly
  BY DEF OrganizationInv, BeginInvite, Steps
<1>2. step'[w] = "email" /\ req'[w] = r
  BY <1>1, GotoFacts
<1>3. RequestOK(w)'
  BY <1>2 DEF RequestOK
<1> QED BY <1>1, <1>3, GotoStep, ReadOnlyStep

LEMMA BeginSignupStep ==
    ASSUME OrganizationInv, NEW w \in Workers, NEW e \in Emails, BeginSignup(w, e)
    PROVE  OrganizationInv'
<1> DEFINE r == [kind |-> "signup", email |-> e]
<1>1. MemberRequestsOK /\ Goto(w, "email", r) /\ "email" \in Steps /\ ReadOnly
  BY DEF OrganizationInv, BeginSignup, Steps
<1>2. step'[w] = "email" /\ req'[w] = r
  BY <1>1, GotoFacts
<1>3. RequestOK(w)'
  BY <1>2 DEF RequestOK
<1> QED BY <1>1, <1>3, GotoStep, ReadOnlyStep

LEMMA BeginAcceptStep ==
    ASSUME OrganizationInv, NEW w \in Workers, NEW i \in Invitations, BeginAccept(w, i)
    PROVE  OrganizationInv'
<1> DEFINE r == [kind |-> "accept", invitation |-> i, email |-> InvitedEmail[i]]
           s == IF i \in overdue THEN "expire" ELSE "email"
<1>1. MemberRequestsOK /\ Goto(w, s, r) /\ s \in Steps /\ ReadOnly
  BY DEF OrganizationInv, BeginAccept, Steps
<1>2. step'[w] = s /\ req'[w] = r
  BY <1>1, GotoFacts
<1>3. InvitedEmail[i] \in Emails
  BY ConstantsAssumption
<1>4. RequestOK(w)'
  BY <1>2, <1>3 DEF RequestOK
<1> QED BY <1>1, <1>4, GotoStep, ReadOnlyStep

LEMMA BeginChangeStep ==
    ASSUME OrganizationInv, NEW w \in Workers, NEW u \in Users, NEW k \in {"remove", "update"},
           BeginChange(w, u, k)
    PROVE  OrganizationInv'
<1> DEFINE r == [kind |-> k, by |-> u]
<1>1. MemberRequestsOK /\ Goto(w, "target", r) /\ "target" \in Steps /\ ReadOnly
  BY DEF OrganizationInv, BeginChange, Steps
<1>2. step'[w] = "target" /\ req'[w] = r
  BY <1>1, GotoFacts
<1>3. RequestOK(w)'
  BY <1>2 DEF RequestOK
<1> QED BY <1>1, <1>3, GotoStep, ReadOnlyStep

LEMMA CheckEmailStep ==
    ASSUME OrganizationInv, NEW w \in Workers, CheckEmail(w) PROVE OrganizationInv'
<1>1. MemberRequestsOK /\ RequestOK(w) /\ step[w] = "email" /\ ReadOnly
  BY DEF OrganizationInv, MemberRequestsOK, CheckEmail
<1>2. CASE EmailTaken(req[w].email)
  BY <1>1, <1>2, EndStep, ReadOnlyStep DEF CheckEmail
<1>3. CASE ~EmailTaken(req[w].email)
  <2>1. Goto(w, "insert", req[w]) /\ "insert" \in Steps
    BY <1>3 DEF CheckEmail, Steps
  <2>2. step'[w] = "insert" /\ req'[w] = req[w]
    BY <1>1, <2>1, GotoFacts
  <2>3. RequestOK(w)'
    BY <1>1, <2>2 DEF RequestOK
  <2> QED BY <1>1, <2>1, <2>3, GotoStep, ReadOnlyStep
<1> QED BY <1>2, <1>3

LEMMA InsertUserStep ==
    ASSUME OrganizationInv, NEW w \in Workers, InsertUser(w) PROVE OrganizationInv'
<1>1. /\ TablesOK /\ OneUserPerEmail /\ AcceptedHasJoined
      /\ MemberRequestsOK' /\ UNCHANGED <<status, overdue, joined>>
      /\ Unique(req[w].email) /\ req[w].email \in Emails
  BY EndStep DEF OrganizationInv, InsertUser, MemberRequestsOK, RequestOK
<1>2. PICK u \in Users, r \in Roles \cup {"elsewhere"} : Insert(u, req[w].email, r)
  BY DEF InsertUser
<1>3. /\ role' \in [Users -> Roles \cup {"none", "elsewhere"}]
      /\ email' \in [Users -> Emails] /\ level' \in [Users -> Levels]
      /\ used' \subseteq Users /\ OneUserPerEmail'
      /\ \A v \in Users : role'[v] # "none" => v \in used'
  BY <1>1, <1>2, InsertStep
<1>4. TablesOK' /\ AcceptedHasJoined'
  BY <1>1, <1>3 DEF TablesOK, AcceptedHasJoined
<1> QED BY <1>1, <1>3, <1>4 DEF OrganizationInv

LEMMA AcceptInvitationStep ==
    ASSUME OrganizationInv, NEW w \in Workers, AcceptInvitation(w) PROVE OrganizationInv'
<1> DEFINE i == req[w].invitation
<1>1. /\ TablesOK /\ OneUserPerEmail /\ AcceptedHasJoined
      /\ MemberRequestsOK' /\ UNCHANGED overdue
      /\ Unique(req[w].email) /\ req[w].email \in Emails /\ i \in Invitations
      /\ status' = [status EXCEPT ![i] = "ACCEPTED"]
  BY EndStep DEF OrganizationInv, AcceptInvitation, MemberRequestsOK, RequestOK
<1>2. PICK u \in Users : /\ Insert(u, req[w].email, InvitedRole[i])
                         /\ joined' = [joined EXCEPT ![i] = @ \cup {u}]
  BY DEF AcceptInvitation
<1>3. InvitedRole[i] \in Roles
  BY <1>1, ConstantsAssumption
<1>4. /\ role' \in [Users -> Roles \cup {"none", "elsewhere"}]
      /\ email' \in [Users -> Emails] /\ level' \in [Users -> Levels]
      /\ used' \subseteq Users /\ OneUserPerEmail'
      /\ \A v \in Users : role'[v] # "none" => v \in used'
  BY <1>1, <1>2, <1>3, InsertStep
<1>5. /\ status' \in [Invitations -> {"PENDING", "ACCEPTED", "EXPIRED"}]
      /\ joined' \in [Invitations -> SUBSET Users]
      /\ status'[i] = "ACCEPTED" /\ u \in joined'[i]
      /\ \A j \in Invitations \ {i} : status'[j] = status[j] /\ joined'[j] = joined[j]
  BY <1>1, <1>2 DEF TablesOK
<1>6. TablesOK'
  BY <1>1, <1>4, <1>5 DEF TablesOK
<1>7. AcceptedHasJoined'
  BY <1>1, <1>5 DEF AcceptedHasJoined
<1> QED BY <1>1, <1>4, <1>6, <1>7 DEF OrganizationInv

LEMMA InsertFailsStep ==
    ASSUME OrganizationInv, NEW w \in Workers, InsertFails(w) PROVE OrganizationInv'
<1>1. MemberRequestsOK' /\ ReadOnly
  BY EndStep DEF OrganizationInv, InsertFails, RolledBack, ReadOnly, tables
<1> QED BY <1>1, ReadOnlyStep

LEMMA ExpireStep ==
    ASSUME OrganizationInv, NEW w \in Workers, Expire(w) PROVE OrganizationInv'
<1> DEFINE i == req[w].invitation
<1>1. /\ TablesOK /\ OneUserPerEmail /\ AcceptedHasJoined /\ MemberRequestsOK'
      /\ i \in Invitations /\ status' = [status EXCEPT ![i] = "EXPIRED"]
      /\ UNCHANGED <<role, email, level, used, overdue, joined>>
  BY EndStep DEF OrganizationInv, Expire, MemberRequestsOK, RequestOK
<1>2. /\ status' \in [Invitations -> {"PENDING", "ACCEPTED", "EXPIRED"}]
      /\ status'[i] = "EXPIRED"
      /\ \A j \in Invitations \ {i} : status'[j] = status[j]
  BY <1>1 DEF TablesOK
<1>3. TablesOK' /\ OneUserPerEmail'
  BY <1>1, <1>2 DEF TablesOK, OneUserPerEmail, Row
<1>4. AcceptedHasJoined'
  BY <1>1, <1>2 DEF AcceptedHasJoined
<1> QED BY <1>1, <1>3, <1>4 DEF OrganizationInv

LEMMA LoadRemovedStep ==
    ASSUME OrganizationInv, NEW w \in Workers, NEW t \in Users, LoadRemoved(w, t)
    PROVE  OrganizationInv'
<1> DEFINE r == [kind |-> "remove", by |-> req[w].by, target |-> t]
<1>1. /\ MemberRequestsOK /\ Goto(w, "delete", r) /\ "delete" \in Steps /\ ReadOnly
      /\ req[w].by \in Users /\ t # req[w].by
  BY DEF OrganizationInv, LoadRemoved, AllowedTarget, Steps, MemberRequestsOK, RequestOK
<1>2. step'[w] = "delete" /\ req'[w] = r
  BY <1>1, GotoFacts
<1>3. RequestOK(w)'
  BY <1>1, <1>2 DEF RequestOK
<1> QED BY <1>1, <1>3, GotoStep, ReadOnlyStep

LEMMA LoadUpdatedStep ==
    ASSUME OrganizationInv, NEW w \in Workers, NEW t \in Users,
           NEW nr \in Roles \cup {Keep}, NEW nl \in Levels \cup {Keep},
           LoadUpdated(w, t, nr, nl)
    PROVE  OrganizationInv'
<1> DEFINE r == [kind |-> "update", by |-> req[w].by, target |-> t,
                 newRole |-> nr, newLevel |-> nl,
                 loadedRole |-> role[t], loadedLevel |-> level[t]]
<1>1. /\ MemberRequestsOK /\ Goto(w, "write", r) /\ "write" \in Steps /\ ReadOnly
      /\ req[w].by \in Users /\ t # req[w].by
  BY DEF OrganizationInv, LoadUpdated, AllowedTarget, Steps, MemberRequestsOK, RequestOK
<1>2. step'[w] = "write" /\ req'[w] = r
  BY <1>1, GotoFacts
<1>3. RequestOK(w)'
  BY <1>1, <1>2 DEF RequestOK
<1> QED BY <1>1, <1>3, GotoStep, ReadOnlyStep

\* The requests that end without having changed anything.
LEMMA RejectedStep ==
    ASSUME OrganizationInv, NEW w \in Workers, Rejected(w) \/ UpdateFails(w)
    PROVE  OrganizationInv'
<1>1. MemberRequestsOK' /\ ReadOnly
  BY EndStep DEF OrganizationInv, Rejected, UpdateFails
<1> QED BY <1>1, ReadOnlyStep

LEMMA DeleteStep ==
    ASSUME OrganizationInv, NEW w \in Workers, Delete(w) PROVE OrganizationInv'
<1> DEFINE t == req[w].target
<1>1. /\ TablesOK /\ OneUserPerEmail /\ AcceptedHasJoined /\ MemberRequestsOK'
      /\ t \in Users
      /\ role' = [role EXCEPT ![t] = "none"]
      /\ email' = [email EXCEPT ![t] = AnyEmail]
      /\ level' = [level EXCEPT ![t] = AnyLevel]
      /\ UNCHANGED <<used, status, overdue, joined>>
  BY EndStep DEF OrganizationInv, Delete, MemberRequestsOK, RequestOK
<1>2. AnyEmail \in Emails /\ AnyLevel \in Levels
  BY ConstantsAssumption DEF AnyEmail, AnyLevel
<1>3. TablesOK'
  <2>1. \A v \in Users : role'[v] # "none" => role[v] # "none"
    BY <1>1 DEF TablesOK, Row
  <2> QED BY <1>1, <1>2, <2>1 DEF TablesOK
<1>4. \A v \in Users : Row(v)' => Row(v) /\ email'[v] = email[v]
  BY <1>1 DEF TablesOK, Row
<1>5. OneUserPerEmail'
  BY <1>1, <1>4, NoNewEmail
<1>6. AcceptedHasJoined'
  BY <1>1 DEF AcceptedHasJoined
<1> QED BY <1>1, <1>3, <1>5, <1>6 DEF OrganizationInv

LEMMA UpdateStep ==
    ASSUME OrganizationInv, NEW w \in Workers, Update(w) PROVE OrganizationInv'
<1> DEFINE r == req[w]
           t == req[w].target
<1>1. /\ TablesOK /\ OneUserPerEmail /\ AcceptedHasJoined /\ MemberRequestsOK'
      /\ t \in Users /\ Row(t)
      /\ r.newRole \in Roles \cup {Keep} /\ r.newLevel \in Levels \cup {Keep}
      /\ role' = [role EXCEPT ![t] = Written(r.newRole, r.loadedRole, @)]
      /\ level' = [level EXCEPT ![t] = Written(r.newLevel, r.loadedLevel, @)]
      /\ UNCHANGED <<email, used, status, overdue, joined>>
  BY EndStep DEF OrganizationInv, Update, MemberRequestsOK, RequestOK
<1>2. /\ Written(r.newRole, r.loadedRole, role[t]) \in Roles \cup {"none", "elsewhere"}
      /\ Written(r.newLevel, r.loadedLevel, level[t]) \in Levels
  BY <1>1 DEF Written, TablesOK
<1>3. TablesOK'
  <2>1. \A v \in Users : role'[v] # "none" => role[v] # "none"
    BY <1>1 DEF TablesOK, Row
  <2> QED BY <1>1, <1>2, <2>1 DEF TablesOK
<1>4. \A v \in Users : Row(v)' => Row(v) /\ email'[v] = email[v]
  BY <1>1 DEF TablesOK, Row
<1>5. OneUserPerEmail'
  BY <1>1, <1>4, NoNewEmail
<1>6. AcceptedHasJoined'
  BY <1>1 DEF AcceptedHasJoined
<1> QED BY <1>1, <1>3, <1>5, <1>6 DEF OrganizationInv

LEMMA TimePassesStep ==
    ASSUME OrganizationInv, NEW i \in Invitations, TimePasses(i) PROVE OrganizationInv'
<1>1. /\ overdue' = overdue \cup {i}
      /\ UNCHANGED <<role, email, level, used, status, step, req, joined>>
  BY DEF TimePasses
<1>2. TablesOK'
  BY <1>1 DEF OrganizationInv, TablesOK
<1>3. MemberRequestsOK'
  BY <1>1 DEF OrganizationInv, MemberRequestsOK, RequestOK
<1> QED BY <1>1, <1>2, <1>3 DEF OrganizationInv, OneUserPerEmail, AcceptedHasJoined, Row

LEMMA NextKeepsInv == OrganizationInv /\ [Next]_vars => OrganizationInv'
<1> SUFFICES ASSUME OrganizationInv, [Next]_vars PROVE OrganizationInv'
  OBVIOUS
<1>1. CASE \E w \in Workers : Request(w)
  BY <1>1, BeginInviteStep, BeginSignupStep, BeginAcceptStep, BeginChangeStep
     DEF Request
<1>2. CASE \E w \in Workers : Handle(w)
  BY <1>2, CheckEmailStep, InsertUserStep, InsertFailsStep, AcceptInvitationStep,
     ExpireStep, LoadRemovedStep, LoadUpdatedStep, RejectedStep, DeleteStep, UpdateStep
     DEF Handle
<1>3. CASE \E i \in Invitations : TimePasses(i)
  BY <1>3, TimePassesStep
<1>4. CASE UNCHANGED vars
  BY <1>4 DEF vars, tables, OrganizationInv, TablesOK, MemberRequestsOK, RequestOK,
     OneUserPerEmail,
              AcceptedHasJoined, Row
<1> QED BY <1>1, <1>2, <1>3, <1>4 DEF Next

LEMMA OrganizationInvariance == Spec => []OrganizationInv
BY InitialInv, NextKeepsInv, PTL DEF Spec

-----------------------------------------------------------------------------
(***************************************************************************)
(* The theorems                                                            *)
(***************************************************************************)

\* The rows, the invitations and the steps of the requests keep their types.
THEOREM OrganizationTypes == Spec => []TypeOK
<1>1. OrganizationInv => TypeOK
  BY DEF OrganizationInv, TablesOK, MemberRequestsOK, Steps, TypeOK
<1> QED BY <1>1, OrganizationInvariance, PTL

\* The check before the insert may be passed by any number of invitations,
\* acceptances and signups at once: the constraint on users.email keeps emails
\* unique.
THEOREM EmailsAreUnique == Spec => []OneUserPerEmail
<1>1. OrganizationInv => OneUserPerEmail
  BY DEF OrganizationInv
<1> QED BY <1>1, OrganizationInvariance, PTL

\* accept_invitation commits the user and the status together.
THEOREM InvitationsAgree == Spec => []AcceptedHasJoined
<1>1. OrganizationInv => AcceptedHasJoined
  BY DEF OrganizationInv
<1> QED BY <1>1, OrganizationInvariance, PTL

\* What remove_member and update_member_role write, for the rows of Users.
LEMMA OnlyTheTargetChanges ==
    ASSUME OrganizationInv, [Next]_vars, NEW u \in Users, Admin(u), ~Admin(u)'
    PROVE  \E w \in Workers :
              /\ step[w] \in {"delete", "write"} /\ step'[w] = "idle"
              /\ req[w].target = u /\ req[w].by \in Users \ {u}
              /\ \A v \in Users \ {u} : Admin(v)' <=> Admin(v)
<1> USE DEF OrganizationInv
<1>1. ~(role' = role)
  BY DEF Admin
<1>2. PICK w \in Workers : InsertUser(w) \/ AcceptInvitation(w) \/ Delete(w) \/ Update(w)
  BY <1>1 DEF Next, Request, Handle, BeginInvite, BeginSignup, BeginAccept, BeginChange,
     CheckEmail, InsertFails, Expire, LoadRemoved, LoadUpdated, Rejected, UpdateFails,
     TimePasses, ReadOnly, tables, vars
<1>3. CASE Delete(w) \/ Update(w)
  <2>1. /\ step[w] \in {"delete", "write"} /\ step'[w] = "idle"
        /\ req[w].target \in Users \ {req[w].by} /\ req[w].by \in Users
        /\ \A v \in Users \ {req[w].target} : role'[v] = role[v]
    BY <1>3, EndStep DEF Delete, Update, MemberRequestsOK, RequestOK, TablesOK
  <2>2. req[w].target = u
    BY <2>1 DEF Admin
  <2> QED BY <2>1, <2>2 DEF Admin
<1>4. CASE InsertUser(w) \/ AcceptInvitation(w)
  <2>1. PICK n \in Users : \E e, r : Insert(n, e, r)
    BY <1>4 DEF InsertUser, AcceptInvitation
  <2>2. PICK e, r : Insert(n, e, r)
    BY <2>1
  <2>3. n # u
    BY <2>2 DEF Insert, TablesOK, Admin
  <2> QED BY <2>2, <2>3 DEF Insert, Admin
<1> QED BY <1>2, <1>3, <1>4

\* remove_member and update_member_role refuse a requester that is the target, so
\* while the author of a request is an administrator, its commit leaves one: only
\* a request whose author is none any more takes the last administrator away.
THEOREM LastAdminNeedsStaleRequest == Spec => LastAdminFallsToStaleAdmin
<1>1. OrganizationInv /\ [Next]_vars =>
        (((\E u \in Users : Admin(u)) /\ ~(\E u \in Users : Admin(u))') =>
            \E w \in Workers :
                step[w] \in {"delete", "write"} /\ step'[w] = "idle"
                    /\ ~Admin(req[w].by))
  <2> SUFFICES ASSUME OrganizationInv, [Next]_vars, \E u \in Users : Admin(u),
                      ~(\E u \in Users : Admin(u))'
               PROVE  \E w \in Workers :
                          step[w] \in {"delete", "write"} /\ step'[w] = "idle"
                              /\ ~Admin(req[w].by)
    OBVIOUS
  <2>1. PICK u \in Users : Admin(u)
    OBVIOUS
  <2>2. \A v \in Users : ~Admin(v)'
    OBVIOUS
  <2>3. PICK w \in Workers :
            /\ step[w] \in {"delete", "write"} /\ step'[w] = "idle"
            /\ req[w].target = u /\ req[w].by \in Users \ {u}
            /\ \A v \in Users \ {u} : Admin(v)' <=> Admin(v)
    BY <2>1, <2>2, OnlyTheTargetChanges
  <2> QED BY <2>2, <2>3
<1> QED BY <1>1, OrganizationInvariance, PTL DEF Spec, LastAdminFallsToStaleAdmin

-----------------------------------------------------------------------------
(***************************************************************************)
(* Sessions: a refresh hands out an access token only; so what a refresh   *)
(* token still gives is bounded by its own end, which lies RefreshTTL      *)
(* after the login.                                                        *)
(***************************************************************************)
\* A token is alive, and its end is counted from its user's last login.
TokenOK(t) ==
    /\ t.user \in People /\ t.exp \in Nat /\ now <= t.exp
    /\ loggedIn[t.user] \in Nat /\ loggedIn[t.user] <= now
    /\ t.exp <= loggedIn[t.user] + RefreshTTL +
                  (IF t.kind = "refresh" THEN 0 ELSE AccessTTL)

TokensOK ==
    /\ now \in Nat /\ DOMAIN loggedIn = People
    /\ \A t \in tokens : TokenOK(t)

\* What a request will write, and to whose row.
SessionRequestsOK ==
    /\ DOMAIN request = Requests
    /\ \A r \in Requests : request[r] # None =>
         /\ request[r].kind \in {"change", "reset", "toggle", "profile"}
         /\ request[r].user \in People

\* No two users store one address; a profile that was not updated holds the
\* address of the signup.
AddressesOK ==
    /\ DOMAIN user = People
    /\ \A u \in People : Exists(u) =>
         DOMAIN user[u] = {"email", "password", "active"}
    /\ \A u, v \in People :
         Exists(u) /\ Exists(v) /\ user[u].email = user[v].email => u = v
    /\ \A u \in People : Exists(u) /\ u \notin renamed => user[u].email = FirstEmail[u]

-----------------------------------------------------------------------------
(***************************************************************************)
(* Tokens                                                                  *)
(***************************************************************************)
LEMMA LogInKeepsTokens ==
    ASSUME TokensOK, NEW e, LogIn(e)
    PROVE  TokensOK'
<1>1. PICK u \in People : /\ tokens' = tokens \cup {AccessToken(u), RefreshToken(u)}
                         /\ loggedIn' = [loggedIn EXCEPT ![u] = now]
                         /\ now' = now
  BY DEF LogIn, Found, Tokens
<1>2. loggedIn'[u] = now /\ \A v \in People \ {u} : loggedIn'[v] = loggedIn[v]
  BY <1>1 DEF TokensOK
<1>3. ASSUME NEW t \in tokens PROVE TokenOK(t)'
  <2>1. TokenOK(t) /\ now \in Nat
    BY DEF TokensOK
  <2> QED BY <1>1, <1>2, <2>1, SessionsAssumption DEF TokenOK
<1>4. TokenOK(AccessToken(u))' /\ TokenOK(RefreshToken(u))'
  BY <1>1, <1>2, SessionsAssumption DEF TokenOK, AccessToken, RefreshToken, TokensOK
<1> QED BY <1>1, <1>3, <1>4 DEF TokensOK, AccessToken, RefreshToken

\* The token that is exchanged is alive, so that now is no later than its end.
LEMMA RefreshKeepsTokens ==
    ASSUME TokensOK, NEW t \in tokens, Refresh(t)
    PROVE  TokensOK'
<1>1. /\ t.kind = "refresh" /\ TokenOK(t) /\ now \in Nat
      /\ tokens' = tokens \cup {AccessToken(t.user)}
      /\ UNCHANGED <<now, loggedIn>>
  BY DEF Refresh, Refreshable, TokensOK
<1>2. TokenOK(AccessToken(t.user))
  BY <1>1, SessionsAssumption DEF TokenOK, AccessToken
<1> QED BY <1>1, <1>2 DEF TokensOK, TokenOK, AccessToken

LEMMA AdvanceKeepsTokens ==
    ASSUME TokensOK, Advance
    PROVE  TokensOK'
BY DEF TokensOK, TokenOK, Advance

LEMMA TokensStay == TokensOK /\ UNCHANGED <<now, tokens, loggedIn>> => TokensOK'
BY DEF TokensOK, TokenOK

-----------------------------------------------------------------------------
(***************************************************************************)
(* Requests and rows                                                       *)
(***************************************************************************)
LEMMA LoadFacts ==
    ASSUME SessionRequestsOK, NEW r \in Requests, NEW u \in People, NEW value,
           NEW kind \in {"change", "reset", "toggle", "profile"},
           Load(r, kind, u, value)
    PROVE  SessionRequestsOK' /\ UNCHANGED <<now, user, tokens, loggedIn, renamed>>
BY DEF Load, SessionRequestsOK

LEMMA AddressesStay == AddressesOK /\ UNCHANGED <<user, renamed>> => AddressesOK'
BY DEF AddressesOK, Exists

LEMMA SessionRequestsStay == SessionRequestsOK /\ UNCHANGED request => SessionRequestsOK'
BY DEF SessionRequestsOK

\* The constraint on the column: the address that is written is nobody else's.
LEMMA CommitKeepsAddresses ==
    ASSUME AddressesOK, SessionRequestsOK, NEW r \in Requests, Commit(r)
    PROVE  AddressesOK'
<1> DEFINE q == request[r]
<1>1. /\ Exists(q.user) /\ UniqueEmail(q) /\ q.user \in People
      /\ q.kind \in {"change", "reset", "toggle", "profile"}
      /\ user' = [user EXCEPT ![q.user][Column(q.kind)] = q.value]
      /\ renamed' = IF q.kind = "profile" THEN renamed \cup {q.user} ELSE renamed
  BY DEF Commit, SessionRequestsOK
<1>2. /\ DOMAIN user' = People /\ \A v \in People \ {q.user} : user'[v] = user[v]
      /\ user'[q.user] = [user[q.user] EXCEPT ![Column(q.kind)] = q.value]
  BY <1>1 DEF AddressesOK
<1>3. DOMAIN user[q.user] = {"email", "password", "active"}
  BY <1>1 DEF AddressesOK
<1>4. DOMAIN user'[q.user] = {"email", "password", "active"}
  BY <1>2, <1>3
<1>5. CASE q.kind = "profile"
  <2>1. user'[q.user].email = q.value
    BY <1>2, <1>3, <1>5 DEF Column
  <2>2. \A v \in People \ {q.user} : Exists(v) => user[v].email # q.value
    BY <1>1, <1>5 DEF UniqueEmail, Found
  <2> QED BY <1>1, <1>2, <1>4, <1>5, <2>1, <2>2 DEF AddressesOK, Exists
<1>6. CASE q.kind # "profile"
  <2>1. Column(q.kind) # "email"
    BY <1>6 DEF Column
  <2>2. user'[q.user].email = user[q.user].email
    BY <1>2, <1>3, <2>1
  <2> QED BY <1>1, <1>2, <1>4, <1>6, <2>2 DEF AddressesOK, Exists
<1> QED BY <1>5, <1>6

LEMMA RemovalKeepsAddresses ==
    ASSUME AddressesOK, NEW u \in People, RemoveUser(u)
    PROVE  AddressesOK'
BY DEF AddressesOK, RemoveUser, Exists

SessionInv == TokensOK /\ SessionRequestsOK /\ AddressesOK

LEMMA InitialSessions == SessionInit => SessionInv
BY SessionsAssumption DEF SessionInit, SessionInv, TokensOK, SessionRequestsOK,
   AddressesOK, Exists

LEMMA SessionLoadStep ==
    ASSUME SessionInv, NEW r \in Requests, NEW t \in tokens,
           \/ BeginPassword(r, t)
           \/ \E e \in Addresses : BeginProfile(r, t, e)
           \/ \E u \in People : BeginReset(r, t, u) \/ BeginToggle(r, t, u)
    PROVE  SessionInv'
<1>1. \E u \in People, kind \in {"change", "reset", "toggle", "profile"} :
        \E value : Load(r, kind, u, value)
  BY DEF SessionInv, TokensOK, TokenOK, BeginPassword, BeginProfile, BeginReset,
     BeginToggle,
     NewPassword
<1> QED BY <1>1, LoadFacts, TokensStay, AddressesStay DEF SessionInv

LEMMA SessionInvariance == SessionInv /\ [SessionNext]_sessionVars => SessionInv'
<1> SUFFICES ASSUME SessionInv, [SessionNext]_sessionVars PROVE SessionInv'
  OBVIOUS
<1> USE DEF SessionInv
<1>1. CASE Advance
  BY <1>1, AdvanceKeepsTokens, SessionRequestsStay, AddressesStay DEF Advance
<1>2. ASSUME NEW e \in Addresses, LogIn(e) PROVE SessionInv'
  BY <1>2, LogInKeepsTokens, SessionRequestsStay, AddressesStay DEF LogIn
<1>3. ASSUME NEW t \in tokens, Refresh(t) PROVE SessionInv'
  BY <1>3, RefreshKeepsTokens, SessionRequestsStay, AddressesStay DEF Refresh
<1>4. ASSUME NEW r \in Requests, NEW t \in tokens,
             \/ BeginPassword(r, t)
             \/ \E e \in Addresses : BeginProfile(r, t, e)
             \/ \E u \in People : BeginReset(r, t, u) \/ BeginToggle(r, t, u)
      PROVE  SessionInv'
  BY <1>4, SessionLoadStep
<1>5. ASSUME NEW r \in Requests, Commit(r) PROVE SessionInv'
  <2>1. SessionRequestsOK'
    BY <1>5 DEF Commit, SessionRequestsOK
  <2> QED BY <1>5, <2>1, CommitKeepsAddresses, TokensStay DEF Commit
<1>6. ASSUME NEW r \in Requests, Fail(r) PROVE SessionInv'
  <2>1. SessionRequestsOK'
    BY <1>6 DEF Fail, SessionRequestsOK
  <2> QED BY <1>6, <2>1, TokensStay, AddressesStay DEF Fail
<1>7. ASSUME NEW u \in People, RemoveUser(u) PROVE SessionInv'
  BY <1>7, RemovalKeepsAddresses, TokensStay, SessionRequestsStay DEF RemoveUser
<1>8. CASE UNCHANGED sessionVars
  BY <1>8, TokensStay, SessionRequestsStay, AddressesStay DEF sessionVars
<1> QED BY <1>1, <1>2, <1>3, <1>4, <1>5, <1>6, <1>7, <1>8 DEF SessionNext

-----------------------------------------------------------------------------
(***************************************************************************)
(* The theorems                                                            *)
(***************************************************************************)
\* The exchange of a refresh token for an access token, as often as a client
\* likes, prolongs no session beyond what the login gave and one more access
\* token.
THEOREM SessionsAreBounded == SessionSpec => []SessionsEnd
<1>1. SessionInit => SessionInv
  BY InitialSessions
<1>2. SessionInv /\ [SessionNext]_sessionVars => SessionInv'
  BY SessionInvariance
<1>3. SessionInv => SessionsEnd
  BY SessionsAssumption DEF SessionInv, TokensOK, TokenOK, SessionsEnd
<1> QED BY <1>1, <1>2, <1>3, PTL DEF SessionSpec

\* The check of update_profile and its commit are apart, and only the column's
\* constraint holds between them: whatever updates cross, an address leads to
\* the one user who stores it, and login to everyone whose profile is as it was.
THEOREM AddressesFindOwners == SessionSpec => []AddressFindsOwner
<1>1. SessionInit => SessionInv
  BY InitialSessions
<1>2. SessionInv /\ [SessionNext]_sessionVars => SessionInv'
  BY SessionInvariance
<1>3. SessionInv => AddressFindsOwner
  <2> SUFFICES ASSUME SessionInv, NEW u \in People, Exists(u)
               PROVE  /\ Found(user[u].email) = {u}
                      /\ u \notin renamed => Found(Lower[user[u].email]) = {u}
    BY DEF AddressFindsOwner
  <2>1. Found(user[u].email) = {u}
    BY DEF SessionInv, AddressesOK, Found
  <2>2. u \notin renamed => Lower[user[u].email] = user[u].email
    BY SessionsAssumption DEF SessionInv, AddressesOK
  <2> QED BY <2>1, <2>2
<1> QED BY <1>1, <1>2, <1>3, PTL DEF SessionSpec

-----------------------------------------------------------------------------
(***************************************************************************)
(* Integrations: a list of integrations is a set of ids in the heap, and a *)
(* thread that adds or deletes works on a list it has taken before. An     *)
(* addition that was answered is in the current list, or a thread that     *)
(* will replace the list has it in its own.                                *)
(***************************************************************************)
\* What a thread holds at each of its steps
CreateThreads == [step : {"create"}]
FetchThreads == [step : {"fetch"}, id : Nat]
AppendThreads == [step : {"append"}, id : Nat, list : Nat]
CopyThreads == [step : {"copy"}, id : Nat, length : Nat]

IdLists == {s \in SUBSET Nat : IsFiniteSet(s)}

\* The lists are finite sets of ids, and "current" is the one in the
\* dictionary.
IntegrationTypes ==
    /\ heap \in Seq(IdLists) /\ current \in {None} \cup DOMAIN heap
    /\ named \in Seq(Names)
    /\ thread \in [Threads -> {None} \cup CreateThreads \cup FetchThreads
                                \cup AppendThreads \cup CopyThreads \cup ReplaceStates]

\* The threads at an addition, at a deletion, and the ids that were answered as
\* added
Adding(t) == ThreadAt(t, "fetch") \/ ThreadAt(t, "append")
Deleting(t) == ThreadAt(t, "copy") \/ ThreadAt(t, "replace") \/ ThreadAt(t, "compare")
Added(id) == <<"added", id>> \in answers

\* A list that waits is in nobody else's hands.
ListsOK ==
    /\ \A t \in Threads : ThreadAt(t, "fetch") => current # None
    /\ \A t \in Threads : ThreadAt(t, "append") => thread[t].list \in DOMAIN heap
    /\ \A t \in Waiting :
         /\ thread[t].list \in DOMAIN heap /\ thread[t].list # current
         /\ thread[t].id \notin heap[thread[t].list]
         /\ \A s \in Waiting \ {t} : thread[s].list # thread[t].list
         /\ \A s \in Threads : ThreadAt(s, "append") => thread[s].list # thread[t].list

\* An id is appended once, and deleted only after that.
AddsOK ==
    /\ \A t \in Threads : Adding(t) =>
         /\ thread[t].id \in DOMAIN named /\ ~Added(thread[t].id)
         /\ \A s \in Threads : Adding(s) /\ thread[s].id = thread[t].id => s = t
    /\ \A t \in Threads : Deleting(t) => Added(thread[t].id)
    /\ \A id \in Nat : Added(id) => id \in DOMAIN named
    /\ \A id \in Nat : <<"deleted", id>> \in answers => Added(id)

\* A deletion of the id has taken effect.
IsGone(id) ==
    \/ <<"deleted", id>> \in answers
    \/ \E t \in Threads : ThreadAt(t, "compare") /\ thread[t].id = id

\* Of an integration that was answered and not crossed, every list that waits
\* knows what the list of the dictionary knows, but for the one it deletes.
KeptOK ==
    \A id \in Nat \ crossed : Added(id) =>
      /\ ~DeletionAsked(id) => id \in Stored
      /\ IsGone(id) => id \notin Stored
      /\ \A t \in Waiting :
           /\ id \in Stored /\ id # thread[t].id => id \in heap[thread[t].list]
           /\ id \in heap[thread[t].list] => id \in Stored

\* The inductive invariant
IntegrationInv == IntegrationTypes /\ ListsOK /\ AddsOK /\ KeptOK

-----------------------------------------------------------------------------
\* The list in the dictionary, or the empty one if there is none, is finite.
LEMMA StoredIds ==
    ASSUME IntegrationTypes
    PROVE  Stored \in IdLists /\ Cardinality(Stored) \in Nat
<1>1. {} \in IdLists
  BY FS_EmptySet DEF IdLists
<1>2. Stored \in IdLists
  BY <1>1 DEF IntegrationTypes, Stored
<1> QED BY <1>2, FS_CardinalityType DEF IdLists

\* An id more or less leaves a list finite.
LEMMA ListsAreFinite ==
    ASSUME NEW list \in IdLists, NEW id \in Nat
    PROVE  {} \in IdLists /\ list \cup {id} \in IdLists /\ list \ {id} \in IdLists
BY FS_EmptySet, FS_AddElement, FS_RemoveElement DEF IdLists

\* What a thread is, by its step
LEMMA ThreadKinds ==
    ASSUME IntegrationTypes, NEW t \in Threads
    PROVE  /\ ThreadAt(t, "create") => thread[t] \in CreateThreads
           /\ ThreadAt(t, "fetch") => thread[t] \in FetchThreads
           /\ ThreadAt(t, "append") => thread[t] \in AppendThreads
           /\ ThreadAt(t, "copy") => thread[t] \in CopyThreads
           /\ ThreadAt(t, "replace") => thread[t] \in ReplaceStates
           /\ ThreadAt(t, "compare") => thread[t] \in ReplaceStates
BY DEF IntegrationTypes, ThreadAt, CreateThreads, FetchThreads, AppendThreads,
   CopyThreads,
       ReplaceStates

\* Ids are counted from 1.
LEMMA NamedIds ==
    ASSUME IntegrationTypes
    PROVE  DOMAIN named = 1 .. Len(named) /\ Len(named) \in Nat /\ DOMAIN named \subseteq Nat
<1>1. named \in Seq(Names)
  BY DEF IntegrationTypes
<1>2. DOMAIN named = 1 .. Len(named) /\ Len(named) \in Nat
  BY <1>1
<1> QED BY <1>2

\* There is no list before the first addition.
LEMMA IntegrationInitial == IntegrationInit => IntegrationInv
<1> SUFFICES ASSUME IntegrationInit PROVE IntegrationInv
  OBVIOUS
<1>1. /\ \A t \in Threads : \A at : ~ThreadAt(t, at)
      /\ \A id : ~Added(id)
      /\ answers = {}
  BY DEF IntegrationInit, ThreadAt, Added
<1>2. IntegrationTypes
  <2>1. <<>> \in Seq(IdLists) /\ <<>> \in Seq(Names)
    OBVIOUS
  <2> QED BY <2>1 DEF IntegrationInit, IntegrationTypes
<1>3. ListsOK
  BY <1>1 DEF ListsOK, Waiting
<1>4. AddsOK
  BY <1>1 DEF AddsOK, Adding, Deleting
<1>5. KeptOK
  BY <1>1 DEF KeptOK
<1> QED BY <1>2, <1>3, <1>4, <1>5 DEF IntegrationInv

-----------------------------------------------------------------------------
\* A step of one thread that makes no list, and neither replaces nor appends to one
LEMMA QuietStep ==
    ASSUME IntegrationInv, NEW t \in Threads,
           NEW x \in {None} \cup CreateThreads \cup FetchThreads \cup AppendThreads
                     \cup CopyThreads,
           thread' = [thread EXCEPT ![t] = x],
           UNCHANGED <<heap, current, crossed>>,
           named' \in Seq(Names), DOMAIN named \subseteq DOMAIN named',
           answers \subseteq answers', \A id \in Nat : Added(id)' => Added(id),
           \A id \in Nat : <<"deleted", id>> \in answers' =>
             <<"deleted", id>> \in answers \/ (ThreadAt(t, "compare") /\ thread[t].id = id),
           Deleting(t) => {<<"deleted", thread[t].id>>, <<"not found", thread[t].id>>}
                            \cap answers' # {},
           x # None /\ x \in FetchThreads =>
             /\ current # None
             /\ x.id \in DOMAIN named' \ DOMAIN named,
           x # None /\ x \in AppendThreads =>
             ThreadAt(t, "fetch") /\ x.id = thread[t].id /\ x.list \in DOMAIN heap
                                  /\ x.list = current,
           x # None /\ x \in CopyThreads => Added(x.id)
    PROVE  IntegrationInv'
<1>0. /\ IntegrationTypes /\ ListsOK /\ AddsOK /\ KeptOK
      /\ thread \in [Threads -> {None} \cup CreateThreads \cup FetchThreads
                                \cup AppendThreads \cup CopyThreads \cup ReplaceStates]
  BY DEF IntegrationInv, IntegrationTypes
<1>1. /\ thread'[t] = x /\ \A s \in Threads \ {t} : thread'[s] = thread[s]
  BY <1>0
<1>2. \A s \in Threads \ {t} : \A at : ThreadAt(s, at)' <=> ThreadAt(s, at)
  BY <1>1 DEF ThreadAt
<1>3. /\ ~ThreadAt(t, "replace")' /\ ~ThreadAt(t, "compare")'
      /\ ThreadAt(t, "fetch")' => x # None /\ x \in FetchThreads
      /\ ThreadAt(t, "append")' => x # None /\ x \in AppendThreads
      /\ ThreadAt(t, "copy")' => x # None /\ x \in CopyThreads
  BY <1>1 DEF ThreadAt, CreateThreads, FetchThreads, AppendThreads, CopyThreads
<1>4. Waiting' \subseteq Waiting \ {t} /\ \A s \in Waiting' : thread'[s] = thread[s]
  BY <1>1, <1>2, <1>3 DEF Waiting
<1>5. Stored' = Stored
  BY DEF Stored
<1>6. IntegrationTypes'
  BY <1>0 DEF IntegrationTypes
<1>7. ListsOK'
  <2>1. ASSUME NEW s \in Threads, ThreadAt(s, "append")', NEW w \in Waiting'
        PROVE  thread'[s].list # thread'[w].list /\ thread'[s].list \in DOMAIN heap
    <3>1. CASE s = t
      BY <1>0, <1>1, <1>3, <1>4, <2>1, <3>1 DEF ListsOK
    <3>2. CASE s # t
      BY <1>0, <1>1, <1>2, <1>4, <2>1, <3>2 DEF ListsOK
    <3> QED BY <3>1, <3>2
  <2>2. \A s \in Threads : ThreadAt(s, "append")' => thread'[s].list \in DOMAIN heap
    BY <1>0, <1>1, <1>2, <1>3 DEF ListsOK
  <2>3. \A s \in Threads : ThreadAt(s, "fetch")' => current # None
    BY <1>0, <1>1, <1>2, <1>3 DEF ListsOK
  <2>4. ASSUME NEW w \in Waiting'
        PROVE  /\ thread'[w].list \in DOMAIN heap /\ thread'[w].list # current
               /\ thread'[w].id \notin heap[thread'[w].list]
               /\ \A s \in Waiting' \ {w} : thread'[s].list # thread'[w].list
    <3>1. w \in Waiting /\ thread'[w] = thread[w]
      BY <1>4
    <3>2. \A s \in Waiting' \ {w} : s \in Waiting \ {w} /\ thread'[s] = thread[s]
      BY <1>4
    <3> QED BY <1>0, <3>1, <3>2 DEF ListsOK
  <2> QED BY <2>1, <2>2, <2>3, <2>4 DEF ListsOK
<1>8. AddsOK'
  <2>1. \A id \in Nat : Added(id)' <=> Added(id)
    BY DEF Added
  <2>2. \A s \in Threads : Adding(s) => thread[s].id \in DOMAIN named /\ thread[s].id \in Nat
    BY <1>0, NamedIds DEF AddsOK
  <2>3. ASSUME NEW s \in Threads, Adding(s)'
        PROVE  /\ thread'[s].id \in DOMAIN named' /\ ~Added(thread'[s].id)
               /\ s # t => Adding(s) /\ thread'[s].id = thread[s].id
               /\ s = t => \/ x \in FetchThreads /\ x.id \notin DOMAIN named
                           \/ Adding(t) /\ x.id = thread[t].id
    <3>1. CASE s # t
      BY <1>0, <1>1, <1>2, <2>2, <2>3, <3>1 DEF AddsOK, Adding
    <3>2. CASE s = t /\ x # None /\ x \in FetchThreads
      <4>1. x.id \in Nat /\ x.id \in DOMAIN named' \ DOMAIN named
        BY <3>2 DEF FetchThreads
      <4> QED BY <1>0, <1>1, <3>2, <4>1 DEF AddsOK
    <3>3. CASE s = t /\ x # None /\ x \in AppendThreads
      BY <1>0, <1>1, <2>2, <3>3 DEF AddsOK, Adding
    <3> QED BY <1>3, <2>3, <3>1, <3>2, <3>3 DEF Adding
  <2>4. ASSUME NEW s \in Threads, NEW r \in Threads, Adding(s)', Adding(r)',
               thread'[s].id = thread'[r].id
        PROVE  s = r
    <3>1. CASE s # t /\ r # t
      BY <1>0, <1>1, <2>3, <2>4, <3>1 DEF AddsOK
    <3>2. CASE s = t /\ r # t
      <4>1. Adding(r) /\ thread'[r].id = thread[r].id /\ x.id = thread[r].id
        BY <1>1, <2>3, <2>4, <3>2
      <4>2. x.id \in DOMAIN named
        BY <2>2, <4>1
      <4> QED BY <1>0, <2>3, <2>4, <3>2, <4>1, <4>2 DEF AddsOK
    <3>3. CASE s # t /\ r = t
      <4>1. Adding(s) /\ thread'[s].id = thread[s].id /\ x.id = thread[s].id
        BY <1>1, <2>3, <2>4, <3>3
      <4>2. x.id \in DOMAIN named
        BY <2>2, <4>1
      <4> QED BY <1>0, <2>3, <2>4, <3>3, <4>1, <4>2 DEF AddsOK
    <3> QED BY <3>1, <3>2, <3>3
  <2>5. ASSUME NEW s \in Threads, Deleting(s)'
        PROVE  Added(thread'[s].id)
    <3>1. CASE s # t
      BY <1>0, <1>1, <1>2, <2>5, <3>1 DEF AddsOK, Deleting
    <3>2. CASE s = t
      BY <1>1, <1>3, <2>5, <3>2 DEF Deleting
    <3> QED BY <3>1, <3>2
  <2>6. ASSUME NEW s \in Threads, Deleting(s)'
        PROVE  <<"added", thread'[s].id>> \in answers'
    BY <2>5, <2>6 DEF Added
  <2>7. ASSUME NEW s \in Threads, Adding(s)'
        PROVE  <<"added", thread'[s].id>> \notin answers'
    <3>1. PICK id \in Nat : id = thread'[s].id
      <4>1. CASE s # t
        BY <2>2, <2>3, <2>7, <4>1
      <4>2. CASE s = t
        <5>1. x \in FetchThreads => x.id \in Nat
          BY DEF FetchThreads
        <5> QED BY <1>1, <2>2, <2>3, <2>7, <4>2, <5>1
      <4> QED BY <4>1, <4>2
    <3> QED BY <2>1, <2>3, <2>7, <3>1 DEF Added
  <2>8. ASSUME NEW id \in Nat, <<"deleted", id>> \in answers' PROVE Added(id)
    <3>1. CASE <<"deleted", id>> \in answers
      BY <1>0, <3>1 DEF AddsOK, Added
    <3>2. CASE ThreadAt(t, "compare") /\ thread[t].id = id
      BY <1>0, <3>2 DEF AddsOK, Deleting, Added
    <3> QED BY <2>8, <3>1, <3>2
  <2>9. \A id \in Nat : <<"added", id>> \in answers' <=> Added(id)
    BY <2>1 DEF Added
  <2>10. \A id \in Nat : Added(id) => id \in DOMAIN named'
    BY <1>0 DEF AddsOK
  <2> QED BY <2>3, <2>4, <2>6, <2>7, <2>8, <2>9, <2>10 DEF AddsOK, Added
<1>9. KeptOK'
  <2>1. ASSUME NEW id \in Nat PROVE DeletionAsked(id) => DeletionAsked(id)'
    <3>1. ASSUME NEW s \in Threads, NEW at \in {"copy", "replace", "compare"},
                 ThreadAt(s, at), thread[s].id = id
          PROVE  DeletionAsked(id)'
      <4>1. CASE s = t
        BY <3>1, <4>1 DEF Deleting, DeletionAsked
      <4>2. CASE s # t
        BY <1>1, <1>2, <3>1, <4>2 DEF DeletionAsked
      <4> QED BY <4>1, <4>2
    <3>2. ASSUME {<<"deleted", id>>, <<"not found", id>>} \cap answers # {}
          PROVE  DeletionAsked(id)'
      BY <3>2 DEF DeletionAsked
    <3> QED BY <3>1, <3>2 DEF DeletionAsked
  <2>2. ASSUME NEW id \in Nat PROVE IsGone(id)' => IsGone(id)
    BY <1>1, <1>2, <1>3 DEF IsGone
  <2> QED BY <1>0, <1>4, <1>5, <2>1, <2>2 DEF KeptOK
<1> QED BY <1>6, <1>7, <1>8, <1>9 DEF IntegrationInv

-----------------------------------------------------------------------------
\* The requests
LEMMA NoListKept ==
    ASSUME IntegrationInv, NEW t \in Threads, NoList(t)
    PROVE  IntegrationInv'
<1> DEFINE x == [step |-> "create"]
<1>1. x \in CreateThreads /\ x \notin FetchThreads /\ x \notin AppendThreads
      /\ x \notin CopyThreads
  BY DEF CreateThreads, FetchThreads, AppendThreads, CopyThreads
<1>2. /\ thread' = [thread EXCEPT ![t] = x] /\ thread[t] = None
      /\ UNCHANGED <<heap, current, named, deletes, answers, crossed>>
  BY DEF NoList, SetThread
<1>3. ~Deleting(t) /\ named \in Seq(Names)
  BY <1>2 DEF Deleting, ThreadAt, IntegrationInv, IntegrationTypes
<1> HIDE DEF x
<1> QED BY <1>1, <1>2, <1>3, QuietStep DEF Added

\* add_integration gets an id that no other has.
LEMMA AddKept ==
    ASSUME IntegrationInv, NEW t \in Threads, NEW name \in Names, Add(t, name)
    PROVE  IntegrationInv'
<1>1. /\ DOMAIN named = 1 .. Len(named) /\ Len(named) \in Nat /\ named \in Seq(Names)
  BY NamedIds DEF IntegrationInv, IntegrationTypes
<1>2. PICK x : x = [step |-> "fetch", id |-> Len(named) + 1]
  OBVIOUS
<1>3. /\ x \in FetchThreads /\ x \notin AppendThreads /\ x \notin CopyThreads
      /\ x.id = Len(named) + 1
  BY <1>1, <1>2 DEF FetchThreads, AppendThreads, CopyThreads
<1>4. /\ named' = Append(named, name) /\ Len(named') = Len(named) + 1
      /\ named' \in Seq(Names) /\ DOMAIN named' = 1 .. Len(named) + 1
  BY <1>1 DEF Add
<1>5. /\ thread' = [thread EXCEPT ![t] = x] /\ thread[t] = None /\ current # None
      /\ UNCHANGED <<heap, current, answers, crossed>>
  BY <1>2, <1>4 DEF Add, SetThread
<1>6. ~Deleting(t) /\ x.id \in DOMAIN named' \ DOMAIN named /\ DOMAIN named \subseteq DOMAIN named'
  BY <1>1, <1>3, <1>4, <1>5 DEF Deleting, ThreadAt
<1> QED BY <1>3, <1>4, <1>5, <1>6, QuietStep DEF Added

\* The list a thread fetches is the one of the dictionary, and nobody's waiting
\* list.
LEMMA FetchListKept ==
    ASSUME IntegrationInv, NEW t \in Threads, FetchList(t)
    PROVE  IntegrationInv'
<1>1. PICK x : x = [step |-> "append", id |-> thread[t].id, list |-> current]
  OBVIOUS
<1>2. thread[t] \in FetchThreads /\ ThreadAt(t, "fetch") /\ ~Deleting(t)
  BY ThreadKinds DEF FetchList, IntegrationInv, Deleting, ThreadAt
<1>3. current \in DOMAIN heap /\ current \in Nat
  <2>1. current # None
    BY <1>2 DEF IntegrationInv, ListsOK
  <2>2. heap \in Seq(IdLists) /\ current \in DOMAIN heap
    BY <2>1 DEF IntegrationInv, IntegrationTypes
  <2> QED BY <2>2
<1>4. /\ x \in AppendThreads /\ x \notin FetchThreads /\ x \notin CopyThreads
      /\ x.id = thread[t].id /\ x.list = current
  BY <1>1, <1>2, <1>3 DEF FetchThreads, AppendThreads, CopyThreads
<1>5. /\ thread' = [thread EXCEPT ![t] = x] /\ named \in Seq(Names)
      /\ UNCHANGED <<heap, current, named, answers, crossed>>
  BY <1>1 DEF FetchList, SetThread, IntegrationInv, IntegrationTypes
<1> QED BY <1>2, <1>3, <1>4, <1>5, QuietStep DEF Added

\* A deletion begins for an id that was answered.
LEMMA DeleteIntegrationKept ==
    ASSUME IntegrationInv, NEW t \in Threads, NEW id \in DOMAIN named, DeleteIntegration(t, id)
    PROVE  IntegrationInv'
<1>1. PICK x : x = [step |-> "copy", id |-> id, length |-> Cardinality(Stored)]
  OBVIOUS
<1>2. id \in Nat /\ Cardinality(Stored) \in Nat
  BY NamedIds, StoredIds DEF IntegrationInv
<1>3. x \in CopyThreads /\ x \notin FetchThreads /\ x \notin AppendThreads /\ x.id = id
  BY <1>1, <1>2 DEF FetchThreads, AppendThreads, CopyThreads
<1>4. /\ thread' = [thread EXCEPT ![t] = x] /\ thread[t] = None /\ named \in Seq(Names)
      /\ UNCHANGED <<heap, current, named, answers, crossed>> /\ Added(id)
  BY <1>1 DEF DeleteIntegration, SetThread, IntegrationInv, IntegrationTypes, Added
<1>5. ~Deleting(t)
  BY <1>4 DEF Deleting, ThreadAt
<1> QED BY <1>3, <1>4, <1>5, QuietStep DEF Added

\* The end of a deletion answers by the lengths it compares.
LEMMA CompareKept ==
    ASSUME IntegrationInv, NEW t \in Threads, Compare(t)
    PROVE  IntegrationInv'
<1>1. PICK answer \in {"deleted", "not found"} :
        answers' = answers \cup {<<answer, thread[t].id>>}
  BY DEF Compare
<1>2. /\ thread' = [thread EXCEPT ![t] = None] /\ ThreadAt(t, "compare")
      /\ UNCHANGED <<heap, current, named, crossed>> /\ named \in Seq(Names)
  BY DEF Compare, SetThread, IntegrationInv, IntegrationTypes
<1>3. \A id \in Nat : /\ Added(id)' => Added(id)
                      /\ <<"deleted", id>> \in answers' =>
                           <<"deleted", id>> \in answers \/ thread[t].id = id
  BY <1>1 DEF Added
<1>4. {<<"deleted", thread[t].id>>, <<"not found", thread[t].id>>} \cap answers' # {}
  BY <1>1
<1>5. PICK x \in {None} : x = None
  OBVIOUS
<1>6. thread' = [thread EXCEPT ![t] = x]
  BY <1>2, <1>5
<1> QED BY <1>1, <1>2, <1>3, <1>4, <1>5, <1>6, QuietStep

-----------------------------------------------------------------------------
\* The lists
LEMMA CreateListKept ==
    ASSUME IntegrationInv, NEW t \in Threads, CreateList(t)
    PROVE  IntegrationInv'
<1>0. IntegrationTypes /\ ListsOK /\ AddsOK /\ KeptOK
  BY DEF IntegrationInv
<1>1. PICK n \in Nat : n = Len(heap) /\ DOMAIN heap = 1 .. n
  BY <1>0 DEF IntegrationTypes
<1>2. /\ heap' = Append(heap, {}) /\ heap' \in Seq(IdLists) /\ DOMAIN heap' = 1 .. n + 1
      /\ current' = n + 1 /\ \A l \in DOMAIN heap : heap'[l] = heap[l]
      /\ heap'[n + 1] = {}
  BY <1>0, <1>1, FS_EmptySet DEF CreateList, IntegrationTypes, IdLists
<1>3. /\ thread' = [thread EXCEPT ![t] = None] /\ ThreadAt(t, "create")
      /\ crossed' = crossed \cup Stored /\ UNCHANGED <<named, answers>>
  BY DEF CreateList, SetThread
<1>4. /\ thread'[t] = None /\ \A s \in Threads \ {t} : thread'[s] = thread[s]
  BY <1>0, <1>3 DEF IntegrationTypes
<1>5. \A s \in Threads : \A at : ThreadAt(s, at)' => ThreadAt(s, at) /\ thread'[s] = thread[s]
  BY <1>4 DEF ThreadAt
<1>6. \A s \in Threads, at \in {"copy", "replace", "compare", "append", "fetch"} :
        ThreadAt(s, at) => ThreadAt(s, at)' /\ thread'[s] = thread[s]
  BY <1>3, <1>4 DEF ThreadAt
<1>7. Waiting' = Waiting /\ \A s \in Waiting : thread'[s] = thread[s]
  BY <1>5, <1>6 DEF Waiting
<1>8. Stored' = {} /\ n + 1 # None
  BY <1>2, NoListAssumption DEF Stored
<1>9. IntegrationTypes'
  BY <1>0, <1>2, <1>3 DEF IntegrationTypes
<1>10. ListsOK'
  <2>1. ASSUME NEW w \in Waiting
        PROVE  /\ thread'[w].list \in DOMAIN heap' /\ thread'[w].list # current'
               /\ thread'[w].id \notin heap'[thread'[w].list]
               /\ \A s \in Waiting \ {w} : thread'[s].list # thread'[w].list
               /\ \A s \in Threads : ThreadAt(s, "append")' => thread'[s].list # thread'[w].list
    <3>1. /\ thread[w].list \in DOMAIN heap /\ thread[w].id \notin heap[thread[w].list]
          /\ thread'[w] = thread[w]
      BY <1>0, <1>7 DEF ListsOK
    <3>2. \A s \in Waiting \ {w} : thread'[s].list # thread'[w].list
      BY <1>0, <1>7 DEF ListsOK
    <3>3. \A s \in Threads : ThreadAt(s, "append")' => thread'[s].list # thread'[w].list
      BY <1>0, <1>5, <3>1 DEF ListsOK
    <3> QED BY <1>1, <1>2, <3>1, <3>2, <3>3
  <2>2. \A s \in Threads : ThreadAt(s, "append")' => thread'[s].list \in DOMAIN heap'
    BY <1>0, <1>1, <1>2, <1>5 DEF ListsOK
  <2> QED BY <1>2, <1>7, <1>8, <2>1, <2>2 DEF ListsOK
<1>11. AddsOK'
  BY <1>0, <1>3, <1>5 DEF AddsOK, Adding, Deleting, Added
<1>12. KeptOK'
  <2>1. ASSUME NEW id \in Nat \ crossed', Added(id)'
        PROVE  id \in Nat \ crossed /\ Added(id) /\ id \notin Stored
    BY <1>3, <2>1 DEF Added
  <2>2. \A id \in Nat : DeletionAsked(id) => DeletionAsked(id)'
    BY <1>3, <1>6 DEF DeletionAsked
  <2>3. ASSUME NEW id \in Nat \ crossed', Added(id)', NEW w \in Waiting
        PROVE  id \notin heap'[thread'[w].list]
    <3>1. id \notin heap[thread[w].list]
      BY <1>0, <2>1, <2>3 DEF KeptOK
    <3> QED BY <1>0, <1>2, <1>7, <3>1 DEF ListsOK
  <2> QED BY <1>0, <1>7, <1>8, <2>1, <2>2, <2>3 DEF KeptOK
<1> QED BY <1>9, <1>10, <1>11, <1>12 DEF IntegrationInv

\* An append to the list of the dictionary makes all that wait without the id
\* crossed, and so does one to a list that is not in the dictionary any more.
LEMMA AppendToKept ==
    ASSUME IntegrationInv, NEW t \in Threads, AppendTo(t)
    PROVE  IntegrationInv'
<1>0. IntegrationTypes /\ ListsOK /\ AddsOK /\ KeptOK
  BY DEF IntegrationInv
<1>1. ThreadAt(t, "append") /\ thread[t] \in AppendThreads
  BY <1>0, ThreadKinds DEF AppendTo
<1>2. PICK l \in DOMAIN heap, k \in Nat : l = thread[t].list /\ k = thread[t].id
  BY <1>0, <1>1 DEF ListsOK, AppendThreads
<1>3. /\ heap' = [heap EXCEPT ![l] = @ \cup {k}] /\ heap' \in Seq(IdLists)
      /\ DOMAIN heap' = DOMAIN heap /\ heap'[l] = heap[l] \cup {k}
      /\ \A m \in DOMAIN heap \ {l} : heap'[m] = heap[m]
  <2>1. heap[l] \cup {k} \in IdLists
    <3>1. heap[l] \in IdLists
      BY <1>0, <1>2 DEF IntegrationTypes
    <3> QED BY <3>1, ListsAreFinite
  <2> QED BY <1>0, <1>2, <2>1 DEF AppendTo, IntegrationTypes
<1>4. /\ thread' = [thread EXCEPT ![t] = None] /\ UNCHANGED <<current, named>>
      /\ answers' = answers \cup {<<"added", k>>}
      /\ crossed' = IF Waiting # {} \/ l # current THEN crossed \cup {k} ELSE crossed
  BY <1>2 DEF AppendTo, SetThread
<1>5. /\ thread'[t] = None /\ \A s \in Threads \ {t} : thread'[s] = thread[s]
  BY <1>0, <1>4 DEF IntegrationTypes
<1>6. \A s \in Threads : \A at : ThreadAt(s, at)' =>
        ThreadAt(s, at) /\ thread'[s] = thread[s] /\ s # t
  BY <1>5 DEF ThreadAt
<1>7. \A s \in Threads, at \in {"copy", "replace", "compare"} :
        ThreadAt(s, at) => ThreadAt(s, at)' /\ thread'[s] = thread[s]
  BY <1>1, <1>5 DEF ThreadAt
<1>8. Waiting' = Waiting /\ \A s \in Waiting : thread'[s] = thread[s]
  BY <1>6, <1>7 DEF Waiting
<1>9. Adding(t) /\ k \in DOMAIN named /\ ~Added(k)
  BY <1>0, <1>1, <1>2 DEF AddsOK, Adding
<1>10. \A w \in Waiting : thread[w].list \in DOMAIN heap \ {l}
  BY <1>0, <1>1, <1>2 DEF ListsOK
<1>11. IntegrationTypes'
  BY <1>0, <1>3, <1>4 DEF IntegrationTypes
<1>12. ListsOK'
  <2>1. ASSUME NEW w \in Waiting
        PROVE  /\ thread'[w].list \in DOMAIN heap' /\ thread'[w].list # current'
               /\ thread'[w].id \notin heap'[thread'[w].list]
               /\ \A s \in Waiting \ {w} : thread'[s].list # thread'[w].list
               /\ \A s \in Threads : ThreadAt(s, "append")' => thread'[s].list # thread'[w].list
    <3>1. /\ thread'[w].list \in DOMAIN heap' /\ thread'[w].list # current'
          /\ thread'[w].id \notin heap'[thread'[w].list]
      BY <1>0, <1>3, <1>4, <1>8, <1>10 DEF ListsOK
    <3>2. \A s \in Waiting \ {w} : thread'[s].list # thread'[w].list
      BY <1>0, <1>8 DEF ListsOK
    <3>3. \A s \in Threads : ThreadAt(s, "append")' => thread'[s].list # thread'[w].list
      BY <1>0, <1>6, <1>8 DEF ListsOK
    <3> QED BY <3>1, <3>2, <3>3
  <2>2. \A s \in Threads : ThreadAt(s, "append")' => thread'[s].list \in DOMAIN heap'
    BY <1>0, <1>3, <1>6 DEF ListsOK
  <2>3. \A s \in Threads : ThreadAt(s, "fetch")' => current' # None
    BY <1>0, <1>4, <1>6 DEF ListsOK
  <2> QED BY <1>8, <2>1, <2>2, <2>3 DEF ListsOK
<1>13. AddsOK'
  <2>1. \A id \in Nat : <<"added", id>> \in answers' <=> Added(id) \/ id = k
    BY <1>4 DEF Added
  <2>2. ASSUME NEW s \in Threads, Adding(s)'
        PROVE  /\ Adding(s) /\ thread'[s] = thread[s] /\ s # t
               /\ thread[s].id \in DOMAIN named /\ <<"added", thread[s].id>> \notin answers'
    <3>1. Adding(s) /\ thread'[s] = thread[s] /\ s # t
      BY <1>6, <2>2 DEF Adding
    <3>2. thread[s].id # k
      BY <1>0, <1>2, <1>9, <3>1 DEF AddsOK
    <3>3. thread[s].id \in DOMAIN named /\ ~Added(thread[s].id)
      BY <1>0, <3>1 DEF AddsOK
    <3>4. thread[s].id \in Nat
      BY <1>0, <3>3, NamedIds
    <3> QED BY <2>1, <3>1, <3>2, <3>3, <3>4
  <2>3. ASSUME NEW s \in Threads, Deleting(s)'
        PROVE  <<"added", thread'[s].id>> \in answers'
    <3>1. Deleting(s) /\ thread'[s] = thread[s]
      BY <1>6, <2>3 DEF Deleting
    <3> QED BY <1>0, <1>4, <3>1 DEF AddsOK, Added
  <2>4. \A id \in Nat : <<"deleted", id>> \in answers' => Added(id)
    BY <1>0, <1>4 DEF AddsOK
  <2>5. \A s, r \in Threads : Adding(s)' /\ Adding(r)' /\ thread'[s].id = thread'[r].id
                                => s = r
    BY <1>0, <2>2 DEF AddsOK
  <2>6. \A id \in Nat : <<"added", id>> \in answers' => id \in DOMAIN named'
    BY <1>0, <1>4, <1>9, <2>1 DEF AddsOK
  <2> QED BY <1>4, <2>1, <2>2, <2>3, <2>4, <2>5, <2>6 DEF AddsOK, Added
<1>14. KeptOK'
  <2>1. \A id \in Nat \ crossed' : id # k \/ (Waiting = {} /\ l = current)
    BY <1>4
  <2>2. \A id \in Nat \ {k} : id \in Stored' <=> id \in Stored
    <3>1. CASE current = None
      BY <1>4, <3>1 DEF Stored
    <3>2. CASE current \in DOMAIN heap
      <4>1. \A id \in Nat \ {k} : id \in heap'[current] <=> id \in heap[current]
        BY <1>3, <3>2
      <4> QED BY <1>4, <4>1 DEF Stored
    <3> QED BY <1>0, <3>1, <3>2 DEF IntegrationTypes
  <2>3. k \notin crossed' => k \in Stored' /\ Waiting' = {}
    <3>1. k \notin crossed' => l = current /\ Waiting = {}
      BY <1>4
    <3>2. l = current => k \in heap'[current]
      BY <1>3
    <3>3. l = current => current # None
      <4>1. l \in Nat
        BY <1>0, <1>1, <1>2 DEF AppendThreads
      <4> QED BY <4>1, NoListAssumption
    <3> QED BY <1>4, <1>8, <3>1, <3>2, <3>3 DEF Stored
  <2>4. \A id \in Nat : DeletionAsked(id) => DeletionAsked(id)'
    BY <1>4, <1>7 DEF DeletionAsked
  <2>5. \A id \in Nat : IsGone(id)' => IsGone(id)
    BY <1>4, <1>6 DEF IsGone
  <2>6. ~IsGone(k)
    BY <1>0, <1>9 DEF AddsOK, IsGone, Deleting
  <2>7. ASSUME NEW id \in Nat \ crossed', Added(id)', id # k
        PROVE  /\ ~DeletionAsked(id)' => id \in Stored'
               /\ IsGone(id)' => id \notin Stored'
               /\ \A w \in Waiting' :
                    /\ id \in Stored' /\ id # thread'[w].id => id \in heap'[thread'[w].list]
                    /\ id \in heap'[thread'[w].list] => id \in Stored'
    <3>1. id \notin crossed /\ Added(id)
      BY <1>4, <2>7 DEF Added
    <3>2. \A w \in Waiting : heap'[thread'[w].list] = heap[thread[w].list]
      BY <1>3, <1>8, <1>10
    <3> QED BY <1>0, <1>8, <2>2, <2>4, <2>5, <2>7, <3>1, <3>2 DEF KeptOK
  <2> QED BY <2>3, <2>5, <2>6, <2>7 DEF KeptOK
<1> QED BY <1>11, <1>12, <1>13, <1>14 DEF IntegrationInv

\* A deletion makes a list of its own, which agrees with the one it replaces
\* until another thread appends.
LEMMA CopyKept ==
    ASSUME IntegrationInv, NEW t \in Threads, Copy(t)
    PROVE  IntegrationInv'
<1>0. IntegrationTypes /\ ListsOK /\ AddsOK /\ KeptOK
  BY DEF IntegrationInv
<1>1. ThreadAt(t, "copy") /\ thread[t] \in CopyThreads
  BY <1>0, ThreadKinds DEF Copy
<1>2. PICK n \in Nat, k \in Nat :
        n = Len(heap) /\ DOMAIN heap = 1 .. n /\ k = thread[t].id
  BY <1>0, <1>1 DEF IntegrationTypes, CopyThreads
<1>3. PICK list \in IdLists : list = Stored \ {k}
  BY <1>0, StoredIds, ListsAreFinite
<1>4. /\ heap' = Append(heap, list) /\ heap' \in Seq(IdLists) /\ DOMAIN heap' = 1 .. n + 1
      /\ \A m \in DOMAIN heap : heap'[m] = heap[m]
      /\ heap'[n + 1] = list
  BY <1>0, <1>2, <1>3 DEF Copy, Without, IntegrationTypes
<1>5. PICK x : x = [step |-> "replace", id |-> k, length |-> thread[t].length, list |-> n + 1]
  OBVIOUS
<1>6. x \in ReplaceStates /\ x.step = "replace" /\ x.id = k /\ x.list = n + 1
  BY <1>1, <1>5 DEF CopyThreads, ReplaceStates
<1>7. /\ thread' = [thread EXCEPT ![t] = x]
      /\ UNCHANGED <<current, named, answers, crossed>>
  BY <1>2, <1>4, <1>5 DEF Copy, SetThread
<1>8. /\ thread'[t] = x /\ \A s \in Threads \ {t} : thread'[s] = thread[s]
  BY <1>0, <1>7 DEF IntegrationTypes
<1>9. \A s \in Threads : \A at : ThreadAt(s, at)' =>
        \/ s = t /\ at = "replace"
        \/ s # t /\ ThreadAt(s, at) /\ thread'[s] = thread[s]
  BY <1>6, <1>8 DEF ThreadAt
<1>10. Waiting' \subseteq Waiting \cup {t} /\ t \notin Waiting
       /\ \A s \in Waiting : thread'[s] = thread[s] /\ s # t
  BY <1>1, <1>8, <1>9 DEF Waiting, ThreadAt
<1>11. Stored' = Stored
  <2>1. current # None => current \in DOMAIN heap
    BY <1>0 DEF IntegrationTypes
  <2> QED BY <1>4, <1>7, <2>1 DEF Stored
<1>12. IntegrationTypes'
  <2>1. current \in {None} \cup DOMAIN heap'
    BY <1>0, <1>2, <1>4 DEF IntegrationTypes
  <2> QED BY <1>0, <1>4, <1>6, <1>7, <2>1 DEF IntegrationTypes
<1>13. ListsOK'
  <2>1. n + 1 \notin DOMAIN heap /\ n + 1 # None
    BY <1>2, NoListAssumption
  <2>2. ASSUME NEW w \in Waiting
        PROVE  /\ thread'[w] = thread[w] /\ thread[w].list \in DOMAIN heap
               /\ thread[w].list \in DOMAIN heap' /\ thread[w].list # current
               /\ heap'[thread[w].list] = heap[thread[w].list]
               /\ thread[w].id \notin heap[thread[w].list]
    BY <1>0, <1>2, <1>4, <1>10 DEF ListsOK
  <2>3. \A s \in Threads : ThreadAt(s, "append")' => thread'[s].list \in DOMAIN heap
    BY <1>0, <1>9 DEF ListsOK
  <2>4. ASSUME NEW w \in Waiting'
        PROVE  /\ thread'[w].list \in DOMAIN heap' /\ thread'[w].list # current'
               /\ thread'[w].id \notin heap'[thread'[w].list]
               /\ \A s \in Waiting' \ {w} : thread'[s].list # thread'[w].list
               /\ \A s \in Threads : ThreadAt(s, "append")' => thread'[s].list # thread'[w].list
    <3>1. CASE w = t
      <4>1. thread'[w].list = n + 1 /\ thread'[w].id = k
        BY <1>6, <1>8, <3>1
      <4>2. n + 1 # current
        BY <1>0, <2>1 DEF IntegrationTypes
      <4>3. \A s \in Waiting' \ {w} : thread'[s].list # thread'[w].list
        BY <1>10, <2>1, <2>2, <3>1, <4>1
      <4> QED BY <1>3, <1>4, <1>7, <2>1, <2>3, <4>1, <4>2, <4>3
    <3>2. CASE w \in Waiting
      <4>1. thread'[w].list # n + 1
        BY <2>1, <2>2, <3>2
      <4>2. \A s \in Waiting' \ {w} : thread'[s].list # thread'[w].list
        BY <1>0, <1>6, <1>8, <1>10, <2>2, <3>2, <4>1 DEF ListsOK
      <4>3. \A s \in Threads : ThreadAt(s, "append")' => thread'[s].list # thread'[w].list
        BY <1>0, <1>9, <2>2, <3>2 DEF ListsOK
      <4> QED BY <1>7, <2>2, <3>2, <4>2, <4>3
    <3> QED BY <1>10, <3>1, <3>2
  <2>5. \A s \in Threads : ThreadAt(s, "append")' => thread'[s].list \in DOMAIN heap'
    BY <1>2, <1>4, <2>3
  <2>6. \A s \in Threads : ThreadAt(s, "fetch")' => current' # None
    BY <1>0, <1>7, <1>9 DEF ListsOK
  <2> QED BY <2>4, <2>5, <2>6 DEF ListsOK
<1>14. AddsOK'
  <2>1. \A s \in Threads : Adding(s)' => Adding(s) /\ thread'[s] = thread[s]
    BY <1>9 DEF Adding
  <2>2. \A s \in Threads : Deleting(s)' => Deleting(s) /\ thread'[s].id = thread[s].id
    BY <1>1, <1>2, <1>6, <1>8, <1>9 DEF Deleting
  <2> QED BY <1>0, <1>7, <2>1, <2>2 DEF AddsOK, Added
<1>15. KeptOK'
  <2>1. ASSUME NEW id \in Nat PROVE DeletionAsked(id) => DeletionAsked(id)' \/ x = None
    <3>1. ASSUME NEW s \in Threads, NEW at \in {"copy", "replace", "compare"},
                 ThreadAt(s, at), thread[s].id = id
          PROVE  DeletionAsked(id)' \/ x = None
      <4>1. CASE s = t
        BY <1>2, <1>6, <1>8, <3>1, <4>1 DEF DeletionAsked, ThreadAt
      <4>2. CASE s # t
        BY <1>8, <3>1, <4>2 DEF DeletionAsked, ThreadAt
      <4> QED BY <4>1, <4>2
    <3>2. ASSUME {<<"deleted", id>>, <<"not found", id>>} \cap answers # {}
          PROVE  DeletionAsked(id)'
      BY <1>7, <3>2 DEF DeletionAsked
    <3> QED BY <3>1, <3>2 DEF DeletionAsked
  <2>2. \A id \in Nat : IsGone(id)' => IsGone(id)
    BY <1>7, <1>9 DEF IsGone
  <2>3. ASSUME NEW id \in Nat \ crossed, Added(id), NEW w \in Waiting'
        PROVE  /\ id \in Stored /\ id # thread'[w].id => id \in heap'[thread'[w].list]
               /\ id \in heap'[thread'[w].list] => id \in Stored
    <3>1. CASE w = t
      BY <1>3, <1>4, <1>6, <1>8, <3>1
    <3>2. CASE w \in Waiting
      <4>1. thread'[w] = thread[w] /\ heap'[thread[w].list] = heap[thread[w].list]
        BY <1>0, <1>4, <1>10, <3>2 DEF ListsOK
      <4> QED BY <1>0, <2>3, <3>2, <4>1 DEF KeptOK
    <3> QED BY <1>10, <3>1, <3>2
  <2>4. x # None
    BY <1>6, NoListAssumption
  <2> QED BY <1>0, <1>7, <1>11, <2>1, <2>2, <2>3, <2>4 DEF KeptOK, Added
<1> QED BY <1>12, <1>13, <1>14, <1>15 DEF IntegrationInv

\* The list that replaces another one brings back what was deleted and forgets
\* what was appended meanwhile: only what was crossed.
LEMMA ReplaceKept ==
    ASSUME IntegrationInv, NEW t \in Threads, Replace(t)
    PROVE  IntegrationInv'
<1>0. IntegrationTypes /\ ListsOK /\ AddsOK /\ KeptOK
  BY DEF IntegrationInv
<1>1. ThreadAt(t, "replace") /\ thread[t] \in ReplaceStates /\ t \in Waiting
  BY <1>0, ThreadKinds DEF Replace, Waiting
<1>2. PICK l \in DOMAIN heap, k \in Nat : l = thread[t].list /\ k = thread[t].id
  BY <1>0, <1>1 DEF ListsOK, ReplaceStates
<1>3. PICK x \in ReplaceStates : x = [thread[t] EXCEPT !.step = "compare"]
  BY <1>1 DEF ReplaceStates
<1>4. x.step = "compare" /\ x.id = k /\ x # None
  BY <1>1, <1>2, <1>3, NoListAssumption DEF ReplaceStates
<1>5. /\ thread' = [thread EXCEPT ![t] = x] /\ current' = l
      /\ UNCHANGED <<heap, named, answers>>
      /\ crossed' = IF Waiting # {t} THEN crossed \cup {thread[s].id : s \in Waiting}
                    ELSE crossed
  BY <1>2, <1>3 DEF Replace, SetThread
<1>6. /\ thread'[t] = x /\ \A s \in Threads \ {t} : thread'[s] = thread[s]
  BY <1>0, <1>5 DEF IntegrationTypes
<1>7. \A s \in Threads : \A at : ThreadAt(s, at)' =>
        \/ s = t /\ at = "compare"
        \/ s # t /\ ThreadAt(s, at) /\ thread'[s] = thread[s]
  BY <1>4, <1>6 DEF ThreadAt
<1>8. Waiting' = Waiting \ {t} /\ \A s \in Waiting' : thread'[s] = thread[s]
  <2>1. \A s \in Waiting \ {t} : s \in Waiting'
    BY <1>6 DEF Waiting, ThreadAt
  <2>2. \A s \in Waiting' : s \in Waiting \ {t} /\ thread'[s] = thread[s]
    BY <1>7 DEF Waiting
  <2> QED BY <2>1, <2>2
<1>9. Stored' = heap[l]
  <2>1. l # None
    BY <1>0, <1>2, NoListAssumption DEF IntegrationTypes
  <2> QED BY <1>5, <2>1 DEF Stored
<1>10. IntegrationTypes'
  BY <1>0, <1>5 DEF IntegrationTypes
<1>11. ListsOK'
  <2>1. ASSUME NEW w \in Waiting'
        PROVE  /\ thread'[w].list \in DOMAIN heap /\ thread'[w].list # l
               /\ thread'[w].id \notin heap[thread'[w].list]
               /\ \A s \in Waiting' \ {w} : thread'[s].list # thread'[w].list
               /\ \A s \in Threads : ThreadAt(s, "append")' => thread'[s].list # thread'[w].list
    <3>1. w \in Waiting \ {t} /\ thread'[w] = thread[w]
      BY <1>8
    <3>2. /\ thread[w].list \in DOMAIN heap /\ thread[w].list # l
          /\ thread[w].id \notin heap[thread[w].list]
      BY <1>0, <1>1, <1>2, <3>1 DEF ListsOK
    <3>3. \A s \in Waiting' \ {w} : thread'[s].list # thread'[w].list
      BY <1>0, <1>8, <3>1 DEF ListsOK
    <3>4. \A s \in Threads : ThreadAt(s, "append")' => thread'[s].list # thread'[w].list
      BY <1>0, <1>7, <3>1 DEF ListsOK
    <3> QED BY <3>1, <3>2, <3>3, <3>4
  <2>2. \A s \in Threads : ThreadAt(s, "append")' => thread'[s].list \in DOMAIN heap
    BY <1>0, <1>7 DEF ListsOK
  <2>3. l # None
    BY <1>0, <1>2, NoListAssumption DEF IntegrationTypes
  <2> QED BY <1>5, <2>1, <2>2, <2>3 DEF ListsOK
<1>12. AddsOK'
  <2>1. \A s \in Threads : Adding(s)' => Adding(s) /\ thread'[s] = thread[s]
    BY <1>7 DEF Adding
  <2>2. \A s \in Threads : Deleting(s)' => Deleting(s) /\ thread'[s].id = thread[s].id
    BY <1>1, <1>2, <1>4, <1>6, <1>7 DEF Deleting
  <2> QED BY <1>0, <1>5, <2>1, <2>2 DEF AddsOK, Added
<1>13. KeptOK'
  <2>1. \A id \in Nat : DeletionAsked(id) => DeletionAsked(id)'
    <3>1. ASSUME NEW id \in Nat, NEW s \in Threads,
                 NEW at \in {"copy", "replace", "compare"},
                 ThreadAt(s, at), thread[s].id = id
          PROVE  DeletionAsked(id)'
      <4>1. CASE s = t
        BY <1>2, <1>4, <1>6, <3>1, <4>1 DEF DeletionAsked, ThreadAt
      <4>2. CASE s # t
        BY <1>6, <3>1, <4>2 DEF DeletionAsked, ThreadAt
      <4> QED BY <4>1, <4>2
    <3>2. ASSUME NEW id \in Nat, {<<"deleted", id>>, <<"not found", id>>} \cap answers # {}
          PROVE  DeletionAsked(id)'
      BY <1>5, <3>2 DEF DeletionAsked
    <3> QED BY <3>1, <3>2 DEF DeletionAsked
  <2>2. \A id \in Nat : IsGone(id)' => IsGone(id) \/ id = k
    BY <1>4, <1>5, <1>6, <1>7 DEF IsGone
  <2>3. DeletionAsked(k) /\ k \notin heap[l]
    <3>1. DeletionAsked(k)
      BY <1>1, <1>2 DEF DeletionAsked
    <3>2. k \notin heap[l]
      BY <1>0, <1>1, <1>2 DEF ListsOK
    <3> QED BY <3>1, <3>2
  <2>4. ASSUME NEW id \in Nat \ crossed', Added(id)
        PROVE  /\ ~DeletionAsked(id)' => id \in heap[l]
               /\ IsGone(id)' => id \notin heap[l]
               /\ \A w \in Waiting' :
                    /\ id \in heap[l] /\ id # thread'[w].id => id \in heap[thread'[w].list]
                    /\ id \in heap[thread'[w].list] => id \in heap[l]
    <3>1. /\ id \notin crossed
          /\ Waiting # {t} => \A s \in Waiting : id # thread[s].id
      BY <1>5, <2>4
    <3>2. /\ id \in Stored /\ id # k => id \in heap[l]
          /\ id \in heap[l] => id \in Stored
          /\ ~DeletionAsked(id) => id \in Stored
          /\ IsGone(id) => id \notin Stored
      BY <1>0, <1>1, <1>2, <2>4, <3>1 DEF KeptOK
    <3>3. ~DeletionAsked(id)' => id \in heap[l]
      BY <2>1, <2>3, <3>2
    <3>4. IsGone(id)' => id \notin heap[l]
      BY <2>2, <2>3, <3>2
    <3>5. ASSUME NEW w \in Waiting'
          PROVE  /\ id \in heap[l] /\ id # thread'[w].id => id \in heap[thread'[w].list]
                 /\ id \in heap[thread'[w].list] => id \in heap[l]
      <4>1. w \in Waiting /\ w # t /\ thread'[w] = thread[w]
        BY <1>8
      <4>2. id # k
        BY <1>1, <1>2, <3>1, <4>1
      <4>3. /\ id \in Stored /\ id # thread[w].id => id \in heap[thread[w].list]
            /\ id \in heap[thread[w].list] => id \in Stored
        BY <1>0, <2>4, <3>1, <4>1 DEF KeptOK
      <4> QED BY <3>2, <4>1, <4>2, <4>3
    <3> QED BY <3>3, <3>4, <3>5
  <2> QED BY <1>5, <1>9, <2>4 DEF KeptOK, Added
<1> QED BY <1>10, <1>11, <1>12, <1>13 DEF IntegrationInv

-----------------------------------------------------------------------------
\* Whatever threads interleave, an id that was answered and not crossed by
\* another change is in the list of the dictionary and in all that wait to
\* replace it.
THEOREM IntegrationInvariance == IntegrationSpec => []IntegrationInv
<1>1. IntegrationInv /\ [IntegrationNext]_integrationVars => IntegrationInv'
  <2> SUFFICES ASSUME IntegrationInv, [IntegrationNext]_integrationVars
               PROVE  IntegrationInv'
    OBVIOUS
  <2>1. CASE UNCHANGED integrationVars
    BY <2>1 DEF integrationVars, IntegrationInv, IntegrationTypes, ListsOK, AddsOK,
       KeptOK,
                Adding, Deleting, Added, IsGone, Waiting, ThreadAt, Stored,
                DeletionAsked
  <2> QED BY <2>1, NoListKept, CreateListKept, AddKept, FetchListKept, AppendToKept,
            DeleteIntegrationKept, CopyKept, ReplaceKept, CompareKept
            DEF IntegrationNext
<1> QED BY IntegrationInitial, <1>1, PTL DEF IntegrationSpec

\* add_integration and delete_integration in any number of threads: an
\* integration whose addition was answered and whose deletion nobody asked for
\* is stored, and one whose deletion was answered is not, unless another thread
\* changed the lists in between.
THEOREM IntegrationAnswersAreKept == IntegrationSpec => []AnswersAreKept
<1>1. IntegrationInv => AnswersAreKept
  <2> SUFFICES ASSUME IntegrationInv, NEW id \in DOMAIN named, id \notin crossed
               PROVE  /\ <<"added", id>> \in answers /\ ~DeletionAsked(id) => id \in Stored
                      /\ <<"deleted", id>> \in answers => id \notin Stored
    BY DEF AnswersAreKept
  <2>1. id \in Nat
    BY NamedIds DEF IntegrationInv
  <2> QED BY <2>1 DEF IntegrationInv, AddsOK, KeptOK, Added, IsGone
<1> QED BY <1>1, IntegrationInvariance, PTL

-----------------------------------------------------------------------------
(***************************************************************************)
(* Accounts: a validation commits the answer of the role it asked for, and *)
(* an onboarding completes by the request that has loaded its step last.   *)
(***************************************************************************)
Statuses == {"active", "error"}

AccountRows == [aws : AwsAccounts, status : Statuses]

LinkRequests == [op : {"link"}, step : {"check", "insert"}, aws : AwsAccounts]

ValidationRequests ==
    [op : {"validate"}, step : {"assume", "commit"}, id : Nat, aws : AwsAccounts,
     loaded : Statuses, answer : Statuses \cup {None}]

\* Requests as they are kept between their queries and their commits
AccountRequests == LinkRequests \cup ValidationRequests \cup OnboardingRequests

Validating(r) == ~Resting(r) /\ roleRequest[r].op = "validate"

\* The rows and the requests, and an answer for a validation that will commit
\* one
AccountTypes ==
    /\ works \in [AwsAccounts -> BOOLEAN]
    /\ accounts \in Seq(AccountRows \cup {None}) /\ answered \in Seq(Statuses)
    /\ Len(answered) = Len(accounts)
    /\ roleRequest \in [Askers -> AccountRequests \cup {None}]
    /\ onboarding \in OnboardingStates \cup {None} /\ completed \in BOOLEAN
    /\ ids \in Nat /\ disturbed \in BOOLEAN
    /\ \A r \in Askers : Validating(r) =>
         /\ roleRequest[r].id \in 1 .. Len(accounts)
         /\ roleRequest[r].step = "commit" => roleRequest[r].answer \in Statuses

\* A request that has found no row of the account and will insert one
Inserts(r, a) == Asks(r, "link", "insert") /\ roleRequest[r].aws = a

\* Of an account that no two links met at, there is one row or one link that
\* will insert it, never both.
LinksOK ==
    \A a \in AwsAccounts \ linkedTogether :
      /\ \A i, j \in Linked(a) : i = j
      /\ \A r, s \in Askers : Inserts(r, a) /\ Inserts(s, a) => r = s
      /\ \A r \in Askers : Inserts(r, a) => Linked(a) = {}

\* A request that has loaded the row i to validate it
Validates(r, i) == Validating(r) /\ roleRequest[r].id = i

\* Of a row that no two validations met at, the status is the last answer, and
\* the one a validation has loaded.
ValidationsOK ==
    \A i \in DOMAIN accounts \ validatedTogether :
      /\ \A r, s \in Askers : Validates(r, i) /\ Validates(s, i) => r = s
      /\ accounts[i] # None =>
           /\ accounts[i].status = answered[i]
           /\ \A r \in Askers : Validates(r, i) => roleRequest[r].loaded = accounts[i].status

\* Requests of the onboarding, and those that will write its step
Onboards(r) == ~Resting(r) /\ roleRequest[r].op \in Onboarding
Finishes(r) == ~Resting(r) /\ roleRequest[r].op \in {"verify", "skip"}

\* An onboarding is created once and keeps its external id; undisturbed, the
\* one request that will write the step has loaded the one that is stored.
OnboardingOK ==
    /\ \A id \in shown : onboarding # None /\ onboarding.external = id
    /\ \A r \in Askers : Onboards(r) /\ roleRequest[r].step # "create" =>
         onboarding # None /\ roleRequest[r].external = onboarding.external
    /\ completed => onboarding # None
    /\ ~disturbed =>
         /\ \A r, s \in Askers : Finishes(r) /\ Finishes(s) => r = s
         /\ \A r \in Askers : Finishes(r) =>
              roleRequest[r].loaded =
                IF roleRequest[r].step = "create" THEN "welcome" ELSE onboarding.step
         /\ completed /\ onboarding.step # "completed" =>
              \E r \in Askers : Asks(r, "verify", "complete")

\* The inductive invariant
AccountInv == AccountTypes /\ LinksOK /\ ValidationsOK /\ OnboardingOK

-----------------------------------------------------------------------------
\* What the requests that are not onboarding ones do not touch.
LEMMA LinkedRows ==
    ASSUME AccountTypes, NEW a, NEW i \in Linked(a)
    PROVE  i \in 1 .. Len(accounts) /\ accounts[i] \in AccountRows
BY DEF Linked, AccountTypes

\* No accounts, no requests, no onboarding
LEMMA AccountInitial == AccountInit => AccountInv
<1> SUFFICES ASSUME AccountInit PROVE AccountInv
  OBVIOUS
<1>1. AccountTypes /\ \A r \in Askers : Resting(r)
  <2>1. \A r \in Askers : Resting(r)
    BY DEF AccountInit, Resting
  <2>2. <<>> \in Seq(AccountRows \cup {None}) /\ <<>> \in Seq(Statuses) /\ Len(<<>>) = 0
    OBVIOUS
  <2> QED BY <2>1, <2>2 DEF AccountInit, AccountTypes, Validating
<1>2. LinksOK /\ ValidationsOK
  BY <1>1 DEF AccountInit, LinksOK, ValidationsOK, Linked, Inserts, Validates, Asks
<1>3. OnboardingOK
  BY <1>1 DEF AccountInit, OnboardingOK, Onboards, Finishes, Asks
<1> QED BY <1>1, <1>2, <1>3 DEF AccountInv

-----------------------------------------------------------------------------
\* What a step of the onboarding does to its request.  The rows of accounts stay.
LEMMA OnboardingStep ==
    ASSUME AccountTypes, OnboardingOK, NEW r \in Askers,
           \/ \E op \in Onboarding : GetState(r, op)
           \/ CreateState(r) \/ Show(r) \/ CommitVerified(r) \/ Complete(r)
    PROVE  /\ Resting(r) \/ roleRequest[r] \in OnboardingRequests
           /\ \E x \in OnboardingRequests \cup {None} :
                roleRequest' = [roleRequest EXCEPT ![r] = x]
           /\ onboarding' \in OnboardingStates \cup {None}
           /\ completed' \in BOOLEAN
           /\ UNCHANGED <<works, rowVars>>
<1> DEFINE q == roleRequest[r]
<1>1. ASSUME NEW op \in Onboarding, GetState(r, op)
      PROVE  /\ Resting(r)
             /\ \E x \in OnboardingRequests : roleRequest' = [roleRequest EXCEPT ![r] = x]
             /\ UNCHANGED <<works, rowVars, onboarding, completed>>
  BY <1>1 DEF GetState, SetRequest, AccountTypes, OnboardingRequests, OnboardingStates,
              OnboardingSteps
<1>2. CASE CreateState(r)
  <2>1. q \in OnboardingRequests
    BY <1>2 DEF CreateState, Resting, AccountTypes, AccountRequests, LinkRequests,
                ValidationRequests
  <2>2. [q EXCEPT !.step = "go"] \in OnboardingRequests
    BY <2>1 DEF OnboardingRequests
  <2>3. onboarding' \in OnboardingStates
    BY <1>2, <2>1 DEF CreateState, OnboardingStates, OnboardingSteps, OnboardingRequests
  <2> QED BY <1>2, <2>1, <2>2, <2>3 DEF CreateState, Proceed, SetRequest, AccountTypes
<1>3. CASE Show(r) \/ CommitVerified(r) \/ Complete(r)
  <2>1. q \in OnboardingRequests /\ q.step # "create" /\ onboarding \in OnboardingStates
    <3>1. q \in OnboardingRequests /\ q.step # "create"
      BY <1>3 DEF Show, CommitVerified, Complete, Asks, Resting, AccountTypes,
                  AccountRequests, LinkRequests, ValidationRequests
    <3> QED BY <1>3, <3>1 DEF Show, CommitVerified, Complete, Asks, OnboardingOK,
       Onboards,
                AccountTypes, OnboardingRequests
  <2>2. \A at \in OnboardingSteps :
          [onboarding EXCEPT !.step = at] \in OnboardingStates
    BY <2>1 DEF OnboardingStates
  <2>3. onboarding' \in OnboardingStates
    BY <1>3, <2>1, <2>2 DEF Show, CommitVerified, Complete, SetStep, OnboardingSteps
  <2>4. [q EXCEPT !.step = "complete", !.loaded = onboarding'.step] \in OnboardingRequests
    BY <2>1, <2>3 DEF OnboardingRequests, OnboardingStates
  <2> QED BY <1>3, <2>1, <2>3, <2>4 DEF Show, CommitVerified, Complete, SetRequest,
              AccountTypes
<1> QED BY <1>1, <1>2, <1>3 DEF AccountTypes

-----------------------------------------------------------------------------
\* Types
LEMMA AccountTypesKept ==
    ASSUME AccountTypes, OnboardingOK, AccountNext
    PROVE  AccountTypes'
<1>1. ASSUME NEW a \in AwsAccounts, AwsChanges(a) PROVE AccountTypes'
  BY <1>1 DEF AwsChanges, rowVars, onboardingVars, AccountTypes, Validating, Asks,
     Resting
<1>2. ASSUME NEW r \in Askers, Fails(r) PROVE AccountTypes'
  BY <1>2 DEF Fails, SetRequest, rowVars, AccountTypes, Validating, Asks, Resting
<1>3. ASSUME NEW r \in Askers, NEW a \in AwsAccounts, AssumeForLink(r, a)
      PROVE  AccountTypes'
  BY <1>3 DEF AssumeForLink, SetRequest, rowVars, onboardingVars, AccountTypes,
     Validating, Asks,
              Resting, AccountRequests, LinkRequests
<1>4. ASSUME NEW r \in Askers, CheckLinked(r) PROVE AccountTypes'
  BY <1>4 DEF CheckLinked, Proceed, SetRequest, rowVars, onboardingVars, AccountTypes,
              Validating, Asks, Resting, AccountRequests, LinkRequests,
              ValidationRequests,
              OnboardingRequests, Onboarding
<1>5. ASSUME NEW r \in Askers, InsertAccount(r) PROVE AccountTypes'
  <2>1. roleRequest[r] \in LinkRequests
    BY <1>5 DEF InsertAccount, Asks, Resting, AccountTypes, AccountRequests,
                ValidationRequests, OnboardingRequests, Onboarding
  <2>2. [aws |-> roleRequest[r].aws, status |-> "active"] \in AccountRows
    BY <2>1 DEF LinkRequests, AccountRows, Statuses
  <2> QED BY <1>5, <2>2 DEF InsertAccount, SetRequest, onboardingVars, AccountTypes,
              Validating, Asks, Resting, Statuses
<1>6. ASSUME NEW r \in Askers, NEW i \in DOMAIN accounts, LoadAccount(r, i)
      PROVE  AccountTypes'
  <2>1. accounts[i] \in AccountRows /\ i \in Nat
    BY <1>6 DEF LoadAccount, AccountTypes
  <2> QED BY <1>6, <2>1 DEF LoadAccount, SetRequest, rowVars, onboardingVars,
              AccountTypes, Validating, Asks, Resting, AccountRequests,
              ValidationRequests, AccountRows
<1>7. ASSUME NEW r \in Askers, AssumeForValidation(r) PROVE AccountTypes'
  <2>1. roleRequest[r] \in ValidationRequests
    BY <1>7 DEF AssumeForValidation, Asks, Resting, AccountTypes, AccountRequests,
                LinkRequests, OnboardingRequests, Onboarding
  <2> QED BY <1>7, <2>1 DEF AssumeForValidation, SetRequest, rowVars, onboardingVars,
              AccountTypes, Validating, Asks, Resting, AccountRequests,
              ValidationRequests, Statuses
<1>8. ASSUME NEW r \in Askers, CommitStatus(r) PROVE AccountTypes'
  <2> DEFINE q == roleRequest[r]
  <2>1. q \in ValidationRequests /\ q.answer \in Statuses /\ q.id \in Nat
    BY <1>8 DEF CommitStatus, Validating, Asks, Resting, AccountTypes, AccountRequests,
                LinkRequests, OnboardingRequests, Onboarding, ValidationRequests
  <2>2. q.id \in DOMAIN accounts
    BY <1>8 DEF CommitStatus, Asks, Validating, AccountTypes
  <2>3. accounts[q.id] \in AccountRows
    BY <1>8, <2>2 DEF CommitStatus, AccountTypes
  <2>4. Status(q, accounts[q.id].status) \in Statuses
    BY <2>1, <2>3 DEF Status, AccountRows
  <2>5. accounts' = [accounts EXCEPT ![q.id] = [accounts[q.id] EXCEPT
                       !.status = Status(q, accounts[q.id].status)]]
    BY <1>8 DEF CommitStatus
  <2>6. accounts' \in Seq(AccountRows \cup {None}) /\ Len(accounts') = Len(accounts)
    BY <2>2, <2>3, <2>4, <2>5 DEF AccountTypes, AccountRows
  <2> QED BY <1>8, <2>1, <2>6 DEF CommitStatus, SetRequest, onboardingVars,
            AccountTypes, Validating, Asks, Resting
<1>9. ASSUME NEW r \in Askers,
             \/ \E op \in Onboarding : GetState(r, op)
             \/ CreateState(r) \/ Show(r) \/ CommitVerified(r) \/ Complete(r)
      PROVE  AccountTypes'
  <2>1. PICK x \in OnboardingRequests \cup {None} :
               roleRequest' = [roleRequest EXCEPT ![r] = x]
    BY <1>9, OnboardingStep
  <2>2. /\ onboarding' \in OnboardingStates \cup {None} /\ completed' \in BOOLEAN
        /\ UNCHANGED <<works, rowVars>>
    BY <1>9, OnboardingStep
  <2>3. ids' \in Nat /\ disturbed' \in BOOLEAN
    <3>1. ids \in Nat /\ disturbed \in BOOLEAN
      BY DEF AccountTypes
    <3>2. ASSUME NEW op \in Onboarding, GetState(r, op)
          PROVE  ids' \in {ids, ids + 1} /\ disturbed' \in BOOLEAN
      BY <3>1, <3>2 DEF GetState
    <3>3. CASE CreateState(r) \/ Show(r) \/ CommitVerified(r) \/ Complete(r)
      BY <3>1, <3>3 DEF CreateState, Show, CommitVerified, Complete
    <3> QED BY <1>9, <3>1, <3>2, <3>3
  <2> QED BY <2>1, <2>2, <2>3 DEF rowVars, AccountTypes, Validating, Resting,
              AccountRequests, OnboardingRequests, Onboarding
<1>10. ASSUME NEW i \in DOMAIN accounts, DeleteAccount(i) PROVE AccountTypes'
  BY <1>10 DEF DeleteAccount, onboardingVars, AccountTypes, Validating, Asks, Resting
<1> QED BY <1>1, <1>2, <1>3, <1>4, <1>5, <1>6, <1>7, <1>8, <1>9, <1>10
           DEF AccountNext

-----------------------------------------------------------------------------
\* Links
LEMMA LinksStay ==
    ASSUME LinksOK, linkedTogether \subseteq linkedTogether',
           \A a \in AwsAccounts : Linked(a)' \subseteq Linked(a),
           \A r \in Askers, a \in AwsAccounts : Inserts(r, a)' => Inserts(r, a)
    PROVE  LinksOK'
BY DEF LinksOK

\* Only a link that met another one inserts a row where there is one.
LEMMA LinksKept ==
    ASSUME AccountTypes, OnboardingOK, LinksOK, AccountNext
    PROVE  LinksOK'
<1>1. ASSUME NEW r \in Askers, CheckLinked(r) PROVE LinksOK'
  <2> DEFINE b == roleRequest[r].aws
  <2>1. /\ accounts' = accounts /\ Linked(b) = {}
        /\ roleRequest' = [roleRequest EXCEPT ![r] = [roleRequest[r] EXCEPT !.step = "insert"]]
        /\ linkedTogether' = IF \E s \in Askers : Inserts(s, b)
                               THEN linkedTogether \cup {b} ELSE linkedTogether
    BY <1>1 DEF CheckLinked, AlreadyLinked, Proceed, SetRequest, Inserts
  <2>2. \A a : Linked(a)' = Linked(a)
    BY <2>1 DEF Linked
  <2>3. \A s \in Askers \ {r} : roleRequest'[s] = roleRequest[s]
    BY <2>1 DEF AccountTypes
  <2>4. ASSUME NEW a \in AwsAccounts, NEW s \in Askers, Inserts(s, a)', ~Inserts(s, a)
        PROVE  s = r /\ a = b
    <3>1. s = r
      BY <2>3, <2>4 DEF Inserts, Asks, Resting
    <3>2. roleRequest[r] \in LinkRequests
      BY <1>1 DEF CheckLinked, Asks, Resting, AccountTypes, AccountRequests,
                  ValidationRequests, OnboardingRequests, Onboarding
    <3>3. roleRequest'[r].aws = b
      BY <2>1, <3>2 DEF AccountTypes, LinkRequests
    <3> QED BY <2>4, <3>1, <3>3 DEF Inserts
  <2>5. b \notin linkedTogether' => \A s \in Askers : ~Inserts(s, b)
    BY <2>1
  <2>6. linkedTogether \subseteq linkedTogether'
    BY <2>1
  <2> QED BY <2>1, <2>2, <2>4, <2>5, <2>6 DEF LinksOK
<1>2. ASSUME NEW r \in Askers, InsertAccount(r) PROVE LinksOK'
  <2> DEFINE b == roleRequest[r].aws
             row == [aws |-> b, status |-> "active"]
  <2>1. /\ Inserts(r, b) /\ UNCHANGED linkedTogether
        /\ accounts' = Append(accounts, row)
        /\ roleRequest' = [roleRequest EXCEPT ![r] = None]
    BY <1>2 DEF InsertAccount, Inserts, SetRequest
  <2>2. /\ DOMAIN accounts = 1 .. Len(accounts) /\ Len(accounts) \in Nat
        /\ DOMAIN accounts' = 1 .. Len(accounts) + 1
        /\ \A i \in DOMAIN accounts : accounts'[i] = accounts[i]
        /\ accounts'[Len(accounts) + 1] = row
    BY <2>1 DEF AccountTypes
  <2>3. \A a : Linked(a)' \subseteq Linked(a) \cup (IF a = b THEN {Len(accounts) + 1} ELSE {})
    BY <2>2 DEF Linked
  <2>4. \A s \in Askers : \A a : Inserts(s, a)' => s # r /\ Inserts(s, a)
    BY <2>1 DEF AccountTypes, Inserts, Asks, Resting
  <2>5. ASSUME NEW a \in AwsAccounts \ linkedTogether, a # b
        PROVE  Linked(a)' \subseteq Linked(a)
    BY <2>3, <2>5
  <2>6. b \in AwsAccounts \ linkedTogether =>
          Linked(b) = {} /\ \A s \in Askers \ {r} : ~Inserts(s, b)
    BY <2>1 DEF LinksOK
  <2> QED BY <2>1, <2>3, <2>4, <2>5, <2>6 DEF LinksOK
<1>3. ASSUME NEW i \in DOMAIN accounts, DeleteAccount(i) PROVE LinksOK'
  <2>1. \A a : Linked(a)' \subseteq Linked(a)
    BY <1>3 DEF DeleteAccount, Linked, AccountTypes
  <2> QED BY <1>3, <2>1, LinksStay DEF DeleteAccount, Inserts, Asks, Resting
<1>4. ASSUME NEW r \in Askers, CommitStatus(r) PROVE LinksOK'
  <2> DEFINE q == roleRequest[r]
  <2>1. q.id \in DOMAIN accounts /\ accounts[q.id] \in AccountRows /\ accounts[q.id] # None
    BY <1>4 DEF CommitStatus, Asks, Validating, AccountTypes
  <2>2. /\ accounts' = [accounts EXCEPT ![q.id] = [accounts[q.id] EXCEPT
                          !.status = Status(q, accounts[q.id].status)]]
        /\ roleRequest' = [roleRequest EXCEPT ![r] = None]
        /\ UNCHANGED linkedTogether
    BY <1>4 DEF CommitStatus, SetRequest
  <2>3. accounts'[q.id].aws = accounts[q.id].aws
    BY <2>1, <2>2 DEF AccountRows, AccountTypes
  <2>4. \A a : Linked(a)' \subseteq Linked(a)
    BY <2>1, <2>2, <2>3 DEF Linked, AccountTypes
  <2>5. \A s \in Askers : \A a : Inserts(s, a)' => Inserts(s, a)
    BY <2>2 DEF AccountTypes, Inserts, Asks, Resting
  <2> QED BY <2>2, <2>4, <2>5, LinksStay
<1>5. ASSUME NEW r \in Askers, NEW x, roleRequest' = [roleRequest EXCEPT ![r] = x],
             x = None \/ x.op # "link" \/ x.step # "insert",
             UNCHANGED <<accounts, linkedTogether>>
      PROVE  LinksOK'
  <2>1. \A s \in Askers : \A a : Inserts(s, a)' => Inserts(s, a)
    BY <1>5 DEF AccountTypes, Inserts, Asks, Resting
  <2>2. \A a : Linked(a)' = Linked(a)
    BY <1>5 DEF Linked
  <2> QED BY <1>5, <2>1, <2>2, LinksStay
<1>6. ASSUME NEW a \in AwsAccounts, AwsChanges(a) PROVE LinksOK'
  BY <1>6, LinksStay DEF AwsChanges, rowVars, Linked, Inserts, Asks, Resting
<1>7. ASSUME NEW r \in Askers, Fails(r) PROVE LinksOK'
  BY <1>5, <1>7 DEF Fails, SetRequest, rowVars
<1>8. ASSUME NEW r \in Askers, NEW a \in AwsAccounts, AssumeForLink(r, a) PROVE LinksOK'
  BY <1>5, <1>8 DEF AssumeForLink, SetRequest, rowVars
<1>9. ASSUME NEW r \in Askers, NEW i \in DOMAIN accounts, LoadAccount(r, i) PROVE LinksOK'
  BY <1>5, <1>9 DEF LoadAccount, SetRequest
<1>10. ASSUME NEW r \in Askers, AssumeForValidation(r) PROVE LinksOK'
  <2>1. roleRequest[r] \in ValidationRequests
    BY <1>10 DEF AssumeForValidation, Asks, Resting, AccountTypes, AccountRequests,
                 LinkRequests, OnboardingRequests, Onboarding
  <2> QED BY <1>5, <1>10, <2>1 DEF AssumeForValidation, SetRequest, rowVars,
     ValidationRequests
<1>11. ASSUME NEW r \in Askers,
              \/ \E op \in Onboarding : GetState(r, op)
              \/ CreateState(r) \/ Show(r) \/ CommitVerified(r) \/ Complete(r)
       PROVE  LinksOK'
  <2>1. PICK x \in OnboardingRequests \cup {None} :
               roleRequest' = [roleRequest EXCEPT ![r] = x]
    BY <1>11, OnboardingStep
  <2>2. UNCHANGED rowVars
    BY <1>11, OnboardingStep
  <2>3. x = None \/ x.op # "link"
    BY DEF OnboardingRequests, Onboarding
  <2> QED BY <1>5, <2>1, <2>2, <2>3 DEF rowVars
<1> QED BY <1>1, <1>2, <1>3, <1>4, <1>6, <1>7, <1>8, <1>9, <1>10, <1>11 DEF AccountNext

-----------------------------------------------------------------------------
\* Validations
LEMMA ValidationsStay ==
    ASSUME ValidationsOK, validatedTogether \subseteq validatedTogether',
           DOMAIN accounts' = DOMAIN accounts, UNCHANGED answered,
           \A i \in DOMAIN accounts : accounts'[i] \in {None, accounts[i]},
           \A r \in Askers : Validating(r)' => Validating(r) /\ roleRequest'[r].id = roleRequest[r].id
                                      /\ roleRequest'[r].loaded = roleRequest[r].loaded
    PROVE  ValidationsOK'
BY DEF ValidationsOK, Validates

\* Only a validation that met another one writes over a status that is not the
\* one it loaded.
LEMMA ValidationsKept ==
    ASSUME AccountTypes, OnboardingOK, ValidationsOK, AccountNext
    PROVE  ValidationsOK'
<1>1. ASSUME NEW r \in Askers, NEW i \in DOMAIN accounts, LoadAccount(r, i)
      PROVE  ValidationsOK'
  <2> DEFINE q == [op |-> "validate", step |-> "assume", id |-> i,
                   aws |-> accounts[i].aws, loaded |-> accounts[i].status, answer |-> None]
  <2>1. /\ Resting(r) /\ UNCHANGED <<accounts, answered>>
        /\ roleRequest' = [roleRequest EXCEPT ![r] = q]
        /\ validatedTogether' = IF \E s \in Askers : Validates(s, i)
                                  THEN validatedTogether \cup {i} ELSE validatedTogether
    BY <1>1 DEF LoadAccount, SetRequest, Validates, Validating
  <2>2. \A s \in Askers \ {r} : roleRequest'[s] = roleRequest[s]
    BY <2>1 DEF AccountTypes
  <2>3. roleRequest'[r] = q
    BY <2>1 DEF AccountTypes
  <2>4. \A s \in Askers : \A k : Validates(s, k)' =>
          \/ s = r /\ k = i
          \/ s # r /\ Validates(s, k) /\ roleRequest'[s].loaded = roleRequest[s].loaded
    BY <2>2, <2>3 DEF Validates, Validating, Resting
  <2>5. i \notin validatedTogether' => \A s \in Askers : ~Validates(s, i)
    BY <2>1
  <2>6. Validates(r, i)' => roleRequest'[r].loaded = accounts[i].status
    BY <2>3
  <2> QED BY <2>1, <2>4, <2>5, <2>6 DEF ValidationsOK
<1>2. ASSUME NEW r \in Askers, CommitStatus(r) PROVE ValidationsOK'
  <2> DEFINE q == roleRequest[r]
  <2>1. q.id \in DOMAIN accounts /\ accounts[q.id] \in AccountRows /\ accounts[q.id] # None
    BY <1>2 DEF CommitStatus, Asks, Validating, AccountTypes
  <2>2. /\ accounts' = [accounts EXCEPT ![q.id] = [accounts[q.id] EXCEPT
                          !.status = Status(q, accounts[q.id].status)]]
        /\ answered' = [answered EXCEPT ![q.id] = q.answer]
        /\ roleRequest' = [roleRequest EXCEPT ![r] = None]
        /\ UNCHANGED validatedTogether
    BY <1>2 DEF CommitStatus, SetRequest
  <2>3. /\ DOMAIN accounts' = DOMAIN accounts
        /\ \A i \in DOMAIN accounts \ {q.id} : /\ accounts'[i] = accounts[i]
                                               /\ answered'[i] = answered[i]
    BY <2>1, <2>2 DEF AccountTypes
  <2>4. PICK k \in DOMAIN accounts : k = q.id
    BY <2>1
  <2>5. accounts'[k].status = Status(q, accounts[k].status) /\ answered'[k] = q.answer
    BY <2>1, <2>2, <2>4 DEF AccountTypes, AccountRows
  <2>6. \A s \in Askers : \A i : Validates(s, i)' =>
          s # r /\ Validates(s, i) /\ roleRequest'[s] = roleRequest[s]
    BY <2>2 DEF AccountTypes, Validates, Validating, Resting
  <2>7. Validates(r, k)
    BY <1>2, <2>4 DEF CommitStatus, Asks, Validates, Validating
  <2>8. ASSUME k \notin validatedTogether
        PROVE  /\ accounts'[k].status = answered'[k]
               /\ \A s \in Askers : ~Validates(s, k)'
    <3>1. \A s \in Askers : Validates(s, k) => s = r
      BY <2>7, <2>8 DEF ValidationsOK
    <3>2. q.loaded = accounts[k].status
      BY <2>1, <2>4, <2>7, <2>8 DEF ValidationsOK
    <3> QED BY <2>5, <2>6, <3>1, <3>2 DEF Status
  <2>9. k \notin validatedTogether =>
          /\ accounts'[k].status = answered'[k]
          /\ \A s \in Askers : ~Validates(s, k)'
    BY <2>8
  <2>10. ASSUME NEW i \in DOMAIN accounts \ validatedTogether
         PROVE  /\ \A s, t \in Askers : Validates(s, i)' /\ Validates(t, i)' => s = t
                /\ accounts'[i] # None =>
                     /\ accounts'[i].status = answered'[i]
                     /\ \A s \in Askers : Validates(s, i)' =>
                          roleRequest'[s].loaded = accounts'[i].status
    <3>1. CASE i = k
      BY <2>9, <3>1
    <3>2. CASE i # k
      BY <2>3, <2>4, <2>6, <3>2 DEF ValidationsOK
    <3> QED BY <3>1, <3>2
  <2> QED BY <2>2, <2>3, <2>10 DEF ValidationsOK
<1>3. ASSUME NEW r \in Askers, InsertAccount(r) PROVE ValidationsOK'
  <2>1. /\ accounts' = Append(accounts, [aws |-> roleRequest[r].aws, status |-> "active"])
        /\ answered' = Append(answered, "active")
        /\ roleRequest' = [roleRequest EXCEPT ![r] = None]
        /\ UNCHANGED validatedTogether
    BY <1>3 DEF InsertAccount, SetRequest
  <2>2. PICK n \in Nat : n = Len(accounts)
    BY DEF AccountTypes
  <2>3. /\ DOMAIN accounts = 1 .. n /\ DOMAIN accounts' = 1 .. n + 1
        /\ \A i \in DOMAIN accounts : accounts'[i] = accounts[i] /\ answered'[i] = answered[i]
        /\ accounts'[n + 1].status = "active" /\ answered'[n + 1] = "active"
    BY <2>1, <2>2 DEF AccountTypes
  <2>4. \A s \in Askers : \A i : Validates(s, i)' =>
          /\ Validates(s, i) /\ i \in DOMAIN accounts
          /\ roleRequest'[s] = roleRequest[s]
    BY <2>1, <2>2, <2>3 DEF AccountTypes, Validates, Validating, Resting
  <2>5. \A s \in Askers : ~Validates(s, n + 1)'
    BY <2>3, <2>4
  <2>6. \A i \in DOMAIN accounts' : i \in DOMAIN accounts \/ i = n + 1
    BY <2>3
  <2>7. ASSUME NEW i \in DOMAIN accounts' \ validatedTogether
        PROVE  /\ \A s, t \in Askers : Validates(s, i)' /\ Validates(t, i)' => s = t
               /\ accounts'[i] # None =>
                    /\ accounts'[i].status = answered'[i]
                    /\ \A s \in Askers : Validates(s, i)' =>
                         roleRequest'[s].loaded = accounts'[i].status
    <3>1. CASE i = n + 1
      BY <2>3, <2>5, <3>1
    <3>2. CASE i \in DOMAIN accounts
      BY <2>3, <2>4, <3>2 DEF ValidationsOK
    <3> QED BY <2>6, <3>1, <3>2
  <2> QED BY <2>1, <2>7 DEF ValidationsOK
<1>4. ASSUME NEW i \in DOMAIN accounts, DeleteAccount(i) PROVE ValidationsOK'
  BY <1>4, ValidationsStay DEF DeleteAccount, Validating, Resting, AccountTypes
<1>5. ASSUME NEW r \in Askers, NEW x, roleRequest' = [roleRequest EXCEPT ![r] = x],
             \/ x = None \/ x.op # "validate"
             \/ Validating(r) /\ x.id = roleRequest[r].id /\ x.loaded = roleRequest[r].loaded,
             UNCHANGED <<accounts, validatedTogether, answered>>
      PROVE  ValidationsOK'
  <2>1. \A s \in Askers : Validating(s)' =>
          /\ Validating(s) /\ roleRequest'[s].id = roleRequest[s].id
          /\ roleRequest'[s].loaded = roleRequest[s].loaded
    BY <1>5 DEF AccountTypes, Validating, Resting
  <2> QED BY <1>5, <2>1, ValidationsStay
<1>6. ASSUME NEW a \in AwsAccounts, AwsChanges(a) PROVE ValidationsOK'
  BY <1>6, ValidationsStay DEF AwsChanges, rowVars, Validating, Resting
<1>7. ASSUME NEW r \in Askers, Fails(r) PROVE ValidationsOK'
  BY <1>5, <1>7 DEF Fails, SetRequest, rowVars
<1>8. ASSUME NEW r \in Askers, NEW a \in AwsAccounts, AssumeForLink(r, a)
      PROVE  ValidationsOK'
  BY <1>5, <1>8 DEF AssumeForLink, SetRequest, rowVars
<1>9. ASSUME NEW r \in Askers, CheckLinked(r) PROVE ValidationsOK'
  <2>1. roleRequest[r] \in LinkRequests
    BY <1>9 DEF CheckLinked, Asks, Resting, AccountTypes, AccountRequests,
                ValidationRequests, OnboardingRequests, Onboarding
  <2> QED BY <1>5, <1>9, <2>1 DEF CheckLinked, Proceed, SetRequest, LinkRequests
<1>10. ASSUME NEW r \in Askers, AssumeForValidation(r) PROVE ValidationsOK'
  <2> DEFINE x == [roleRequest[r] EXCEPT !.step = "commit",
                     !.answer = IF works[roleRequest[r].aws] THEN "active" ELSE "error"]
  <2>1. roleRequest[r] \in ValidationRequests /\ Validating(r)
    BY <1>10 DEF AssumeForValidation, Asks, Validating, Resting, AccountTypes,
                 AccountRequests, LinkRequests, OnboardingRequests, Onboarding
  <2>2. x.id = roleRequest[r].id /\ x.loaded = roleRequest[r].loaded
    BY <2>1 DEF ValidationRequests
  <2>3. roleRequest' = [roleRequest EXCEPT ![r] = x] /\ UNCHANGED rowVars
    BY <1>10 DEF AssumeForValidation, SetRequest
  <2> QED BY <1>5, <2>1, <2>2, <2>3 DEF rowVars
<1>11. ASSUME NEW r \in Askers,
              \/ \E op \in Onboarding : GetState(r, op)
              \/ CreateState(r) \/ Show(r) \/ CommitVerified(r) \/ Complete(r)
       PROVE  ValidationsOK'
  <2>1. PICK x \in OnboardingRequests \cup {None} :
               roleRequest' = [roleRequest EXCEPT ![r] = x]
    BY <1>11, OnboardingStep
  <2>2. UNCHANGED rowVars
    BY <1>11, OnboardingStep
  <2>3. x = None \/ x.op # "validate"
    BY DEF OnboardingRequests, Onboarding
  <2> QED BY <1>5, <2>1, <2>2, <2>3 DEF rowVars
<1> QED BY <1>1, <1>2, <1>3, <1>4, <1>6, <1>7, <1>8, <1>9, <1>10, <1>11 DEF AccountNext

-----------------------------------------------------------------------------
\* Onboarding
\* A step that is not of the onboarding leaves its requests and its state.
LEMMA OnboardingStays ==
    ASSUME OnboardingOK, UNCHANGED onboardingVars,
           \A r \in Askers : Onboards(r)' <=> Onboards(r),
           \A r \in Askers : Onboards(r) => roleRequest'[r] = roleRequest[r]
    PROVE  OnboardingOK'
<1>1. \A r \in Askers : Finishes(r)' => Finishes(r) /\ roleRequest'[r] = roleRequest[r]
  BY DEF Onboards, Finishes, Onboarding, Resting
<1>2. \A r \in Askers : Asks(r, "verify", "complete") => Asks(r, "verify", "complete")'
  BY DEF Onboards, Asks, Onboarding, Resting
<1> QED BY <1>1, <1>2 DEF OnboardingOK, onboardingVars

\* A request that is not one of the onboarding leaves it alone.
LEMMA OtherRequest ==
    ASSUME AccountTypes, OnboardingOK, UNCHANGED onboardingVars,
           NEW r \in Askers, NEW x, roleRequest' = [roleRequest EXCEPT ![r] = x],
           ~Onboards(r), x = None \/ x.op \notin Onboarding
    PROVE  OnboardingOK'
<1>1. \A s \in Askers : Onboards(s)' <=> Onboards(s)
  BY DEF Onboards, Resting, AccountTypes
<1>2. \A s \in Askers : Onboards(s) => roleRequest'[s] = roleRequest[s]
  BY DEF AccountTypes
<1> QED BY <1>1, <1>2, OnboardingStays

\* Each step of an onboarding, by the request that made it
LEMMA OnboardingKept ==
    ASSUME AccountTypes, OnboardingOK, AccountNext
    PROVE  OnboardingOK'
<1>1. ASSUME NEW r \in Askers, NEW op \in Onboarding, GetState(r, op)
      PROVE  OnboardingOK'
  <2>1. PICK x \in OnboardingRequests :
          /\ roleRequest' = [roleRequest EXCEPT ![r] = x]
          /\ x.op = op
          /\ IF onboarding # None
               THEN x.step = "go" /\ x.external = onboarding.external
                                  /\ x.loaded = onboarding.step
               ELSE x.step = "create" /\ x.loaded = "welcome"
    BY <1>1 DEF GetState, SetRequest, AccountTypes, OnboardingRequests,
       OnboardingStates,
                OnboardingSteps
  <2>2. /\ Resting(r) /\ UNCHANGED <<onboarding, completed, shown>>
        /\ ~disturbed' => ~disturbed /\ \A s \in Askers : ~Finishes(s)
    BY <1>1 DEF GetState, Finishes
  <2>3. \A s \in Askers \ {r} : roleRequest'[s] = roleRequest[s]
    BY <2>1 DEF AccountTypes
  <2>4. roleRequest'[r] = x
    BY <2>1 DEF AccountTypes
  <2>5. \A s \in Askers \ {r} : /\ Onboards(s)' <=> Onboards(s)
                                /\ Finishes(s)' <=> Finishes(s)
    BY <2>3 DEF Onboards, Finishes, Resting
  <2>6. \A s \in Askers : Asks(s, "verify", "complete") =>
                            Asks(s, "verify", "complete")'
    BY <2>2, <2>3 DEF Asks, Resting
  <2> QED BY <2>1, <2>2, <2>3, <2>4, <2>5, <2>6 DEF OnboardingOK
<1>2. ASSUME NEW r \in Askers, CreateState(r) PROVE OnboardingOK'
  <2> DEFINE q == roleRequest[r]
             y == [external |-> q.external, step |-> "welcome"]
  <2>1. q \in OnboardingRequests
    BY <1>2 DEF CreateState, Resting, AccountTypes, AccountRequests, LinkRequests,
                ValidationRequests
  <2>2. /\ onboarding = None /\ onboarding' = y
        /\ roleRequest' = [roleRequest EXCEPT ![r] = [q EXCEPT !.step = "go"]]
        /\ ~Resting(r) /\ q.step = "create"
        /\ UNCHANGED <<completed, shown, disturbed>>
    BY <1>2 DEF CreateState, MayCreate, Proceed, SetRequest
  <2>3. y \in OnboardingStates /\ y # None
    BY <2>1, NoOnboardingAssumption
       DEF OnboardingStates, OnboardingSteps, OnboardingRequests
  <2>4. \A s \in Askers \ {r} : roleRequest'[s] = roleRequest[s]
    BY <2>2 DEF AccountTypes
  <2>5. /\ roleRequest'[r].op = q.op /\ roleRequest'[r].step = "go"
        /\ roleRequest'[r].external = q.external /\ roleRequest'[r].loaded = q.loaded
    BY <2>1, <2>2 DEF AccountTypes, OnboardingRequests
  <2>6. completed = FALSE /\ shown = {}
    BY <2>2 DEF OnboardingOK, AccountTypes
  <2>7. \A s \in Askers \ {r} : Onboards(s)' => Onboards(s) /\ roleRequest'[s].step = "create"
    BY <2>2, <2>4 DEF OnboardingOK, Onboards, Resting
  <2>8. \A s \in Askers : Finishes(s)' => Finishes(s)
    BY <2>2, <2>4, <2>5 DEF Finishes, Resting
  <2>9. Finishes(r) /\ ~disturbed => q.loaded = "welcome"
    BY <2>2 DEF OnboardingOK
  <2>10. \A s \in Askers \ {r} : Finishes(s)' => roleRequest'[s].step = "create"
    BY <2>7 DEF Finishes, Onboards, Onboarding
  <2> QED BY <2>2, <2>3, <2>4, <2>5, <2>6, <2>7, <2>8, <2>9, <2>10 DEF OnboardingOK
<1>3. ASSUME NEW r \in Askers, Show(r) PROVE OnboardingOK'
  <2>1. /\ Onboards(r) /\ roleRequest[r].step = "go"
        /\ roleRequest' = [roleRequest EXCEPT ![r] = None]
        /\ shown' = shown \cup {roleRequest[r].external}
        /\ UNCHANGED <<onboarding, completed, disturbed>>
        /\ ~Finishes(r)
    BY <1>3 DEF Show, SetRequest, Asks, Onboards, Onboarding, Finishes
  <2>2. onboarding # None /\ roleRequest[r].external = onboarding.external
    BY <2>1 DEF OnboardingOK
  <2>3. \A s \in Askers : Onboards(s)' => Onboards(s) /\ roleRequest'[s] = roleRequest[s]
    BY <2>1 DEF Onboards, Resting, AccountTypes
  <2>4. \A s \in Askers : Finishes(s)' => Finishes(s) /\ roleRequest'[s] = roleRequest[s]
    BY <2>1 DEF Finishes, Resting, AccountTypes
  <2>5. \A s \in Askers : Asks(s, "verify", "complete") => Asks(s, "verify", "complete")'
    BY <1>3, <2>1 DEF Show, Asks, Resting, AccountTypes
  <2> QED BY <2>1, <2>2, <2>3, <2>4, <2>5 DEF OnboardingOK
<1>4. ASSUME NEW r \in Askers, CommitVerified(r) PROVE OnboardingOK'
  <2> DEFINE q == roleRequest[r]
             x == [q EXCEPT !.step = "complete", !.loaded = onboarding'.step]
  <2>1. q \in OnboardingRequests
    BY <1>4 DEF CommitVerified, Asks, Resting, AccountTypes, AccountRequests,
                LinkRequests, ValidationRequests
  <2>2. /\ Onboards(r) /\ Finishes(r) /\ q.op = "verify" /\ q.step = "go"
        /\ onboarding' = (IF q.loaded = "verifying" THEN onboarding
                          ELSE [onboarding EXCEPT !.step = "verifying"])
        /\ roleRequest' = [roleRequest EXCEPT ![r] = x]
        /\ UNCHANGED <<completed, shown, disturbed>>
    BY <1>4 DEF CommitVerified, SetStep, SetRequest, Asks, Onboards, Onboarding,
       Finishes
  <2>3. /\ onboarding \in OnboardingStates /\ onboarding # None
        /\ q.external = onboarding.external
    BY <2>2 DEF OnboardingOK, AccountTypes
  <2>4. onboarding' \in OnboardingStates /\ onboarding'.external = onboarding.external
    BY <2>2, <2>3 DEF OnboardingStates, OnboardingSteps
  <2>5. x \in OnboardingRequests /\ x # None /\ onboarding' # None
    BY <2>1, <2>4, NoOnboardingAssumption DEF OnboardingRequests, OnboardingStates
  <2>6. roleRequest'[r] = x /\ \A s \in Askers \ {r} : roleRequest'[s] = roleRequest[s]
    BY <2>2 DEF AccountTypes
  <2>7. /\ x.op = "verify" /\ x.step = "complete" /\ x.loaded = onboarding'.step
        /\ x.external = q.external
    BY <2>1, <2>2 DEF OnboardingRequests
  <2>8. Asks(r, "verify", "complete")'
    BY <2>5, <2>6, <2>7 DEF Asks, Resting
  <2>9. \A s \in Askers : /\ Onboards(s)' => Onboards(s)
                          /\ Finishes(s)' => Finishes(s)
    BY <2>2, <2>6 DEF Onboards, Finishes, Resting
  <2>10. ASSUME ~disturbed PROVE \A s \in Askers : Finishes(s)' => s = r
    BY <2>2, <2>9, <2>10 DEF OnboardingOK
  <2> HIDE DEF x
  <2>11. \A s \in Askers : Onboards(s)' /\ roleRequest'[s].step # "create" =>
           onboarding' # None /\ roleRequest'[s].external = onboarding'.external
    BY <2>2, <2>3, <2>4, <2>5, <2>6, <2>7, <2>9 DEF OnboardingOK
  <2>12. ~disturbed => \A s \in Askers : Finishes(s)' =>
           roleRequest'[s].loaded =
             IF roleRequest'[s].step = "create" THEN "welcome" ELSE onboarding'.step
    BY <2>6, <2>7, <2>10
  <2> QED BY <2>2, <2>3, <2>4, <2>5, <2>8, <2>10, <2>11, <2>12 DEF OnboardingOK
<1>5. ASSUME NEW r \in Askers, Complete(r) PROVE OnboardingOK'
  <2> DEFINE q == roleRequest[r]
  <2>1. /\ Onboards(r) /\ Finishes(r) /\ q.step # "create"
        /\ onboarding' = (IF q.loaded = "completed" THEN onboarding
                          ELSE [onboarding EXCEPT !.step = "completed"])
        /\ roleRequest' = [roleRequest EXCEPT ![r] = None]
        /\ completed' = TRUE /\ UNCHANGED <<shown, disturbed>>
    BY <1>5 DEF Complete, SetStep, SetRequest, Asks, Onboards, Onboarding, Finishes
  <2>2. onboarding \in OnboardingStates /\ onboarding # None
    BY <2>1 DEF OnboardingOK, AccountTypes
  <2>3. /\ onboarding' \in OnboardingStates /\ onboarding' # None
        /\ onboarding'.external = onboarding.external
    BY <2>1, <2>2, NoOnboardingAssumption DEF OnboardingStates, OnboardingSteps
  <2>4. \A s \in Askers : Onboards(s)' => Onboards(s) /\ roleRequest'[s] = roleRequest[s]
    BY <2>1 DEF Onboards, Resting, AccountTypes
  <2>5. \A s \in Askers : Finishes(s)' => s # r /\ Finishes(s)
    BY <2>1 DEF Finishes, Resting, AccountTypes
  <2>6. ~disturbed => (\A s \in Askers : ~Finishes(s)') /\ onboarding'.step = "completed"
    <3>1. ~disturbed => q.loaded = onboarding.step /\ \A s \in Askers : Finishes(s) => s = r
      BY <2>1 DEF OnboardingOK
    <3> QED BY <2>1, <2>2, <2>5, <3>1 DEF OnboardingStates
  <2> QED BY <2>1, <2>2, <2>3, <2>4, <2>6 DEF OnboardingOK
<1>6. ASSUME NEW r \in Askers, Fails(r) PROVE OnboardingOK'
  <2>1. /\ roleRequest' = [roleRequest EXCEPT ![r] = None]
        /\ UNCHANGED <<onboarding, completed, shown>>
        /\ ~disturbed' => ~disturbed /\ ~Asks(r, "verify", "complete")
    BY <1>6 DEF Fails, SetRequest
  <2>2. \A s \in Askers : /\ Onboards(s)' => Onboards(s) /\ roleRequest'[s] = roleRequest[s]
                          /\ Finishes(s)' => Finishes(s) /\ roleRequest'[s] = roleRequest[s]
    BY <2>1 DEF Onboards, Finishes, Resting, AccountTypes
  <2>3. \A s \in Askers \ {r} : Asks(s, "verify", "complete") =>
                                  Asks(s, "verify", "complete")'
    BY <2>1 DEF Asks, Resting, AccountTypes
  <2> QED BY <2>1, <2>2, <2>3 DEF OnboardingOK
<1>7. ASSUME NEW a \in AwsAccounts, AwsChanges(a) PROVE OnboardingOK'
  BY <1>7, OnboardingStays DEF AwsChanges, Onboards, Resting
<1>8. ASSUME NEW i \in DOMAIN accounts, DeleteAccount(i) PROVE OnboardingOK'
  BY <1>8, OnboardingStays DEF DeleteAccount, Onboards, Resting
<1>9. ASSUME NEW r \in Askers,
             \/ \E a \in AwsAccounts : AssumeForLink(r, a)
             \/ \E i \in DOMAIN accounts : LoadAccount(r, i)
      PROVE  OnboardingOK'
  <2>1. PICK x : roleRequest' = [roleRequest EXCEPT ![r] = x] /\ x.op \notin Onboarding
    <3>1. ASSUME NEW a \in AwsAccounts, AssumeForLink(r, a)
          PROVE  \E x : /\ roleRequest' = [roleRequest EXCEPT ![r] = x]
                        /\ x.op \notin Onboarding
      <4> DEFINE y == [op |-> "link", step |-> "check", aws |-> a]
      <4>1. roleRequest' = [roleRequest EXCEPT ![r] = y] /\ y.op \notin Onboarding
        BY <3>1 DEF AssumeForLink, SetRequest, Onboarding
      <4> QED BY <4>1
    <3>2. ASSUME NEW i \in DOMAIN accounts, LoadAccount(r, i)
          PROVE  \E x : /\ roleRequest' = [roleRequest EXCEPT ![r] = x]
                        /\ x.op \notin Onboarding
      <4> DEFINE y == [op |-> "validate", step |-> "assume", id |-> i,
                       aws |-> accounts[i].aws, loaded |-> accounts[i].status,
                       answer |-> None]
      <4>1. roleRequest' = [roleRequest EXCEPT ![r] = y] /\ y.op \notin Onboarding
        BY <3>2 DEF LoadAccount, SetRequest, Onboarding
      <4> QED BY <4>1
    <3> QED BY <1>9, <3>1, <3>2
  <2> QED BY <1>9, <2>1, OtherRequest DEF AssumeForLink, LoadAccount, Onboards
<1>10. ASSUME NEW r \in Askers, \/ CheckLinked(r) \/ InsertAccount(r)
                                \/ AssumeForValidation(r) \/ CommitStatus(r)
       PROVE  OnboardingOK'
  <2>1. roleRequest[r] \in LinkRequests \cup ValidationRequests
    BY <1>10 DEF CheckLinked, InsertAccount, AssumeForValidation, CommitStatus, Asks,
       Resting,
                 AccountTypes, AccountRequests, OnboardingRequests, Onboarding
  <2>2. PICK x : /\ roleRequest' = [roleRequest EXCEPT ![r] = x]
                 /\ x = None \/ x.op = roleRequest[r].op
    BY <1>10, <2>1 DEF CheckLinked, InsertAccount, AssumeForValidation, CommitStatus,
                 Proceed, SetRequest, LinkRequests, ValidationRequests
  <2>3. roleRequest[r].op \notin Onboarding
    BY <2>1 DEF LinkRequests, ValidationRequests, Onboarding
  <2>4. UNCHANGED onboardingVars
    BY <1>10 DEF CheckLinked, InsertAccount, AssumeForValidation, CommitStatus
  <2> QED BY <2>2, <2>3, <2>4, OtherRequest DEF Onboards
<1> QED BY <1>1, <1>2, <1>3, <1>4, <1>5, <1>6, <1>7, <1>8, <1>9, <1>10 DEF AccountNext

-----------------------------------------------------------------------------
\* Links, validations and onboarding keep the invariant together.
THEOREM AccountInvariance == AccountSpec => []AccountInv
<1>1. AccountInv /\ [AccountNext]_accountVars => AccountInv'
  <2> SUFFICES ASSUME AccountInv, [AccountNext]_accountVars PROVE AccountInv'
    OBVIOUS
  <2>1. CASE AccountNext
    BY <2>1, AccountTypesKept, LinksKept, ValidationsKept, OnboardingKept DEF AccountInv
  <2>2. CASE UNCHANGED accountVars
    <3>1. AccountTypes'
      BY <2>2 DEF AccountInv, AccountTypes, accountVars, rowVars, onboardingVars,
         Validating,
                  Resting
    <3>2. LinksOK'
      BY <2>2, LinksStay DEF AccountInv, accountVars, rowVars, Linked, Inserts, Asks,
         Resting
    <3>3. ValidationsOK'
      BY <2>2, ValidationsStay DEF AccountInv, accountVars, rowVars, Validating, Resting
    <3>4. OnboardingOK'
      BY <2>2, OnboardingStays DEF AccountInv, accountVars, Onboards, Resting
    <3> QED BY <3>1, <3>2, <3>3, <3>4 DEF AccountInv
  <2> QED BY <2>1, <2>2
<1> QED BY AccountInitial, <1>1, PTL DEF AccountSpec

\* AccountService and OnboardingService with requests in parallel: an AWS
\* account is linked twice only if two links overlapped, a status is the answer
\* of the last validation unless two overlapped, the external id that was shown
\* is the one stored, and a completed onboarding is in progress again only
\* while a verification runs, broke off or crossed another request.
THEOREM AccountsAreSettled == AccountSpec => []AccountsSettle
<1>1. AccountInv => AccountsSettle
  <2> SUFFICES ASSUME AccountInv PROVE AccountsSettle
    OBVIOUS
  <2>1. ASSUME NEW a \in AwsAccounts, a \notin linkedTogether
        PROVE  ~(Cardinality(Linked(a)) > 1)
    <3>1. CASE Linked(a) = {}
      BY <3>1, FS_EmptySet
    <3>2. CASE Linked(a) # {}
      <4>1. PICK i \in Linked(a) : TRUE
        BY <3>2
      <4>2. Linked(a) = {i}
        BY <2>1, <4>1 DEF AccountInv, LinksOK
      <4>3. Cardinality({i}) = 1
        BY FS_Singleton
      <4> QED BY <4>2, <4>3
    <3> QED BY <3>1, <3>2
  <2>2. LinksSettle
    BY <2>1 DEF LinksSettle, AccountInv, ValidationsOK
  <2>3. OnboardingSettles
    BY DEF OnboardingSettles, AccountInv, OnboardingOK, AccountTypes
  <2> QED BY <2>2, <2>3 DEF AccountsSettle
<1> QED BY <1>1, AccountInvariance, PTL

-----------------------------------------------------------------------------
(***************************************************************************)
(* HealthService: what a request was told of each part agrees with what is *)
(* known of that part since the request began: whether it was down, slow   *)
(* or, for a cached price, about to expire at some moment.                 *)
(***************************************************************************)
\* What a check says, and the requests with what they have been told
Sayings == {"healthy", "degraded", "unhealthy"}
Questions == {"database", "redis", "celery", "scan", "ttl", "aws", "answer"}
Kinds == {"system", "ready", "detailed"}

Probes ==
    [kind : Kinds, step : Questions, checks : [Checks -> Sayings \cup {"none"}],
     key : PriceKeys \cup {None}]

\* A request that is not answered yet
InProgress == probe # None /\ probe.step # "done"

HealthTypes ==
    /\ condition \in [Parts -> {"up", "slow", "down"}]
    /\ price \in [PriceKeys -> {"fresh", "aging", "ending", "none"}]
    /\ stale \in BOOLEAN /\ configured \in BOOLEAN
    /\ InProgress => probe \in Probes

\* What was said of a part agrees with what is known of it: "f" were down at
\* some moment, "b" at every one, and "w" were slow or about to expire; "keys" are
\* the credentials for AWS and "key" is the price that was sampled.
CheckOK(c, said, kind, key, f, b, w, keys) ==
    /\ said = "unhealthy" =>
         \/ Blamed[c] \in f
         \/ c = "database" /\ kind # "system"
         \/ c = "celery" /\ {"workers", "redis"} \cap w # {}
         \/ c = "data_freshness" /\ key \in w
    /\ said # "none" /\ Blamed[c] \in b =>
         /\ c \in {"database", "redis"} => said = "unhealthy"
         /\ c # "aws_connectivity" \/ keys => said # "healthy"

Agrees(c, x) ==
    CheckOK(c, x.checks[c], x.kind, x.key, failed, broken, wavered, configured)

\* The checks are made in their order, those of the system alone after Redis.
Asked(x) ==
    /\ x.step # "database" => x.checks["database"] # "none"
    /\ x.step \notin {"database", "redis"} => x.checks["redis"] # "none"
    /\ x.step \notin {"aws", "answer"} => x.checks["data_freshness"] = "none"
    /\ x.step = "ttl" => x.key \in PriceKeys
    /\ x.kind = "system" =>
         /\ x.step \notin {"database", "redis", "celery"} => x.checks["celery"] # "none"
         /\ x.step \in {"aws", "answer"} => x.checks["data_freshness"] # "none"
         /\ x.step = "answer" => x.checks["aws_connectivity"] # "none"

\* The inductive invariant
HealthInv ==
    /\ HealthTypes
    /\ InProgress =>
         /\ Bad \subseteq failed /\ broken \subseteq Bad /\ Wavering \subseteq wavered
         /\ Asked(probe)
         /\ stale /\ probe.kind = "system" => "database" \in failed
         /\ \A c \in Checks : Agrees(c, probe)
    /\ HealthIsTold

-----------------------------------------------------------------------------
\* No request is answered before the first one.
LEMMA HealthInitial == HealthInit => HealthInv
BY DEF HealthInit, HealthInv, HealthTypes, InProgress, HealthIsTold, AlarmHasACause,
       OutageIsTold, Step

\* A request begins with what is down now, the system's over a connection that
\* has just been used.
LEMMA BeginProbeKept ==
    ASSUME HealthInv, NEW kind \in Kinds, BeginProbe(kind), stale' = stale,
           kind = "system" => ~stale
    PROVE  HealthInv'
<1>1. PICK x \in Probes :
        x = [kind |-> kind, step |-> "database", checks |-> [c \in Checks |-> "none"], key |-> None]
  BY DEF Probes, Questions, Sayings
<1>2. /\ x.kind = kind /\ x.step = "database" /\ \A c \in Checks : x.checks[c] = "none"
      /\ probe' = x /\ failed' = Bad /\ broken' = Bad /\ Bad' = Bad
      /\ x.key = None /\ wavered' = Wavering /\ Wavering' = Wavering
      /\ UNCHANGED <<condition, price, configured>>
  BY <1>1 DEF BeginProbe, Bad, Wavering, CachedPrices
<1>3. HealthTypes' /\ HealthIsTold'
  BY <1>2 DEF HealthInv, HealthTypes, HealthIsTold, AlarmHasACause, OutageIsTold, Step
<1>4. Asked(x)
  BY <1>2 DEF Asked, Checks, Kinds
<1>5. \A c \in Checks : Agrees(c, x)'
  BY <1>2 DEF CheckOK, Agrees
<1> QED BY <1>2, <1>3, <1>4, <1>5 DEF HealthInv, Agrees

\* A check of a request in progress that agrees with what is known
LEMMA EnterKept ==
    ASSUME HealthInv, InProgress, NEW check \in Checks, NEW says \in Sayings,
           NEW next \in Questions, Enter(check, says, next),
           stale' \in BOOLEAN, stale' => stale,
           CheckOK(check, says, probe.kind, probe.key, failed, broken, wavered,
           configured),
           \A x \in Probes :
             /\ x.kind = probe.kind /\ x.step = next /\ x.key = probe.key
             /\ x.checks = [probe.checks EXCEPT ![check] = says]
             => Asked(x)
    PROVE  HealthInv'
<1>1. PICK x \in Probes : x = [probe EXCEPT !.checks[check] = says, !.step = next]
  BY DEF HealthInv, HealthTypes, Probes
<1>2. /\ x.kind = probe.kind /\ x.step = next /\ x.key = probe.key
      /\ x.checks = [probe.checks EXCEPT ![check] = says]
      /\ probe' = x /\ next # "done"
      /\ probe.checks \in [Checks -> Sayings \cup {"none"}]
      /\ UNCHANGED <<condition, price, configured, healthHistory>>
  BY <1>1 DEF Enter, HealthInv, HealthTypes, Probes, Questions
<1>3. HealthTypes' /\ HealthIsTold' /\ Bad' = Bad /\ Wavering' = Wavering
  BY <1>2 DEF HealthInv, HealthTypes, HealthIsTold, AlarmHasACause, OutageIsTold, Step,
     Bad,
     Wavering, CachedPrices, healthHistory
<1>4. Asked(x)
  BY <1>2
<1>5. \A c \in Checks : Agrees(c, x)
  <2>1. \A c \in Checks : Agrees(c, probe)
    BY DEF HealthInv
  <2>2. \A c \in Checks \ {check} : x.checks[c] = probe.checks[c]
    BY <1>2
  <2>3. x.checks[check] = says
    BY <1>2
  <2> QED BY <1>2, <2>1, <2>2, <2>3 DEF Agrees
<1>6. \A c \in Checks : Agrees(c, x)'
  BY <1>2, <1>5 DEF Agrees, healthHistory
<1> QED BY <1>2, <1>3, <1>4, <1>6 DEF HealthInv, Agrees, healthHistory

LEMMA ProbeFacts ==
    ASSUME HealthInv, InProgress
    PROVE  /\ probe \in Probes /\ Bad \subseteq failed /\ broken \subseteq Bad
           /\ Wavering \subseteq wavered /\ Asked(probe)
           /\ stale /\ probe.kind = "system" => "database" \in failed
BY DEF HealthInv, HealthTypes

\* The database and Redis, whose failure is told as it is
LEMMA CheckDatabaseKept ==
    ASSUME HealthInv, CheckDatabase
    PROVE  HealthInv'
<1>1. InProgress /\ probe.step = "database"
  BY DEF CheckDatabase, Step, InProgress
<1> DEFINE says == IF stale THEN "unhealthy" ELSE Slow("database")
<1>2. /\ Enter("database", says, "redis") /\ stale' \in BOOLEAN /\ (stale' => stale)
      /\ stale \in BOOLEAN
  BY DEF CheckDatabase, HealthInv, HealthTypes
<1>3. /\ condition["database"] \in {"up", "slow", "down"}
      /\ condition["database"] = "down" <=> "database" \in Bad
  BY DEF HealthInv, HealthTypes, Parts, Bad, Wavering
<1>4. /\ says \in Sayings
      /\ CheckOK("database", says, probe.kind, probe.key, failed, broken, wavered, configured)
  BY <1>1, <1>3, ProbeFacts DEF Slow, Sayings, CheckOK, Blamed, Checks
<1>5. \A x \in Probes :
        /\ x.kind = probe.kind /\ x.step = "redis"
        /\ x.checks = [probe.checks EXCEPT !["database"] = says]
        => Asked(x)
  BY <1>1, <1>4, ProbeFacts DEF Asked, Probes, Sayings, Checks
<1> HIDE DEF says
<1>6. "database" \in Checks /\ "redis" \in Questions
  BY DEF Checks, Questions
<1> QED BY <1>1, <1>2, <1>4, <1>5, <1>6, EnterKept

LEMMA CheckRedisKept ==
    ASSUME HealthInv, CheckRedis
    PROVE  HealthInv'
<1>1. InProgress /\ probe.step = "redis"
  BY DEF CheckRedis, Step, InProgress
<1> DEFINE says == Slow("redis")
           next == IF probe.kind = "system" THEN "celery" ELSE "answer"
<1>2. /\ Enter("redis", says, next) /\ stale' \in BOOLEAN /\ (stale' => stale)
      /\ next \in Questions
  BY DEF CheckRedis, HealthInv, HealthTypes, Questions
<1>3. /\ condition["redis"] \in {"up", "slow", "down"}
      /\ condition["redis"] = "down" <=> "redis" \in Bad
  BY DEF HealthInv, HealthTypes, Parts, Bad, Wavering
<1>4. /\ says \in Sayings
      /\ CheckOK("redis", says, probe.kind, probe.key, failed, broken, wavered, configured)
  BY <1>1, <1>3, ProbeFacts DEF Slow, Sayings, CheckOK, Blamed, Checks
<1>5. \A x \in Probes :
        /\ x.kind = probe.kind /\ x.step = next
        /\ x.checks = [probe.checks EXCEPT !["redis"] = says]
        => Asked(x)
  BY <1>1, <1>4, ProbeFacts DEF Asked, Probes, Sayings, Checks
<1> HIDE DEF says, next
<1> QED BY <1>1, <1>2, <1>4, <1>5, EnterKept DEF Checks

\* The checks of the system's health; what fails with Redis is not blamed on
\* the workers nor on the prices.
LEMMA CheckCeleryKept ==
    ASSUME HealthInv, CheckCelery
    PROVE  HealthInv'
<1>1. /\ InProgress /\ probe.step = "celery" /\ stale' = stale /\ stale \in BOOLEAN
      /\ \E how \in CeleryStatuses : Enter("celery", how, "scan")
  BY DEF CheckCelery, Step, InProgress, HealthInv, HealthTypes
<1>2. /\ \A p \in {"redis", "workers"} : /\ condition[p] = "down" <=> p \in Bad
                                         /\ condition[p] = "slow" => p \in Wavering
      /\ condition["workers"] \in {"up", "slow", "down"}
  BY DEF HealthInv, HealthTypes, Parts, Bad, Wavering
<1>3. PICK says \in CeleryStatuses : Enter("celery", says, "scan")
  BY <1>1
<1>4. /\ says \in Sayings
      /\ CheckOK("celery", says, probe.kind, probe.key, failed, broken, wavered, configured)
  BY <1>1, <1>2, <1>3, ProbeFacts DEF CeleryStatuses, Sayings, CheckOK, Blamed, Checks
<1>5. \A x \in Probes :
        /\ x.kind = probe.kind /\ x.step = "scan" /\ x.key = probe.key
        /\ x.checks = [probe.checks EXCEPT !["celery"] = says]
        => Asked(x)
  <2> SUFFICES ASSUME NEW x \in Probes, x.kind = probe.kind, x.step = "scan",
                      x.checks = [probe.checks EXCEPT !["celery"] = says]
               PROVE  Asked(x)
    OBVIOUS
  <2>1. /\ x.checks["celery"] = says
        /\ \A c \in {"database", "redis", "data_freshness"} : x.checks[c] = probe.checks[c]
    BY ProbeFacts, <1>1 DEF Probes, Checks
  <2>2. says # "none"
    BY <1>4 DEF Sayings
  <2>3. Asked(probe)
    BY <1>1, ProbeFacts
  <2> QED BY <1>1, <2>1, <2>2, <2>3 DEF Asked
<1>6. /\ stale' \in BOOLEAN /\ (stale' => stale)
      /\ "celery" \in Checks /\ "scan" \in Questions
  BY <1>1 DEF Checks, Questions
<1> QED BY <1>1, <1>3, <1>4, <1>5, <1>6, EnterKept

\* What is said of the prices has to do with none being there or with the one
\* that is sampled.
LEMMA FreshnessKept ==
    ASSUME HealthInv, InProgress, probe.step \in {"scan", "ttl"},
           NEW says \in Sayings, Enter("data_freshness", says, "aws"), stale' = stale,
           says = "unhealthy" => CachedPrices = {} \/ probe.key \in Wavering,
           CachedPrices = {} => says # "healthy"
    PROVE  HealthInv'
<1>1. (CachedPrices = {} <=> "prices" \in Bad) /\ stale \in BOOLEAN
  BY DEF HealthInv, HealthTypes, Parts, Bad
<1>2. CheckOK("data_freshness", says, probe.kind, probe.key, failed, broken, wavered,
              configured)
  BY <1>1, ProbeFacts DEF CheckOK, Blamed, Checks
<1>3. \A x \in Probes :
        /\ x.kind = probe.kind /\ x.step = "aws"
        /\ x.checks = [probe.checks EXCEPT !["data_freshness"] = says]
        => Asked(x)
  BY ProbeFacts DEF Asked, Probes, Sayings, Checks
<1> QED BY <1>1, <1>2, <1>3, EnterKept DEF Checks, Questions

LEMMA ScanPricesKept ==
    ASSUME HealthInv, ScanPrices
    PROVE  HealthInv'
<1>1. InProgress /\ probe.step = "scan" /\ stale' = stale
  BY DEF ScanPrices, Step, InProgress
<1>2. CASE condition["redis"] = "down" \/ CachedPrices = {}
  <2>1. \E says \in Sayings :
          /\ Enter("data_freshness", says, "aws")
          /\ says = "unhealthy" => CachedPrices = {}
          /\ CachedPrices = {} => says # "healthy"
    BY <1>2 DEF ScanPrices, Sayings
  <2> QED BY <1>1, <2>1, FreshnessKept
<1>3. CASE ~(condition["redis"] = "down" \/ CachedPrices = {})
  <2>1. PICK k \in CachedPrices : probe' = [probe EXCEPT !.step = "ttl", !.key = k]
    BY <1>3 DEF ScanPrices
  <2>2. PICK x \in Probes : x = [probe EXCEPT !.step = "ttl", !.key = k]
    BY <1>1, <2>1, ProbeFacts DEF Probes, Questions, CachedPrices
  <2>3. /\ x.kind = probe.kind /\ x.step = "ttl" /\ x.checks = probe.checks /\ x.key = k
        /\ probe' = x /\ k \in PriceKeys
        /\ UNCHANGED <<condition, price, stale, configured, failed, broken, wavered>>
    BY <1>1, <1>3, <2>1, <2>2, ProbeFacts
       DEF ScanPrices, Probes, CachedPrices, healthHistory
  <2>4. Asked(x) /\ Bad' = Bad /\ Wavering' = Wavering
    BY <1>1, <2>3, ProbeFacts DEF Asked, Bad, Wavering, CachedPrices
  <2>5. \A c \in Checks : Agrees(c, x)'
    <3>1. probe.checks["data_freshness"] = "none"
      BY <1>1, ProbeFacts DEF Asked
    <3>2. \A c \in Checks : Agrees(c, probe)
      BY <1>1 DEF HealthInv
    <3> QED BY <2>3, <3>1, <3>2 DEF Agrees, CheckOK
  <2>6. HealthTypes' /\ HealthIsTold'
    BY <2>2, <2>3 DEF HealthInv, HealthTypes, HealthIsTold, AlarmHasACause,
       OutageIsTold, Step
  <2> QED BY <1>1, <2>3, <2>4, <2>5, <2>6 DEF HealthInv
<1> QED BY <1>2, <1>3

LEMMA ReadTtlKept ==
    ASSUME HealthInv, ReadTtl
    PROVE  HealthInv'
<1>1. /\ InProgress /\ probe.step = "ttl" /\ stale' = stale
      /\ probe.key \in PriceKeys /\ price[probe.key] \in {"fresh", "aging", "ending", "none"}
  BY ProbeFacts DEF ReadTtl, Step, InProgress, Asked, HealthInv, HealthTypes
<1>2. \E says \in Sayings :
        /\ Enter("data_freshness", says, "aws")
        /\ says = "unhealthy" => CachedPrices = {} \/ probe.key \in Wavering
        /\ CachedPrices = {} => says # "healthy"
  BY <1>1 DEF ReadTtl, Sayings, Freshness, Wavering, CachedPrices
<1> QED BY <1>1, <1>2, FreshnessKept

LEMMA CheckAwsKept ==
    ASSUME HealthInv, CheckAws
    PROVE  HealthInv'
<1>1. InProgress /\ probe.step = "aws" /\ stale' = stale /\ stale \in BOOLEAN
  BY DEF CheckAws, Step, InProgress, HealthInv, HealthTypes
<1> DEFINE says == IF configured THEN Slow("aws") ELSE "healthy"
<1>2. Enter("aws_connectivity", says, "answer")
  BY DEF CheckAws
<1>3. /\ condition["aws"] \in {"up", "slow", "down"}
      /\ condition["aws"] = "down" <=> "aws" \in Bad
  BY DEF HealthInv, HealthTypes, Parts, Bad, Wavering
<1>4. /\ says \in Sayings
      /\ CheckOK("aws_connectivity", says, probe.kind, probe.key, failed, broken, wavered, configured)
  BY <1>1, <1>3, ProbeFacts DEF Slow, Sayings, CheckOK, Blamed, Checks
<1>5. \A x \in Probes :
        /\ x.kind = probe.kind /\ x.step = "answer"
        /\ x.checks = [probe.checks EXCEPT !["aws_connectivity"] = says]
        => Asked(x)
  BY <1>1, <1>4, ProbeFacts DEF Asked, Probes, Sayings, Checks
<1> HIDE DEF says
<1> QED BY <1>1, <1>2, <1>4, <1>5, EnterKept DEF Checks, Questions

-----------------------------------------------------------------------------
\* The answer is the worst that was said.
LEMMA AnswerKept ==
    ASSUME HealthInv, Answer
    PROVE  HealthInv'
<1>1. InProgress /\ probe.step = "answer" /\ probe \in Probes /\ Asked(probe)
  BY ProbeFacts DEF Answer, Step, InProgress
<1> DEFINE x == [step |-> "done", kind |-> probe.kind, checks |-> probe.checks,
         key |-> probe.key,
         answer |-> CASE probe.kind = "system" -> Overall({probe.checks[c] : c \in Checks})
                      [] probe.kind = "ready" -> IF BothWell THEN "ready" ELSE "unready"
                      [] probe.kind = "detailed" -> IF BothWell THEN "healthy" ELSE "degraded"]
<1>2. probe' = x /\ UNCHANGED <<condition, price, stale, configured, failed, broken, wavered>>
  BY DEF Answer, healthHistory
<1>3. \A c \in Checks : Agrees(c, probe)
  BY <1>1 DEF HealthInv
<1>4. AlarmHasACause'
  BY <1>2, <1>3 DEF AlarmHasACause, Agrees, CheckOK, Step
<1>5. probe.checks["database"] # "none" /\ probe.checks["redis"] # "none"
  BY <1>1 DEF Asked
<1>6. ASSUME {"database", "redis"} \cap broken # {}
      PROVE  "unhealthy" \in {probe.checks["database"], probe.checks["redis"]}
  BY <1>3, <1>5, <1>6 DEF Agrees, CheckOK, Blamed, Checks
<1>7. ASSUME {"database", "redis"} \cap broken # {}
      PROVE  x.answer = CASE x.kind = "system" -> "unhealthy"
                          [] x.kind = "ready" -> "unready"
                          [] x.kind = "detailed" -> "degraded"
  <2>1. "unhealthy" \in {probe.checks[c] : c \in Checks} /\ ~BothWell
    BY <1>6, <1>7 DEF Checks, BothWell
  <2>2. Overall({probe.checks[c] : c \in Checks}) = "unhealthy"
    BY <2>1 DEF Overall
  <2> QED BY <1>1, <2>1, <2>2 DEF Probes, Kinds
<1>8. ASSUME x.kind = "system", broken \ (IF configured THEN {} ELSE {"aws"}) # {}
      PROVE  x.answer # "healthy"
  <2>1. PICK p \in broken : p # "aws" \/ configured
    BY <1>8
  <2>2. p \in Parts \cup {"prices"}
    BY <1>1, ProbeFacts DEF Bad
  <2>3. PICK c \in Checks : Blamed[c] = p
    BY <2>2 DEF Parts, Checks, Blamed
  <2>4. probe.checks[c] # "none"
    BY <1>1, <1>8, <2>3 DEF Asked, Checks
  <2>5. c # "aws_connectivity" \/ configured
    BY <2>1, <2>3 DEF Blamed, Checks
  <2>6. probe.checks[c] # "healthy"
    BY <1>3, <2>1, <2>3, <2>4, <2>5 DEF Agrees, CheckOK
  <2>7. {probe.checks[d] : d \in Checks} # {"healthy"}
    BY <2>6
  <2>8. Overall({probe.checks[d] : d \in Checks}) # "healthy"
    BY <2>7 DEF Overall
  <2> QED BY <1>8, <2>8
<1>9. x.kind = probe.kind /\ x.step = "done"
  OBVIOUS
<1> HIDE DEF x
<1>10. OutageIsTold'
  BY <1>2, <1>7, <1>8 DEF OutageIsTold
<1>11. HealthTypes' /\ ~InProgress'
  BY <1>2, <1>9 DEF HealthInv, HealthTypes, InProgress
<1> QED BY <1>4, <1>10, <1>11 DEF HealthInv, HealthIsTold

\* Between two requests
LEMMA BetweenKept ==
    ASSUME HealthInv, RefuseSystem \/ Leave
    PROVE  HealthInv'
<1>1. /\ UNCHANGED <<condition, price, configured>> /\ stale' \in BOOLEAN
      /\ probe' = None
  BY DEF RefuseSystem, Leave, HealthInv, HealthTypes
<1> QED BY <1>1 DEF HealthInv, HealthTypes, InProgress, HealthIsTold, AlarmHasACause,
                    OutageIsTold, Step

\* What is asked changes while a request is in progress.
LEMMA NoteKept ==
    ASSUME HealthInv, NoteBad, condition' \in [Parts -> {"up", "slow", "down"}],
           price' \in [PriceKeys -> {"fresh", "aging", "ending", "none"}], stale' \in BOOLEAN,
           stale' => stale \/ condition'["database"] = "down"
    PROVE  HealthInv'
<1>1. probe' = probe /\ configured' = configured
  BY DEF NoteBad
<1>2. HealthTypes'
  BY <1>1 DEF HealthInv, HealthTypes, InProgress
<1>3. CASE InProgress
  <2>1. /\ failed' = failed \cup Bad' /\ broken' = broken \cap Bad'
        /\ wavered' = wavered \cup Wavering'
    BY <1>3 DEF NoteBad, InProgress, Step
  <2>2. Asked(probe)' /\ HealthIsTold'
    BY <1>1, <1>3, ProbeFacts DEF Asked, InProgress, HealthIsTold, AlarmHasACause,
       OutageIsTold,
       Step
  <2>3. stale' /\ probe.kind = "system" => "database" \in failed'
    <3>1. condition'["database"] = "down" => "database" \in Bad'
      BY DEF Bad, Parts
    <3> QED BY <1>3, <2>1, <3>1, ProbeFacts
  <2>4. \A c \in Checks : Agrees(c, probe)
    BY <1>3 DEF HealthInv
  <2>5. \A c \in Checks : Agrees(c, probe)'
    BY <1>1, <2>1, <2>4 DEF Agrees, CheckOK
  <2> QED BY <1>1, <1>2, <2>1, <2>2, <2>3, <2>5 DEF HealthInv
<1>4. CASE ~InProgress
  <2>1. UNCHANGED <<failed, broken, wavered>> /\ ~InProgress'
    BY <1>1, <1>4 DEF NoteBad, InProgress, Step, healthHistory
  <2>2. HealthIsTold'
    BY <1>1, <2>1 DEF HealthInv, HealthIsTold, AlarmHasACause, OutageIsTold, Step
  <2> QED BY <1>2, <2>1, <2>2 DEF HealthInv
<1> QED BY <1>3, <1>4

LEMMA ChangesKept ==
    ASSUME HealthInv,
           (\E k \in PriceKeys : Store(k) \/ Age(k)) \/ \E p \in Parts : ChangePart(p)
    PROVE  HealthInv'
<1>1. ASSUME NEW k \in PriceKeys, Store(k) \/ Age(k) PROVE HealthInv'
  <2>1. price \in [PriceKeys -> {"fresh", "aging", "ending", "none"}]
    BY DEF HealthInv, HealthTypes
  <2>2. \E value \in {"fresh", "aging", "ending", "none"} :
          price' = [price EXCEPT ![k] = value]
    BY <1>1, <2>1 DEF Store, Age
  <2>3. /\ NoteBad /\ UNCHANGED <<condition, stale>>
        /\ price' \in [PriceKeys -> {"fresh", "aging", "ending", "none"}]
    BY <1>1, <2>1, <2>2 DEF Store, Age
  <2> QED BY <2>3, NoteKept DEF HealthInv, HealthTypes
<1>2. ASSUME NEW p \in Parts, ChangePart(p) PROVE HealthInv'
  <2>1. /\ NoteBad /\ condition' \in [Parts -> {"up", "slow", "down"}] /\ price' = price
        /\ stale' = (stale \/ condition'["database"] = "down")
    BY <1>2 DEF ChangePart, HealthInv, HealthTypes
  <2> QED BY <2>1, NoteKept DEF HealthInv, HealthTypes
<1> QED BY <1>1, <1>2

-----------------------------------------------------------------------------
\* Whatever fails and recovers between the questions, the invariant holds.
THEOREM HealthInvariance == HealthSpec => []HealthInv
<1>1. HealthInv /\ [HealthNext]_healthVars => HealthInv'
  <2> SUFFICES ASSUME HealthInv, [HealthNext]_healthVars PROVE HealthInv'
    OBVIOUS
  <2>1. CASE UNCHANGED healthVars
    <3>1. /\ UNCHANGED <<condition, price, probe, stale, configured, failed, broken, wavered>>
          /\ Bad' = Bad /\ Wavering' = Wavering
      BY <2>1 DEF healthVars, Bad, Wavering, CachedPrices
    <3>2. HealthTypes' /\ HealthIsTold' /\ InProgress' = InProgress
      BY <3>1 DEF HealthInv, HealthTypes, InProgress, HealthIsTold, AlarmHasACause,
         OutageIsTold,
                  Step
    <3> QED BY <3>1, <3>2 DEF HealthInv, Agrees, InProgress
  <2>2. CASE BeginSystem
    BY <2>2, BeginProbeKept DEF BeginSystem, BeginProbe, Kinds
  <2>3. CASE BeginOther
    BY <2>3, BeginProbeKept DEF BeginOther, BeginProbe, Kinds
  <2> QED BY <2>1, <2>2, <2>3, CheckDatabaseKept, CheckRedisKept, CheckCeleryKept,
             ScanPricesKept, ReadTtlKept, CheckAwsKept, AnswerKept, BetweenKept,
             ChangesKept
             DEF HealthNext
<1> QED BY <1>1, HealthInitial, PTL DEF HealthSpec

\* get_system_health(), check_readiness() and the gateway's detailed check, with
\* any number of changes between their questions: an alarm names what was down
\* at some moment, but for the database over an old connection; an outage that
\* lasts from beginning to end is told.
THEOREM HealthIsAlwaysTold == HealthSpec => []HealthIsTold
<1>1. HealthInv => HealthIsTold
  BY DEF HealthInv
<1> QED BY <1>1, HealthInvariance, PTL

-----------------------------------------------------------------------------
(***************************************************************************)
(* AdminQueries: while no row came, what a report has counted is as much   *)
(* as there is now, and while none went, as little: the next query counts  *)
(* what there is now, and it is compared only with what stands before it.  *)
(***************************************************************************)
\* The counts that others are held against, and all of them
FromAbove == {"users", "accounts", "clusters", "instances", "running"}
FromBelow == {"instances", "running"}
Counted == FromAbove \cup {"active", "cost"}

\* The reports, and what the request in hand is
ReportKinds == {"platform", "clients", "organizations"}

Reports ==
    [queries : Seq(Counted), counts : Seq(Counted \X Nat), kind : ReportKinds,
     grew : BOOLEAN, shrank : BOOLEAN]

Reporting == reading \in [step : {"report"}, report : Reports]

Walking == "step" \in DOMAIN reading /\ reading.step \in {"count", "page", "walked"}

AdminTypes ==
    /\ rows \in [Lists -> Seq(Nat)] /\ rowsMade \in Nat
    /\ holdings \in [ClientAccounts -> 0 .. 3]
    /\ reading = None \/ Walking \/ Reporting

\* The queries of a report are those of its kind, in their order.
InOrder(r) ==
    LET all == Queries(r.kind)
    IN /\ Len(r.counts) + Len(r.queries) = Len(all)
       /\ \A i \in 1 .. Len(r.counts) : r.counts[i][1] = all[i]
       /\ \A i \in 1 .. Len(r.queries) : r.queries[i] = all[Len(r.counts) + i]


\* While no row came, what was counted is as much as there is now; while none
\* went, as little.
CountsHold(r) ==
    \A q \in FromAbove : \A i \in 1 .. Len(r.counts) : r.counts[i][1] = q =>
      /\ ~r.grew => CountOf(q) <= r.counts[i][2]
      /\ ~r.shrank /\ q \in FromBelow => CountOf(q) >= r.counts[i][2]

\* The inductive invariant
AdminInv ==
    /\ AdminTypes
    /\ (reading # None /\ reading.step = "report") =>
         InOrder(reading.report) /\ CountsHold(reading.report)
    /\ ReportAgrees

-----------------------------------------------------------------------------
\* What is counted now: there is no active user without a user, no cluster
\* without an account and no instance without a cluster.
CountsAgree ==
    /\ \A q \in Counted : CountOf(q) \in Nat
    /\ CountOf("active") <= CountOf("users") /\ CountOf("clusters") <= CountOf("accounts")
    /\ CountOf("instances") <= CountOf("clusters")
    /\ CountOf("running") = CountOf("instances") /\ CountOf("cost") = CountOf("instances")

LEMMA CountsNow == AdminTypes => CountsAgree
<1> SUFFICES ASSUME AdminTypes PROVE CountsAgree
  OBVIOUS
<1>1. \A k \in 1 .. 3 : Holding(k) \in Nat
  <2> SUFFICES ASSUME NEW k \in 1 .. 3 PROVE Holding(k) \in Nat
    OBVIOUS
  <2>1. IsFiniteSet({a \in ClientAccounts : holdings[a] >= k})
    BY ClientAccountsAssumption, FS_Subset
  <2> QED BY <2>1, FS_CardinalityType DEF Holding
<1>2. Holding(2) <= Holding(1) /\ Holding(3) <= Holding(2)
  <2>1. \A a \in ClientAccounts : holdings[a] \in 0 .. 3
    BY DEF AdminTypes
  <2>2. /\ {a \in ClientAccounts : holdings[a] >= 2} \subseteq {a \in ClientAccounts : holdings[a] >= 1}
        /\ {a \in ClientAccounts : holdings[a] >= 3} \subseteq {a \in ClientAccounts : holdings[a] >= 2}
    BY <2>1
  <2>3. /\ IsFiniteSet({a \in ClientAccounts : holdings[a] >= 1})
        /\ IsFiniteSet({a \in ClientAccounts : holdings[a] >= 2})
    BY ClientAccountsAssumption, FS_Subset
  <2> QED BY <2>2, <2>3, FS_Subset DEF Holding
<1>3. /\ Len(rows["clients"]) \in Nat
      /\ Cardinality(ToSet(rows["clients"]) \cap active) \in Nat
      /\ Cardinality(ToSet(rows["clients"]) \cap active) <= Len(rows["clients"])
  <2> DEFINE s == rows["clients"]
  <2>1. s \in Seq(Nat)
    BY DEF AdminTypes, Lists
  <2>2. /\ IsFiniteSet(1 .. Len(s)) /\ Cardinality(1 .. Len(s)) = Len(s)
    BY <2>1, FS_Interval
  <2>3. /\ IsFiniteSet({s[i] : i \in 1 .. Len(s)})
        /\ Cardinality({s[i] : i \in 1 .. Len(s)}) <= Len(s)
    <3> DEFINE f == [i \in 1 .. Len(s) |-> s[i]]
    <3>1. {s[i] : i \in 1 .. Len(s)} = {f[i] : i \in 1 .. Len(s)}
      OBVIOUS
    <3>2. f \in Surjection(1 .. Len(s), {f[i] : i \in 1 .. Len(s)})
      BY DEF Surjection
    <3> HIDE DEF f, s
    <3>3. /\ IsFiniteSet({f[i] : i \in 1 .. Len(s)})
          /\ Cardinality({f[i] : i \in 1 .. Len(s)}) <= Cardinality(1 .. Len(s))
      BY <2>2, <3>2, FS_Surjection
    <3> QED BY <2>2, <3>1, <3>3
  <2>4. ToSet(s) = {s[i] : i \in 1 .. Len(s)}
    BY <2>1 DEF ToSet
  <2>5. ToSet(s) \cap active \subseteq ToSet(s) /\ IsFiniteSet(ToSet(s))
    BY <2>3, <2>4
  <2>6. /\ IsFiniteSet(ToSet(s) \cap active)
        /\ Cardinality(ToSet(s) \cap active) <= Cardinality(ToSet(s))
    BY <2>5, FS_Subset
  <2>7. Cardinality(ToSet(s)) \in Nat /\ Cardinality(ToSet(s) \cap active) \in Nat
    BY <2>5, <2>6, FS_CardinalityType
  <2> QED BY <2>1, <2>3, <2>4, <2>6, <2>7
<1>4. /\ CountOf("users") = Len(rows["clients"]) /\ CountOf("accounts") = Holding(1)
      /\ CountOf("active") = Cardinality(ToSet(rows["clients"]) \cap active)
      /\ CountOf("clusters") = Holding(2) /\ CountOf("instances") = Holding(3)
      /\ CountOf("running") = Holding(3) /\ CountOf("cost") = Holding(3)
  BY DEF CountOf, Cost
<1> QED BY <1>1, <1>2, <1>3, <1>4 DEF CountsAgree, FromAbove, Counted

\* The pairs that are compared stand in this order in each kind of report.
LEMMA QueryOrder ==
    ASSUME NEW kind \in ReportKinds
    PROVE  /\ Queries(kind) \in Seq(Counted)
           /\ \A i, j \in 1 .. Len(Queries(kind)) :
                <<Queries(kind)[i], Queries(kind)[j]>> \in
                  {<<"users", "active">>, <<"instances", "running">>, <<"running", "cost">>,
                   <<"accounts", "clusters">>, <<"clusters", "instances">>} => i < j
<1>1. CASE kind = "platform"
  <2>1. Queries(kind) = <<"users", "active", "clusters", "instances", "running", "cost">>
    BY <1>1 DEF Queries
  <2> QED BY <2>1 DEF FromAbove, Counted
<1>2. CASE kind = "clients"
  <2>1. Queries(kind) = <<"accounts", "clusters", "instances", "running", "cost">>
    BY <1>2 DEF Queries
  <2> QED BY <2>1 DEF FromAbove, Counted
<1>3. CASE kind = "organizations"
  <2>1. Queries(kind) = <<"users", "clusters", "instances">>
    BY <1>3 DEF Queries
  <2> QED BY <2>1 DEF FromAbove, Counted
<1> QED BY <1>1, <1>2, <1>3 DEF ReportKinds

-----------------------------------------------------------------------------
\* A change of others that touches a report or the count of its rows: what came
\* and what went is noted.
LEMMA ChangeKept ==
    ASSUME AdminInv, AdminTypes', NEW list, NEW came \in BOOLEAN, NEW went \in BOOLEAN,
           NoteChange(list, came, went) \/ (UNCHANGED reading /\ ~came /\ ~went),
           ~came => \A q \in FromAbove : CountOf(q)' <= CountOf(q),
           ~went => \A q \in FromBelow : CountOf(q)' >= CountOf(q)
    PROVE  AdminInv'
<1>1. ASSUME reading' # None, reading'.step = "report"
      PROVE  /\ reading # None /\ reading.step = "report" /\ Reporting
             /\ reading'.report.counts = reading.report.counts
             /\ reading'.report.queries = reading.report.queries
             /\ reading'.report.kind = reading.report.kind
             /\ reading'.report.grew = (reading.report.grew \/ came)
             /\ reading'.report.shrank = (reading.report.shrank \/ went)
  <2>1. reading # None
    BY <1>1 DEF NoteChange
  <2>2. Walking \/ Reporting
    BY <2>1 DEF AdminInv, AdminTypes
  <2>3. ~Walking
    BY <1>1, <2>1 DEF Walking, NoteChange
  <2>4. Reporting
    BY <2>2, <2>3
  <2>5. CASE UNCHANGED reading /\ ~came /\ ~went
    BY <1>1, <2>1, <2>4, <2>5 DEF Reporting, Reports
  <2>6. CASE NoteChange(list, came, went)
    <3>1. reading.step = "report" /\ reading.report \in Reports
      BY <2>4 DEF Reporting
    <3>2. reading' = [reading EXCEPT !.report.grew = @ \/ came, !.report.shrank = @ \/ went]
      BY <2>1, <2>6, <3>1 DEF NoteChange
    <3>3. reading'.report = [reading.report EXCEPT !.grew = @ \/ came, !.shrank = @ \/ went]
      BY <2>4, <3>2 DEF Reporting
    <3> QED BY <2>1, <2>4, <3>1, <3>3 DEF Reports
  <2> QED BY <2>5, <2>6
<1>2. ASSUME reading' # None, reading'.step = "report"
      PROVE  (InOrder(reading.report) /\ CountsHold(reading.report))' /\ ReportAgrees'
  <2>1. InOrder(reading.report) /\ CountsHold(reading.report) /\ ReportAgrees
    BY <1>1, <1>2 DEF AdminInv
  <2>2. InOrder(reading.report)'
    BY <1>1, <1>2, <2>1 DEF InOrder, Queries
  <2>3. CountsHold(reading.report)'
    <3> SUFFICES ASSUME NEW q \in FromAbove, NEW i \in 1 .. Len(reading'.report.counts),
                        reading'.report.counts[i][1] = q
                 PROVE  /\ ~reading'.report.grew => CountOf(q)' <= reading'.report.counts[i][2]
                        /\ ~reading'.report.shrank /\ q \in FromBelow =>
                             CountOf(q)' >= reading'.report.counts[i][2]
      BY DEF CountsHold
    <3>1. /\ ~reading.report.grew => CountOf(q) <= reading.report.counts[i][2]
          /\ ~reading.report.shrank /\ q \in FromBelow =>
               CountOf(q) >= reading.report.counts[i][2]
      BY <1>1, <1>2, <2>1 DEF CountsHold
    <3>2. reading.report.counts[i][2] \in Nat
      <4>1. reading.report.counts \in Seq(Counted \X Nat)
        BY <1>1, <1>2 DEF Reporting, Reports
      <4>2. reading.report.counts[i] \in Counted \X Nat
        BY <1>1, <1>2, <4>1
      <4> QED BY <4>2
    <3>3. CountOf(q) \in Nat /\ CountOf(q)' \in Nat
      <4>1. AdminTypes' => CountsAgree'
        BY CountsNow, PTL
      <4>2. CountsAgree /\ CountsAgree'
        BY <4>1, CountsNow DEF AdminInv
      <4>3. CountOf(q) \in Nat
        BY <4>2 DEF CountsAgree, Counted
      <4>4. CountOf(q)' \in Nat
        BY <4>2 DEF CountsAgree, Counted
      <4> QED BY <4>3, <4>4
    <3>4. /\ ~reading'.report.grew => ~reading.report.grew /\ ~came
          /\ ~reading'.report.shrank => ~reading.report.shrank /\ ~went
      BY <1>1, <1>2, Zenon
    <3>5. /\ ~reading'.report.grew =>
               CountOf(q)' <= CountOf(q) /\ CountOf(q) <= reading.report.counts[i][2]
          /\ ~reading'.report.shrank /\ q \in FromBelow =>
               CountOf(q)' >= CountOf(q) /\ CountOf(q) >= reading.report.counts[i][2]
      BY <3>1, <3>4, Zenon
    <3>6. reading'.report.counts[i][2] = reading.report.counts[i][2]
      BY <1>1, <1>2
    <3> QED BY <3>2, <3>3, <3>5, <3>6
  <2>4. ReportAgrees'
    BY <1>1, <1>2, <2>1 DEF ReportAgrees
  <2> QED BY <2>2, <2>3, <2>4
<1>3. ~(reading' # None /\ reading'.step = "report") => ReportAgrees'
  BY DEF ReportAgrees
<1> QED BY <1>2, <1>3 DEF AdminInv

\* The counts that look at what accounts hold change with the holdings only.
LEMMA HoldingsStay ==
    ASSUME AdminTypes, UNCHANGED holdings
    PROVE  \A q \in FromAbove \ {"users"} : CountOf(q)' <= CountOf(q) /\ CountOf(q)' >= CountOf(q)
<1>1. \A k \in 1 .. 3 : Holding(k)' = Holding(k)
  BY DEF Holding
<1>2. \A q \in FromAbove : CountOf(q) \in Nat
  BY CountsNow DEF CountsAgree, Counted
<1>3. ASSUME NEW q \in FromAbove \ {"users"} PROVE CountOf(q)' = CountOf(q)
  <2>1. CASE q = "accounts"
    BY <1>1, <2>1 DEF CountOf
  <2>2. CASE q = "clusters"
    BY <1>1, <2>2 DEF CountOf
  <2>3. CASE q \in {"instances", "running"}
    BY <1>1, <2>3 DEF CountOf
  <2> QED BY <1>3, <2>1, <2>2, <2>3 DEF FromAbove
<1>4. \A n \in Nat : n <= n /\ n >= n
  OBVIOUS
<1> QED BY <1>2, <1>3, <1>4

\* Rows come, go, change their places and their flags.
LEMMA OthersKept ==
    ASSUME AdminInv,
           \/ \E l \in Lists : Create(l)
           \/ \E i \in DOMAIN rows["clients"] :
                DeleteClient(i) \/ Toggle(rows["clients"][i])
           \/ \E a \in ClientAccounts, held \in 0 .. 3 : Hold(a, held)
    PROVE  AdminInv'
<1>1. AdminTypes
  BY DEF AdminInv
<1>2. ASSUME NEW list, NEW came \in BOOLEAN, NEW went \in BOOLEAN, NoteChange(list, came, went)
      PROVE  reading' = None \/ Walking' \/ Reporting'
  <2>1. CASE reading = None
    BY <1>2, <2>1 DEF NoteChange
  <2>2. CASE reading # None /\ Walking
    BY <1>2, <2>2 DEF NoteChange, Walking
  <2>3. CASE reading # None /\ Reporting
    <3>1. reading.step = "report" /\ reading.report \in Reports
      BY <2>3 DEF Reporting
    <3>2. reading' = [reading EXCEPT !.report.grew = @ \/ came, !.report.shrank = @ \/ went]
      BY <1>2, <2>3, <3>1 DEF NoteChange
    <3>3. PICK report \in Reports :
            report = [reading.report EXCEPT !.grew = @ \/ came, !.shrank = @ \/ went]
      BY <3>1 DEF Reports
    <3>4. reading' = [reading EXCEPT !.report = report]
      BY <2>3, <3>2, <3>3 DEF Reporting, Reports
    <3> QED BY <2>3, <3>4 DEF Reporting
  <2> QED BY <1>1, <2>1, <2>2, <2>3 DEF AdminTypes
<1>3. FromBelow \subseteq FromAbove \ {"users"}
  BY DEF FromBelow, FromAbove
<1>4. ASSUME NEW l \in Lists, Create(l) PROVE AdminInv'
  <2>1. /\ UNCHANGED holdings /\ NoteChange(l, TRUE, FALSE)
        /\ rowsMade' \in Nat /\ rows[l] \in Seq(Nat)
    <3>1. UNCHANGED holdings /\ NoteChange(l, TRUE, FALSE) /\ rowsMade' = rowsMade + 1
      BY <1>4, Zenon DEF Create
    <3>2. rowsMade + 1 \in Nat /\ rows[l] \in Seq(Nat)
      BY <1>1 DEF AdminTypes
    <3> QED BY <3>1, <3>2, Zenon
  <2>2. PICK place \in {Len(rows[l]), Len(rows[l]) + 1} \ {0} :
          rows' = [rows EXCEPT ![l] = InsertAt(@, place, rowsMade')]
    BY <1>4 DEF Create
  <2>3. InsertAt(rows[l], place, rowsMade') \in Seq(Nat)
    BY <2>1 DEF InsertAt
  <2>4. AdminTypes'
    BY <1>1, <1>2, <2>1, <2>2, <2>3 DEF AdminTypes
  <2> QED BY <1>1, <1>3, <2>1, <2>4, HoldingsStay, ChangeKept
<1>5. ASSUME NEW i \in DOMAIN rows["clients"], DeleteClient(i) PROVE AdminInv'
  <2> DEFINE s == rows["clients"]
  <2>1. /\ UNCHANGED <<holdings, rowsMade>> /\ NoteChange("clients", FALSE, TRUE)
        /\ rows' = [rows EXCEPT !["clients"] = RemoveAt(@, i)]
        /\ s \in Seq(Nat) /\ i \in 1 .. Len(s)
    <3>1. /\ UNCHANGED <<holdings, rowsMade>> /\ NoteChange("clients", FALSE, TRUE)
          /\ rows' = [rows EXCEPT !["clients"] = RemoveAt(@, i)]
      BY <1>5, Zenon DEF DeleteClient
    <3>2. s \in Seq(Nat)
      BY <1>1 DEF AdminTypes, Lists
    <3>3. i \in 1 .. Len(s)
      BY <3>2
    <3> QED BY <3>1, <3>2, <3>3
  <2>2. RemoveAt(s, i) \in Seq(Nat) /\ Len(RemoveAt(s, i)) = Len(s) - 1 /\ Len(s) \in Nat
    <3>1. s \in Seq(Nat) /\ i \in 1 .. Len(s)
      BY <2>1
    <3> HIDE DEF s
    <3>2. /\ SubSeq(s, 1, i - 1) \in Seq(Nat) /\ Len(SubSeq(s, 1, i - 1)) = i - 1
          /\ SubSeq(s, i + 1, Len(s)) \in Seq(Nat)
          /\ Len(SubSeq(s, i + 1, Len(s))) = Len(s) - i
      <4>1. \A k \in 1 .. i - 1 : s[k] \in Nat
        BY <3>1
      <4>2. \A k \in i + 1 .. Len(s) : s[k] \in Nat
        BY <3>1
      <4>3. i \in Int /\ Len(s) \in Int /\ 1 <= i /\ i <= Len(s)
        BY <3>1
      <4>4. /\ SubSeq(s, 1, i - 1) \in Seq(Nat)
            /\ Len(SubSeq(s, 1, i - 1)) = IF 1 <= i - 1 THEN i - 1 - 1 + 1 ELSE 0
        BY <4>1, <4>3, SubSeqProperties
      <4>5. /\ SubSeq(s, i + 1, Len(s)) \in Seq(Nat)
            /\ Len(SubSeq(s, i + 1, Len(s))) =
                 IF i + 1 <= Len(s) THEN Len(s) - (i + 1) + 1 ELSE 0
        BY <4>2, <4>3, SubSeqProperties
      <4> QED BY <4>3, <4>4, <4>5
    <3>3. RemoveAt(s, i) = SubSeq(s, 1, i - 1) \o SubSeq(s, i + 1, Len(s))
      BY DEF RemoveAt
    <3>4. /\ RemoveAt(s, i) \in Seq(Nat)
          /\ Len(RemoveAt(s, i)) = (i - 1) + (Len(s) - i)
      BY <3>2, <3>3, ConcatProperties
    <3> QED BY <3>1, <3>4
  <2>3. AdminTypes'
    BY <1>1, <1>2, <2>1, <2>2 DEF AdminTypes, Lists
  <2>4. rows'["clients"] = RemoveAt(s, i)
    BY <1>1, <2>1 DEF AdminTypes, Lists
  <2>5. CountOf("users")' <= CountOf("users")
    <3>1. CountOf("users") = Len(s) /\ CountOf("users")' = Len(rows'["clients"])
      BY DEF CountOf
    <3> HIDE DEF s
    <3> QED BY <2>2, <2>4, <3>1
  <2>6. \A q \in FromAbove : CountOf(q)' <= CountOf(q)
    BY <1>1, <2>1, <2>5, HoldingsStay
  <2> QED BY <2>1, <2>3, <2>6, ChangeKept
<1>6. ASSUME NEW id, Toggle(id) PROVE AdminInv'
  <2>1. UNCHANGED <<rows, holdings, rowsMade>>
    BY <1>6 DEF Toggle
  <2>2. \A q \in FromAbove : CountOf(q)' <= CountOf(q) /\ CountOf(q)' >= CountOf(q)
    <3>1. CountOf("users")' = CountOf("users") /\ CountOf("users") \in Nat
      BY <1>1, <2>1, CountsNow DEF CountOf, CountsAgree, FromAbove
    <3> QED BY <1>1, <2>1, <3>1, HoldingsStay
  <2>3. CASE UNCHANGED reading
    <3>1. AdminTypes'
      BY <1>1, <2>1, <2>3 DEF AdminTypes, Walking, Reporting
    <3> QED BY <1>3, <2>2, <2>3, <3>1, ChangeKept
  <2>4. CASE NoteChange("clients", id \notin active, id \in active)
    <3>0. \E came \in BOOLEAN : \E went \in BOOLEAN : NoteChange("clients", came, went)
      <4> WITNESS (id \notin active) \in BOOLEAN
      <4> WITNESS (id \in active) \in BOOLEAN
      <4> QED BY <2>4
    <3>1. PICK came \in BOOLEAN, went \in BOOLEAN : NoteChange("clients", came, went)
      BY <3>0
    <3>2. AdminTypes'
      BY <1>1, <1>2, <2>1, <3>1 DEF AdminTypes
    <3> QED BY <1>3, <2>2, <3>1, <3>2, ChangeKept
  <2> QED BY <1>6, <2>3, <2>4 DEF Toggle
<1>7. ASSUME NEW a \in ClientAccounts, NEW held \in 0 .. 3, Hold(a, held) PROVE AdminInv'
  <2>1. /\ UNCHANGED <<rows, rowsMade>> /\ holdings[a] \in 0 .. 3
        /\ \A b \in ClientAccounts : holdings'[b] = IF b = a THEN held ELSE holdings[b]
        /\ holdings' \in [ClientAccounts -> 0 .. 3]
        /\ held # holdings[a]
    <3>1. /\ UNCHANGED <<rows, rowsMade>> /\ holdings' = [holdings EXCEPT ![a] = held]
          /\ held # holdings[a]
      BY <1>7, Zenon DEF Hold
    <3> QED BY <1>1, <3>1 DEF AdminTypes
  <2>8. NoteChange("holdings", held > holdings[a], held < holdings[a])
    BY <1>7, Zenon DEF Hold
  <2>9. NoteChange("holdings", TRUE, FALSE) \/ NoteChange("holdings", FALSE, TRUE)
    <3>1. CASE held > holdings[a]
      <4>1. (held > holdings[a]) = TRUE /\ (held < holdings[a]) = FALSE
        BY <2>1, <3>1
      <4> QED BY <2>8, <4>1, Zenon
    <3>2. CASE held < holdings[a]
      <4>1. (held > holdings[a]) = FALSE /\ (held < holdings[a]) = TRUE
        BY <2>1, <3>2
      <4> QED BY <2>8, <4>1, Zenon
    <3>3. held > holdings[a] \/ held < holdings[a]
      BY <2>1
    <3> QED BY <3>1, <3>2, <3>3, Zenon
  <2>2. AdminTypes'
    <3>1. reading' = None \/ Walking' \/ Reporting'
      BY <1>2, <2>9, Zenon
    <3> QED BY <1>1, <2>1, <3>1 DEF AdminTypes
  <2>3. \A b \in ClientAccounts : holdings[b] \in 0 .. 3
    BY <1>1 DEF AdminTypes
  <2>4. ASSUME NEW k \in 1 .. 3
        PROVE  /\ IsFiniteSet({b \in ClientAccounts : holdings[b] >= k})
               /\ IsFiniteSet({b \in ClientAccounts : holdings'[b] >= k})
    BY ClientAccountsAssumption, FS_Subset
  <2>5. Len(rows["clients"]) \in Nat
    BY <1>1 DEF AdminTypes, Lists
  <2>6. CASE held > holdings[a]
    <3>1. ASSUME NEW k \in 1 .. 3 PROVE Holding(k)' >= Holding(k)
      <4>1. {b \in ClientAccounts : holdings[b] >= k} \subseteq
            {b \in ClientAccounts : holdings'[b] >= k}
        BY <2>1, <2>3, <2>6
      <4>2. /\ Cardinality({b \in ClientAccounts : holdings[b] >= k}) <=
                 Cardinality({b \in ClientAccounts : holdings'[b] >= k})
            /\ Cardinality({b \in ClientAccounts : holdings[b] >= k}) \in Nat
            /\ Cardinality({b \in ClientAccounts : holdings'[b] >= k}) \in Nat
        BY <2>4, <4>1, FS_Subset, FS_CardinalityType
      <4> QED BY <4>2 DEF Holding
    <3>2. \A q \in FromBelow : CountOf(q)' >= CountOf(q)
      BY <3>1 DEF CountOf, FromBelow
    <3>3. PICK came \in BOOLEAN, went \in BOOLEAN :
            NoteChange("holdings", came, went) /\ came /\ ~went
      <4>1. (held > holdings[a]) = TRUE /\ (held < holdings[a]) = FALSE
        BY <2>1, <2>6
      <4>2. NoteChange("holdings", TRUE, FALSE)
        BY <2>8, <4>1, Zenon
      <4> QED BY <4>2, Zenon
    <3> QED BY <2>2, <3>2, <3>3, ChangeKept
  <2>7. CASE held < holdings[a]
    <3>1. ASSUME NEW k \in 1 .. 3 PROVE Holding(k)' <= Holding(k)
      <4>1. {b \in ClientAccounts : holdings'[b] >= k} \subseteq
            {b \in ClientAccounts : holdings[b] >= k}
        BY <2>1, <2>3, <2>7
      <4>2. /\ Cardinality({b \in ClientAccounts : holdings'[b] >= k}) <=
                 Cardinality({b \in ClientAccounts : holdings[b] >= k})
            /\ Cardinality({b \in ClientAccounts : holdings[b] >= k}) \in Nat
            /\ Cardinality({b \in ClientAccounts : holdings'[b] >= k}) \in Nat
        BY <2>4, <4>1, FS_Subset, FS_CardinalityType
      <4> QED BY <4>2 DEF Holding
    <3>2. \A q \in FromAbove : CountOf(q)' <= CountOf(q)
      <4>1. CountOf("users")' <= CountOf("users")
        BY <2>1, <2>5 DEF CountOf
      <4>2. \A q \in FromAbove \ {"users"} : CountOf(q)' <= CountOf(q)
        BY <3>1 DEF CountOf, FromAbove
      <4> QED BY <4>1, <4>2
    <3>3. PICK came \in BOOLEAN, went \in BOOLEAN :
            NoteChange("holdings", came, went) /\ ~came /\ went
      <4>1. (held > holdings[a]) = FALSE /\ (held < holdings[a]) = TRUE
        BY <2>1, <2>7
      <4>2. NoteChange("holdings", FALSE, TRUE)
        BY <2>8, <4>1, Zenon
      <4> QED BY <4>2, Zenon
    <3> QED BY <2>2, <3>2, <3>3, ChangeKept
  <2> QED BY <2>1, <2>6, <2>7
<1> QED BY <1>4, <1>5, <1>6, <1>7

\* A query changes no count.
LEMMA CountsStay ==
    ASSUME UNCHANGED <<rows, active, holdings>>
    PROVE  \A q \in Counted : CountOf(q)' = CountOf(q)
<1>1. \A k \in 1 .. 3 : Holding(k)' = Holding(k)
  BY DEF Holding
<1>2. ASSUME NEW q \in Counted PROVE CountOf(q)' = CountOf(q)
  <2>1. CASE q \in {"users", "active"}
    BY <2>1 DEF CountOf
  <2>2. CASE q = "accounts"
    BY <1>1, <2>2 DEF CountOf
  <2>3. CASE q = "clusters"
    BY <1>1, <2>3 DEF CountOf
  <2>4. CASE q \in {"instances", "running"}
    BY <1>1, <2>4 DEF CountOf
  <2>5. CASE q = "cost"
    BY <1>1, <2>5 DEF CountOf, Cost
  <2> QED BY <1>2, <2>1, <2>2, <2>3, <2>4, <2>5 DEF FromAbove, Counted
<1> QED BY <1>2

\* The next query of a report counts what there is now.
LEMMA QueryKept ==
    ASSUME AdminInv, Query
    PROVE  AdminInv'
<1>1. /\ Reporting /\ ReportAgrees /\ AdminTypes /\ CountsAgree /\ reading # None
      /\ reading.step = "report" /\ reading.report.queries # <<>>
      /\ reading.report \in Reports
      /\ InOrder(reading.report) /\ CountsHold(reading.report)
  BY CountsNow DEF Query, AdminInv, AdminTypes, Walking, Reporting
<1>2. PICK r \in Reports : r = reading.report
  BY <1>1
<1>3. InOrder(r) /\ CountsHold(r) /\ r.queries # <<>>
  BY <1>1, <1>2
<1>4. PICK n \in Nat, all \in Seq(Counted) :
        /\ n = Len(r.counts) /\ all = Queries(r.kind)
        /\ r.counts \in Seq(Counted \X Nat) /\ r.queries \in Seq(Counted)
        /\ n + Len(r.queries) = Len(all) /\ Len(r.queries) \in Nat \ {0}
        /\ \A i \in 1 .. n : r.counts[i][1] = all[i]
        /\ \A i \in 1 .. Len(r.queries) : r.queries[i] = all[n + i]
        /\ \A i, j \in 1 .. Len(all) :
             <<all[i], all[j]>> \in
               {<<"users", "active">>, <<"instances", "running">>, <<"running", "cost">>,
                <<"accounts", "clusters">>, <<"clusters", "instances">>} => i < j
  <2>1. /\ r.counts \in Seq(Counted \X Nat) /\ r.queries \in Seq(Counted)
        /\ r.kind \in ReportKinds
    BY DEF Reports
  <2>2. Len(r.counts) \in Nat /\ Len(r.queries) \in Nat
    BY <2>1, LenProperties
  <2>3. Len(r.queries) # 0
    BY <1>3, <2>1, EmptySeq
  <2>4. Queries(r.kind) \in Seq(Counted)
    BY <2>1, QueryOrder
  <2>5. \A i, j \in 1 .. Len(Queries(r.kind)) :
          <<Queries(r.kind)[i], Queries(r.kind)[j]>> \in
            {<<"users", "active">>, <<"instances", "running">>, <<"running", "cost">>,
             <<"accounts", "clusters">>, <<"clusters", "instances">>} => i < j
    BY <2>1, QueryOrder
  <2>6. /\ Len(r.counts) + Len(r.queries) = Len(Queries(r.kind))
        /\ \A i \in 1 .. Len(r.counts) : r.counts[i][1] = Queries(r.kind)[i]
        /\ \A i \in 1 .. Len(r.queries) : r.queries[i] = Queries(r.kind)[Len(r.counts) + i]
    BY <1>3 DEF InOrder
  <2> QED BY <2>1, <2>2, <2>3, <2>4, <2>5, <2>6
<1>5. n + Len(r.queries) = Len(all) /\ Len(r.queries) \in Nat \ {0}
  BY <1>4
<1>6. n = Len(r.counts) /\ all = Queries(r.kind)
  BY <1>4
<1>7. \A i \in 1 .. n : r.counts[i][1] = all[i]
  BY <1>4
<1>8. \A i \in 1 .. Len(r.queries) : r.queries[i] = all[n + i]
  BY <1>4
<1>9. PICK q \in Counted, number \in Nat :
        q = Head(r.queries) /\ q = all[n + 1] /\ number = CountOf(q)
  <2>1. n + 1 \in 1 .. Len(all)
    BY <1>5
  <2>5. 1 \in 1 .. Len(r.queries)
    BY <1>5
  <2>2. all[n + 1] \in Counted /\ r.queries[1] = all[n + 1]
    BY <1>8, <2>1, <2>5
  <2>3. Head(r.queries) = r.queries[1]
    BY <1>4
  <2>4. CountOf(all[n + 1]) \in Nat
    BY <1>1, <2>2 DEF CountsAgree
  <2> QED BY <2>2, <2>3, <2>4
<1>10. UNCHANGED <<rows, active, holdings, rowsMade>>
  BY DEF Query
<1>11. \A x \in Counted : CountOf(x)' = CountOf(x)
  BY <1>10, CountsStay
<1>12. /\ Tail(r.queries) \in Seq(Counted) /\ Len(Tail(r.queries)) = Len(r.queries) - 1
      /\ \A i \in 1 .. Len(Tail(r.queries)) : Tail(r.queries)[i] = r.queries[i + 1]
  <2>1. r.queries \in Seq(Counted)
    BY <1>4
  <2> QED BY <1>3, <2>1, HeadTailProperties
<1>13. <<q, number>> \in Counted \X Nat
  OBVIOUS
<1>14. /\ Append(r.counts, <<q, number>>) \in Seq(Counted \X Nat)
      /\ Len(Append(r.counts, <<q, number>>)) = n + 1
      /\ Append(r.counts, <<q, number>>)[n + 1] = <<q, number>>
      /\ \A i \in 1 .. n : Append(r.counts, <<q, number>>)[i] = r.counts[i]
  BY <1>4, <1>13, AppendProperties
<1> DEFINE s == [r EXCEPT !.queries = Tail(r.queries), !.counts = Append(r.counts, <<q, number>>)]
<1>15. /\ s \in Reports /\ s.kind = r.kind /\ s.grew = r.grew /\ s.shrank = r.shrank
       /\ s.queries = Tail(r.queries) /\ s.counts = Append(r.counts, <<q, number>>)
  BY <1>12, <1>14 DEF Reports
<1>16. reading' = [reading EXCEPT !.report = s]
  <2>1. reading' = [reading EXCEPT
           !.report.queries = Tail(@), !.report.counts = Append(@, <<q, number>>)]
    BY <1>2, <1>9 DEF Query
  <2> QED BY <1>1, <1>2, <2>1 DEF Reporting
<1>17. PICK t \in Reports :
         /\ reading'.report = t /\ reading'.step = "report" /\ Reporting'
         /\ t.kind = r.kind /\ t.grew = r.grew /\ t.shrank = r.shrank
         /\ Len(t.counts) = n + 1 /\ t.counts[n + 1] = <<q, number>>
         /\ \A i \in 1 .. n : t.counts[i] = r.counts[i]
         /\ Len(t.queries) = Len(r.queries) - 1
         /\ \A i \in 1 .. Len(t.queries) : t.queries[i] = r.queries[i + 1]
  <2>1. reading'.report = s /\ reading'.step = "report" /\ Reporting'
    <3> HIDE DEF s
    <3> QED BY <1>1, <1>15, <1>16 DEF Reporting
  <2>2. /\ s \in Reports /\ s.kind = r.kind /\ s.grew = r.grew /\ s.shrank = r.shrank
        /\ Len(s.counts) = n + 1 /\ s.counts[n + 1] = <<q, number>>
        /\ \A i \in 1 .. n : s.counts[i] = r.counts[i]
        /\ Len(s.queries) = Len(r.queries) - 1
        /\ \A i \in 1 .. Len(s.queries) : s.queries[i] = r.queries[i + 1]
    BY <1>12, <1>14, <1>15
  <2> HIDE DEF s
  <2> QED BY <2>1, <2>2
<1>18. AdminTypes'
  BY <1>1, <1>10, <1>17 DEF AdminTypes
<1>19. Len(t.queries) = Len(r.queries) - 1
  BY <1>17
<1>20. \A i \in 1 .. Len(t.queries) : t.queries[i] = r.queries[i + 1]
  BY <1>17
<1>21. /\ Len(t.counts) = n + 1 /\ t.counts[n + 1] = <<q, number>>
       /\ \A i \in 1 .. n : t.counts[i] = r.counts[i]
  BY <1>17
\* every count is of the query of its place
<1>22. InOrder(t)
  <2>2. t.counts[n + 1][1] = all[n + 1]
    <3>1. t.counts[n + 1] = <<q, number>>
      BY <1>21
    <3>2. <<q, number>>[1] = q
      OBVIOUS
    <3>3. q = all[n + 1]
      BY <1>9
    <3> QED BY <3>1, <3>2, <3>3
  <2>3. \A i \in 1 .. n + 1 : t.counts[i][1] = all[i]
    <3> SUFFICES ASSUME NEW i \in 1 .. n + 1 PROVE t.counts[i][1] = all[i]
      OBVIOUS
    <3>1. CASE i = n + 1
      BY <2>2, <3>1
    <3>2. CASE i \in 1 .. n
      <4>1. t.counts[i] = r.counts[i]
        BY <1>21, <3>2
      <4> QED BY <1>7, <3>2, <4>1
    <3>3. i = n + 1 \/ i \in 1 .. n
      OBVIOUS
    <3> QED BY <3>1, <3>2, <3>3
  <2>4. \A i \in 1 .. Len(t.queries) : t.queries[i] = all[n + 1 + i]
    <3> SUFFICES ASSUME NEW i \in 1 .. Len(t.queries) PROVE t.queries[i] = all[n + 1 + i]
      OBVIOUS
    <3>1. i + 1 \in 1 .. Len(r.queries) /\ t.queries[i] = r.queries[i + 1]
      BY <1>5, <1>19, <1>20
    <3>2. r.queries[i + 1] = all[n + (i + 1)]
      BY <1>8, <3>1
    <3>3. n + (i + 1) = n + 1 + i
      OBVIOUS
    <3> QED BY <3>1, <3>2, <3>3
  <2>5. Queries(t.kind) = all
    <3>1. t.kind = r.kind
      BY <1>17
    <3> QED BY <1>6, <3>1
  <2>6. Len(t.counts) + Len(t.queries) = Len(all)
    <3>1. PICK m \in Nat \ {0} : m = Len(r.queries) /\ n + m = Len(all)
      BY <1>5
    <3>2. Len(t.counts) = n + 1
      BY <1>21
    <3>3. Len(t.queries) = m - 1
      BY <1>19, <3>1
    <3>4. (n + 1) + (m - 1) = n + m
      OBVIOUS
    <3> QED BY <3>1, <3>2, <3>3, <3>4
  <2> QED BY <1>21, <2>3, <2>4, <2>5, <2>6 DEF InOrder
\* the earlier counts still hold, and the new one is what there is now
<1>23. ASSUME NEW x \in FromAbove, NEW i \in 1 .. n + 1, t.counts[i][1] = x
       PROVE  /\ ~t.grew => CountOf(x) <= t.counts[i][2]
              /\ ~t.shrank /\ x \in FromBelow => CountOf(x) >= t.counts[i][2]
  <2>1. CASE i = n + 1
    <3>1. x = q /\ t.counts[i][2] = CountOf(x)
      BY <1>17, <1>23, <1>9, <2>1
    <3> QED BY <1>1, <3>1 DEF CountsAgree
  <2>2. CASE i \in 1 .. n
    BY <1>3, <1>4, <1>17, <1>23, <2>2 DEF CountsHold
  <2> QED BY <2>1, <2>2
<1>24. CountsHold(reading.report)'
  <2> SUFFICES ASSUME NEW x \in FromAbove, NEW i \in 1 .. Len(reading'.report.counts),
                      reading'.report.counts[i][1] = x
               PROVE  /\ ~reading'.report.grew => CountOf(x)' <= reading'.report.counts[i][2]
                      /\ ~reading'.report.shrank /\ x \in FromBelow =>
                           CountOf(x)' >= reading'.report.counts[i][2]
    BY DEF CountsHold
  <2>1. CountOf(x)' = CountOf(x)
    BY <1>11 DEF Counted
  <2> QED BY <1>17, <1>23, <2>1
<1>25. InOrder(reading.report)'
  BY <1>17, <1>22 DEF InOrder, Queries
\* what is compared with the new count was counted before it
<1>26. ReportAgrees'
  <2> SUFFICES ASSUME NEW i \in 1 .. n + 1, NEW j \in 1 .. n + 1
               PROVE  /\ <<t.counts[i][1], t.counts[j][1]>> \in
                           {<<"users", "active">>, <<"instances", "running">>,
                            <<"running", "cost">>}
                         /\ t.counts[j][2] > t.counts[i][2] => t.grew
                      /\ <<t.counts[i][1], t.counts[j][1]>> \in
                           {<<"accounts", "clusters">>, <<"clusters", "instances">>}
                         /\ t.counts[i][2] = 0 /\ t.counts[j][2] > 0 => t.grew
                      /\ <<t.counts[i][1], t.counts[j][1]>> \in
                           {<<"instances", "running">>, <<"running", "cost">>}
                         /\ t.counts[i][2] > t.counts[j][2] => t.shrank
    <3>1. t.counts \in Seq(Counted \X Nat) /\ DOMAIN t.counts = 1 .. n + 1
      BY <1>17 DEF Reports
    <3> QED BY <1>17, <3>1 DEF ReportAgrees
  <2> DEFINE first == t.counts[i]
             second == t.counts[j]
  <2>1. CASE i \in 1 .. n /\ j \in 1 .. n
    <3>1. first = r.counts[i] /\ second = r.counts[j] /\ t.grew = r.grew /\ t.shrank = r.shrank
      BY <1>17, <2>1
    <3>2. i \in DOMAIN r.counts /\ j \in DOMAIN r.counts
      <4>1. r.counts \in Seq(Counted \X Nat)
        BY <1>4
      <4> QED BY <1>6, <2>1, <4>1
    <3>3. /\ <<r.counts[i][1], r.counts[j][1]>> \in
               {<<"users", "active">>, <<"instances", "running">>, <<"running", "cost">>}
             /\ r.counts[j][2] > r.counts[i][2] => r.grew
          /\ <<r.counts[i][1], r.counts[j][1]>> \in
               {<<"accounts", "clusters">>, <<"clusters", "instances">>}
             /\ r.counts[i][2] = 0 /\ r.counts[j][2] > 0 => r.grew
          /\ <<r.counts[i][1], r.counts[j][1]>> \in
               {<<"instances", "running">>, <<"running", "cost">>}
             /\ r.counts[i][2] > r.counts[j][2] => r.shrank
      BY <1>1, <1>2, <3>2, Zenon DEF ReportAgrees
    <3> QED BY <3>1, <3>3, Zenon
  <2>2. ASSUME <<first[1], second[1]>> \in
                 {<<"users", "active">>, <<"instances", "running">>, <<"running", "cost">>,
                  <<"accounts", "clusters">>, <<"clusters", "instances">>}
        PROVE  i < j
    <3>1. first[1] = all[i] /\ second[1] = all[j] /\ i \in 1 .. Len(all) /\ j \in 1 .. Len(all)
      <4>1. n + 1 \in 1 .. Len(all) /\ Len(t.counts) = n + 1 /\ Queries(t.kind) = all
        <5>1. n + 1 \in 1 .. Len(all)
          BY <1>5
        <5>2. Queries(t.kind) = all
          <6>1. t.kind = r.kind
            BY <1>17
          <6> QED BY <1>6, <6>1
        <5> QED BY <1>21, <5>1, <5>2
      <4>2. \A k \in 1 .. n + 1 : t.counts[k][1] = all[k]
        BY <1>22, <4>1 DEF InOrder
      <4> QED BY <1>5, <4>1, <4>2
    <3> HIDE DEF first, second
    <3> QED BY <1>4, <2>2, <3>1
  <2>3. CASE i = n + 1
    BY <2>2, <2>3
  <2>4. CASE i \in 1 .. n /\ j = n + 1
    <3>1. first[2] \in Nat
      <4>1. t.counts \in Seq(Counted \X Nat)
        BY <1>17 DEF Reports
      <4>2. first \in Counted \X Nat
        BY <1>17, <4>1
      <4> QED BY <4>2
    <3>2. second[1] = q /\ second[2] = CountOf(q)
      BY <1>17, <1>9, <2>4
    <3>3. first[1] \in FromAbove =>
            /\ ~t.grew => CountOf(first[1]) <= first[2]
            /\ ~t.shrank /\ first[1] \in FromBelow => CountOf(first[1]) >= first[2]
      BY <1>23
    <3>4. /\ CountOf("active") <= CountOf("users") /\ CountOf("clusters") <= CountOf("accounts")
          /\ CountOf("instances") <= CountOf("clusters")
          /\ CountOf("running") = CountOf("instances")
          /\ CountOf("cost") = CountOf("instances")
          /\ CountOf("users") \in Nat /\ CountOf("active") \in Nat
          /\ CountOf("accounts") \in Nat /\ CountOf("clusters") \in Nat
          /\ CountOf("instances") \in Nat
      BY <1>1 DEF CountsAgree, FromAbove, Counted
    <3> HIDE DEF first, second
    <3>5. ASSUME ~t.grew, <<first[1], second[1]>> \in
                   {<<"users", "active">>, <<"instances", "running">>, <<"running", "cost">>}
          PROVE  ~(second[2] > first[2])
      <4>1. CountOf(first[1]) <= first[2]
        BY <3>3, <3>5 DEF FromAbove
      <4> QED BY <3>1, <3>2, <3>4, <3>5, <4>1
    <3>6. ASSUME ~t.grew, <<first[1], second[1]>> \in
                   {<<"accounts", "clusters">>, <<"clusters", "instances">>}
          PROVE  ~(first[2] = 0 /\ second[2] > 0)
      <4>1. CountOf(first[1]) <= first[2]
        BY <3>3, <3>6 DEF FromAbove
      <4> QED BY <3>1, <3>2, <3>4, <3>6, <4>1
    <3>7. ASSUME ~t.shrank, <<first[1], second[1]>> \in
                   {<<"instances", "running">>, <<"running", "cost">>}
          PROVE  ~(first[2] > second[2])
      <4>1. CountOf(first[1]) >= first[2]
        BY <3>3, <3>7 DEF FromAbove, FromBelow
      <4> QED BY <3>1, <3>2, <3>4, <3>7, <4>1
    <3> QED BY <3>5, <3>6, <3>7, Zenon DEF first, second
  <2> QED BY <2>1, <2>3, <2>4
<1> QED BY <1>18, <1>24, <1>25, <1>26 DEF AdminInv

\* A walk through the pages, or nothing, is no report.
LEMMA NoReportKept ==
    ASSUME AdminInv, UNCHANGED <<rows, holdings, rowsMade>>, reading' = None \/ Walking'
    PROVE  AdminInv'
<1>1. ~(reading' # None /\ reading'.step = "report")
  BY DEF Walking
<1>2. AdminTypes'
  BY DEF AdminInv, AdminTypes
<1> QED BY <1>1, <1>2 DEF AdminInv, ReportAgrees

\* A report begins with no counts.
LEMMA ReportBegins ==
    ASSUME AdminInv, NEW kind \in ReportKinds, BeginReport(kind)
    PROVE  AdminInv'
<1>1. /\ reading' = [step |-> "report", report |-> Report(kind)]
      /\ UNCHANGED <<rows, holdings, rowsMade>>
  BY DEF BeginReport
<1>2. Queries(kind) \in Seq(Counted)
  BY QueryOrder
<1>3. PICK s \in Reports : s = Report(kind) /\ s.counts = <<>> /\ s.kind = kind
                           /\ s.queries = Queries(kind)
  <2>1. <<>> \in Seq(Counted \X Nat)
    OBVIOUS
  <2>2. Report(kind) \in Reports
    BY <1>2, <2>1 DEF Report, Reports
  <2> QED BY <2>2 DEF Report
<1>4. reading'.report = s /\ reading'.step = "report" /\ Reporting'
  BY <1>1, <1>3 DEF Reporting
<1>5. AdminTypes'
  BY <1>1, <1>4 DEF AdminInv, AdminTypes
<1>6. InOrder(s) /\ CountsHold(s)'
  BY <1>2, <1>3 DEF InOrder, CountsHold
<1>7. (InOrder(reading.report) /\ CountsHold(reading.report))'
  BY <1>4, <1>6, <1>3 DEF InOrder, CountsHold, Queries
<1>8. ReportAgrees'
  BY <1>3, <1>4 DEF ReportAgrees
<1> QED BY <1>5, <1>7, <1>8 DEF AdminInv

THEOREM AdminInitial == AdminInit => AdminInv
<1> SUFFICES ASSUME AdminInit PROVE AdminInv
  OBVIOUS
<1>1. reading = None /\ rowsMade \in Nat /\ holdings \in [ClientAccounts -> 0 .. 3]
  BY DEF AdminInit
<1>2. rows \in [Lists -> Seq(Nat)]
  <2>1. <<1, 2>> \in Seq(Nat) /\ <<>> \in Seq(Nat)
    OBVIOUS
  <2> QED BY <2>1 DEF AdminInit
<1> QED BY <1>1, <1>2 DEF AdminInv, AdminTypes, ReportAgrees

THEOREM AdminInvariance == AdminSpec => []AdminInv
<1>1. ASSUME AdminInv, [AdminNext]_adminVars PROVE AdminInv'
  <2>1. ASSUME NEW l, NEW f, Walk(l, f) PROVE AdminInv'
    BY <1>1, <2>1, NoReportKept DEF Walk, Walking
  <2>2. CASE CountRows
    BY <1>1, <2>2, NoReportKept DEF CountRows, Walking, AdminInv, AdminTypes, Reporting
  <2>3. CASE ReadPage
    BY <1>1, <2>3, NoReportKept DEF ReadPage, Walking, AdminInv, AdminTypes, Reporting
  <2>4. CASE Answered
    BY <1>1, <2>4, NoReportKept DEF Answered
  <2>5. CASE UNCHANGED adminVars
    <3>1. UNCHANGED <<rows, active, holdings, reading, rowsMade>>
      BY <2>5 DEF adminVars
    <3>2. \A q \in Counted : CountOf(q)' = CountOf(q)
      BY <3>1, CountsStay
    <3>3. AdminTypes' /\ ReportAgrees'
      BY <1>1, <3>1 DEF AdminInv, AdminTypes, Walking, Reporting, ReportAgrees
    <3>4. InOrder(reading.report)' <=> InOrder(reading.report)
      BY <3>1 DEF InOrder, Queries
    <3>5. CountsHold(reading.report) => CountsHold(reading.report)'
      BY <3>1, <3>2 DEF CountsHold, Counted
    <3> QED BY <1>1, <3>1, <3>3, <3>4, <3>5 DEF AdminInv
  <2> QED BY <1>1, <2>1, <2>2, <2>3, <2>4, <2>5, QueryKept, ReportBegins, OthersKept
       DEF AdminNext, ReportKinds
<1> QED BY <1>1, AdminInitial, PTL DEF AdminSpec

\* What a report counts agrees, although each number is of another moment: for
\* any accounts, any lists and any number of changes between the queries.
THEOREM ReportsAgree == AdminSpec => []ReportAgrees
<1>1. AdminInv => ReportAgrees
  BY DEF AdminInv
<1> QED BY <1>1, AdminInvariance, PTL

-----------------------------------------------------------------------------
(***************************************************************************)
(* AdminQueries: the depth of a row is the number of rows a query returns  *)
(* before it. Depths only grow while no row goes and only shrink while     *)
(* none comes, a page shows certain depths, and so a row of the start that *)
(* was not seen is still to come, and one that was seen will not come      *)
(* again. The order of a finite set is argued as in WorkersProofs.         *)
(***************************************************************************)
\* A strict order of all of S, as a set of pairs
Orders(R, S) ==
    /\ \A x \in S : <<x, x>> \notin R
    /\ \A x, y \in S : x = y \/ <<x, y>> \in R \/ <<y, x>> \in R
    /\ \A x, y, z \in S : <<x, y>> \in R /\ <<y, z>> \in R => <<x, z>> \in R

Before(x, R, S) == {y \in S : <<y, x>> \in R}

\* One of two elements has fewer elements before it than the other.
LEMMA FewerBefore ==
    ASSUME NEW S, IsFiniteSet(S), NEW R, Orders(R, S), NEW x \in S, NEW y \in S,
           <<x, y>> \in R
    PROVE  /\ Cardinality(Before(x, R, S)) \in Nat /\ Cardinality(Before(y, R, S)) \in Nat
           /\ Cardinality(Before(x, R, S)) < Cardinality(Before(y, R, S))
<1>1. /\ Before(x, R, S) \subseteq Before(y, R, S) \ {x} /\ x \in Before(y, R, S)
      /\ Before(x, R, S) \in SUBSET S /\ Before(y, R, S) \in SUBSET S
  BY DEF Before, Orders
<1>2. /\ IsFiniteSet(Before(x, R, S)) /\ IsFiniteSet(Before(y, R, S))
      /\ IsFiniteSet(Before(y, R, S) \ {x})
  BY <1>1, FS_Subset, FS_RemoveElement
<1>3. Cardinality(Before(y, R, S) \ {x}) = Cardinality(Before(y, R, S)) - 1
  BY <1>1, <1>2, FS_RemoveElement
<1>4. Cardinality(Before(x, R, S)) <= Cardinality(Before(y, R, S) \ {x})
  BY <1>1, <1>2, FS_Subset
<1>5. Cardinality(Before(x, R, S)) \in Nat /\ Cardinality(Before(y, R, S)) \in Nat
  BY <1>2, FS_CardinalityType
<1> QED BY <1>3, <1>4, <1>5

\* Every place of the order is taken.
LEMMA EveryPlaceTaken ==
    ASSUME NEW S, IsFiniteSet(S), NEW R, Orders(R, S)
    PROVE  /\ Cardinality(S) \in Nat
           /\ \A k \in 1 .. Cardinality(S) :
                \E x \in S : Cardinality(Before(x, R, S)) = k - 1
<1>1. PICK n \in Nat : n = Cardinality(S)
  BY FS_CardinalityType
<1>2. ASSUME NEW x \in S PROVE Cardinality(Before(x, R, S)) \in 0 .. n - 1
  <2>1. Before(x, R, S) \subseteq S \ {x}
    BY DEF Before, Orders
  <2>2. IsFiniteSet(S \ {x}) /\ Cardinality(S \ {x}) = n - 1
    BY <1>1, FS_RemoveElement
  <2>3. IsFiniteSet(Before(x, R, S)) /\ Cardinality(Before(x, R, S)) <= n - 1
    BY <2>1, <2>2, FS_Subset
  <2>4. Cardinality(Before(x, R, S)) \in Nat
    BY <2>3, FS_CardinalityType
  <2> QED BY <2>3, <2>4
<1> DEFINE place == [x \in S |-> Cardinality(Before(x, R, S))]
<1>3. place \in [S -> 0 .. n - 1]
  BY <1>2
<1>4. ASSUME NEW x \in S, NEW y \in S, x # y PROVE place[x] # place[y]
  <2>1. <<x, y>> \in R \/ <<y, x>> \in R
    BY <1>4 DEF Orders
  <2>2. CASE <<x, y>> \in R
    BY <2>2, FewerBefore
  <2>3. CASE <<y, x>> \in R
    BY <2>3, FewerBefore
  <2> QED BY <2>1, <2>2, <2>3
<1>5. place \in Injection(S, 0 .. n - 1)
  BY <1>3, <1>4 DEF Injection, IsInjective
<1>6. IsFiniteSet(0 .. n - 1) /\ Cardinality(0 .. n - 1) = n
  BY FS_Interval
<1>7. place \in Surjection(S, 0 .. n - 1)
  <2> HIDE DEF place
  <2> QED BY <1>1, <1>5, <1>6, FS_Injection
<1>8. ASSUME NEW k \in 1 .. n PROVE \E x \in S : Cardinality(Before(x, R, S)) = k - 1
  <2>1. k - 1 \in 0 .. n - 1
    OBVIOUS
  <2>2. PICK x \in S : place[x] = k - 1
    BY <1>7, <2>1 DEF Surjection
  <2> QED BY <2>2
<1> QED BY <1>1, <1>8

\* Each element of a sequence stands at its place.
StandInPlace(s, n, R, S) ==
    /\ s \in [1 .. n -> S]
    /\ \A k \in 1 .. n : Cardinality(Before(s[k], R, S)) = k - 1

\* Where each element stands at its place, all of them stand in order.
LEMMA PlacesInOrder ==
    ASSUME NEW S, IsFiniteSet(S), NEW R, Orders(R, S), NEW n \in Nat, n = Cardinality(S),
           NEW s, StandInPlace(s, n, R, S)
    PROVE  /\ \A x \in S : \E k \in 1 .. n : s[k] = x
           /\ \A i, j \in 1 .. n : i < j => <<s[i], s[j]>> \in R
           /\ \A i, j \in 1 .. n : i # j => s[i] # s[j]
<1> s \in [1 .. n -> S] /\ \A k \in 1 .. n : Cardinality(Before(s[k], R, S)) = k - 1
  BY DEF StandInPlace
<1>1. \A i, j \in 1 .. n : i # j => s[i] # s[j]
  <2> SUFFICES ASSUME NEW i \in 1 .. n, NEW j \in 1 .. n, s[i] = s[j] PROVE i = j
    OBVIOUS
  <2>1. i - 1 = j - 1
    OBVIOUS
  <2> QED BY <2>1
<1>2. ASSUME NEW i \in 1 .. n, NEW j \in 1 .. n, i < j PROVE <<s[i], s[j]>> \in R
  <2>1. s[i] # s[j] /\ s[i] \in S /\ s[j] \in S
    BY <1>1, <1>2
  <2>2. CASE <<s[j], s[i]>> \in R
    <3>1. Cardinality(Before(s[j], R, S)) < Cardinality(Before(s[i], R, S))
      BY <2>1, <2>2, FewerBefore
    <3>2. j - 1 < i - 1
      BY <3>1
    <3> QED BY <1>2, <3>2
  <2> QED BY <2>1, <2>2 DEF Orders
<1>3. s \in Injection(1 .. n, S)
  BY <1>1 DEF Injection, IsInjective
<1>4. IsFiniteSet(1 .. n) /\ Cardinality(1 .. n) = n
  BY FS_Interval
<1>5. s \in Surjection(1 .. n, S)
  BY <1>3, <1>4, FS_Injection
<1>6. \A x \in S : \E k \in 1 .. n : s[k] = x
  BY <1>5 DEF Surjection
<1> QED BY <1>1, <1>2, <1>6

-----------------------------------------------------------------------------
\* No row stands twice in a list, and ids count up.
RowsOK ==
    /\ rows \in [Lists -> Seq(Nat)] /\ rowsMade \in Nat
    /\ \A l \in Lists : \A i \in DOMAIN rows[l] : rows[l][i] <= rowsMade
    /\ \A l \in Lists : \A i, j \in DOMAIN rows[l] : rows[l][i] = rows[l][j] => i = j

\* The rows a query returns before x, and how many they are
Ahead(l, f, x) == {y \in Listed(l, f) : Newer(l, y, x)}

Depth(l, f, x) == Cardinality(Ahead(l, f, x))

LEMMA NewestFacts ==
    ASSUME RowsOK, NEW l \in Lists, NEW f
    PROVE  \E n \in Nat :
             /\ IsFiniteSet(Listed(l, f)) /\ n = Cardinality(Listed(l, f))
             /\ Listed(l, f) \in SUBSET Nat
             /\ Newest(l, f) \in [1 .. n -> Listed(l, f)]
             /\ \A k \in 1 .. n : Depth(l, f, Newest(l, f)[k]) = k - 1
             /\ \A x \in Listed(l, f) :
                  Depth(l, f, x) \in 0 .. n - 1 /\ Newest(l, f)[Depth(l, f, x) + 1] = x
<1> DEFINE S == Listed(l, f)
           all == Newest(l, f)
           R == {p \in S \X S : Newer(l, p[1], p[2])}
<1>1. rows[l] \in Seq(Nat) /\ \A i, j \in DOMAIN rows[l] : rows[l][i] = rows[l][j] => i = j
  BY DEF RowsOK
<1>2. DOMAIN rows[l] = 1 .. Len(rows[l]) /\ Len(rows[l]) \in Nat
  BY <1>1
<1>3. IsFiniteSet(ToSet(rows[l])) /\ ToSet(rows[l]) \in SUBSET Nat
  <2>1. IsFiniteSet(DOMAIN rows[l])
    <3>1. PICK n \in Nat : n = Len(rows[l])
      BY <1>2
    <3>2. IsFiniteSet(1 .. n)
      BY FS_Interval
    <3>3. DOMAIN rows[l] = 1 .. n
      BY <1>2, <3>1
    <3> QED BY <3>2, <3>3
  <2>2. rows[l] \in Surjection(DOMAIN rows[l], ToSet(rows[l]))
    BY <1>1 DEF Surjection, ToSet
  <2>3. ToSet(rows[l]) \in SUBSET Nat
    BY <1>1 DEF ToSet
  <2> QED BY <2>1, <2>2, <2>3, FS_Surjection
<1>4. S \in SUBSET ToSet(rows[l]) /\ S \in SUBSET Nat /\ IsFiniteSet(S)
  BY <1>3, FS_Subset DEF Listed
<1>5. PICK n \in Nat : n = Cardinality(S)
  BY <1>4, FS_CardinalityType
<1>6. all = [k \in 1 .. n |-> CHOOSE x \in S : Cardinality({y \in S : Newer(l, y, x)}) = k - 1]
  BY <1>5 DEF Newest, Arranged
<1>7. \A x \in S : \E i \in DOMAIN rows[l] : rows[l][i] = x
  BY <1>4 DEF ToSet
<1> HIDE DEF S, all
<1>8. \A x, y \in S : <<x, y>> \in R <=> Newer(l, x, y)
  OBVIOUS
<1> HIDE DEF R
<1>9. Orders(R, S)
  <2>1. \A x \in S : ~Newer(l, x, x)
    BY <1>1, <1>2 DEF Newer
  <2>2. \A x, y \in S : x = y \/ Newer(l, x, y) \/ Newer(l, y, x)
    <3> SUFFICES ASSUME NEW x \in S, NEW y \in S, x # y PROVE Newer(l, x, y) \/ Newer(l, y, x)
      OBVIOUS
    <3>1. PICK i \in DOMAIN rows[l], j \in DOMAIN rows[l] : rows[l][i] = x /\ rows[l][j] = y
      BY <1>7
    <3>2. i < j \/ j < i
      BY <1>2, <3>1
    <3> QED BY <3>1, <3>2 DEF Newer
  <2>3. \A x, y, z \in S : Newer(l, x, y) /\ Newer(l, y, z) => Newer(l, x, z)
    <3> SUFFICES ASSUME NEW x \in S, NEW y \in S, NEW z \in S, Newer(l, x, y), Newer(l, y, z)
                 PROVE  Newer(l, x, z)
      OBVIOUS
    <3>1. PICK i \in DOMAIN rows[l], j \in DOMAIN rows[l] :
            i > j /\ rows[l][i] = x /\ rows[l][j] = y
      BY DEF Newer
    <3>2. PICK m \in DOMAIN rows[l], k \in DOMAIN rows[l] :
            m > k /\ rows[l][m] = y /\ rows[l][k] = z
      BY DEF Newer
    <3>3. j = m
      BY <1>1, <3>1, <3>2
    <3>4. i > k
      BY <1>2, <3>1, <3>2, <3>3
    <3> QED BY <3>1, <3>2, <3>4 DEF Newer
  <2> QED BY <1>8, <2>1, <2>2, <2>3 DEF Orders
<1>10. \A x \in S : Before(x, R, S) = {y \in S : Newer(l, y, x)} /\ Ahead(l, f, x) = Before(x, R, S)
  BY <1>8 DEF Before, Ahead, S
<1>11. ASSUME NEW k \in 1 .. n
       PROVE  all[k] \in S /\ Cardinality({y \in S : Newer(l, y, all[k])}) = k - 1
  <2>1. \E x \in S : Cardinality(Before(x, R, S)) = k - 1
    BY <1>4, <1>5, <1>9, EveryPlaceTaken
  <2>2. \E x \in S : Cardinality({y \in S : Newer(l, y, x)}) = k - 1
    BY <1>10, <2>1
  <2>3. all[k] = CHOOSE x \in S : Cardinality({y \in S : Newer(l, y, x)}) = k - 1
    BY <1>6
  <2> QED BY <2>2, <2>3
<1>12. all \in [1 .. n -> S]
  BY <1>6, <1>11
<1>13. \A k \in 1 .. n : Depth(l, f, all[k]) = k - 1
  BY <1>10, <1>11 DEF Depth
<1>14. StandInPlace(all, n, R, S)
  BY <1>10, <1>11, <1>12 DEF StandInPlace
<1>15. \A x \in S : \E k \in 1 .. n : all[k] = x
  BY <1>4, <1>5, <1>9, <1>14, PlacesInOrder
<1>16. ASSUME NEW x \in S PROVE Depth(l, f, x) \in 0 .. n - 1 /\ all[Depth(l, f, x) + 1] = x
  <2>1. PICK k \in 1 .. n : all[k] = x
    BY <1>15
  <2>2. Depth(l, f, x) = k - 1 /\ (k - 1) + 1 = k /\ k - 1 \in 0 .. n - 1
    BY <1>13, <2>1
  <2> QED BY <2>1, <2>2
<1> QED BY <1>4, <1>5, <1>12, <1>13, <1>16 DEF S, all

\* A page shows the rows of certain depths, each once.
LEMMA PageFacts ==
    ASSUME RowsOK, NEW l \in Lists, NEW f, NEW page \in Nat \ {0},
           NEW o \in Nat, o = (page - 1) * PageSize
    PROVE  /\ Page(l, f, page) \in Seq(Nat) /\ IsInjective(Page(l, f, page))
           /\ \A x : x \in ToSet(Page(l, f, page)) <=>
                x \in Listed(l, f) /\ o <= Depth(l, f, x) /\ Depth(l, f, x) < o + PageSize
<1>1. PICK n \in Nat :
        /\ Listed(l, f) \in SUBSET Nat
        /\ Newest(l, f) \in [1 .. n -> Listed(l, f)]
        /\ \A k \in 1 .. n : Depth(l, f, Newest(l, f)[k]) = k - 1
        /\ \A x \in Listed(l, f) :
             Depth(l, f, x) \in 0 .. n - 1 /\ Newest(l, f)[Depth(l, f, x) + 1] = x
  BY NewestFacts
<1>2. PageSize \in Nat \ {0}
  BY PageSizeAssumption
<1>3. Newest(l, f) \in Seq(Nat) /\ Len(Newest(l, f)) = n
  BY <1>1
<1>4. PICK e \in Nat : e = Min({o + PageSize, n}) /\ e <= o + PageSize /\ e <= n
                       /\ (e = n \/ e = o + PageSize)
  <2> DEFINE E == {o + PageSize, n}
  <2>1. \E e \in E : \A y \in E : e <= y
    BY <1>2
  <2>2. Min(E) \in E /\ \A y \in E : Min(E) <= y
    <3> HIDE DEF E
    <3> QED BY <2>1 DEF Min
  <2> QED BY <1>2, <2>2
<1>5. Page(l, f, page) = SubSeq(Newest(l, f), o + 1, e)
  BY <1>3, <1>4 DEF Page, OffsetLimit
<1> DEFINE all == Newest(l, f)
           p == Page(l, f, page)
<1> HIDE DEF all, p
<1>6. /\ p \in Seq(Nat) /\ DOMAIN p = 1 .. Len(p)
      /\ Len(p) = (IF o + 1 <= e THEN e - o ELSE 0)
      /\ \A k \in 1 .. Len(p) : p[k] = all[o + k]
  <2>1. all \in Seq(Nat) /\ p = SubSeq(all, o + 1, e) /\ Len(all) = n
    BY <1>3, <1>5 DEF all, p
  <2>2. \A i \in o + 1 .. e : all[i] \in Nat
    BY <1>4, <2>1
  <2>3. o + 1 \in Int /\ e \in Int
    BY <1>4
  <2>4. /\ p \in Seq(Nat) /\ Len(p) = (IF o + 1 <= e THEN e - (o + 1) + 1 ELSE 0)
        /\ \A i \in 1 .. e - (o + 1) + 1 : p[i] = all[o + 1 + i - 1]
    <3> DEFINE m == o + 1
               q == SubSeq(all, m, e)
    <3>1. m \in Int /\ e \in Int /\ \A i \in m .. e : all[i] \in Nat
      BY <2>2, <2>3
    <3> HIDE DEF m
    <3>2. /\ q \in Seq(Nat) /\ Len(q) = (IF m <= e THEN e - m + 1 ELSE 0)
          /\ \A i \in 1 .. e - m + 1 : q[i] = all[m + i - 1]
      BY <3>1, SubSeqProperties
    <3> HIDE DEF q
    <3>3. p = q
      BY <2>1 DEF q, m
    <3>4. /\ p \in Seq(Nat) /\ Len(p) = (IF m <= e THEN e - m + 1 ELSE 0)
          /\ \A i \in 1 .. e - m + 1 : p[i] = all[m + i - 1]
      BY <3>2, <3>3, Zenon
    <3> QED BY <3>4 DEF m
  <2>5. DOMAIN p = 1 .. Len(p) /\ Len(p) \in Nat
    BY <2>4
  <2>6. Len(p) = (IF o + 1 <= e THEN e - o ELSE 0)
    BY <2>4
  <2>7. ASSUME NEW k \in 1 .. Len(p) PROVE p[k] = all[o + k]
    <3>1. k \in 1 .. e - (o + 1) + 1 /\ o + 1 + k - 1 = o + k
      BY <2>5, <2>6, <2>7
    <3> QED BY <2>4, <3>1
  <2> QED BY <2>4, <2>5, <2>6, <2>7
<1>7. \A k \in 1 .. Len(p) : o + k \in 1 .. n /\ o + k <= o + PageSize
  BY <1>2, <1>4, <1>6
<1>8. \A k \in 1 .. Len(p) : p[k] \in Listed(l, f) /\ Depth(l, f, p[k]) = o + k - 1
  <2> SUFFICES ASSUME NEW k \in 1 .. Len(p)
               PROVE  p[k] \in Listed(l, f) /\ Depth(l, f, p[k]) = o + k - 1
    OBVIOUS
  <2>1. PICK i \in 1 .. n : i = o + k
    BY <1>7
  <2>2. p[k] = all[i]
    BY <1>6, <2>1
  <2>3. all[i] \in Listed(l, f) /\ Depth(l, f, all[i]) = i - 1
    BY <1>1 DEF all
  <2> QED BY <2>1, <2>2, <2>3
<1>9. IsInjective(p)
  <2> SUFFICES ASSUME NEW a \in 1 .. Len(p), NEW b \in 1 .. Len(p), p[a] = p[b] PROVE a = b
    BY <1>6 DEF IsInjective
  <2>1. o + a - 1 = o + b - 1
    BY <1>8
  <2> QED BY <2>1
<1>10. ASSUME NEW x \in ToSet(p)
       PROVE  x \in Listed(l, f) /\ o <= Depth(l, f, x) /\ Depth(l, f, x) < o + PageSize
  <2>1. PICK k \in 1 .. Len(p) : x = p[k]
    BY <1>6 DEF ToSet
  <2>2. x \in Listed(l, f) /\ Depth(l, f, x) = o + k - 1 /\ o + k <= o + PageSize
    BY <1>7, <1>8, <2>1
  <2> QED BY <1>2, <2>2
<1>11. ASSUME NEW x \in Listed(l, f), o <= Depth(l, f, x), Depth(l, f, x) < o + PageSize
       PROVE  x \in ToSet(p)
  <2>1. PICK d \in 0 .. n - 1 : d = Depth(l, f, x) /\ all[d + 1] = x
    BY <1>1 DEF all
  <2>2. d + 1 <= e /\ o + 1 <= e
    BY <1>2, <1>4, <1>11, <2>1
  <2>3. (d + 1) - o \in 1 .. Len(p) /\ o + ((d + 1) - o) = d + 1
    BY <1>4, <1>6, <1>11, <2>1, <2>2
  <2>4. p[(d + 1) - o] = all[d + 1]
    BY <1>6, <2>3
  <2> QED BY <1>6, <2>1, <2>3, <2>4 DEF ToSet
<1> QED BY <1>6, <1>9, <1>10, <1>11 DEF p

Filters == {"all", "active"}

Walks ==
    [step : {"count", "page", "walked"}, list : Lists, filter : Filters, page : Nat \ {0},
     total : Nat, seen : Seq(Nat), start : SUBSET Nat, came : BOOLEAN, went : BOOLEAN,
     late : BOOLEAN]

\* Before the next page is read: while no row went, each one of the start was
\* seen or is still to come; while none came, no row that was seen will come
\* again; and while neither happened since, the total is that of the list.
OnTheWay(w, offset) ==
    /\ ~w.went => \A x \in w.start :
         x \in ToSet(w.seen)
           \/ (x \in Listed(w.list, w.filter) /\ offset <= Depth(w.list, w.filter, x))
    /\ ~w.came =>
         /\ IsInjective(w.seen)
         /\ \A x \in ToSet(w.seen) :
              x \in Listed(w.list, w.filter) => Depth(w.list, w.filter, x) < offset
    /\ w.step = "page" /\ ~w.went /\ ~w.late =>
         Cardinality(Listed(w.list, w.filter)) <= w.total

Walked(w) ==
    /\ w.went \/ w.late \/ w.start \subseteq ToSet(w.seen)
    /\ w.came \/ IsInjective(w.seen)

WalkOK(w) ==
    /\ w \in Walks /\ (w.filter = "active" => w.list = "clients")
    /\ w.step # "walked" => OnTheWay(w, (w.page - 1) * PageSize)
    /\ w.step = "walked" => Walked(w)

\* The inductive invariant
WalkInv == RowsOK /\ (reading = None \/ Reporting \/ WalkOK(reading))

ListsFinite == \A l \in Lists, f \in Filters : IsFiniteSet(Listed(l, f))

LEMMA FiniteLists == RowsOK => ListsFinite
BY NewestFacts DEF ListsFinite

\* What a change does to the rows a query returns
Grows(l, f) ==
    /\ Listed(l, f) \subseteq Listed(l, f)'
    /\ \A x, y \in Listed(l, f) : Newer(l, x, y) => Newer(l, x, y)'

Shrinks(l, f) ==
    /\ Listed(l, f)' \subseteq Listed(l, f)
    /\ \A x, y \in Listed(l, f)' : Newer(l, x, y)' => Newer(l, x, y)

LEMMA DepthGrows ==
    ASSUME RowsOK, RowsOK', NEW l \in Lists, NEW f \in Filters, Grows(l, f),
           NEW x \in Listed(l, f), NEW o \in Nat, o <= Depth(l, f, x)
    PROVE  x \in Listed(l, f)' /\ o <= Depth(l, f, x)'
<1>1. ListsFinite /\ ListsFinite'
  <2>1. RowsOK' => ListsFinite'
    BY FiniteLists, PTL
  <2> QED BY <2>1, FiniteLists
<1>2. Ahead(l, f, x) \subseteq Ahead(l, f, x)'
  BY DEF Grows, Ahead
<1>3. IsFiniteSet(Ahead(l, f, x)) /\ IsFiniteSet(Ahead(l, f, x)')
  <2>1. Ahead(l, f, x) \subseteq Listed(l, f) /\ Ahead(l, f, x)' \subseteq Listed(l, f)'
    BY DEF Ahead
  <2>2. IsFiniteSet(Listed(l, f)) /\ IsFiniteSet(Listed(l, f)')
    BY <1>1 DEF ListsFinite
  <2> QED BY <2>1, <2>2, FS_Subset
<1>4. Depth(l, f, x) <= Depth(l, f, x)'
  BY <1>2, <1>3, FS_Subset DEF Depth
<1>5. Depth(l, f, x) \in Nat /\ Depth(l, f, x)' \in Nat
  BY <1>3, FS_CardinalityType DEF Depth
<1>6. x \in Listed(l, f)'
  BY DEF Grows
<1> QED BY <1>4, <1>5, <1>6

LEMMA DepthShrinks ==
    ASSUME RowsOK, RowsOK', NEW l \in Lists, NEW f \in Filters, Shrinks(l, f),
           NEW x \in Listed(l, f)', NEW o \in Nat, Depth(l, f, x) < o
    PROVE  x \in Listed(l, f) /\ Depth(l, f, x)' < o
<1>1. ListsFinite /\ ListsFinite'
  <2>1. RowsOK' => ListsFinite'
    BY FiniteLists, PTL
  <2> QED BY <2>1, FiniteLists
<1>2. Ahead(l, f, x)' \subseteq Ahead(l, f, x)
  BY DEF Shrinks, Ahead
<1>3. IsFiniteSet(Ahead(l, f, x)) /\ IsFiniteSet(Ahead(l, f, x)')
  <2>1. Ahead(l, f, x) \subseteq Listed(l, f) /\ Ahead(l, f, x)' \subseteq Listed(l, f)'
    BY DEF Ahead
  <2>2. IsFiniteSet(Listed(l, f)) /\ IsFiniteSet(Listed(l, f)')
    BY <1>1 DEF ListsFinite
  <2> QED BY <2>1, <2>2, FS_Subset
<1>4. Depth(l, f, x)' <= Depth(l, f, x)
  BY <1>2, <1>3, FS_Subset DEF Depth
<1>5. Depth(l, f, x) \in Nat /\ Depth(l, f, x)' \in Nat
  BY <1>3, FS_CardinalityType DEF Depth
<1>6. x \in Listed(l, f)
  BY DEF Shrinks
<1> QED BY <1>4, <1>5, <1>6

LEMMA TotalShrinks ==
    ASSUME RowsOK, NEW l \in Lists, NEW f \in Filters, Shrinks(l, f),
           NEW total \in Nat, Cardinality(Listed(l, f)) <= total
    PROVE  Cardinality(Listed(l, f)') <= total
<1>1. IsFiniteSet(Listed(l, f)) /\ Listed(l, f)' \subseteq Listed(l, f)
  BY FiniteLists DEF ListsFinite, Shrinks
<1>2. IsFiniteSet(Listed(l, f)') /\ Cardinality(Listed(l, f)') <= Cardinality(Listed(l, f))
  BY <1>1, FS_Subset
<1>3. Cardinality(Listed(l, f)) \in Nat /\ Cardinality(Listed(l, f)') \in Nat
  BY <1>1, <1>2, FS_CardinalityType
<1> QED BY <1>2, <1>3

\* A change that is noted in a walk: nothing left the pages before a row went,
\* and nothing came to them before one came.
LEMMA WalkKept ==
    ASSUME RowsOK, RowsOK', NEW w, WalkOK(w), NEW came \in BOOLEAN, NEW went \in BOOLEAN,
           ~went => Grows(w.list, w.filter), ~came => Shrinks(w.list, w.filter),
           NEW v, v = [w EXCEPT !.came = @ \/ came, !.went = @ \/ went,
                                !.late = @ \/ (came /\ w.step = "page")]
    PROVE  WalkOK(v)'
<1>1. w \in Walks /\ (w.filter = "active" => w.list = "clients")
  BY DEF WalkOK
<1>2. /\ v \in Walks /\ v.step = w.step /\ v.list = w.list /\ v.filter = w.filter
      /\ v.page = w.page /\ v.total = w.total /\ v.seen = w.seen /\ v.start = w.start
      /\ v.came = (w.came \/ came) /\ v.went = (w.went \/ went)
      /\ v.late = (w.late \/ (came /\ w.step = "page"))
  BY <1>1 DEF Walks
<1>3. ~v.went => ~w.went /\ ~went
  BY <1>2, Zenon
<1>4. ~v.came => ~w.came /\ ~came
  BY <1>2, Zenon
<1>5. w.step = "page" /\ ~v.late => ~w.late /\ ~came
  BY <1>2, Zenon
<1>6. /\ w.list \in Lists /\ w.filter \in Filters /\ w.total \in Nat /\ w.start \in SUBSET Nat
      /\ w.page \in Nat \ {0}
  BY <1>1 DEF Walks
<1>7. PICK o \in Nat : o = (w.page - 1) * PageSize
  <2>1. w.page - 1 \in Nat /\ PageSize \in Nat
    BY <1>6, PageSizeAssumption
  <2> QED BY <2>1
<1>8. CASE w.step = "walked"
  <2>1. Walked(w)
    BY <1>8 DEF WalkOK
  <2>2. Walked(v)
    BY <1>2, <2>1, Zenon DEF Walked
  <2>3. Walked(v)'
    BY <2>2 DEF Walked
  <2> QED BY <1>1, <1>2, <1>8, <2>3 DEF WalkOK
<1>9. CASE w.step # "walked"
  <2>1. OnTheWay(w, o)
    BY <1>7, <1>9 DEF WalkOK
  <2>2. ~v.went => \A x \in w.start :
          x \in ToSet(w.seen)
            \/ (x \in Listed(w.list, w.filter)' /\ o <= Depth(w.list, w.filter, x)')
    BY <1>3, <1>6, <2>1, DepthGrows DEF OnTheWay
  <2>3. ASSUME ~v.came
        PROVE  /\ IsInjective(w.seen)
               /\ \A x \in ToSet(w.seen) :
                    x \in Listed(w.list, w.filter)' => Depth(w.list, w.filter, x)' < o
    <3>1. Shrinks(w.list, w.filter) /\ IsInjective(w.seen)
      BY <1>4, <2>1, <2>3 DEF OnTheWay
    <3>2. ASSUME NEW x \in ToSet(w.seen), x \in Listed(w.list, w.filter)'
          PROVE  Depth(w.list, w.filter, x)' < o
      <4>1. x \in Listed(w.list, w.filter)
        BY <3>1, <3>2 DEF Shrinks
      <4>2. Depth(w.list, w.filter, x) < o
        BY <1>4, <2>1, <2>3, <4>1 DEF OnTheWay
      <4> QED BY <1>6, <3>1, <3>2, <4>2, DepthShrinks
    <3> QED BY <3>1, <3>2
  <2>4. w.step = "page" /\ ~v.went /\ ~v.late => Cardinality(Listed(w.list, w.filter)') <= w.total
    BY <1>3, <1>5, <1>6, <2>1, TotalShrinks DEF OnTheWay
  <2>5. OnTheWay(v, o)'
    BY <1>2, <2>2, <2>3, <2>4 DEF OnTheWay
  <2> QED BY <1>1, <1>2, <1>7, <1>9, <2>5 DEF WalkOK
<1> QED BY <1>8, <1>9

\* A row is put in its place, or taken from it.
LEMMA InsertFacts ==
    ASSUME NEW s \in Seq(Nat), NEW e \in Nat, NEW p \in Nat \ {0}, p <= Len(s) + 1
    PROVE  /\ InsertAt(s, p, e) \in Seq(Nat) /\ Len(InsertAt(s, p, e)) = Len(s) + 1
           /\ \A k \in 1 .. Len(s) + 1 :
                InsertAt(s, p,
                e)[k] = IF k < p THEN s[k] ELSE IF k = p THEN e ELSE s[k - 1]
<1>1. PICK n \in Nat : n = Len(s)
  OBVIOUS
<1> DEFINE a == SubSeq(s, 1, p - 1)
           b == SubSeq(s, p, n)
           t == (a \o <<e>>) \o b
<1>2. a \in Seq(Nat) /\ Len(a) = p - 1 /\ \A i \in 1 .. p - 1 : a[i] = s[i]
  <2>1. \A i \in 1 .. p - 1 : s[i] \in Nat
    BY <1>1
  <2>2. 1 \in Int /\ p - 1 \in Int
    OBVIOUS
  <2>3. /\ a \in Seq(Nat) /\ Len(a) = (IF 1 <= p - 1 THEN p - 1 - 1 + 1 ELSE 0)
        /\ \A i \in 1 .. p - 1 - 1 + 1 : a[i] = s[1 + i - 1]
    BY <2>1, <2>2, SubSeqProperties
  <2> HIDE DEF a
  <2>4. Len(a) = p - 1
    BY <2>3
  <2>5. ASSUME NEW i \in 1 .. p - 1 PROVE a[i] = s[i]
    <3>1. i \in 1 .. p - 1 - 1 + 1 /\ 1 + i - 1 = i
      OBVIOUS
    <3> QED BY <2>3, <3>1
  <2> QED BY <2>3, <2>4, <2>5
<1>3. b \in Seq(Nat) /\ Len(b) = n - p + 1 /\ \A i \in 1 .. n - p + 1 : b[i] = s[p + i - 1]
  <2>1. \A i \in p .. n : s[i] \in Nat
    BY <1>1
  <2>2. p \in Int /\ n \in Int
    OBVIOUS
  <2>3. /\ b \in Seq(Nat) /\ Len(b) = (IF p <= n THEN n - p + 1 ELSE 0)
        /\ \A i \in 1 .. n - p + 1 : b[i] = s[p + i - 1]
    BY <2>1, <2>2, SubSeqProperties
  <2> HIDE DEF b
  <2> QED BY <1>1, <2>3
<1>4. InsertAt(s, p, e) = t
  BY <1>1 DEF InsertAt
<1> HIDE DEF a, b
<1>5. /\ a \o <<e>> \in Seq(Nat) /\ Len(a \o <<e>>) = p
      /\ \A i \in 1 .. p : (a \o <<e>>)[i] = IF i <= p - 1 THEN a[i] ELSE e
  <2>1. <<e>> \in Seq(Nat) /\ Len(<<e>>) = 1 /\ <<e>>[1] = e
    OBVIOUS
  <2>2. /\ a \o <<e>> \in Seq(Nat) /\ Len(a \o <<e>>) = Len(a) + 1
        /\ \A i \in 1 .. Len(a) + 1 :
             (a \o <<e>>)[i] = IF i <= Len(a) THEN a[i] ELSE <<e>>[i - Len(a)]
    BY <1>2, <2>1, ConcatProperties
  <2>3. ASSUME NEW i \in 1 .. p PROVE (a \o <<e>>)[i] = IF i <= p - 1 THEN a[i] ELSE e
    <3>1. i \in 1 .. Len(a) + 1
      BY <1>2
    <3>2. CASE i <= p - 1
      BY <1>2, <2>2, <3>1, <3>2
    <3>3. CASE i = p
      <4>1. i - Len(a) = 1 /\ ~(i <= Len(a)) /\ ~(i <= p - 1)
        BY <1>2, <3>3
      <4>2. (a \o <<e>>)[i] = <<e>>[i - Len(a)]
        BY <2>2, <3>1, <4>1
      <4>3. <<e>>[i - Len(a)] = e
        BY <2>1, <4>1
      <4> QED BY <4>1, <4>2, <4>3
    <3>4. i <= p - 1 \/ i = p
      OBVIOUS
    <3> HIDE DEF a
    <3> QED BY <3>2, <3>3, <3>4
  <2> QED BY <1>2, <2>2, <2>3
<1> DEFINE c == a \o <<e>>
<1>6. c \in Seq(Nat) /\ Len(c) = p /\ t = c \o b
      /\ \A i \in 1 .. p : c[i] = IF i <= p - 1 THEN a[i] ELSE e
  BY <1>5
<1> HIDE DEF c, t
<1>7. /\ t \in Seq(Nat) /\ Len(t) = p + Len(b)
      /\ \A k \in 1 .. p + Len(b) : t[k] = IF k <= p THEN c[k] ELSE b[k - p]
  BY <1>3, <1>6, ConcatProperties
<1>8. Len(t) = n + 1
  BY <1>3, <1>7
<1>9. ASSUME NEW k \in 1 .. n + 1
      PROVE  t[k] = IF k < p THEN s[k] ELSE IF k = p THEN e ELSE s[k - 1]
  <2>1. k \in 1 .. p + Len(b)
    BY <1>3
  <2>2. CASE k < p
    <3>1. k \in 1 .. p /\ k \in 1 .. p - 1 /\ k <= p /\ k <= p - 1
      BY <2>2
    <3>2. t[k] = c[k]
      BY <1>7, <2>1, <3>1
    <3>3. c[k] = a[k]
      BY <1>6, <3>1
    <3>4. a[k] = s[k]
      BY <1>2, <3>1
    <3> QED BY <2>2, <3>2, <3>3, <3>4
  <2>3. CASE k = p
    <3>1. k \in 1 .. p /\ ~(k <= p - 1)
      BY <2>3
    <3> QED BY <1>6, <1>7, <2>1, <2>3, <3>1
  <2>4. CASE k > p
    <3>1. k - p \in 1 .. n - p + 1 /\ p + (k - p) - 1 = k - 1
      BY <2>4
    <3>2. t[k] = b[k - p]
      BY <1>7, <2>1, <2>4
    <3> QED BY <1>3, <2>4, <3>1, <3>2
  <2> QED BY <2>2, <2>3, <2>4
<1> QED BY <1>1, <1>4, <1>7, <1>8, <1>9

LEMMA RemoveFacts ==
    ASSUME NEW s \in Seq(Nat), NEW p \in 1 .. Len(s)
    PROVE  /\ RemoveAt(s, p) \in Seq(Nat) /\ Len(RemoveAt(s, p)) = Len(s) - 1
           /\ \A k \in 1 .. Len(s) - 1 :
                RemoveAt(s, p)[k] = IF k < p THEN s[k] ELSE s[k + 1]
<1>1. PICK n \in Nat : n = Len(s) /\ p <= n
  OBVIOUS
<1> DEFINE a == SubSeq(s, 1, p - 1)
           b == SubSeq(s, p + 1, n)
           t == a \o b
<1>2. a \in Seq(Nat) /\ Len(a) = p - 1 /\ \A i \in 1 .. p - 1 : a[i] = s[i]
  <2>1. \A i \in 1 .. p - 1 : s[i] \in Nat
    BY <1>1
  <2>2. 1 \in Int /\ p - 1 \in Int
    BY <1>1
  <2>3. /\ a \in Seq(Nat) /\ Len(a) = (IF 1 <= p - 1 THEN p - 1 - 1 + 1 ELSE 0)
        /\ \A i \in 1 .. p - 1 - 1 + 1 : a[i] = s[1 + i - 1]
    BY <2>1, <2>2, SubSeqProperties
  <2> HIDE DEF a
  <2>4. Len(a) = p - 1
    BY <1>1, <2>3
  <2>5. ASSUME NEW i \in 1 .. p - 1 PROVE a[i] = s[i]
    <3>1. i \in 1 .. p - 1 - 1 + 1 /\ 1 + i - 1 = i
      BY <1>1
    <3> QED BY <2>3, <3>1
  <2> QED BY <2>3, <2>4, <2>5
<1>3. b \in Seq(Nat) /\ Len(b) = n - p /\ \A i \in 1 .. n - p : b[i] = s[p + i]
  <2>1. \A i \in p + 1 .. n : s[i] \in Nat
    BY <1>1
  <2>2. p + 1 \in Int /\ n \in Int
    BY <1>1
  <2>3. /\ b \in Seq(Nat) /\ Len(b) = (IF p + 1 <= n THEN n - (p + 1) + 1 ELSE 0)
        /\ \A i \in 1 .. n - (p + 1) + 1 : b[i] = s[p + 1 + i - 1]
    BY <2>1, <2>2, SubSeqProperties
  <2> HIDE DEF b
  <2>4. Len(b) = n - p
    BY <1>1, <2>3
  <2>5. ASSUME NEW i \in 1 .. n - p PROVE b[i] = s[p + i]
    <3>1. i \in 1 .. n - (p + 1) + 1 /\ p + 1 + i - 1 = p + i
      BY <1>1
    <3> QED BY <2>3, <3>1
  <2> QED BY <2>3, <2>4, <2>5
<1>4. RemoveAt(s, p) = t
  BY <1>1 DEF RemoveAt
<1> HIDE DEF a, b
<1>5. /\ t \in Seq(Nat) /\ Len(t) = Len(a) + Len(b)
      /\ \A k \in 1 .. Len(a) + Len(b) : t[k] = IF k <= Len(a) THEN a[k] ELSE b[k - Len(a)]
  BY <1>2, <1>3, ConcatProperties
<1> HIDE DEF t
<1>6. Len(t) = n - 1
  BY <1>1, <1>2, <1>3, <1>5
<1>7. ASSUME NEW k \in 1 .. n - 1 PROVE t[k] = IF k < p THEN s[k] ELSE s[k + 1]
  <2>1. k \in 1 .. Len(a) + Len(b)
    BY <1>1, <1>2, <1>3
  <2>2. CASE k < p
    <3>1. k \in 1 .. p - 1 /\ k <= Len(a)
      BY <1>1, <1>2, <2>2
    <3> QED BY <1>2, <1>5, <2>1, <2>2, <3>1
  <2>3. CASE k >= p
    <3>1. k - Len(a) \in 1 .. n - p /\ p + (k - Len(a)) = k + 1 /\ ~(k <= Len(a)) /\ ~(k < p)
      BY <1>1, <1>2, <2>3
    <3>2. t[k] = b[k - Len(a)]
      BY <1>5, <2>1, <3>1
    <3> QED BY <1>3, <3>1, <3>2
  <2> QED BY <1>1, <2>2, <2>3
<1> QED BY <1>1, <1>4, <1>5, <1>6, <1>7

\* A row comes: those that were there keep their order.
LEMMA RowComes ==
    ASSUME RowsOK, NEW list \in Lists, Create(list)
    PROVE  /\ RowsOK'
           /\ \A f \in Filters : Grows(list, f)
           /\ \A l \in Lists \ {list} : rows'[l] = rows[l]
           /\ list # "clients" => active' = active
<1>1. /\ rowsMade' = rowsMade + 1
      /\ active' = IF list = "clients" THEN active \cup {rowsMade'} ELSE active
  BY Zenon DEF Create
<1>2. PICK p \in {Len(rows[list]), Len(rows[list]) + 1} \ {0} :
        rows' = [rows EXCEPT ![list] = InsertAt(@, p, rowsMade')]
  BY DEF Create
<1> DEFINE s == rows[list]
           t == InsertAt(s, p, rowsMade')
<1>3. /\ s \in Seq(Nat) /\ rowsMade \in Nat /\ DOMAIN s = 1 .. Len(s)
      /\ \A i \in DOMAIN s : s[i] \in Nat /\ s[i] <= rowsMade
      /\ \A i, j \in DOMAIN s : s[i] = s[j] => i = j
  BY DEF RowsOK
<1>4. PICK n \in Nat : n = Len(s)
  BY <1>3
<1>5. rowsMade' \in Nat /\ p \in Nat \ {0} /\ p <= n + 1
  BY <1>1, <1>2, <1>3, <1>4
<1>6. /\ t \in Seq(Nat) /\ Len(t) = n + 1
      /\ \A k \in 1 .. n + 1 :
           t[k] = IF k < p THEN s[k] ELSE IF k = p THEN rowsMade' ELSE s[k - 1]
  <2> HIDE DEF s
  <2>1. PICK e \in Nat : e = rowsMade'
    BY <1>5
  <2>2. p <= Len(s) + 1 /\ Len(s) = n /\ s \in Seq(Nat)
    BY <1>3, <1>4, <1>5
  <2>3. /\ InsertAt(s, p, e) \in Seq(Nat) /\ Len(InsertAt(s, p, e)) = Len(s) + 1
        /\ \A k \in 1 .. Len(s) + 1 :
             InsertAt(s, p,
             e)[k] = IF k < p THEN s[k] ELSE IF k = p THEN e ELSE s[k - 1]
    <3> HIDE DEF t
    <3>1. p \in Nat \ {0} /\ s \in Seq(Nat) /\ p <= Len(s) + 1
      BY <1>5, <2>2
    <3> QED BY <3>1, InsertFacts
  <2>4. t = InsertAt(s, p, e) /\ n + 1 = Len(s) + 1
    BY <2>1, <2>2
  <2> HIDE DEF t
  <2> QED BY <2>1, <2>3, <2>4
<1>7. rows' = [rows EXCEPT ![list] = t] /\ rows \in [Lists -> Seq(Nat)]
  BY <1>2 DEF RowsOK
<1> HIDE DEF s, t
<1>8. rows'[list] = t /\ \A l \in Lists \ {list} : rows'[l] = rows[l]
  BY <1>7
<1>9. DOMAIN t = 1 .. n + 1
  BY <1>6
<1>10. RowsOK'
  <2>1. rows' \in [Lists -> Seq(Nat)] /\ rowsMade' \in Nat
    BY <1>5, <1>6, <1>7
  <2> DEFINE from(k) == IF k < p THEN k ELSE k - 1
  <2>a. ASSUME NEW k \in DOMAIN t, k # p
        PROVE  from(k) \in DOMAIN s /\ t[k] = s[from(k)] /\ t[k] \in Nat /\ t[k] <= rowsMade
    <3>1. k \in 1 .. n + 1 /\ (k < p \/ k > p)
      BY <1>5, <1>9, <2>a
    <3>2. from(k) \in DOMAIN s
      BY <1>3, <1>4, <1>5, <3>1
    <3>3. t[k] = s[from(k)]
      BY <1>5, <1>6, <3>1
    <3> HIDE DEF from
    <3> QED BY <1>3, <3>2, <3>3
  <2>b. p \in DOMAIN t => t[p] = rowsMade'
    BY <1>5, <1>6, <1>9
  <2>2. ASSUME NEW i \in DOMAIN t PROVE t[i] <= rowsMade'
    <3>1. CASE i = p
      BY <1>5, <2>b, <3>1
    <3>2. CASE i # p
      BY <1>1, <1>3, <2>a, <3>2
    <3> QED BY <3>1, <3>2
  <2>3. ASSUME NEW i \in DOMAIN t, NEW j \in DOMAIN t, t[i] = t[j] PROVE i = j
    <3>1. CASE i # p /\ j # p
      <4>1. from(i) \in DOMAIN s /\ from(j) \in DOMAIN s /\ s[from(i)] = s[from(j)]
        BY <2>3, <2>a, <3>1
      <4>2. from(i) = from(j)
        BY <1>3, <4>1
      <4> QED BY <1>5, <1>9, <3>1, <4>2
    <3>2. CASE i = p /\ j # p
      <4>1. t[j] <= rowsMade /\ t[j] \in Nat /\ t[i] = rowsMade + 1
        BY <1>1, <2>a, <2>b, <3>2
      <4> QED BY <1>3, <2>3, <4>1
    <3>3. CASE i # p /\ j = p
      <4>1. t[i] <= rowsMade /\ t[i] \in Nat /\ t[j] = rowsMade + 1
        BY <1>1, <2>a, <2>b, <3>3
      <4> QED BY <1>3, <2>3, <4>1
    <3> QED BY <3>1, <3>2, <3>3
  <2>4. ASSUME NEW l \in Lists
        PROVE  /\ \A i \in DOMAIN rows'[l] : rows'[l][i] <= rowsMade'
               /\ \A i, j \in DOMAIN rows'[l] : rows'[l][i] = rows'[l][j] => i = j
    <3>1. CASE l = list
      BY <1>8, <2>2, <2>3, <3>1
    <3>2. CASE l # list
      <4>1. rows'[l] = rows[l] /\ rows[l] \in Seq(Nat)
        BY <1>7, <1>8, <3>2
      <4>2. \A i \in DOMAIN rows[l] : rows[l][i] \in Nat
        BY <4>1
      <4>3. \A i \in DOMAIN rows[l] : rows[l][i] <= rowsMade
        BY DEF RowsOK
      <4>4. \A i \in DOMAIN rows[l] : rows[l][i] <= rowsMade'
        BY <1>1, <1>3, <4>2, <4>3
      <4>5. \A i, j \in DOMAIN rows[l] : rows[l][i] = rows[l][j] => i = j
        BY DEF RowsOK
      <4> QED BY <4>1, <4>4, <4>5
    <3> QED BY <3>1, <3>2
  <2> QED BY <2>1, <2>4 DEF RowsOK
<1>11. \A i \in DOMAIN s :
         /\ (IF i < p THEN i ELSE i + 1) \in DOMAIN t
         /\ t[IF i < p THEN i ELSE i + 1] = s[i]
  BY <1>3, <1>4, <1>5, <1>6, <1>9
<1>12. ASSUME NEW f \in Filters PROVE Grows(list, f)
  <2>1. ToSet(rows[list]) \subseteq ToSet(rows[list])'
    BY <1>8, <1>11 DEF ToSet, s
  <2>2. active \subseteq active'
    BY <1>1
  <2>3. Listed(list, f) \subseteq Listed(list, f)'
    BY <2>1, <2>2 DEF Listed
  <2>4. ASSUME NEW x, NEW y, Newer(list, x, y) PROVE Newer(list, x, y)'
    <3>1. PICK i \in DOMAIN s, j \in DOMAIN s : i > j /\ s[i] = x /\ s[j] = y
      BY <2>4 DEF Newer, s
    <3> DEFINE a == IF i < p THEN i ELSE i + 1
               b == IF j < p THEN j ELSE j + 1
    <3>2. a \in DOMAIN t /\ b \in DOMAIN t /\ t[a] = x /\ t[b] = y
      BY <1>11, <3>1
    <3>3. a > b
      BY <1>3, <1>4, <1>5, <3>1
    <3> QED BY <1>8, <3>2, <3>3 DEF Newer
  <2> QED BY <2>3, <2>4 DEF Grows
<1>13. list # "clients" => active' = active
  BY <1>1
<1> QED BY <1>8, <1>10, <1>12, <1>13

\* A row goes: those that stay keep their order.
LEMMA RowGoes ==
    ASSUME RowsOK, NEW p \in DOMAIN rows["clients"], DeleteClient(p)
    PROVE  /\ RowsOK'
           /\ \A f \in Filters : Shrinks("clients", f)
           /\ \A l \in Lists \ {"clients"} : rows'[l] = rows[l]
<1>1. /\ rowsMade' = rowsMade /\ active' \subseteq active
      /\ rows' = [rows EXCEPT !["clients"] = RemoveAt(@, p)]
  BY DEF DeleteClient
<1> DEFINE s == rows["clients"]
           t == RemoveAt(s, p)
<1>2. /\ s \in Seq(Nat) /\ rowsMade \in Nat /\ DOMAIN s = 1 .. Len(s) /\ "clients" \in Lists
      /\ \A i \in DOMAIN s : s[i] <= rowsMade
      /\ \A i, j \in DOMAIN s : s[i] = s[j] => i = j
  BY DEF RowsOK, Lists
<1>3. PICK n \in Nat : n = Len(s)
  BY <1>2
<1>4. p \in 1 .. n
  BY <1>2, <1>3
<1>5. /\ t \in Seq(Nat) /\ Len(t) = n - 1
      /\ \A k \in 1 .. n - 1 : t[k] = IF k < p THEN s[k] ELSE s[k + 1]
  <2> HIDE DEF s
  <2> QED BY <1>2, <1>3, <1>4, RemoveFacts
<1>6. rows' = [rows EXCEPT !["clients"] = t] /\ rows \in [Lists -> Seq(Nat)]
  BY <1>1 DEF RowsOK
<1> HIDE DEF s, t
<1>7. rows'["clients"] = t /\ \A l \in Lists \ {"clients"} : rows'[l] = rows[l]
  BY <1>2, <1>6
<1>8. DOMAIN t = 1 .. n - 1
  BY <1>5
<1>9. \A k \in DOMAIN t :
        /\ (IF k < p THEN k ELSE k + 1) \in DOMAIN s
        /\ t[k] = s[IF k < p THEN k ELSE k + 1]
  BY <1>2, <1>3, <1>4, <1>5, <1>8
<1>10. RowsOK'
  <2>1. rows' \in [Lists -> Seq(Nat)] /\ rowsMade' \in Nat
    BY <1>1, <1>2, <1>5, <1>6
  <2>2. \A i \in DOMAIN t : t[i] <= rowsMade
    BY <1>2, <1>9
  <2>3. ASSUME NEW i \in DOMAIN t, NEW j \in DOMAIN t, t[i] = t[j] PROVE i = j
    <3> DEFINE a == IF i < p THEN i ELSE i + 1
               b == IF j < p THEN j ELSE j + 1
    <3>1. a = b
      BY <1>2, <1>9, <2>3
    <3> QED BY <1>4, <1>8, <3>1
  <2> QED BY <1>1, <1>7, <2>1, <2>2, <2>3 DEF RowsOK
<1>11. ASSUME NEW f \in Filters PROVE Shrinks("clients", f)
  <2>1. ToSet(rows["clients"])' \subseteq ToSet(rows["clients"])
    BY <1>7, <1>9 DEF ToSet, s
  <2>2. Listed("clients", f)' \subseteq Listed("clients", f)
    BY <1>1, <2>1 DEF Listed
  <2>3. ASSUME NEW x, NEW y, Newer("clients", x, y)' PROVE Newer("clients", x, y)
    <3>1. PICK i \in DOMAIN t, j \in DOMAIN t : i > j /\ t[i] = x /\ t[j] = y
      BY <1>7, <2>3 DEF Newer
    <3> DEFINE a == IF i < p THEN i ELSE i + 1
               b == IF j < p THEN j ELSE j + 1
    <3>2. a \in DOMAIN s /\ b \in DOMAIN s /\ s[a] = x /\ s[b] = y
      BY <1>9, <3>1
    <3>3. a > b
      BY <1>4, <1>8, <3>1
    <3> QED BY <3>2, <3>3 DEF Newer, s
  <2> QED BY <2>2, <2>3 DEF Shrinks
<1> QED BY <1>7, <1>10, <1>11

\* What a change has to do with a walk through one of the lists
Touches(w, list, came, went) ==
    /\ w.list = list =>
         (~went => Grows(w.list, w.filter)) /\ (~came => Shrinks(w.list, w.filter))
    /\ w.list # list => Grows(w.list, w.filter) /\ Shrinks(w.list, w.filter)

LEMMA NotedInWalk ==
    ASSUME AdminInv, AdminInv', WalkInv, RowsOK',
           NEW list, NEW came \in BOOLEAN, NEW went \in BOOLEAN, NoteChange(list, came, went),
           \A w \in Walks : w = reading /\ WalkOK(w) => Touches(w, list, came, went)
    PROVE  WalkInv'
<1>1. reading = None \/ Reporting \/ WalkOK(reading)
  BY DEF WalkInv
<1>2. CASE reading = None
  BY <1>2 DEF NoteChange, WalkInv
<1>3. CASE reading # None /\ Reporting
  <2>1. reading.step = "report"
    BY <1>3 DEF Reporting
  <2>2. reading'.step = "report"
    BY <1>3, <2>1 DEF NoteChange, Reporting
  <2>3. reading' = None \/ Walking' \/ Reporting'
    BY DEF AdminInv, AdminTypes
  <2> QED BY <2>2, <2>3 DEF Walking, WalkInv
<1>4. CASE reading # None /\ WalkOK(reading)
  <2>1. PICK w \in Walks : w = reading /\ WalkOK(w)
    BY <1>4 DEF WalkOK
  <2>2. w.step # "report" /\ Touches(w, list, came, went)
    BY <2>1 DEF Walks
  <2>3. CASE w.list = list
    <3>1. PICK v : v = [w EXCEPT !.came = @ \/ came, !.went = @ \/ went,
                                 !.late = @ \/ (came /\ w.step = "page")]
      OBVIOUS
    <3>2. reading' = v
      BY <1>4, <2>1, <2>2, <2>3, <3>1 DEF NoteChange
    <3>3. WalkOK(v)'
      <4>1. (~went => Grows(w.list, w.filter)) /\ (~came => Shrinks(w.list, w.filter))
        BY <2>2, <2>3 DEF Touches
      <4>2. RowsOK
        BY DEF WalkInv
      <4> QED BY <2>1, <3>1, <4>1, <4>2, WalkKept
    <3>4. WalkOK(reading)'
      BY <3>2, <3>3 DEF WalkOK, OnTheWay, Walked
    <3> QED BY <3>4 DEF WalkInv
  <2>4. CASE w.list # list
    <3>1. reading' = w
      BY <1>4, <2>1, <2>2, <2>4 DEF NoteChange
    <3>2. Grows(w.list, w.filter) /\ Shrinks(w.list, w.filter)
      BY <2>2, <2>4 DEF Touches
    <3>3. PICK v : v = [w EXCEPT !.came = @ \/ FALSE, !.went = @ \/ FALSE,
                                 !.late = @ \/ (FALSE /\ w.step = "page")]
      OBVIOUS
    <3>4. v = w
      BY <2>1, <3>3 DEF Walks
    <3>5. WalkOK(v)'
      <4>1. RowsOK
        BY DEF WalkInv
      <4> QED BY <2>1, <3>2, <3>3, <4>1, WalkKept
    <3>6. WalkOK(reading)'
      BY <3>1, <3>4, <3>5 DEF WalkOK, OnTheWay, Walked
    <3> QED BY <3>6 DEF WalkInv
  <2> QED BY <2>3, <2>4
<1> QED BY <1>1, <1>2, <1>3, <1>4

\* What a query returns stays if its list does, and the flags, when it asks for them.
LEMMA ListStays ==
    ASSUME NEW l, NEW f \in Filters, rows'[l] = rows[l],
           f = "all" \/ active' = active
    PROVE  Grows(l, f) /\ Shrinks(l, f)
<1>1. \A x, y : Newer(l, x, y)' <=> Newer(l, x, y)
  BY DEF Newer
<1>2. Listed(l, f)' = Listed(l, f)
  BY DEF Listed
<1> QED BY <1>1, <1>2 DEF Grows, Shrinks

\* The same step of the reader twice shows nothing new: nothing of the lists
\* has changed.
LEMMA WalkStays ==
    ASSUME WalkInv, UNCHANGED <<rows, active, rowsMade, reading>>
    PROVE  WalkInv'
<1>1. RowsOK'
  BY DEF WalkInv, RowsOK
<1>2. \A l, f, x : Listed(l, f)' = Listed(l, f) /\ Depth(l, f, x)' = Depth(l, f, x)
  <2>1. \A l, x, y : Newer(l, x, y)' <=> Newer(l, x, y)
    BY DEF Newer
  <2>2. \A l, f : Listed(l, f)' = Listed(l, f)
    BY DEF Listed
  <2>3. \A l, f, x : Ahead(l, f, x)' = Ahead(l, f, x)
    BY <2>1, <2>2 DEF Ahead
  <2> QED BY <2>2, <2>3 DEF Depth
<1>3. Reporting => Reporting'
  BY DEF Reporting
<1>4. WalkOK(reading) => WalkOK(reading)'
  BY <1>2 DEF WalkOK, OnTheWay, Walked
<1> QED BY <1>1, <1>3, <1>4 DEF WalkInv

\* Rows come, go, change their places and their flags.
LEMMA OthersLeaveWalk ==
    ASSUME AdminInv, AdminInv', WalkInv,
           \/ \E l \in Lists : Create(l)
           \/ \E i \in DOMAIN rows["clients"] :
                DeleteClient(i) \/ Toggle(rows["clients"][i])
           \/ \E a \in ClientAccounts, held \in 0 .. 3 : Hold(a, held)
    PROVE  WalkInv'
<1>1. RowsOK
  BY DEF WalkInv
<1>2. \A w \in Walks : w.list \in Lists /\ w.filter \in Filters
  BY DEF Walks
<1>3. ASSUME NEW l \in Lists, Create(l) PROVE WalkInv'
  <2>1. /\ RowsOK' /\ \A f \in Filters : Grows(l, f)
        /\ \A k \in Lists \ {l} : rows'[k] = rows[k]
        /\ l # "clients" => active' = active
    BY <1>1, <1>3, RowComes
  <2>2. NoteChange(l, TRUE, FALSE)
    BY <1>3, Zenon DEF Create
  <2>3. ASSUME NEW w \in Walks, WalkOK(w) PROVE Touches(w, l, TRUE, FALSE)
    <3>1. w.list \in Lists /\ w.filter \in Filters /\ (w.filter = "active" => w.list = "clients")
      BY <1>2, <2>3 DEF WalkOK
    <3>2. ASSUME w.list # l PROVE Grows(w.list, w.filter) /\ Shrinks(w.list, w.filter)
      BY <2>1, <3>1, <3>2, ListStays DEF Filters
    <3> QED BY <2>1, <3>1, <3>2 DEF Touches
  <2> QED BY <2>1, <2>2, <2>3, NotedInWalk
<1>4. ASSUME NEW i \in DOMAIN rows["clients"], DeleteClient(i) PROVE WalkInv'
  <2>1. /\ RowsOK' /\ \A f \in Filters : Shrinks("clients", f)
        /\ \A k \in Lists \ {"clients"} : rows'[k] = rows[k]
    BY <1>1, <1>4, RowGoes
  <2>2. NoteChange("clients", FALSE, TRUE)
    BY <1>4, Zenon DEF DeleteClient
  <2>3. ASSUME NEW w \in Walks, WalkOK(w) PROVE Touches(w, "clients", FALSE, TRUE)
    <3>1. w.list \in Lists /\ w.filter \in Filters /\ (w.filter = "active" => w.list = "clients")
      BY <1>2, <2>3 DEF WalkOK
    <3>2. ASSUME w.list # "clients" PROVE Grows(w.list, w.filter) /\ Shrinks(w.list, w.filter)
      BY <2>1, <3>1, <3>2, ListStays DEF Filters
    <3> QED BY <2>1, <3>1, <3>2 DEF Touches
  <2> QED BY <2>1, <2>2, <2>3, NotedInWalk
<1>5. ASSUME NEW i \in DOMAIN rows["clients"], Toggle(rows["clients"][i]) PROVE WalkInv'
  <2> DEFINE id == rows["clients"][i]
  <2>1. /\ UNCHANGED <<rows, rowsMade>>
        /\ active' = IF id \in active THEN active \ {id} ELSE active \cup {id}
        /\ IF reading # None /\ reading.step # "report" /\ reading.filter = "active"
             THEN NoteChange("clients", id \notin active, id \in active)
             ELSE UNCHANGED reading
    BY <1>5, Zenon DEF Toggle
  <2> HIDE DEF id
  <2>2. RowsOK'
    BY <1>1, <2>1 DEF RowsOK
  <2>3. \A l, x, y : Newer(l, x, y)' <=> Newer(l, x, y)
    BY <2>1 DEF Newer
  <2>4. CASE reading # None /\ reading.step # "report" /\ reading.filter = "active"
    <3>1. NoteChange("clients", id \notin active, id \in active)
      BY <2>1, <2>4
    <3>2. id \in active => \A f \in Filters : Shrinks("clients", f)
      <4>1. id \in active => active' \subseteq active
        BY <2>1
      <4>2. id \in active => \A f \in Filters : Listed("clients", f)' \subseteq Listed("clients", f)
        BY <2>1, <4>1 DEF Listed
      <4> QED BY <2>3, <4>2 DEF Shrinks
    <3>3. id \notin active => \A f \in Filters : Grows("clients", f)
      <4>1. id \notin active => active \subseteq active'
        BY <2>1
      <4>2. id \notin active =>
              \A f \in Filters : Listed("clients", f) \subseteq Listed("clients", f)'
        BY <2>1, <4>1 DEF Listed
      <4> QED BY <2>3, <4>2 DEF Grows
    <3>4. ASSUME NEW w \in Walks, w = reading, WalkOK(w)
          PROVE  Touches(w, "clients", id \notin active, id \in active)
      <4>1. w.list = "clients" /\ w.filter \in Filters
        BY <1>2, <2>4, <3>4 DEF WalkOK
      <4> QED BY <3>2, <3>3, <4>1 DEF Touches
    <3>5. (id \notin active) \in BOOLEAN /\ (id \in active) \in BOOLEAN
      OBVIOUS
    <3> QED BY <2>2, <3>1, <3>4, <3>5, NotedInWalk
  <2>5. CASE ~(reading # None /\ reading.step # "report" /\ reading.filter = "active")
    <3>1. reading' = reading
      BY <2>1, <2>5
    <3>2. CASE reading = None \/ Reporting
      BY <2>2, <3>1, <3>2 DEF WalkInv, Reporting
    <3>3. CASE reading # None /\ WalkOK(reading)
      <4>1. reading.step # "report" /\ reading.filter \in Filters /\ reading \in Walks
        BY <3>3 DEF WalkOK, Walks
      <4>2. reading.filter = "all"
        BY <2>5, <3>3, <4>1 DEF Filters
      <4>3. \A l : Listed(l, "all")' = Listed(l, "all")
        BY <2>1 DEF Listed
      <4>4. \A l, x : Depth(l, "all", x)' = Depth(l, "all", x)
        BY <2>3, <4>3 DEF Depth, Ahead
      <4>5. WalkOK(reading)'
        BY <3>1, <3>3, <4>2, <4>3, <4>4 DEF WalkOK, OnTheWay, Walked
      <4> QED BY <2>2, <4>5 DEF WalkInv
    <3> QED BY <3>2, <3>3 DEF WalkInv
  <2> QED BY <2>4, <2>5
<1>6. ASSUME NEW a \in ClientAccounts, NEW held \in 0 .. 3, Hold(a, held) PROVE WalkInv'
  <2>1. /\ UNCHANGED <<rows, active, rowsMade>>
        /\ NoteChange("holdings", held > holdings[a], held < holdings[a])
    BY <1>6, Zenon DEF Hold
  <2>2. RowsOK'
    BY <1>1, <2>1 DEF RowsOK
  <2>3. ASSUME NEW w \in Walks
        PROVE  Touches(w, "holdings", held > holdings[a], held < holdings[a])
    <3>1. w.list \in Lists /\ w.filter \in Filters /\ w.list # "holdings"
      BY <1>2 DEF Lists
    <3>2. Grows(w.list, w.filter) /\ Shrinks(w.list, w.filter)
      BY <2>1, <3>1, ListStays
    <3> QED BY <3>1, <3>2 DEF Touches
  <2>4. (held > holdings[a]) \in BOOLEAN /\ (held < holdings[a]) \in BOOLEAN
    BY SMT
  <2> QED BY <2>1, <2>2, <2>3, <2>4, NotedInWalk
<1> QED BY <1>3, <1>4, <1>5, <1>6

\* A walk begins with nothing seen, before the first page.
LEMMA WalkBegins ==
    ASSUME WalkInv, NEW l \in Lists, NEW f \in Filters, Walk(l, f)
    PROVE  WalkInv'
<1>1. /\ reading' = [step |-> "count", list |-> l, filter |-> f, page |-> 1,
                     total |-> 0, seen |-> <<>>, start |-> ToSet(Newest(l, f)),
                     came |-> FALSE, went |-> FALSE, late |-> FALSE]
      /\ UNCHANGED <<rows, active, rowsMade>> /\ (f = "active" => l = "clients")
  BY DEF Walk
<1>2. RowsOK /\ RowsOK'
  BY <1>1 DEF WalkInv, RowsOK
<1>3. PICK n \in Nat :
        /\ Listed(l, f) \in SUBSET Nat
        /\ Newest(l, f) \in [1 .. n -> Listed(l, f)]
        /\ \A x \in Listed(l, f) :
             Depth(l, f, x) \in 0 .. n - 1 /\ Newest(l, f)[Depth(l, f, x) + 1] = x
  BY <1>2, NewestFacts
<1>4. ToSet(Newest(l, f)) = Listed(l, f)
  <2>1. \A k \in 1 .. n : Newest(l, f)[k] \in Listed(l, f)
    BY <1>3
  <2>2. ASSUME NEW x \in Listed(l, f) PROVE \E k \in 1 .. n : x = Newest(l, f)[k]
    <3>1. PICK d \in 0 .. n - 1 : Newest(l, f)[d + 1] = x
      BY <1>3
    <3>2. d + 1 \in 1 .. n
      OBVIOUS
    <3> QED BY <3>1, <3>2
  <2>3. DOMAIN Newest(l, f) = 1 .. n
    BY <1>3
  <2> QED BY <2>1, <2>2, <2>3 DEF ToSet
<1>5. PICK w \in Walks : w = reading' /\ w.step = "count" /\ w.page = 1 /\ w.seen = <<>>
                         /\ w.start = Listed(l, f) /\ w.list = l /\ w.filter = f
  <2> DEFINE first == [step |-> "count", list |-> l, filter |-> f, page |-> 1, total |-> 0,
                       seen |-> <<>>, start |-> Listed(l, f), came |-> FALSE,
                       went |-> FALSE, late |-> FALSE]
  <2>1. <<>> \in Seq(Nat) /\ 0 \in Nat /\ 1 \in Nat \ {0}
    OBVIOUS
  <2>2. first \in Walks
    BY <1>3, <2>1 DEF Walks
  <2>3. first = reading'
    BY <1>1, <1>4
  <2> QED BY <2>2, <2>3
<1>6. Listed(l, f)' = Listed(l, f) /\ \A x : Depth(l, f, x)' = Depth(l, f, x)
  <2>1. \A x, y : Newer(l, x, y)' <=> Newer(l, x, y)
    BY <1>1 DEF Newer
  <2>2. Listed(l, f)' = Listed(l, f)
    BY <1>1 DEF Listed
  <2> QED BY <2>1, <2>2 DEF Depth, Ahead
<1>7. IsInjective(w.seen) /\ ToSet(w.seen) = {}
  BY <1>5 DEF IsInjective, ToSet
<1>8. (w.page - 1) * PageSize = 0
  BY <1>5, PageSizeAssumption
<1>9. \A x \in Listed(l, f) : 0 <= Depth(l, f, x)
  BY <1>3
<1>10. OnTheWay(w, (w.page - 1) * PageSize)'
  BY <1>5, <1>6, <1>7, <1>8, <1>9 DEF OnTheWay
<1>11. WalkOK(reading)'
  BY <1>1, <1>5, <1>10 DEF WalkOK
<1> QED BY <1>2, <1>11 DEF WalkInv

\* The total is that of the list when it is counted.
LEMMA TotalCounted ==
    ASSUME WalkInv, CountRows
    PROVE  WalkInv'
<1>1. RowsOK /\ RowsOK' /\ UNCHANGED <<rows, active, rowsMade>>
  BY DEF WalkInv, RowsOK, CountRows
<1>2. PICK w \in Walks : w = reading /\ WalkOK(w) /\ w.step = "count"
  BY DEF WalkInv, WalkOK, Reporting, CountRows
<1>3. PICK n \in Nat : n = Cardinality(Listed(w.list, w.filter)) /\ n = Len(Newest(w.list, w.filter))
  <2>1. w.list \in Lists
    BY DEF Walks
  <2>2. PICK n \in Nat : /\ n = Cardinality(Listed(w.list, w.filter))
                         /\ Newest(w.list, w.filter) \in [1 .. n -> Listed(w.list, w.filter)]
    BY <1>1, <2>1, NewestFacts
  <2>3. Len(Newest(w.list, w.filter)) = n
    BY <2>2
  <2> QED BY <2>2, <2>3
<1>4. PICK v : v = [w EXCEPT !.step = "page", !.late = FALSE, !.total = n]
  OBVIOUS
<1>5. reading' = v
  BY <1>2, <1>3, <1>4 DEF CountRows
<1>6. /\ v \in Walks /\ v.step = "page" /\ v.list = w.list /\ v.filter = w.filter
      /\ v.page = w.page /\ v.total = n /\ v.seen = w.seen /\ v.start = w.start
      /\ v.came = w.came /\ v.went = w.went
  BY <1>2, <1>4 DEF Walks
<1>7. \A l, f : Listed(l, f)' = Listed(l, f) /\ \A x : Depth(l, f, x)' = Depth(l, f, x)
  <2>1. \A l, x, y : Newer(l, x, y)' <=> Newer(l, x, y)
    BY <1>1 DEF Newer
  <2>2. \A l, f : Listed(l, f)' = Listed(l, f)
    BY <1>1 DEF Listed
  <2> QED BY <2>1, <2>2 DEF Depth, Ahead
<1>8. OnTheWay(w, (w.page - 1) * PageSize) /\ (w.filter = "active" => w.list = "clients")
  BY <1>2 DEF WalkOK
<1>9. OnTheWay(v, (w.page - 1) * PageSize)'
  <2>1. PICK o : o = (w.page - 1) * PageSize
    OBVIOUS
  <2>2. /\ Listed(w.list, w.filter)' = Listed(w.list, w.filter)
        /\ \A x : Depth(w.list, w.filter, x)' = Depth(w.list, w.filter, x)
    BY <1>7
  <2>3. n <= n /\ n = Cardinality(Listed(w.list, w.filter)')
    <3>1. n <= n
      OBVIOUS
    <3>2. n = Cardinality(Listed(w.list, w.filter)')
      BY <1>3, <2>2, Zenon
    <3> QED BY <3>1, <3>2
  <2>4. OnTheWay(w, o)
    BY <1>8, <2>1
  <2>5. OnTheWay(v, o)'
    BY <1>6, <2>2, <2>3, <2>4 DEF OnTheWay
  <2> QED BY <2>1, <2>5
<1>10. WalkOK(reading)'
  BY <1>5, <1>6, <1>8, <1>9 DEF WalkOK
<1> QED BY <1>1, <1>10 DEF WalkInv

\* A page goes on where the pages before it ended.
LEMMA PageRead ==
    ASSUME WalkInv, ReadPage
    PROVE  WalkInv'
<1>1. RowsOK /\ RowsOK' /\ UNCHANGED <<rows, active, rowsMade>>
  BY DEF WalkInv, RowsOK, ReadPage
<1>2. PICK w \in Walks : w = reading /\ WalkOK(w) /\ w.step = "page"
  BY DEF WalkInv, WalkOK, Reporting, ReadPage
<1>3. /\ w.list \in Lists /\ w.filter \in Filters /\ w.page \in Nat \ {0} /\ w.seen \in Seq(Nat)
      /\ w.total \in Nat
  BY DEF Walks
<1>4. PICK o \in Nat : o = (w.page - 1) * PageSize
  <2>1. w.page - 1 \in Nat /\ PageSize \in Nat
    BY <1>3, PageSizeAssumption
  <2> QED BY <2>1
<1>5. w.page * PageSize = o + PageSize /\ (w.page + 1 - 1) * PageSize = o + PageSize
  <2>1. PICK p \in Nat : w.page = p + 1
    <3>1. PICK q \in Nat \ {0} : q = w.page
      BY <1>3
    <3>2. q - 1 \in Nat /\ q = (q - 1) + 1
      OBVIOUS
    <3> QED BY <3>1, <3>2
  <2>2. PageSize \in Nat
    BY PageSizeAssumption
  <2>3. o = p * PageSize
    BY <1>4, <2>1, <2>2
  <2>4. (p + 1) * PageSize = p * PageSize + PageSize
    BY <2>2
  <2>5. w.page + 1 - 1 = p + 1
    BY <2>1
  <2> QED BY <2>1, <2>3, <2>4, <2>5
<1> DEFINE p == Page(w.list, w.filter, w.page)
<1>6. /\ p \in Seq(Nat) /\ IsInjective(p)
      /\ \A x : x \in ToSet(p) <=>
           x \in Listed(w.list, w.filter) /\ o <= Depth(w.list, w.filter, x)
             /\ Depth(w.list, w.filter, x) < o + PageSize
  BY <1>1, <1>3, <1>4, PageFacts
<1> HIDE DEF p
<1>7. \A x \in Listed(w.list, w.filter) :
        /\ Depth(w.list, w.filter, x) \in Nat
        /\ Depth(w.list, w.filter, x) < Cardinality(Listed(w.list, w.filter))
  <2>1. PICK n \in Nat :
          /\ n = Cardinality(Listed(w.list, w.filter))
          /\ \A x \in Listed(w.list, w.filter) : Depth(w.list, w.filter, x) \in 0 .. n - 1
    BY <1>1, <1>3, NewestFacts
  <2> QED BY <2>1
<1>8. OnTheWay(w, o) /\ (w.filter = "active" => w.list = "clients")
  BY <1>2, <1>4 DEF WalkOK
\* what was seen, and the page
<1>9. PICK seen \in Seq(Nat) :
        /\ seen = w.seen \o p /\ ToSet(seen) = ToSet(w.seen) \cup ToSet(p)
        /\ (IsInjective(w.seen) /\ ToSet(w.seen) \cap ToSet(p) = {}) => IsInjective(seen)
  <2> DEFINE s == w.seen
             t == s \o p
  <2>1. s \in Seq(Nat)
    BY <1>3
  <2> HIDE DEF s
  <2>2. PICK a \in Nat, b \in Nat : a = Len(s) /\ b = Len(p)
    BY <1>6, <2>1
  <2>3. /\ t \in Seq(Nat) /\ Len(t) = a + b
        /\ \A i \in 1 .. a + b : t[i] = IF i <= a THEN s[i] ELSE p[i - a]
    BY <1>6, <2>1, <2>2, ConcatProperties
  <2>4. DOMAIN t = 1 .. a + b /\ DOMAIN s = 1 .. a /\ DOMAIN p = 1 .. b
    BY <1>6, <2>1, <2>2, <2>3
  <2> HIDE DEF t
  <2>5. \A i \in 1 .. a : i \in 1 .. a + b /\ t[i] = s[i]
    BY <2>3
  <2>6. \A i \in 1 .. b : a + i \in 1 .. a + b /\ t[a + i] = p[i]
    <3> SUFFICES ASSUME NEW i \in 1 .. b PROVE a + i \in 1 .. a + b /\ t[a + i] = p[i]
      OBVIOUS
    <3>1. a + i \in 1 .. a + b /\ ~(a + i <= a) /\ a + i - a = i
      OBVIOUS
    <3>2. t[a + i] = p[a + i - a]
      BY <2>3, <3>1
    <3> QED BY <3>1, <3>2
  <2>7. \A k \in 1 .. a + b : k \in 1 .. a \/ \E i \in 1 .. b : k = a + i
    <3> SUFFICES ASSUME NEW k \in 1 .. a + b, ~(k <= a) PROVE \E i \in 1 .. b : k = a + i
      OBVIOUS
    <3>1. k - a \in 1 .. b /\ k = a + (k - a)
      OBVIOUS
    <3> QED BY <3>1
  <2>8. ToSet(t) = ToSet(s) \cup ToSet(p)
    <3>1. ASSUME NEW x \in ToSet(t) PROVE x \in ToSet(s) \cup ToSet(p)
      <4>1. PICK k \in 1 .. a + b : x = t[k]
        BY <2>4 DEF ToSet
      <4>2. CASE k \in 1 .. a
        BY <2>4, <2>5, <4>1, <4>2 DEF ToSet
      <4>3. CASE k \notin 1 .. a
        <5>1. PICK i \in 1 .. b : k = a + i
          BY <2>7, <4>3
        <5>2. x = p[i]
          BY <2>6, <4>1, <5>1
        <5> QED BY <2>4, <5>2 DEF ToSet
      <4> QED BY <4>2, <4>3
    <3>2. \A x \in ToSet(s) : x \in ToSet(t)
      BY <2>4, <2>5 DEF ToSet
    <3>3. \A x \in ToSet(p) : x \in ToSet(t)
      BY <2>4, <2>6 DEF ToSet
    <3> QED BY <3>1, <3>2, <3>3
  <2>9. ASSUME IsInjective(s), ToSet(s) \cap ToSet(p) = {} PROVE IsInjective(t)
    <3>1. ASSUME NEW i \in 1 .. a, NEW j \in 1 .. b PROVE s[i] # p[j]
      BY <2>4, <2>9 DEF ToSet
    <3>2. ASSUME NEW k \in 1 .. a + b, NEW m \in 1 .. a + b, t[k] = t[m] PROVE k = m
      <4>1. CASE k \in 1 .. a /\ m \in 1 .. a
        BY <2>4, <2>5, <2>9, <3>2, <4>1 DEF IsInjective
      <4>2. CASE k \in 1 .. a /\ m \notin 1 .. a
        BY <2>5, <2>6, <2>7, <3>1, <3>2, <4>2
      <4>3. CASE k \notin 1 .. a /\ m \in 1 .. a
        BY <2>5, <2>6, <2>7, <3>1, <3>2, <4>3
      <4>4. CASE k \notin 1 .. a /\ m \notin 1 .. a
        <5>1. PICK i \in 1 .. b, j \in 1 .. b : k = a + i /\ m = a + j
          BY <2>7, <4>4
        <5>2. p[i] = p[j]
          BY <2>6, <3>2, <5>1
        <5> QED BY <1>6, <2>4, <5>1, <5>2 DEF IsInjective
      <4> QED BY <4>1, <4>2, <4>3, <4>4
    <3> QED BY <2>4, <3>2 DEF IsInjective
  <2> QED BY <2>3, <2>8, <2>9 DEF s, t
<1>10. PICK next \in {"walked", "count"} :
         next = IF w.page * PageSize >= w.total THEN "walked" ELSE "count"
  OBVIOUS
<1>11. PICK v : v = [w EXCEPT !.seen = seen, !.step = next, !.page = w.page + 1]
  OBVIOUS
<1>12. reading' = v
  BY <1>2, <1>9, <1>10, <1>11 DEF ReadPage, p
<1>13. /\ v \in Walks /\ v.step = next /\ v.list = w.list /\ v.filter = w.filter
       /\ v.page = w.page + 1 /\ v.total = w.total /\ v.seen = seen /\ v.start = w.start
       /\ v.came = w.came /\ v.went = w.went /\ v.late = w.late
  <2>1. w.page + 1 \in Nat \ {0}
    BY <1>3
  <2> QED BY <1>2, <1>11, <2>1 DEF Walks
<1>14. PageSize \in Nat
  BY PageSizeAssumption
<1>15. ASSUME ~w.went, NEW x \in w.start, x \notin ToSet(seen)
       PROVE  x \in Listed(w.list, w.filter) /\ o + PageSize <= Depth(w.list, w.filter, x)
  <2>1. x \in Listed(w.list, w.filter) /\ o <= Depth(w.list, w.filter, x)
    BY <1>8, <1>9, <1>15 DEF OnTheWay
  <2>2. ~(Depth(w.list, w.filter, x) < o + PageSize)
    BY <1>6, <1>9, <1>15, <2>1
  <2> QED BY <1>7, <1>14, <2>1, <2>2
<1>16. ASSUME ~w.came
       PROVE  /\ IsInjective(seen)
              /\ \A x \in ToSet(seen) : x \in Listed(w.list, w.filter) =>
                   Depth(w.list, w.filter, x) < o + PageSize
  <2>1. /\ IsInjective(w.seen)
        /\ \A x \in ToSet(w.seen) :
             x \in Listed(w.list, w.filter) => Depth(w.list, w.filter, x) < o
    BY <1>8, <1>16 DEF OnTheWay
  <2>2. ToSet(w.seen) \cap ToSet(p) = {}
    <3> SUFFICES ASSUME NEW x \in ToSet(w.seen), x \in ToSet(p) PROVE FALSE
      OBVIOUS
    <3>1. x \in Listed(w.list, w.filter) /\ o <= Depth(w.list, w.filter, x)
      BY <1>6
    <3>2. Depth(w.list, w.filter, x) < o
      BY <2>1, <3>1
    <3> QED BY <1>7, <3>1, <3>2
  <2>3. IsInjective(seen)
    BY <1>9, <2>1, <2>2
  <2>4. ASSUME NEW x \in ToSet(seen), x \in Listed(w.list, w.filter)
        PROVE  Depth(w.list, w.filter, x) < o + PageSize
    <3>1. CASE x \in ToSet(p)
      BY <1>6, <3>1
    <3>2. CASE x \in ToSet(w.seen)
      <4>1. Depth(w.list, w.filter, x) < o /\ Depth(w.list, w.filter, x) \in Nat
        BY <1>7, <2>1, <2>4, <3>2
      <4> QED BY <1>14, <4>1
    <3> QED BY <1>9, <2>4, <3>1, <3>2
  <2> QED BY <2>3, <2>4
<1>17. CASE next = "count"
  <2>1. \A l, f : Listed(l, f)' = Listed(l, f) /\ \A x : Depth(l, f, x)' = Depth(l, f, x)
    <3>1. \A l, x, y : Newer(l, x, y)' <=> Newer(l, x, y)
      BY <1>1 DEF Newer
    <3>2. \A l, f : Listed(l, f)' = Listed(l, f)
      BY <1>1 DEF Listed
    <3> QED BY <3>1, <3>2 DEF Depth, Ahead
  <2> DEFINE q == (v.page - 1) * PageSize
  <2>2. OnTheWay(v, q)'
    <3>q. q = o + PageSize
      <4>1. v.page = w.page + 1 /\ w.page \in Nat
        BY <1>3, <1>13
      <4>2. v.page - 1 = w.page
        BY <4>1
      <4> QED BY <1>5, <4>2, Zenon
    <3> HIDE DEF q
    <3>1. /\ Listed(w.list, w.filter)' = Listed(w.list, w.filter)
          /\ \A x : Depth(w.list, w.filter, x)' = Depth(w.list, w.filter, x)
      BY <2>1
    <3>2. v.step # "page"
      BY <1>13, <1>17
    <3>3. ~v.went => \A x \in v.start :
            x \in ToSet(v.seen)
              \/ (x \in Listed(v.list, v.filter)' /\ q <= Depth(v.list, v.filter, x)')
      BY <1>13, <1>15, <3>q, <3>1
    <3>4. ~v.came =>
            /\ IsInjective(v.seen)
            /\ \A x \in ToSet(v.seen) :
                 x \in Listed(v.list, v.filter)' => Depth(v.list, v.filter, x)' < q
      BY <1>13, <1>16, <3>q, <3>1
    <3> QED BY <3>2, <3>3, <3>4 DEF OnTheWay
  <2>3. WalkOK(reading)'
    BY <1>8, <1>12, <1>13, <1>17, <2>2 DEF WalkOK
  <2> QED BY <1>1, <2>3 DEF WalkInv
<1>18. CASE next = "walked"
  <2>1. w.total <= o + PageSize
    BY <1>3, <1>4, <1>5, <1>10, <1>14, <1>18
  <2>2. ASSUME ~w.went, ~w.late PROVE w.start \subseteq ToSet(seen)
    <3>1. Cardinality(Listed(w.list, w.filter)) <= w.total
      BY <1>2, <1>8, <2>2 DEF OnTheWay
    <3>2. IsFiniteSet(Listed(w.list, w.filter))
      BY <1>1, <1>3, FiniteLists DEF ListsFinite
    <3>3. Cardinality(Listed(w.list, w.filter)) \in Nat
      BY <3>2, FS_CardinalityType
    <3> SUFFICES ASSUME NEW x \in w.start, x \notin ToSet(seen) PROVE FALSE
      OBVIOUS
    <3>4. x \in Listed(w.list, w.filter) /\ o + PageSize <= Depth(w.list, w.filter, x)
      BY <1>15, <2>2
    <3>5. Depth(w.list, w.filter, x) \in Nat
          /\ Depth(w.list, w.filter, x) < Cardinality(Listed(w.list, w.filter))
      BY <1>7, <3>4
    <3> QED BY <1>3, <1>14, <2>1, <3>1, <3>3, <3>4, <3>5
  <2>3. Walked(v)
    BY <1>13, <1>16, <2>2 DEF Walked
  <2>4. Walked(v)'
    BY <2>3 DEF Walked
  <2>5. WalkOK(reading)'
    BY <1>8, <1>12, <1>13, <1>18, <2>4 DEF WalkOK
  <2> QED BY <1>1, <2>5 DEF WalkInv
<1> QED BY <1>10, <1>17, <1>18

THEOREM WalkInitial == AdminInit => WalkInv
<1> SUFFICES ASSUME AdminInit PROVE WalkInv
  OBVIOUS
<1>1. reading = None /\ rowsMade = 2
  BY DEF AdminInit
<1>2. \A l \in Lists : rows[l] = <<1, 2>> \/ rows[l] = <<>>
  BY DEF AdminInit
<1>3. rows \in [Lists -> Seq(Nat)]
  <2>1. <<1, 2>> \in Seq(Nat) /\ <<>> \in Seq(Nat)
    OBVIOUS
  <2> QED BY <2>1 DEF AdminInit
<1>4. ASSUME NEW l \in Lists
      PROVE  /\ \A i \in DOMAIN rows[l] : rows[l][i] <= rowsMade
             /\ \A i, j \in DOMAIN rows[l] : rows[l][i] = rows[l][j] => i = j
  <2>1. CASE rows[l] = <<1, 2>>
    BY <1>1, <2>1
  <2>2. CASE rows[l] = <<>>
    BY <2>2
  <2> QED BY <1>2, <2>1, <2>2
<1> QED BY <1>1, <1>3, <1>4 DEF WalkInv, RowsOK

\* Whatever rows come and go while a reader walks through the pages, it misses a
\* row only if one went or came at the wrong moment, and sees one twice only if
\* one came.
THEOREM WalkInvariance == AdminSpec => []WalkInv
<1>1. ASSUME AdminInv, AdminInv', WalkInv, [AdminNext]_adminVars PROVE WalkInv'
  <2>1. CASE ReadPage
    BY <1>1, <2>1, PageRead
  <2>2. CASE CountRows
    BY <1>1, <2>2, TotalCounted
  <2>3. ASSUME NEW l \in Lists, NEW f \in {"all", "active"}, Walk(l, f) PROVE WalkInv'
    BY <1>1, <2>3, WalkBegins DEF Filters
  <2>4. CASE Answered
    BY <1>1, <2>4 DEF Answered, WalkInv, RowsOK
  <2>5. ASSUME NEW kind \in {"platform", "clients", "organizations"}, BeginReport(kind)
        PROVE  WalkInv'
    <3>1. reading' = [step |-> "report", report |-> Report(kind)] /\ RowsOK'
      BY <1>1, <2>5 DEF BeginReport, WalkInv, RowsOK
    <3>2. reading'.step = "report"
      BY <3>1
    <3>3. reading' = None \/ Walking' \/ Reporting'
      BY <1>1 DEF AdminInv, AdminTypes
    <3> QED BY <3>1, <3>2, <3>3 DEF Walking, WalkInv
  <2>6. CASE Query
    <3>1. RowsOK' /\ reading # None /\ reading.step = "report"
      BY <1>1, <2>6 DEF Query, WalkInv, RowsOK
    <3>2. Reporting
      BY <1>1, <3>1 DEF WalkInv, WalkOK, Walks
    <3>3. reading'.step = "report"
      BY <2>6, <3>1, <3>2 DEF Query, Reporting
    <3>4. reading' = None \/ Walking' \/ Reporting'
      BY <1>1 DEF AdminInv, AdminTypes
    <3> QED BY <3>1, <3>3, <3>4 DEF Walking, WalkInv
  <2>7. CASE UNCHANGED adminVars
    BY <1>1, <2>7, WalkStays DEF adminVars
  <2> QED BY <1>1, <2>1, <2>2, <2>3, <2>4, <2>5, <2>6, <2>7, OthersLeaveWalk
     DEF AdminNext
<1> QED BY <1>1, WalkInitial, AdminInvariance, PTL DEF AdminSpec

\* No row is missed or shown twice, and no numbers of a report disagree, unless
\* rows came or went at the wrong moment: for any size of a page, any accounts
\* and any number of changes between the queries.
THEOREM ListsAlwaysAgree == AdminSpec => []ListsAgree
<1>1. WalkInv => WalkIsComplete
  <2> SUFFICES ASSUME WalkInv, reading # None, reading.step = "walked"
               PROVE  /\ reading.start \ ToSet(reading.seen) # {} => reading.went \/ reading.late
                      /\ ~IsInjective(reading.seen) => reading.came
    BY DEF WalkIsComplete
  <2>1. Walked(reading)
    BY DEF WalkInv, WalkOK, Reporting
  <2> QED BY <2>1 DEF Walked
<1> QED BY <1>1, WalkInvariance, ReportsAgree, PTL DEF ListsAgree

-----------------------------------------------------------------------------
(***************************************************************************)
(* The services side by side, as MCServices composes them                  *)
(***************************************************************************)
\* MCServices moves one service and leaves the others at rest: each of them
\* behaves as its own specification says.
LEMMA ServiceParts ==
    ServicesSpec =>
      /\ Spec /\ SessionSpec /\ IntegrationSpec /\ AccountSpec
      /\ HealthSpec /\ AdminSpec
<1>1. ServicesInit =>
        /\ Init /\ SessionInit /\ IntegrationInit /\ AccountInit
        /\ HealthInit /\ AdminInit
  BY DEF ServicesInit
<1>2. [ServicesNext]_<<vars, serviceVars, part>> => [Next]_vars
  BY DEF ServicesNext, serviceVars
<1>3. [ServicesNext]_<<vars, serviceVars, part>> => [SessionNext]_sessionVars
  BY DEF ServicesNext, serviceVars
<1>4. [ServicesNext]_<<vars, serviceVars, part>> => [IntegrationNext]_integrationVars
  BY DEF ServicesNext, serviceVars
<1>5. [ServicesNext]_<<vars, serviceVars, part>> => [AccountNext]_accountVars
  BY DEF ServicesNext, serviceVars
<1>6. [ServicesNext]_<<vars, serviceVars, part>> => [HealthNext]_healthVars
  BY DEF ServicesNext, serviceVars
<1>7. [ServicesNext]_<<vars, serviceVars, part>> => [AdminNext]_adminVars
  BY DEF ServicesNext, serviceVars
<1> QED BY <1>1, <1>2, <1>3, <1>4, <1>5, <1>6, <1>7, PTL
     DEF ServicesSpec, Spec, SessionSpec, IntegrationSpec, AccountSpec, HealthSpec,
     AdminSpec

\* The services side by side: all the properties of the run, for every value of
\* the constants.
THEOREM ServicesAreCorrect ==
    ServicesSpec =>
      /\ []OneUserPerEmail /\ []AcceptedHasJoined /\ LastAdminFallsToStaleAdmin
      /\ []SessionsEnd /\ []AddressFindsOwner /\ []AnswersAreKept /\ []AccountsSettle
      /\ []HealthIsTold /\ []ListsAgree
BY ServiceParts, EmailsAreUnique, InvitationsAgree, LastAdminNeedsStaleRequest,
   SessionsAreBounded,
   AddressesFindOwners, IntegrationAnswersAreKept, AccountsAreSettled,
   HealthIsAlwaysTold, ListsAlwaysAgree, PTL
=============================================================================
