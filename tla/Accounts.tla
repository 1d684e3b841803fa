------------------------------- MODULE Accounts ------------------------------
(***************************************************************************)
(* The AWS accounts of an organization (backend/services/                  *)
(* account_service.py) and the onboarding of a user                        *)
(* (backend/services/onboarding_service.py).  Both ask AWS to assume a     *)
(* role between what they read and what they commit.  Nothing in the       *)
(* database keeps an organization from linking one AWS account twice; the  *)
(* onboarding state is unique for its user.                                *)
(*                                                                         *)
(* The role of an AWS account trusts the external id it was created with,  *)
(* or does not work at all; it works or not as AwsChanges says.            *)
(***************************************************************************)
EXTENDS Integers, Sequences, FiniteSets, NoneValue

CONSTANTS
    Askers,         \* requests that are handled at the same time
    AwsAccounts,
    MaxChanges,     \* bound on the changes of the roles in AWS
    MaxRows,        \* bound on the accounts that are linked
    MaxIds          \* bound on the external ids that are made

\* The requests of the onboarding, their steps, and the steps of its state
Onboarding == {"show", "verify", "skip"}
OnboardingSteps == {"welcome", "verifying", "completed"}
OnboardingStates == [external : Nat, step : OnboardingSteps]
OnboardingRequests ==
    [op : Onboarding, step : {"create", "go", "complete"}, external : Nat,
     loaded : OnboardingSteps]

ASSUME NoOnboardingAssumption == None \notin OnboardingStates \cup OnboardingRequests

VARIABLES
    works,          \* whether the role of each AWS account can be assumed
    accounts,       \* the rows of Account, by id; None once deleted
    roleRequest,    \* what each request is doing
    onboarding,     \* the state of the user: [external, step]
    completed,      \* users.onboarding_completed
    ids,            \* how many external ids have been made
    changes,
    \* history: AWS accounts with two links, and rows with two validations, in
    \* progress at the same time; the answer that the last validation of each
    \* row committed; the external ids shown to the user; whether a
    \* verification met another request of the onboarding, or broke off
    linkedTogether, validatedTogether, answered, shown, disturbed

rowVars == <<accounts, linkedTogether, validatedTogether, answered>>
onboardingVars == <<onboarding, completed, ids, shown, disturbed>>
accountVars == <<works, rowVars, roleRequest, onboardingVars, changes>>

Resting(r) == roleRequest[r] = None
Asks(r, op, step) == ~Resting(r) /\ roleRequest[r].op = op /\ roleRequest[r].step = step
SetRequest(r, state) == roleRequest' = [roleRequest EXCEPT ![r] = state]
Proceed(r, step) == SetRequest(r, [roleRequest[r] EXCEPT !.step = step])

AccountInit ==
    /\ works = [a \in AwsAccounts |-> TRUE]
    /\ accounts = <<>> /\ answered = <<>>
    /\ linkedTogether = {} /\ validatedTogether = {}
    /\ roleRequest = [r \in Askers |-> None]
    /\ onboarding = None /\ completed = FALSE /\ ids = 0
    /\ shown = {} /\ disturbed = FALSE
    /\ changes = 0

\* The role is deleted in AWS, or created again.
AwsChanges(a) ==
    /\ changes < MaxChanges
    /\ changes' = changes + 1
    /\ works' = [works EXCEPT ![a] = ~@]
    /\ UNCHANGED <<rowVars, roleRequest, onboardingVars>>

\* An exception, a refusal of AWS among them, ends a request at any point;
\* what it has not committed is gone.
Fails(r) ==
    /\ ~Resting(r)
    /\ SetRequest(r, None)
    /\ disturbed' = (disturbed \/ Asks(r, "verify", "complete"))
    /\ UNCHANGED <<works, rowVars, onboarding, completed, ids, shown, changes>>

-----------------------------------------------------------------------------
Linked(a) == {i \in DOMAIN accounts : accounts[i] # None /\ accounts[i].aws = a}

\* link_aws_account(): the role is assumed first.
AssumeForLink(r, a) ==
    /\ Resting(r) /\ works[a]
    /\ SetRequest(r, [op |-> "link", step |-> "check", aws |-> a])
    /\ UNCHANGED <<works, rowVars, onboardingVars, changes>>

\* Mutant: only accounts whose role works count as linked.
AlreadyLinkedMutant(a) == \E i \in Linked(a) : accounts[i].status = "active"

AlreadyLinked(a) == Linked(a) # {}

CheckLinked(r) ==
    LET a == roleRequest[r].aws
    IN /\ Asks(r, "link", "check") /\ ~AlreadyLinked(a)
       /\ Proceed(r, "insert")
       /\ linkedTogether' =
            IF \E s \in Askers : Asks(s, "link", "insert") /\ roleRequest[s].aws = a
              THEN linkedTogether \cup {a} ELSE linkedTogether
       /\ UNCHANGED <<works, accounts, validatedTogether, answered, onboardingVars,
                      changes>>

InsertAccount(r) ==
    /\ Asks(r, "link", "insert") /\ Len(accounts) < MaxRows
    /\ accounts' = Append(accounts, [aws |-> roleRequest[r].aws, status |-> "active"])
    /\ answered' = Append(answered, "active")
    /\ SetRequest(r, None)
    /\ UNCHANGED <<works, linkedTogether, validatedTogether, onboardingVars, changes>>

\* delete_account(), in one step: a row that is gone by the commit is no error
\* that leaves a trace.
DeleteAccount(i) ==
    /\ i \in DOMAIN accounts /\ accounts[i] # None
    /\ accounts' = [accounts EXCEPT ![i] = None]
    /\ UNCHANGED <<works, linkedTogether, validatedTogether, answered, roleRequest,
                   onboardingVars, changes>>

\* validate_account() loads the row,
LoadAccount(r, i) ==
    /\ Resting(r) /\ i \in DOMAIN accounts /\ accounts[i] # None
    /\ SetRequest(r, [op |-> "validate", step |-> "assume", id |-> i,
                      aws |-> accounts[i].aws, loaded |-> accounts[i].status,
                      answer |-> None])
    /\ validatedTogether' =
         IF \E s \in Askers : /\ ~Resting(s) /\ roleRequest[s].op = "validate"
                              /\ roleRequest[s].id = i
           THEN validatedTogether \cup {i} ELSE validatedTogether
    /\ UNCHANGED <<works, accounts, linkedTogether, answered, onboardingVars, changes>>

\* asks AWS,
AssumeForValidation(r) ==
    /\ Asks(r, "validate", "assume")
    /\ SetRequest(r, [roleRequest[r] EXCEPT !.step = "commit",
           !.answer = IF works[roleRequest[r].aws] THEN "active" ELSE "error"])
    /\ UNCHANGED <<works, rowVars, onboardingVars, changes>>

\* and commits the answer: a value that is the one it loaded is not written.
Status(q, status) == IF q.answer = q.loaded THEN status ELSE q.answer

CommitStatus(r) ==
    LET q == roleRequest[r]
    IN /\ Asks(r, "validate", "commit") /\ accounts[q.id] # None
       /\ accounts' = [accounts EXCEPT ![q.id].status = Status(q, @)]
       /\ answered' = [answered EXCEPT ![q.id] = q.answer]
       /\ SetRequest(r, None)
       /\ UNCHANGED <<works, linkedTogether, validatedTogether, onboardingVars, changes>>

-----------------------------------------------------------------------------
\* The requests of the onboarding begin with get_or_create_state().
GetState(r, op) ==
    /\ Resting(r)
    /\ IF onboarding # None
         THEN /\ SetRequest(r, [op |-> op, step |-> "go", loaded |-> onboarding.step,
                                external |-> onboarding.external])
              /\ UNCHANGED ids
         ELSE /\ ids < MaxIds
              /\ ids' = ids + 1
              /\ SetRequest(r, [op |-> op, step |-> "create", external |-> ids',
                                loaded |-> "welcome"])
    /\ disturbed' = (disturbed \/ \E s \in Askers :
                       ~Resting(s) /\ roleRequest[s].op \in {"verify", "skip"})
    /\ UNCHANGED <<works, rowVars, onboarding, completed, shown, changes>>

MayCreate(state) == state = None

CreateState(r) ==
    /\ ~Resting(r) /\ roleRequest[r].step = "create" /\ MayCreate(onboarding)
    /\ onboarding' = [external |-> roleRequest[r].external, step |-> "welcome"]
    /\ Proceed(r, "go")
    /\ UNCHANGED <<works, rowVars, completed, ids, shown, disturbed, changes>>

\* get_state and get_cloudformation_deep_link() show the external id.
Show(r) ==
    /\ Asks(r, "show", "go")
    /\ shown' = shown \cup {roleRequest[r].external}
    /\ SetRequest(r, None)
    /\ UNCHANGED <<works, rowVars, onboarding, completed, ids, disturbed, changes>>

\* A column that the request sets to what it loaded is not written.
SetStep(r, step) ==
    onboarding' = IF roleRequest[r].loaded = step THEN onboarding
                  ELSE [onboarding EXCEPT !.step = step]

\* verify_role_connection(), when AWS lets the role be assumed; the route goes
\* on to complete_onboarding(), which reads the state again.
CommitVerified(r) ==
    /\ Asks(r, "verify", "go")
    /\ SetStep(r, "verifying")
    /\ SetRequest(r, [roleRequest[r] EXCEPT !.step = "complete",
                                            !.loaded = onboarding'.step])
    /\ UNCHANGED <<works, rowVars, completed, ids, shown, disturbed, changes>>

Complete(r) ==
    /\ Asks(r, "verify", "complete") \/ Asks(r, "skip", "go")
    /\ SetStep(r, "completed")
    /\ completed' = TRUE
    /\ SetRequest(r, None)
    /\ UNCHANGED <<works, rowVars, ids, shown, disturbed, changes>>

AccountNext ==
    \/ \E a \in AwsAccounts : AwsChanges(a)
    \/ \E r \in Askers :
         \/ Fails(r)
         \/ \E a \in AwsAccounts : AssumeForLink(r, a)
         \/ CheckLinked(r) \/ InsertAccount(r)
         \/ \E i \in DOMAIN accounts : LoadAccount(r, i)
         \/ AssumeForValidation(r) \/ CommitStatus(r)
         \/ \E op \in Onboarding : GetState(r, op)
         \/ CreateState(r) \/ Show(r) \/ CommitVerified(r) \/ Complete(r)
    \/ \E i \in DOMAIN accounts : DeleteAccount(i)

AccountSpec == AccountInit /\ [][AccountNext]_accountVars

-----------------------------------------------------------------------------
\* An AWS account is linked twice only by requests that overlapped, and the
\* status of a row is the answer that its last validation got, unless another
\* validation of it was in progress: what that one loaded decides whether it
\* is written.
LinksSettle ==
    /\ \A a \in AwsAccounts : Cardinality(Linked(a)) > 1 => a \in linkedTogether
    /\ \A i \in DOMAIN accounts :
         accounts[i] # None /\ i \notin validatedTogether =>
           accounts[i].status = answered[i]

\* Every external id that the user was shown, and has created the role with, is
\* the one that is stored and will be verified; and a completed onboarding has
\* the step that says so, unless a verification is at work, was disturbed by
\* another request or broke off half-way.
OnboardingSettles ==
    /\ \A id \in shown : onboarding # None /\ onboarding.external = id
    /\ completed /\ onboarding.step # "completed" =>
         disturbed \/ \E r \in Askers : Asks(r, "verify", "complete")

\* Accounts and onboarding: one link of an AWS account, the status that was
\* answered last, one external id and a completed onboarding, unless requests
\* overlapped or broke off.
AccountsSettle == LinksSettle /\ OnboardingSettles
=============================================================================
