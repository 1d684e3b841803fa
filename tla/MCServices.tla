----------------------------- MODULE MCServices ------------------------------
(***************************************************************************)
(* Services of the API: the members of an organization, the sessions of    *)
(* users, their integrations, accounts and onboarding, the health of the   *)
(* platform, the lists and statistics of the super admin.  No two of them  *)
(* write the same columns of a row (that a user's row is deleted is part   *)
(* of each of them), so each is run with the others at rest: "part" says   *)
(* which one.                                                              *)
(*                                                                         *)
(* Two users, one an admin, with an address that one of them may write in  *)
(* another case; three threads on the integrations of a user; two requests *)
(* on the links of one AWS account and on the onboarding; two changes of   *)
(* what a health check asks, two cached prices among it; pages of one row, *)
(* and three changes of lists with up to four rows.                        *)
(***************************************************************************)
EXTENDS MCOrganization, Sessions, Integrations, Accounts, HealthService, AdminQueries

VARIABLE part

MCLower == [e \in {"ann", "bob", "Bob"} |-> IF e = "ann" THEN "ann" ELSE "bob"]
MCFirstEmail == [u \in {"ann", "bob"} |-> u]

serviceVars == <<sessionVars, integrationVars, accountVars, healthVars, adminVars>>

\* The health of the platform differs in how it begins.  Init, Next and vars are
\* those of Organization.
ServicesInit ==
    /\ part \in {"organization", "sessions", "integrations", "accounts", "health",
                "admin"}
    /\ Init
    /\ SessionInit /\ IntegrationInit /\ AccountInit /\ AdminInit
    /\ HealthInit
    /\ part # "health" =>
         /\ condition = [p \in Parts |-> "up"] /\ price = [k \in PriceKeys |-> "fresh"]
         /\ configured

ServicesNext ==
    /\ UNCHANGED part
    /\ \/ /\ part = "organization" /\ Next
          /\ UNCHANGED serviceVars
       \/ /\ part = "sessions" /\ SessionNext
          /\ UNCHANGED <<vars, integrationVars, accountVars, healthVars, adminVars>>
       \/ /\ part = "integrations" /\ IntegrationNext
          /\ UNCHANGED <<vars, sessionVars, accountVars, healthVars, adminVars>>
       \/ /\ part = "accounts" /\ AccountNext
          /\ UNCHANGED <<vars, sessionVars, integrationVars, healthVars, adminVars>>
       \/ /\ part = "health" /\ HealthNext
          /\ UNCHANGED <<vars, sessionVars, integrationVars, accountVars, adminVars>>
       \/ /\ part = "admin" /\ AdminNext
          /\ UNCHANGED <<vars, sessionVars, integrationVars, accountVars, healthVars>>

ServicesSpec == ServicesInit /\ [][ServicesNext]_<<vars, serviceVars, part>>
=============================================================================
