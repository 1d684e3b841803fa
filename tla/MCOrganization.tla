----------------------------- MODULE MCOrganization -----------------------------
\* Model values for the members, emails and invitations of Organization.
EXTENDS Organization, TLC

CONSTANTS u1, u2, u3, e1, e2, i1, w1, w2

MCInvitedEmail == i1 :> e2
MCInvitedRole == i1 :> "ORG_ADMIN"
MCSymmetry == Permutations({u2, u3}) \cup Permutations(Workers)
=============================================================================
