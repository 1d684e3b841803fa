SPECIFICATION ServicesSpec
CONSTANTS
    Requests = {w1, w2}
    People = {"ann", "bob"}
    Admins = {"ann"}
    Addresses = {"ann", "bob", "Bob"}
    Lower <- MCLower
    FirstEmail <- MCFirstEmail
    AccessTTL = 1
    RefreshTTL = 1
    MaxNow = 2
    MaxPasswords = 2
    Threads = {w1, w2, w3}
    Names = {"a", "b"}
    MaxAdds = 2
    MaxDeletes = 2
    Askers = {w1, w2}
    AwsAccounts = {"aws"}
    MaxChanges = 1
    MaxRows = 2
    MaxIds = 2
    PriceKeys = {"k1", "k2"}
    MaxPartChanges = 2
    ClientAccounts = {"aws"}
    PageSize = 1
    MaxListed = 4
    MaxRowChanges = 3
    None = None
    u1 = u1
    u2 = u2
    u3 = u3
    e1 = e1
    e2 = e2
    i1 = i1
    w1 = w1
    w2 = w2
    Users = {u1, u2, u3}
    Emails = {e1, e2}
    Levels = {"READ_ONLY", "FULL"}
    Invitations = {i1}
    InvitedEmail <- MCInvitedEmail
    InvitedRole <- MCInvitedRole
    OtherRoles = {"MEMBER"}
    Founder = u1
    Workers = {w1, w2}
SYMMETRY MCSymmetry
INVARIANTS
    OneUserPerEmail
    AcceptedHasJoined
    SessionsEnd
    AddressFindsOwner
    AnswersAreKept
    AccountsSettle
    HealthIsTold
    ListsAgree
PROPERTY
    LastAdminFallsToStaleAdmin
CHECK_DEADLOCK FALSE
