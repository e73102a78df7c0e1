CONSTANTS
    Profiles = {p1, p2}
    HandleKeys = {ann, bob}
    Identities = {i1, i2}
    Tokens = {t1, t2}
    Workers = {r1, r2}
    MaxSecrets = 2
    Nobody = nobody
    Flows = {f1, f2}
    Issuers = {s1, s2}
    AllowedIssuers = {s1, s2}
    IssuerOf <- Servers
    MaxCodes = 3
    MaxApprovals = 2

SPECIFICATION MCSpec
INVARIANTS
    PasswordEndsSessions
    ProfilesAreReachable
    PageGetsItsPerson
    GoodForOneSession
SYMMETRY Alike
