\* Two profiles, two tables, three requests past their look at one time.
CONSTANTS
    Accounts = {ann, bob}
    Tables = {t1, t2}
    InviteIds = {i1, i2, i3}
    FriendWorkers = {w1, w2, w3}

SPECIFICATION FriendsSpec
SYMMETRY Symmetry
INVARIANTS
    BlockSeparates
    ScreensAgree
    OneInvitation
