\* One account, two requests, two sessions: cookies, expiry, logout, cleanup.
CONSTANTS
    ann = ann
    bob = bob
    annsBox = annsBox
    bobsBox = bobsBox
    Browsers = {ann}
    Inboxes = {annsBox}
    Knows <- MCKnows
    Legacy = {annsBox}
    Requests = {r1, r2}
    Tokens = {t1, t2}
    NoToken = NoToken
    Emails = {}
    Parts = {}
    None = None
    TTL = 2
SPECIFICATION FairSpec
INVARIANTS
    TypeOK
    ExpiryFollowsUse
PROPERTIES
    ImplementsSessionLife
    ExpiredSwept
