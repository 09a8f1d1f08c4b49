\* Two requests of one owner among mail of two inboxes: who sees and changes what.
CONSTANTS
    ann = ann
    bob = bob
    annsBox = annsBox
    bobsBox = bobsBox
    Browsers = {ann}
    Inboxes = {annsBox, bobsBox}
    Knows <- MCKnows
    Legacy = {annsBox}
    Requests = {r1, r2}
    Tokens = {t1}
    NoToken = NoToken
    Emails = {e1, e2}
    Parts = {p1}
    None = None
    TTL = 1
SPECIFICATION Spec
SYMMETRY Interchangeable
INVARIANTS
    OwnMailOnly
    NothingDangles
PROPERTIES
    OwnMailChanged
