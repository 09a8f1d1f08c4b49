\* Two connections, two mails, retries, crashes, expiry and deletion.
CONSTANTS
    Conns = {c1, c2}
    NoConn = NoConn
    target = a1
    Addresses = {a1, a2}
    plain = m1
    rich = m2
    Mails = {m1, m2}
    NoMail = NoMail
    To <- MCTo
    Parts <- MCParts
    Ids <- MCIds
    MaxTries <- MCMaxTries
SPECIFICATION FairSpec
INVARIANTS
    TypeOK
    NoOrphans
    DeliveredAsAddressed
    CopiesAccounted
    ConnectionReturned
PROPERTIES
    ImplementsMailStore
    DataAnswered
