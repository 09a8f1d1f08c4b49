\* Two visitors who may want the same address, two domains, no mail.
CONSTANTS
    Domains = {d1, d2}
    Conns = {}
    Admins = {a1}
    Visitors = {v1, v2}
    Locals = {l1}
    Seed = d1
    NoDomain = NoDomain
    TTL = 1
    Latency = 0
SPECIFICATION AccountsSpec
SYMMETRY Interchangeable
INVARIANTS
    AccountsTypeOK
    ShownAccountsStand
    CreatedWhereOffered
PROPERTIES
    ImplementsAccountBook
    RestartKeepsTable
