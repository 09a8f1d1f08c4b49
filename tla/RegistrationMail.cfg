\* One account and the mail for it, through the domain cache.  No symmetry: it is
\* not sound for liveness.
CONSTANTS
    Domains = {d1}
    Conns = {c1, c2}
    Admins = {a1}
    Visitors = {v1}
    Locals = {l1}
    Seed = d1
    NoDomain = NoDomain
    TTL = 2
    Latency = 1
SPECIFICATION FairAccountsSpec
INVARIANTS
    AccountReachable
    StalenessBounded
PROPERTIES
    VerdictFresh
    EventuallyAgrees
