\* The README's claim about new inboxes on a disabled domain.
CONSTANTS
    Domains = {d1}
    Conns = {}
    Admins = {a1}
    Visitors = {v1}
    Locals = {l1}
    Seed = d1
    NoDomain = NoDomain
    TTL = 1
    Latency = 0
SPECIFICATION AccountsSpec
INVARIANTS
    CreatedWhereEnabled
