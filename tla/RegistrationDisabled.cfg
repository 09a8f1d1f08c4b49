\* The README's claim about the inboxes of a disabled domain.
CONSTANTS
    Domains = {d1}
    Conns = {c1}
    Admins = {a1}
    Visitors = {v1}
    Locals = {l1}
    Seed = d1
    NoDomain = NoDomain
    TTL = 1
    Latency = 1
SPECIFICATION AccountsSpec
INVARIANTS
    ExistingInboxesReceive
