\* The comment's claim about two concurrent setups.
CONSTANTS
    Operators = {o1, o2}
    NoHash = NoHash
    Requests = {q1, q2}
    Tokens = {t1, t2}
    NoToken = NoToken
    TTL = 2
SPECIFICATION Spec
PROPERTIES
    SetupOnce
