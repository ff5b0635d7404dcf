SPECIFICATION Spec
CONSTANTS
    o = o
    i = i
    r = r
    q = q
    m = m
    x = x
    Object = o
    Instances = {i}
    Resources = {r, q, m}
    ResourceInstances = {x}
    Parent <- ParentOf
    Multiple = {m}
    Strings = {}
    Statics = {}
    Hidden = {}
    Observable = {o, i, r, m}
    Attributed = {}
    Tokens = {o, i, r, q, m, x}
    TokensOf <- OwnTokens
    NoToken = NoToken
    Bodies <- OneResource
INVARIANTS
    ObserversAreTold
CHECK_DEADLOCK FALSE
