SPECIFICATION Spec
CONSTANTS
    o = o
    i = i
    r = r
    q = q
    m = m
    x = x
    Object = o
    Instances = {i}
    Resources = {r, q, m}
    ResourceInstances = {x}
    Parent <- ParentOf
    Multiple = {m}
    Strings = {q}
    Statics = {q}
    Hidden = {}
    Observable = {o, i, r, m}
    Attributed = {m}
    Tokens = {o, i, r, q, m, x}
    TokensOf <- OwnTokens
    NoToken = NoToken
    Bodies <- OneResource
INVARIANTS
    TypeOK
    LevelsAreObservations
    ObservationsAgree
    ListedIsAlive
PROPERTIES
    ImplementsObservation
CHECK_DEADLOCK FALSE
