SPECIFICATION Spec
CONSTANTS
    long = long
    short = short
    Resource = resource
    Others = {object}
    Types = {"IncomingBlockMessageCallback", "ExecuteCallback2"}
    first = first
    second = second
    object = object
    Callbacks = {first, second}
    Settings <- OneElsewhere
    Transfers = {long, short}
    Blocks <- LongAndShort
    MaxSize = 10
    Sizes = {10, 11}
    Tokens = {post1}
    Outstanding = 2
    NoToken = NoToken
    NoCallback = NoCallback
INVARIANTS
    TypeOK
    CallbacksAreCurrent
    CombinedIsComplete
    UpdatedIsComplete
CHECK_DEADLOCK FALSE
