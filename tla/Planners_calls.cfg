SPECIFICATION FairSpec
CONSTANTS
    stock = stock
    clocks = clocks
    find = find
    edit = edit
    load = load
    status = status
    place = place
    open = open
    one = one
    shut = shut
    Names = {status, place, body}
    Texts = {open, one, shut}
    Number = Number
    Digits = one
    Null = Null
    BodyName = body
    None = None
    Services = {stock, clocks}
    Ids = {find, edit, load}
    Unknown = Unknown
    Catalog <- Offer
    ContractOf <- Contracted
    Asked <- Requested
    Written <- Writes
    ChatTimeout = 4
    Durations = {1, 4}
INVARIANTS
    CallsAreChecked
    ArgumentsArriveOnce
    TruncationIsNoFailure
    DecidedInTime
PROPERTY EveryPlanIsDecided
