SPECIFICATION FairSpec
CONSTANTS
    stock = stock
    attendance = attendance
    list = list
    listItems = listItems
    list_capabilities = list_capabilities
    propose_panel = propose_panel
    none = none
    status = status
    kind = kind
    open = open
    closed = closed
    Services = {stock, attendance}
    Ids = {list, listItems}
    ListCapabilities = list_capabilities
    ProposePanel = propose_panel
    NoOperation = none
    Other = Other
    Unknown = Unknown
    Levels = {0, 5, 10}
    Total = 10
    Rank <- Ranks
    MaxChoiceOptions = 5
    GateThreshold = 7
    FillThreshold = 5
    Params <- ParamList
    EnumOf <- Enums
    Values = {open, closed}
    Unset = Unset
    Mismatch = Mismatch
    Refusal = Refusal
    Capabilities = Capabilities
    Missing = Missing
    None = None
    Consulted <- Everything
    PickerTimeout = 4
    PickerThreshold = 7
    RequestTimeout = 50
    Backoffs <- Pauses
    ChatTimeout = 600
    Durations = {1, 5}
    Length <- IdLengths
    PartOf <- Parts
INVARIANTS
    TakesSureRemotePicks
    AnswersInTime
    OnlyRemotePicksStray
    WholeNamesArePicked
    FillsOnlySureValues
PROPERTY EveryConsultationEnds
