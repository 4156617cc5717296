SPECIFICATION Spec
CONSTANTS
    list = list
    search = search
    create = create
    clock = clock
    stock = stock
    attendance = attendance
    status = status
    name = name
    open = open
    box = box
    Users = {alice, root}
    Admins = {root}
    Operations = {list, search, create, clock}
    Services = {stock, attendance}
    ServiceOf <- Service
    Safe = {list, search, clock}
    Params = {status, name}
    ParamsOf <- Takes
    BodyOf <- Carries
    Required <- Requires
    Enums = {status}
    Texts = {name}
    EnumValues = {open}
    Values = {open, box}
    Requests <- Everything
    Configs <- Deployments
    Grants <- Given
    None = None
INVARIANTS
    PlanNeverWrites
    OnlyUnderGrant
    NoGuessIsCalled
    NoTextIsInvented
    AdvisersNeverFailAPlan
PROPERTY ImplementsContract
