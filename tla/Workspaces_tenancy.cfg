SPECIFICATION Spec
CONSTANTS
    attendance = attendance
    stock = stock
    title = title
    chart = chart
    Users = {alice, root}
    Admins = {root}
    Operations = {attendance, stock}
    Catalogue = {attendance}
    WorkspaceIds = {w1, w2}
    PanelIds = {p1}
    Titles = {title}
    Views = {chart}
    Slots = {s1, s2}
    Requests <- TenancyRequests
    None = None
    Gone = Gone
    Absent = Absent
    Blank = Blank
SYMMETRY SlotsAndIds
INVARIANT TypeOK
PROPERTIES
    ReplyShowsOwn
    OnlyOwnerWrites
    DeleteTakesEveryPanel
    SavedUnderGrant
    PatchWritesNamedColumns
    GrantsReplacedWhole
