SPECIFICATION Spec
CONSTANTS
    attendance = attendance
    stock = stock
    title = title
    chart = chart
    Users = {alice, root}
    Admins = {root}
    Operations = {attendance}
    Catalogue = {attendance}
    WorkspaceIds = {w1}
    PanelIds = {p1}
    Titles = {title}
    Views = {}
    Slots = {s1, s2}
    Requests <- OrphanRequests
    None = None
    Gone = Gone
    Absent = Absent
    Blank = Blank
SYMMETRY SlotsAndIds
INVARIANT NoOrphanPanel
