SPECIFICATION FairSpec
CONSTANTS
    attendance = attendance
    stock = stock
    title = title
    chart = chart
    Users = {root}
    Admins = {root}
    Operations = {attendance}
    Catalogue = {attendance}
    WorkspaceIds = {w1}
    PanelIds = {p1, p2}
    Titles = {title}
    Views = {}
    Slots = {s1, s2}
    Requests <- RegistryRequests
    None = None
    Gone = Gone
    Absent = Absent
    Blank = Blank
PROPERTIES ImplementsRegistry EventuallyReplies
