SPECIFICATION Spec
SYMMETRY Symmetric
CONSTANTS
    root = root
    ann = ann
    old = old
    new = new
    admin = admin
    member = member
    s1 = s1
    s2 = s2
    t1 = t1
    t2 = t2
    People = {root, ann}
    Passwords = {old, new}
    Roles = {admin, member}
    None = None
    Admin = root
    AdminRole = admin
    Environments <- Started
    Browsers = {b1}
    Slots = {s1, s2}
    Tokens = {t1, t2}
    SessionTTL = 1
    MaxClock = 1
INVARIANTS
    AdminIsThere
    SessionsDecide
PROPERTIES
    StartsWhatLoads
    ImplementsSignIns
