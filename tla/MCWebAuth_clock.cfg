SPECIFICATION Spec
CONSTANTS
    Procs = {p1, p2}
    Sids = {s1, s2}
    Names = {root, amy}
    RootName = root
    Strong = {x1}
    Weak = {w1}
    NoPw = NoPw
    NoSid = NoSid
    NoName = NoName
    MaxUid = 2
    MaxNow = 2
    SessionExpire = 1
    PasswordExpire = 2
    KillAllowed = FALSE
SYMMETRY Symmetry
INVARIANTS
    OpenSessionsKicked
    FreshPasswordForced
