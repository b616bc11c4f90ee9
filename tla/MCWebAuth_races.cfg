SPECIFICATION Spec
CONSTANTS
    Procs = {p1, p2}
    Sids = {s1, s2}
    Names = {root, amy, bob}
    RootName = root
    Strong = {x1}
    Weak = {w1}
    NoPw = NoPw
    NoSid = NoSid
    NoName = NoName
    MaxUid = 3
    MaxNow = 1
    SessionExpire = 1
    PasswordExpire = 1
    KillAllowed = TRUE
SYMMETRY Symmetry
INVARIANTS
    RootAlive
    ManagedByRoot
    IdentityStable
    DeleteLogged
    AuthInv
