SPECIFICATION Spec
CONSTANTS
    Procs = {p1}
    Cidrs <- MCCidrs
    Clients <- MCClients
    Members <- MCMembers
    MaxRules = 3
    Scenarios = {{}, {"kill", "command"}, {"kill", "command", "watchdog"}, {"chronyd", "watchdog"}}
SYMMETRY Symmetry
INVARIANTS
    Persisted
    InForce
    AllowsRestored
    AclInv
