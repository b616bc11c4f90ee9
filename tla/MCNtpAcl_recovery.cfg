SPECIFICATION Spec
CONSTANTS
    Procs = {p1}
    Cidrs <- MCCidrs
    Clients <- MCClients
    Members <- MCMembers
    MaxRules = 3
    Scenarios = {{"watchdog"}}
SYMMETRY Symmetry
INVARIANTS
    DeniedNotServed
