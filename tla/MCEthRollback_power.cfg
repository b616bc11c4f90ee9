SPECIFICATION Spec
CONSTANTS
    Procs = {p1}
    Dogs = {boot, d1}
    BootDog = boot
    Nics = {eth0}
    Eth0 = eth0
    LoginPorts = {eth0}
    OctetBits = 2
    Junk = Junk
    None = None
    Forms <- MCForms
    Delivered <- MCDelivered
    MaxChanges = 1
    MaxCrashes = 1
    Scenarios = {{"crash_in_set"}}
SYMMETRY Symmetry
INVARIANTS
    SettledVouched
