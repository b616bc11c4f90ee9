SPECIFICATION Spec
CONSTANTS
    Procs = {p1, p2}
    Dogs = {boot, d1, d2}
    BootDog = boot
    Nics = {eth0}
    Eth0 = eth0
    LoginPorts = {eth0}
    OctetBits = 2
    Junk = Junk
    None = None
    Forms <- MCForms
    Delivered <- MCDelivered
    MaxChanges = 2
    MaxCrashes = 1
    Scenarios = {{}, {"nm_error", "no_timer", "unplug"}, {"overlap", "crash_in_set", "no_write"}, {"overlap", "unplug"}}
SYMMETRY Symmetry
INVARIANTS
    SettledWithoutFaults
    OnRecord
    Eth0Addressed
