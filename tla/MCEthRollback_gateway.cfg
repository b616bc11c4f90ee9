SPECIFICATION Spec
CONSTANTS
    Procs = {p1}
    Dogs = {boot, d1}
    BootDog = boot
    Nics = {eth0, eth1}
    Eth0 = eth0
    LoginPorts = {eth0, eth1}
    OctetBits = 2
    Junk = Junk
    None = None
    Forms <- MCGatewayForms
    Delivered <- MCDelivered
    MaxChanges = 2
    MaxCrashes = 0
    Scenarios = {{"unplug"}}
INVARIANTS
    GatewayUnique
