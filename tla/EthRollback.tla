---------------------------- MODULE EthRollback ----------------------------
(***************************************************************************)
(* Changing the configuration of the network ports, and the rollback that   *)
(* guards a change of eth0, the port the device is administered through     *)
(* (src/src/network.cgi.c, nmcli.c, login.cgi.c, rollback_watchdog.sh).     *)
(*                                                                         *)
(* Three kinds of process share the NetworkManager profiles and the file    *)
(* rollback.json: network.cgi requests, login.cgi requests, and instances   *)
(* of the watchdog script, started by a 180 s timer or at boot.  An action  *)
(* is one nmcli command or one system call on the file.                     *)
(*                                                                         *)
(* NetworkManager has an address with a prefix, forms and snapshots have a  *)
(* dotted mask (NetParams).  Of the gateway it matters whether there is one; *)
(* DNS and IPv6 travel with the address.  The new_* lines of the file are   *)
(* never read and are left out.  The three sed commands with which the watchdog   *)
(* reads nic, ts and confirmed are one read, as are the four that read the  *)
(* old configuration.  The temporary file of a login is its own.            *)
(***************************************************************************)
EXTENDS NetParams, FiniteSets

CONSTANTS
    Procs,       \* CGI processes that may run at the same time
    Dogs,        \* instances of rollback_watchdog.sh, armed or running
    BootDog,     \* the instance rollback-recover.service starts
    Nics, Eth0,  \* the ports, and the one that is guarded
    LoginPorts,  \* the ports users log in through
    Forms,       \* parameters users submit, see NetParams
    Delivered,   \* the parameters eth0 starts with
    MaxChanges,  \* bound on the changes of eth0
    MaxCrashes,  \* bound on power failures
    Scenarios    \* sets of faults, see FaultNames: one is picked at the start

FaultNames ==
    { "overlap",     \* a change is made while an earlier one is not settled
      "crash_in_set",\* power fails while a change is being made
      "no_timer",    \* systemd-run fails
      "no_write",    \* rollback.json cannot be opened
      "nm_error",    \* nmcli modify fails
      "unplug" }     \* a cable is pulled or plugged in

(* Forms that pass the check of their shape, and those NetworkManager, which *)
(* wants all four octets, accepts as well.                                   *)
Valid == {f \in Forms : nmcli_validate_params(f)}
nmcli_accepts(f) ==
    /\ Len(f.ip) = 4
    /\ f.gateway # None => Len(f.gateway) = 4
    /\ \A i \in 1 .. Len(f.dns) : Len(f.dns[i]) = 4

(* An address that passes the check is not the empty text.                   *)
ASSUME RollbackAssumption ==
    /\ IsFiniteSet(Procs)
    /\ BootDog \in Dogs
    /\ Eth0 \in Nics
    /\ LoginPorts \subseteq Nics
    /\ Delivered \in Valid /\ nmcli_accepts(Delivered)
    /\ \A f \in Valid : f.ip # None
    /\ MaxChanges \in Nat
    /\ MaxCrashes \in Nat
    /\ Scenarios \subseteq SUBSET FaultNames

VARIABLES
    profile,   \* the saved NetworkManager profile of each port
    eff,       \* the configuration in effect, as `nmcli device show` has it
    link,      \* is the port connected?
    file,      \* rollback.json
    req,       \* the CGI processes
    dog,       \* the watchdog instances
    stamp,     \* number of records written: the time, for ts and auth.log
    sshAt,     \* the time of the last SSH login
    crashes,   \* number of power failures
    faults,    \* what may go wrong in this behaviour
    vouched    \* history: addresses of eth0 used for some login

world == <<stamp, sshAt, crashes, faults, vouched>>
vars == <<profile, eff, link, file, req, dog, world>>

Cidr(ip, mask) == [ip |-> ip, prefix |-> nmcli_mask_to_prefix(mask)]
NoAddr == Cidr(None, << >>)

Addrs == {Cidr(f.ip, f.mask) : f \in {f \in Valid : nmcli_accepts(f)}}

(* A configuration as NetworkManager and the record have it, and as the C    *)
(* code has it                                                               *)
Config == [addr : Addrs \cup {NoAddr}, gw : BOOLEAN]
NoConfig == [addr |-> NoAddr, gw |-> FALSE]
NicConfig == [ip : {a.ip : a \in Addrs} \cup {None}, gw : BOOLEAN,
              mask : {prefix_to_mask(a.prefix) : a \in Addrs} \cup {<< >>}]
NoNicConfig == [ip |-> None, mask |-> << >>, gw |-> FALSE]
NoForm == [ip |-> None]

(* open: the processes that hold the file open for writing                   *)
RollbackFile == [st : {"none", "empty", "full"}, id : 0..MaxChanges,
                 old : Config, confirmed : BOOLEAN, open : SUBSET Procs]
NoFile == [st |-> "none", id |-> 0, old |-> NoConfig, confirmed |-> FALSE,
           open |-> {}]

SetSteps == {"modify", "clear", "drop", "open", "write", "timer"}

(* todo: the ports clear_gateway_others has still to look at; port: the one   *)
(* whose gateway it is about to clear; dark, a history: those that had no     *)
(* cable when it looked.                                                     *)
Request == [pc : SetSteps \cup {"idle", "rename"}, nic : Nics,
            cfg : Valid \cup {NoForm}, old : NicConfig, rec : RollbackFile,
            todo : SUBSET Nics, port : Nics, dark : SUBSET Nics]
Idle == [pc |-> "idle", nic |-> Eth0, cfg |-> NoForm, old |-> NoNicConfig,
         rec |-> NoFile, todo |-> {}, port |-> Eth0, dark |-> {}]

(* wait: the requests and timers that end before this timer fires, because   *)
(* they were under way when it was armed and a request takes far less than   *)
(* 180 s.                                                                    *)
Dog == [pc : {"off", "armed", "read", "keep", "restore", "up", "rm"},
        wait : SUBSET (Procs \cup Dogs)]
Asleep == [pc |-> "off", wait |-> {}]

Init ==
    LET a == Cidr(Delivered.ip, Delivered.mask)
    IN /\ profile = [n \in Nics |-> IF n = Eth0 THEN [addr |-> a, gw |-> TRUE]
                                    ELSE NoConfig]
       /\ eff = profile
       /\ link = [n \in Nics |-> TRUE]
       /\ file = NoFile
       /\ req = [p \in Procs |-> Idle]
       /\ dog = [d \in Dogs |-> Asleep]
       /\ stamp = 0
       /\ sshAt = 0
       /\ crashes = 0
       /\ faults \in Scenarios
       /\ vouched = {a}

-----------------------------------------------------------------------------
Busy(p) == req[p].pc # "idle"
InSet(p) == req[p].pc \in SetSteps

Goto(p, pc) ==
    /\ req' = [req EXCEPT ![p].pc = pc]
    /\ UNCHANGED dog

(* x, a request or a timer, is over: nothing waits for it any more.          *)
Without(dogs, x) == [d \in Dogs |-> [dogs[d] EXCEPT !.wait = @ \ {x}]]

Finish(p) ==
    /\ req' = [req EXCEPT ![p] = Idle]
    /\ dog' = Without(dog, p)

(* `nmcli connection up` and NetworkManager's own activation at link-up and  *)
(* at boot: a port without a link has no configuration in effect.            *)
Activated(n, prof, lnk) == IF lnk[n] THEN prof[n] ELSE NoConfig

-----------------------------------------------------------------------------
(* network.cgi?action=set                                                    *)

(* May an nmcli command fail, apart from bringing a port up?                 *)
nmcli_run_fails == "nm_error" \in faults

(* `nmcli device show` tells what is in effect, with a prefix.               *)
nmcli_get_config(n) ==
    [ip |-> eff[n].addr.ip, gw |-> eff[n].gw,
     mask |-> IF eff[n].addr = NoAddr THEN << >> ELSE prefix_to_mask(eff[n].addr.prefix)]

(* handle_set up to the snapshot of eth0's configuration in effect           *)
SetStart(p) ==
    /\ ~Busy(p)
    /\ "overlap" \in faults \/ /\ \A q \in Procs : ~Busy(q)
                               /\ \A d \in Dogs : dog[d].pc = "off"
                               /\ file.st = "none" \/ file.confirmed
    /\ \E n \in Nics, c \in Valid :
         /\ n = Eth0 =>
              stamp + Cardinality({q \in Procs : InSet(q) /\ req[q].nic = Eth0})
                < MaxChanges
         /\ req' = [req EXCEPT ![p] =
                      [Idle EXCEPT !.pc = "modify", !.nic = n, !.cfg = c,
                                   !.old = IF n = Eth0 THEN nmcli_get_config(n)
                                          ELSE NoNicConfig]]
    /\ UNCHANGED <<profile, eff, link, file, dog, world>>

(* Mutant: the comparison with the port to keep is the wrong way round.      *)
other_ports_same(keep) == {keep}

(* The ports clear_gateway_others goes through; their order is left open.     *)
other_ports(keep) == Nics \ {keep}

(* nmcli_set_config: create the profile if there is none, and modify it      *)
SetModify(p) ==
    /\ req[p].pc = "modify"
    /\ \/ /\ nmcli_accepts(req[p].cfg)
          /\ profile' = [profile EXCEPT ![req[p].nic] =
                           [addr |-> Cidr(req[p].cfg.ip, req[p].cfg.mask),
                            gw |-> req[p].cfg.gateway # None]]
          /\ req' = [req EXCEPT ![p].pc = "clear",
                                ![p].todo = IF req[p].cfg.gateway # None
                                            THEN other_ports(req[p].nic) ELSE {}]
          /\ UNCHANGED dog
       \/ /\ nmcli_run_fails \/ ~nmcli_accepts(req[p].cfg)
          /\ Finish(p)
          /\ UNCHANGED profile
    /\ UNCHANGED <<eff, link, file, world>>

(* clear_gateway_others asks for the configuration in effect of each port,    *)
(* and passes over one that has no gateway in effect ...                      *)
SetShow(p) ==
    /\ req[p].pc = "clear"
    /\ \E n \in req[p].todo :
         \/ /\ nmcli_get_config(n).gw
            /\ req' = [req EXCEPT ![p].pc = "drop", ![p].port = n]
         \/ /\ ~nmcli_get_config(n).gw \/ nmcli_run_fails
            /\ req' = [req EXCEPT ![p].todo = @ \ {n},
                                  ![p].dark = @ \cup {m \in {n} : ~link[m]}]
    /\ UNCHANGED <<profile, eff, link, file, dog, world>>

(* ... and edits the profile.  It does not bring the profile up again, and    *)
(* ignores a failure.                                                        *)
SetDrop(p) ==
    /\ req[p].pc = "drop"
    /\ \/ profile' = [profile EXCEPT ![req[p].port].gw = FALSE]
       \/ nmcli_run_fails /\ UNCHANGED profile
    /\ req' = [req EXCEPT ![p].pc = "clear", ![p].todo = @ \ {req[p].port}]
    /\ UNCHANGED <<eff, link, file, dog, world>>

(* Bring the profile up; a failure is ignored.  Only eth0 is guarded.        *)
SetUp(p) ==
    /\ req[p].pc = "clear" /\ req[p].todo = {}
    /\ eff' = [eff EXCEPT ![req[p].nic] = Activated(req[p].nic, profile, link)]
    /\ IF req[p].nic = Eth0 THEN Goto(p, "open") ELSE Finish(p)
    /\ UNCHANGED <<profile, link, file, world>>

(* arm_rollback: fopen(path, "w") truncates the file in place                *)
ArmOpen(p) ==
    /\ req[p].pc = "open"
    /\ \/ /\ file' = [NoFile EXCEPT !.st = "empty", !.open = file.open \cup {p}]
          /\ Goto(p, "write")
       \/ /\ "no_write" \in faults
          /\ Finish(p)
          /\ UNCHANGED file
    /\ UNCHANGED <<profile, eff, link, world>>

(* The buffered lines reach the file at fclose.  A process whose file was    *)
(* renamed over or removed meanwhile writes to a file nobody will see.       *)
ArmWrite(p) ==
    /\ req[p].pc = "write"
    /\ stamp' = stamp + 1
    /\ file' = IF p \in file.open
               THEN [st |-> "full", id |-> stamp + 1,
                     old |-> [addr |-> Cidr(req[p].old.ip, req[p].old.mask),
                              gw |-> req[p].old.gw],
                     confirmed |-> FALSE, open |-> file.open \ {p}]
               ELSE file
    /\ Goto(p, "timer")
    /\ UNCHANGED <<profile, eff, link, sshAt, crashes, faults, vouched>>

(* systemd-run --on-active=180 rollback_watchdog.sh, best effort             *)
ArmTimer(p) ==
    /\ req[p].pc = "timer"
    /\ \/ \E d \in Dogs \ {BootDog} :
            /\ dog[d].pc = "off"
            /\ req' = [req EXCEPT ![p] = Idle]
            /\ dog' = [Without(dog, p) EXCEPT ![d] =
                         [pc |-> "armed",
                          wait |-> {q \in Procs \ {p} : Busy(q)}
                                     \cup {e \in Dogs : dog[e].pc = "armed"}]]
       \/ "no_timer" \in faults /\ Finish(p)
    /\ UNCHANGED <<profile, eff, link, file, world>>

-----------------------------------------------------------------------------
(* Login signals                                                             *)

(* Somebody logs in through port n, which is connected and has an address.   *)
Vouch(n) ==
    /\ link[n] /\ eff[n].addr # NoAddr
    /\ vouched' = vouched \cup (IF n = Eth0 THEN {eff[Eth0].addr} ELSE {})

(* login.cgi, confirm_rollback: read the file and write the temporary copy;  *)
(* without a line confirmed=0 to replace nothing is renamed.  The port the   *)
(* login came through is not looked at.                                      *)
LoginRead(p) ==
    /\ ~Busy(p)
    /\ \E n \in LoginPorts : Vouch(n)
    /\ IF file.st = "full" /\ ~file.confirmed
       THEN req' = [req EXCEPT ![p] = [Idle EXCEPT !.pc = "rename", !.rec = file]]
       ELSE UNCHANGED req
    /\ UNCHANGED <<profile, eff, link, file, dog, faults, stamp, sshAt, crashes>>

LoginRename(p) ==
    /\ req[p].pc = "rename"
    /\ file' = [req[p].rec EXCEPT !.confirmed = TRUE, !.open = {}]
    /\ Finish(p)
    /\ UNCHANGED <<profile, eff, link, world>>

(* sshd writes an Accepted line to auth.log; its address is not looked at.   *)
(* A login in the same second as a record is not later than the record.      *)
SshLogin ==
    /\ sshAt' \in {stamp, sshAt}
    /\ \E n \in LoginPorts : Vouch(n)
    /\ UNCHANGED <<profile, eff, link, file, req, dog, faults, stamp, crashes>>

-----------------------------------------------------------------------------
(* rollback_watchdog.sh                                                      *)

DogGoto(d, pc) == dog' = [dog EXCEPT ![d].pc = pc]

DogFire(d) ==
    /\ dog[d].pc = "armed"
    /\ dog[d].wait = {}
    /\ dog' = [Without(dog, d) EXCEPT ![d].pc = "read"]
    /\ UNCHANGED <<profile, eff, link, file, req, world>>

(* Mutant: at boot a record that is on disk is taken to be confirmed.        *)
BootMeansConfirmed(d) ==
    IF file.st # "full" THEN "off"
    ELSE IF file.confirmed \/ sshAt >= file.id \/ d = BootDog THEN "keep"
    ELSE "restore"

(* What the script decides from nic, ts and confirmed.  In a file that is    *)
(* still empty nic and ts are empty: it exits and leaves the file.           *)
Decision(d) ==
    IF file.st # "full" THEN "off"
    ELSE IF file.confirmed \/ sshAt >= file.id THEN "keep"
    ELSE "restore"

DogRead(d) ==
    /\ dog[d].pc = "read"
    /\ DogGoto(d, Decision(d))
    /\ UNCHANGED <<profile, eff, link, file, req, world>>

(* rm -f: processes that have the file open lose it.                         *)
Remove(d) ==
    /\ file' = NoFile
    /\ DogGoto(d, "off")
    /\ UNCHANGED <<profile, eff, link, req, world>>

DogKeep(d) == dog[d].pc = "keep" /\ Remove(d)

(* Mutant: the script goes on when nmcli refuses the old configuration       *)
RestoreOrGoOn(d) ==
    /\ dog[d].pc = "restore"
    /\ \/ /\ file.st = "full"
          /\ file.old.addr # NoAddr
          /\ profile' = [profile EXCEPT ![Eth0] = file.old]
       \/ UNCHANGED profile
    /\ DogGoto(d, "up")
    /\ UNCHANGED <<eff, link, file, req, world>>

(* Mutant: whatever the file says is written to the profile                  *)
RestoreUnchecked(d) ==
    /\ dog[d].pc = "restore"
    /\ profile' = [profile EXCEPT ![Eth0] = file.old]
    /\ DogGoto(d, "up")
    /\ UNCHANGED <<eff, link, file, req, world>>

(* nmcli connection modify with the old configuration, read only now; it     *)
(* refuses an empty address (a file just truncated or removed, or a snapshot *)
(* taken with no address in effect) and the script exits, as it does when the *)
(* second command, the one for IPv6, fails.                                  *)
DogRestore(d) ==
    /\ dog[d].pc = "restore"
    /\ \/ /\ file.st = "full"
          /\ file.old.addr # NoAddr
          /\ profile' = [profile EXCEPT ![Eth0] = file.old]
          /\ DogGoto(d, "up") \/ ("nm_error" \in faults /\ DogGoto(d, "off"))
       \/ /\ file.st # "full" \/ file.old.addr = NoAddr \/ "nm_error" \in faults
          /\ DogGoto(d, "off")
          /\ UNCHANGED profile
    /\ UNCHANGED <<eff, link, file, req, world>>

(* Mutant: the script ends with the profile restored but not activated.      *)
NoUp(d) ==
    /\ dog[d].pc = "up"
    /\ DogGoto(d, "rm")
    /\ UNCHANGED <<profile, eff, link, file, req, world>>

DogUp(d) ==
    /\ dog[d].pc = "up"
    /\ eff' = [eff EXCEPT ![Eth0] = Activated(Eth0, profile, link)]
    /\ DogGoto(d, "rm")
    /\ UNCHANGED <<profile, link, file, req, world>>

DogRm(d) == dog[d].pc = "rm" /\ Remove(d)

-----------------------------------------------------------------------------
(* The environment                                                           *)

(* Power fails and returns: processes and timers are gone, profiles and the  *)
(* file are on disk, NetworkManager activates the profiles and then          *)
(* rollback-recover.service runs the watchdog.                               *)
Crash ==
    /\ crashes < MaxCrashes
    /\ "crash_in_set" \in faults \/ \A p \in Procs : ~InSet(p)
    /\ crashes' = crashes + 1
    /\ req' = [p \in Procs |-> Idle]
    /\ dog' = [d \in Dogs |-> IF d = BootDog THEN [Asleep EXCEPT !.pc = "read"]
                              ELSE Asleep]
    /\ eff' = [n \in Nics |-> Activated(n, profile, link)]
    /\ file' = [file EXCEPT !.open = {}]
    /\ UNCHANGED <<profile, link, faults, stamp, sshAt, vouched>>

Cable(n) ==
    /\ "unplug" \in faults
    /\ link' = [link EXCEPT ![n] = ~@]
    /\ eff' = [eff EXCEPT ![n] = Activated(n, profile, link')]
    /\ UNCHANGED <<profile, file, req, dog, world>>

SetStep(p) == \/ SetModify(p) \/ SetShow(p) \/ SetDrop(p) \/ SetUp(p)
              \/ ArmOpen(p) \/ ArmWrite(p) \/ ArmTimer(p)

DogStep(d) == \/ DogFire(d) \/ DogRead(d) \/ DogKeep(d) \/ DogRestore(d)
              \/ DogUp(d) \/ DogRm(d)

Next ==
    \/ \E p \in Procs :
         SetStart(p) \/ SetStep(p) \/ LoginRead(p) \/ LoginRename(p)
    \/ \E d \in Dogs : DogStep(d)
    \/ SshLogin \/ Crash
    \/ \E n \in Nics : Cable(n)

Spec == Init /\ [][Next]_vars

(* A request that has begun goes on, timers fire, and the script runs.       *)
Fairness ==
    /\ \A p \in Procs : WF_vars(SetStep(p)) /\ WF_vars(LoginRename(p))
    /\ \A d \in Dogs : WF_vars(DogStep(d))

FairSpec == Spec /\ Fairness

-----------------------------------------------------------------------------
(* Properties                                                                *)

TypeOK ==
    /\ profile \in [Nics -> Config]
    /\ eff \in [Nics -> Config]
    /\ link \in [Nics -> BOOLEAN]
    /\ file \in RollbackFile
    /\ req \in [Procs -> Request]
    /\ dog \in [Dogs -> Dog]
    /\ stamp \in 0..MaxChanges
    /\ sshAt \in 0..MaxChanges
    /\ crashes \in 0..MaxCrashes
    /\ faults \in Scenarios
    /\ vouched \in SUBSET Addrs

Quiet == /\ \A p \in Procs : ~Busy(p)
         /\ \A d \in Dogs : dog[d].pc = "off"

(* ADR-0003, decision 10: when every request and every watchdog is through,  *)
(* eth0 has an address through which somebody has logged in.                 *)
SettledVouched ==
    Quiet /\ link[Eth0] => eff[Eth0].addr \in vouched

(* It holds when changes are made one after the other and a change is not cut *)
(* short: an address nobody ever reached is never left behind, whatever power *)
(* failures, logins at the last moment and watchdog runs interleave.         *)
SettledWithoutFaults == faults = {} => SettledVouched

(* A change that nobody has confirmed and that could not be taken back (no    *)
(* timer, nmcli failing, no cable) is still on record in rollback.json, for   *)
(* rollback-recover.service to try again at the next boot.                   *)
OnRecord ==
    /\ faults \cap {"overlap", "crash_in_set", "no_write"} = {}
    /\ Quiet /\ link[Eth0]
    /\ eff[Eth0].addr \notin vouched
    => file.st = "full" /\ ~file.confirmed

Typed == {<<f.ip, Value(f.mask)>> : f \in Forms}

(* Whatever races for rollback.json (a truncated file, a file renamed over,   *)
(* a snapshot taken without a cable), the profile of eth0 always has an       *)
(* address and exactly a mask that somebody typed: the way from the form's    *)
(* mask to a prefix, back to a mask in the snapshot and to a prefix in the    *)
(* record loses no bit (valid_mask, nmcli_mask_to_prefix, prefix_to_mask).    *)
(* No state leaves its type.                                                 *)
Eth0Addressed ==
    /\ TypeOK
    /\ <<profile[Eth0].addr.ip, 2 ^ Width - 2 ^ (Width - profile[Eth0].addr.prefix)>>
          \in Typed

(* The same as a promise about the future: a new address of eth0 is either   *)
(* logged in to or taken back, under the fairness above, if nothing fails.     *)
ChangeResolved ==
    (faults = {} /\ eff[Eth0].addr \notin vouched) ~> (eff[Eth0].addr \in vouched)

(* clear_gateway_others is through.                                          *)
Cleared(p) ==
    \/ req[p].pc = "clear" /\ req[p].todo = {}
    \/ req[p].pc \in {"open", "write", "timer"}

(* A port that is given the gateway takes it over, when changes are made one  *)
(* after the other and nmcli does not fail, wherever cables are pulled and    *)
(* power fails: no other profile has a gateway once clear_gateway_others is   *)
(* through, except that of a port that had no cable when it was looked at,    *)
(* because only gateways in effect are cleared.                               *)
GatewayMoved ==
    faults \cap {"overlap", "nm_error"} = {} =>
       \A p \in Procs : Cleared(p) /\ req[p].cfg.gateway # None =>
          \A n \in Nics \ {req[p].nic} : profile[n].gw => n \in req[p].dark

(* ADR-0003, decision 7: at any time at most one port is configured with a    *)
(* gateway; it moves to the port it was last given to.  It is asked only when *)
(* no change is being made and no rollback is pending.                        *)
GatewayUnique ==
    Quiet => \A m, n \in Nics : profile[m].gw /\ profile[n].gw => m = n

=============================================================================
