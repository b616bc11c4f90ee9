# embeded-web: TLA+ models, checks and proofs

The repository is the software of a small timing appliance: a web
administration interface (lighttpd and C CGI programs over SQLite), a daemon
that disciplines the clock from a receiver's PPS edges and TOD sentences, and
the shell scripts that guard both. This directory models the parts that keep
state, checks them with TLC and proves what can be proved with TLAPS. Paths
below are relative to the repository.

## 1. Inventory

| component | source | state | operations | properties that make it correct |
|---|---|---|---|---|
| accounts, sessions, roles, password policy | `src/auth.c`, `gate.c`, `users.c`, `user_*.cgi.c`, `login/logout/main.cgi.c`, `db_init.c` | tables `users`, `sessions`, `audit_log`, `sqlite_sequence` | login, logout, list, create, delete, toggle, reset, self-service change, `db_init` | one enabled root at all times; sessions end with the password; ids keep their meaning; a fresh password is good for nothing but being changed |
| network configuration, eth0 rollback | `src/network.cgi.c`, `nmcli.c`, `login.cgi.c`, `rollback_watchdog.sh`, `rollback-recover.service` | NetworkManager profiles, configuration in effect, `rollback.json`, timers | set, arm, confirm, roll back, recover at boot | eth0 never stays on an address nobody reached |
| pps_tod watchdog | `pps_tod/pps_tod_watchdog.sh` | mode, restart times, belief about chronyd | one pass a second; restart, close, re-open | restart quota; clients are not served while the clock is not vouched for |
| NTP access control | `chrony_acl_apply.sh`, `src/ntpmon.c`, `ntpmon.cgi.c`, `ntp_serve` of the watchdog | `acl-web.conf`, its `.tmp`, chronyd's rules | add, remove, close, re-open | answer, file and rules in force agree |
| timing daemon | `pps_tod/pps_tod.c` | anchor, edge count, pending edges, strikes, quota, shared memory | sentence, edge, coarse step, status | a right clock is left alone, a wrong one is corrected, within a quota |
| schema migrations | `src/auth.c` 56-230 | schema and rows | create tables, rebuild two of them, add a column | no row is lost, none returns, no table is ever missing, whoever is killed or runs beside |
| NTP statistics | `ntp_stats_sample.sh`, `src/ntpmon.c` 222-443 | CSV of counters, counters of chronyd and iptables | sample, trim, series, windows | no row that is still shown is lost; no invented traffic |
| per-port NTP monitor | `ntp_nic_monitor.c` | client table, minute and second rings, response counters, snapshot | capture, poll, expire, snapshot, restart | counts of a window are right, also over clock jumps; the snapshot is fresh |
| time synchronisation page | `src/timesync.c`, `timesync.cgi.c` | mode file, receiver | set mode, status | the mode shown is the receiver's |
| log viewer | `src/log.cgi.c` | none | list, tail | the tail is the last n lines of the window, none torn |
| validation, masks | `src/nmcli.c` 103-236 | none | checks of the form, mask to prefix and back | the mask that was typed is the one in effect, and the one a rollback restores |
| CGI helpers, SHA-256, RTC and drift scripts, deployment, pages | `src/common.c`, `sha256.c`, `pps_tod/*.sh`, `deploy/`, `www/` | | | not modelled |

How they interact. Every HTTP request is a process; requests share the SQLite
database, whose statements commit one by one, and files that are replaced or
rewritten without a lock. A login does two jobs: it opens a session, and it
confirms a pending change of eth0 in `rollback.json`. The rollback watchdog is
started by a systemd timer 180 s after a change and once at every boot. The
pps_tod watchdog reads the status file the daemon writes every second, restarts
the daemon, and runs `chronyc` on the same rule table the access-control helper
edits. The per-port monitor and the sampler both run `iptables`, whose lock only
one holds at a time, and leave files for the statistics page. Every request goes
through `auth_init` first, so that the migrations run beside everything else.
The daemon feeds chronyd through shared memory and, when the clock is
far off, sets the clock that everybody else measures time with.

What is hard here: statements and commands of two processes in any order;
requests, helpers and the power supply dying between two of them; files read
twice; timers racing a late answer; a clock that steps; two threads sharing
plain variables. `PROJECT.json` lists these hazards at the line where they bite.

## 2. Modules

| module | models | proofs |
|---|---|---|
| `WebAuth` | accounts, sessions, roles, password policy | `WebAuthProofs` |
| `NetParams` | checks and conversions of a port's parameters, used by `EthRollback` | `EthRollbackProofs` |
| `EthRollback` | network configuration and rollback | `EthRollbackProofs` |
| `PpsWatchdog` | pps_tod watchdog | `PpsWatchdogProofs` |
| `NtpAcl` | NTP access control | `NtpAclProofs` |
| `PpsTod` | timing daemon | `PpsTodProofs` |
| `NicTraffic` | abstract: a log of traffic, and what of it is shown | |
| `NicMonitor` | per-port NTP monitor, shown to implement `NicTraffic` | `NicMonitorProofs` |
| `AuthSchema` | schema migrations | `TimesyncProofs` |
| `Timesync` | receiver mode of the time page; extends `AuthSchema` | `TimesyncProofs` |
| `NtpStats` | NTP statistics: sampler and page | `PagesProofs` |
| `LogView` | tail of a growing log | `PagesProofs` |

`MC*.tla` instantiate a module for TLC (symmetry sets, function-valued
constants); a `.cfg` names the run. Definitions called after a mutation
(commented `Mutant:`) are the faulty variants that show that each property can
fail. Operators keep the names of the functions they stand for; the line ranges
are in `PROJECT.json`.

### WebAuth

A request is a record in `cgi`: the next statement (`pc`), the `SessionInfo` the
gate filled in, parameters, and what earlier statements returned. One action is
one SQL statement and the computation up to the next one (`GateSession`,
`GatePolicy`, `CreateInsert`, `DeleteSelect`, `DeleteUser`, `ToggleUpdate`,
`PasswdUpdate`, `PasswdKick`, `ChangeLogin`, ...), because nothing in the code
opens a transaction. Foreign keys are modelled by what they do: `Cascade`
removes the sessions of a deleted user, an audit row whose target is gone is
refused (`Audit`). Ids come from `seq` as AUTOINCREMENT gives them out.
`db_init` runs in three statements beside requests. `Kill` ends a request
between statements; `SetClock` steps the clock in either direction.

Abstracted: a password is its value (the hash decides equality only); session
ids are never issued twice; the contents of the audit log are left out and the
field `logged` keeps whether a request's row was accepted; the count of roots
in `users_toggle` is read with the row it protects; columns that nothing
decides on are left out.

### EthRollback

`profile` is what NetworkManager has saved, `eff` what is in effect, `file` is
`rollback.json` with the processes that hold it open (`fopen("w")` truncates in
place, the text arrives at `fclose`, and a process whose file was renamed over
writes into nothing). One action is one `nmcli` command or one system call:
`clear_gateway_others` asks for a port (`SetShow`) and edits its profile (`SetDrop`),
one port after the other, and `dark` is history, the ports that had no cable when
they were asked for.
`Crash` is a power failure: processes and timers vanish, profiles and the file
stay, and the boot instance of the watchdog runs.

A form goes through `nmcli_validate_params`, its mask becomes a prefix, the
snapshot turns the prefix in effect into a mask again and the record that mask
into a prefix; `NetParams` models these conversions by what they do, for octets
of any width. NetworkManager (external) refuses addresses of fewer than four
octets, which the form's check lets pass.

Time is kept as an order: `stamp` counts the records, and a timer carries in
`wait` the requests that were under way when it was armed; they end before it
fires because a request takes far less than 180 s. Abstracted: DNS and IPv6
travel with the address; the `new_*` lines, which nobody reads, are left
out; the watchdog's `sed` commands before its decision are one read, those
after it another; the temporary file of a login is its own; a write that has
returned is on disk.

### PpsWatchdog

One pass of the loop is an action, split by its branches (`GracePass`,
`GoodPass`, `BadWait`, `BadQuota`, `BadRestart`, `RecoverPass`,
`DegradedPass`), and `Sleep` is another that advances the clock by one to
`MaxSleep` seconds. The outcome of `is_good` and the exit codes are inputs.
`StepWallClock`, `ChronydComesBack` and `ScriptRestart` are the faults. NTP_GUARD is 1.
All calls of `date` in a pass read the same second. Only the watchdog, and a chronyd
that starts again, open chronyd here: an allow added over the web while the watchdog
is DEGRADED opens it for that subnet until the next deny, which is not modelled
(`NtpAcl` has both, without the modes).

### NtpAcl

The ACL file, the shared temporary file and chronyd's rules are sets of rules;
the order of lines matters only to which of two rules a remove without an action
takes, and that is left open. An action is one command of the helper
(`Add` = `chronyc`, `Append` = `cat` and `echo`, `Move` = `mv`, `Restart` =
`systemctl restart`) or of `ntp_serve`. `promised` is history: the rules as the
answers have them; `doubt` collects the rules whose last request failed half
way, of which nothing is claimed. chronyd's table is external and modelled from
the comments and documentation of the repository: longest prefix, deny before
allow, `deny all` discards every rule.

`dog.wait` encodes one timing fact: between closing and re-opening the watchdog
sleeps at least a second, and an add that has already run `chronyc` puts its
file in place within it.

### PpsTod

Time is counted in ticks, `Q` to a second. The serial thread is cut where it
has read a sentence and asks for the lock, and where it unlocks (`Arrive`, `Sentence`,
`SentenceDone`), the gpio thread at its lock sections
(`CheckAnchor`, `Decide`, `StepSecond`, `WriteClock`, `Status`, then
`EdgeTod`, `EdgeNtp` or `PollTimeout`). `SentenceDone` counts on from the value
of `strike` read at its beginning, so that the unlocked `strike = 0` of the gpio
thread can be lost as in the code. `Tick` advances time and delivers edges; a
thread runs at once, or within `Lag` ticks in the circumstances `late` (the gpio
thread) and `late_serial` (the serial thread, between sentence and lock and while it
holds the mutex, so that it holds up the other one).
chronyd (`Discipline`) makes the clock agree with a sample and drops samples
from before a step. Log files, summaries, satellite counts, the contents of the
status file and restarts of the daemon are left out.

### NicTraffic and NicMonitor

`NicTraffic` is what a ring of counters promises: a log of counts per unit of
time, which only grows at the current unit, is reset by a restart, and from which
what is shown is the newest units. `NicMonitor` has the process as it runs: the
loop with `poll` and its time-out, `Capture` for a packet that is counted and `Skip`
for one that is not, after each of which the loop of `capture_drain` may find another
one before the time is looked at (`LoopTop`), `PollNic` for one port's response
counter, `WriteJson`, `WriteFails` (the old snapshot stays, or a part of a new one
replaces it, since `write_json` looks at no result of `fprintf` and `fclose`), expiry,
`Start` with the rules and the
baseline of every port, `Die`. The client table is the array with open
addressing of the code, probing included. `now` is the wall clock, which
`SetClock` sets; `up` is real time, which only the properties and the time-outs
use. `RingsImplement` instantiates `NicTraffic` twice, for minutes and for
seconds, with the log as history variables `mlog` and `slog`. A packet is its
port, its client and whether it is a request. A snapshot has the totals, rows and rings;
the sums over windows that `write_json` also prints (`bucket_sum`) are left out.

### AuthSchema and Timesync

`AuthSchema` has one action per SQL statement of `auth_init`, also for the three that
create tables, each of which commits on its own. A database is a
record of the committed tables; in a transaction a connection works on its own
copy (`tx`), and its first write fails when another connection is writing or has
committed since, as SQLite does in WAL mode. `Old` are rows a first version's
database has; `orphans` are those of users that do not exist, which make the copy
fail. `Timesync` runs requests through these steps and then logs in or sets the
receiver's mode: the serial write, the audit row, and `fopen`, `fclose` and
`rename` of one temporary file for all requests. Files are inodes, because a
request may truncate a file another one has already renamed. `sit` is the
situation of a behaviour: age of the database, kinds of requests, faults, and
whether requests that set the mode may overlap.

### NtpStats and LogView

In `NtpStats` an action is one command of the sampler; one interface and one
counter of chronyd stand for all. A row also remembers how many requests there
had been when each counter was read and which life of the counter it was; the
page's numbers (`PerMinuteOf`, `eth_delta`, computed by the code's loops over the
ring `Loaded`) are compared with that. A full disk may take a part of a row (`cut`); the
next row is written on the same line, and the page reads the line's first ten numbers.
In `LogView` a log is a sequence of lines with offsets and lengths, appended to in one
write or two; `Stat` takes size and window, `Read` splits what the window shows, and
`Kept` is the ring of the code.

`MCServices` puts the last four modules and `PpsWatchdog` side by side in one run. They
share nothing; `part` says which of the four parts a behaviour is about, and the others
stand still.

`Scenarios` in these modules are sets of faults or circumstances of which one is
picked at the start and kept. A property that needs some fault to be absent
says so, and the run still explores all behaviours together.

## 3. Runs

Passing runs:

| run | bounds | what it shows |
|---|---|---|
| `auth_races` | 2 requests, 2 sessions, 3 ids, 3 names, kills | `RootAlive`, `ManagedByRoot`, `IdentityStable`, `DeleteLogged`, and the inductive `AuthInv` (types, `SessionsOwned`, `AdminsDeletable`) |
| `auth_clock` | 2 requests, 2 users, clock 1..2 in both directions | `OpenSessionsKicked`, `FreshPasswordForced` |
| `eth_races` | 2 requests, boot and 2 timer instances, 10 forms of which NetworkManager accepts 2, 2 changes, 1 power failure; four fault sets | `SettledWithoutFaults`, `OnRecord`, `Eth0Addressed` |
| `eth_live` | 2 requests, boot and 1 timer instance, 2 ports, 3 forms with and without a gateway, 2 changes, 1 power failure; without faults and with cables pulled; under `FairSpec` | `ChangeResolved`, `GatewayMoved` |
| `acl_races` | 1 request at a time, 2 nested subnets, 4 rules; four fault sets | `Persisted`, `InForce`, `AllowsRestored`, `AclInv` |
| `tod_races` | 4 ticks a second, 45 ticks, quota 1, window 33, delays of 2 ticks; thirteen sets of circumstances | `HealthyKept`, `BadClockStepped`, `StepQuota`, `StatusFresh`, `StepLands`, `MeasuredAnew`, `StepInv` |
| `nic_races` | 1 port, 3 clients in 2 slots, 2 of which collide, minutes of 2 s, 2 minute and 3 second slots, clock 4..11, 1 fault; eleven scenarios | `RingInv`, `RingsImplement`, `SnapshotFresh`, `ClientsListed`, `ResponsesTrue` |
| `services` | 3 requests, 1 old row, 2 modes, 1 kill, six situations; 3 rows kept and shown, 3 to 8 samples, eight fault sets; logs of 3 or 4 lines and a window of 5 bytes; for the watchdog an hour of 11, cooldown 5, window 2, quota 2, time to 15, four fault sets | `MigrationSafe`, `ModeShown`; `RowsKept`, `RatesTrue`, `MinuteCovered`; `TailTrue`; `RestartBound`, `StarvationNoticed`, `DenyNeverSuppressed`, `ServingResumes`, `DegradedCloses`, `WatchdogInv` |

Why these bounds are enough. Two requests give every pairwise race, and the
third id lets a deleted account's id be asked for again. Two changes of eth0 and
three watchdog instances give a change within the window of another one with
both timers and the boot instance alive. Hour, cooldown and window of the
watchdog keep the order of the real values (30 s < 60 s < 3600 s), and an hour
holds more cooldowns than the quota allows; the throttle is no longer than
window and observation, as in the configuration file. The two masks of
`EthRollback` share their address, so that a lost bit is a wrong address; octets
have two bits, and a mask of one, three and four octets, one that is not
contiguous and one out of range are among the forms. In `NicMonitor` the clock
jumps over more than a whole ring in both directions, and the table is full with
one client waiting. In `MCServices` three requests are an old schema probed by two
with a third writing; eight samples fill the file once beyond twice KEEP, and the
period, lateness and windows keep the order of 60, 5, 90 and 180 s. In `PpsTod` eleven seconds
hold three sentences that make a sequence, a step, the pause and a second quota
window. `CHECK_DEADLOCK FALSE` stands where time is bounded and behaviours end
at `MaxNow`, in `NicMonitor` at `until`, and in `MCServices` when the requests, samples
and lines are used up.

Fairness. Only `eth_live` is about liveness. `FairSpec` assumes weak fairness of
the steps of a request that has begun, of a login's rename, and of a watchdog
instance with its timer: a CGI process, a systemd timer and a script that
runs no blocking command all go on. Nothing is assumed about users, cables or
power. In `PpsTod` and `NicMonitor` progress is a bound (`Lag`, `Timeout`) and so a safety
property.

Disagreements between the code and what the repository says of it, each shown by
a run that is expected to end in a violation:

| run | property | what happens |
|---|---|---|
| `eth_power_loss` | `SettledVouched` | power fails after `nmcli` saved the new address and before `rollback.json` is written; nothing is recovered at boot (ADR-0003:39 says power loss is covered) |
| `eth_gateway` | `GatewayUnique` | a port without a cable has no gateway in effect, so `clear_gateway_others` (`nmcli.c:350`) passes over its profile; another port is given the gateway, and at link-up two have one (ADR-0003:21, CONTEXT.md:18 and `README.md:19`, `313` say at most one has; CONTEXT.md:15 says that eth1-3 usually have no cable) |
| `acl_recovery` | `DeniedNotServed` | `deny all` and the re-opening keep the `allow` lines only; clients with a deny rule are served until chronyd is restarted |
| `tod_second` | `SecondsAgree` | the step follows an edge and uses the second before it: the clock ends one second behind, and every sample confirms it |

Further disagreements met while modelling, without a run of their own:

- two access-control helpers at a time share `acl-web.conf.tmp`: a rule answered as
  persistent (`chrony_acl_apply.sh:53`) is lost (line 51). Adding the fault `overlap` to
  the scenarios of `acl_races` shows it; the properties are claimed for requests one
  after the other;
- with `-A ntp` the `continue` of `pps_tod.c:919` keeps `pair_mutex` and both threads
  stop when an edge falls into the middle of a second of the clock. `EdgeNtp` models
  it; `tod_races` has `-A ntp` with a clock that is right only;
- a login that verified the old password may insert its session after the kick
  (`users.c:241`, `login.cgi.c:73-85`); ADR-0002:34 says the kick closes the window.
  The model marks such sessions `late`;
- the audit row of create, toggle and reset is refused when the target was
  deleted in between (`users.c:78`); `users.h:33-35` promises a row on success;
- `db_init` run again gives root a password the policy would refuse
  (`db_init.c:49`, ADR-0002:30);
- a request killed between the UPDATE of a password and the kick leaves the
  sessions open;
- a second change within the window overwrites the record of the first
  (`network.cgi.c:128`, ADR-0003:26); a login through another port confirms
  (`rollback_watchdog.sh:33`, CONTEXT.md:21);
- a gateway cleared in a profile stays in effect, and the next snapshot and
  rollback put it back beside the new one (`nmcli.c:353`, CONTEXT.md:18): with every
  cable plugged in, `GatewayUnique` is violated that way too. `GatewayMoved`, which holds,
  speaks of the end of `clear_gateway_others` only, and excepts ports without a cable;
- in RECOVERING a restarted chronyd is not closed again
  (`pps_tod_watchdog.sh:201`, `pps_tod_watchdog.conf:12-14`), and all of the
  script's times are wall-clock times that `pps_tod` steps;
- `pps_tod.c`: the header speaks of a step by the measured offset, line 855 sets
  the nanoseconds to zero; clocks between half and one and a half seconds off can
  be accepted through `S_round` (934) and are then not stepped. Two seconds
  without edges and sentences misname the next edge. When the serial thread is held
  up with a sentence (719-721) until the next edge is queued, it pairs that edge with
  the sentence before it, a second wrong; with the edges after it lost, that
  measurement stands and a right clock is set back. `HealthyKept` excludes lost edges
  together with either; TLC finds both when the exclusion is dropped and the two are
  added to the scenarios; a receiver that jumps between
  lines 813 and 852 has its second written; two quotas may fall into sixty
  minutes; the comment on line 326 says only the gpio thread touches `strike`;
- `nmcli.h:20-21` speaks of dotted quads; `valid_ipv4` accepts two octets. As an address
  NetworkManager refuses them, as a mask the missing ones are read as zero;
- `ntp_nic_monitor.c`: `capture_drain` (260-293) reads until no packet is left, so a
  flood delays the snapshot without a bound; `SnapshotFresh` counts the packets in
  (`drained`). The snapshot is "rewritten atomically" (line 17), but a disk that fills
  between `fopen` and `fclose` leaves a part of it in its place (442-540), and
  `nic_json_append` (`ntpmon.c:281`) splices that part into the page's JSON unread:
  the whole answer of the page is then invalid until the next snapshot. After a step of the clock backwards the snapshot, the responses
  and the expiry stand still until the clock has caught up (line 18 and
  `README.md:29` say every `-i` seconds), while `age_s` of the page is negative; the
  responses a fresh rule counted before the first poll never enter the window
  (`ipt_last` 0 means none); a rule that is flushed comes back only with a restart;
  a failed baseline counts earlier responses;
- `timesync.c:95` says the mode file is written atomically: two requests at a time may
  leave the other one's mode, or an empty file if one of them is killed; a serial
  write that is cut short may change the receiver's mode although the request
  reports an error and the file keeps the old one;
- `ntp_stats_sample.sh`: an `iptables` that finds the lock taken reads as 0 (28-30), and
  the next difference is the whole counter; so does an empty answer of chronyc (24).
  When only the check fails, the rule is inserted once more (line 8 says
  idempotently), and its count starts at 0;
- a disk that fills while `ntp_stats_sample.sh:34` appends may leave a part of a row, to
  which the next row is joined: the line shows numbers of both, which no property but
  `RowsKept` speaks of. A part that happens to have ten numbers is read as a row of its
  own, with a short last number; the model has parts with fewer;
- `ntpmon.c:228` says the window covers two intervals when a sample is skipped; the row
  before is then 120 s old, and the number for the last minute is 0;
- `log.cgi.c:216` says a window that starts mid-file begins with a partial line; when it
  starts at the beginning of a line, that whole line is dropped;
- rows of users that do not exist make the rebuild of `auth_init` fail and roll back in
  every request; nothing is lost, and the old schema stays.

## 4. Proofs

The theorems hold for all values of the constants that satisfy the named
assumptions (`BoundAssumption`, `NullAssumption`, `ThresholdAssumption`,
`RetryAssumption`, `AclAssumption`, `TodAssumption`, `NicAssumption`,
`RollbackAssumption`, `RequestsAssumption`), most of which say no more than that
bounds are naturals, processes finitely many and null values no values. The
conditions that carry weight are these:

- `RetryAssumption`, the throttle is no longer than window and observation: with a
  longer one the deny can be suppressed;
- `TodAssumption`: `FreshFor + Lag <= NudgeGap` (3 s and the delay of a thread within
  10 s), since with a shorter pause a step could answer an old measurement;
  `3 * Q <= FreshFor`, so that an anchor outlives the sentence after it however late (it
  is 3 s); `ResetMax` and
  `StrikeMax` are at least one, to which `main` raises them (`pps_tod.c:991`, `995`);
- `NicAssumption`: the clock starts after the first `Buckets` minutes and the first
  `Interval` of 1970, so that no index is negative and the first snapshot is due at
  once; `Interval` is at least one (`ntp_nic_monitor.c:556`);
- `RollbackAssumption`: a form that passes `nmcli_validate_params` has an address.

Some theorems name a hypothesis, which the models and runs without it show to be
needed. `LoginPorts = {Eth0}` (users log in through eth0): a login through another
port confirms a change nobody has tried, see section 3. `~KillAllowed` for
`OpenSessionsKicked`: a request killed between UPDATE and kick leaves the sessions.
`mutex # "gpio"` for `StatusFresh`: under `-A ntp` the gpio thread may lock itself out.

The inductive invariants begin with `TypeOK`. Those that are defined in a component's
module are checked by its run as well; the ones of the proof modules rest on the
proofs alone.

- `WebAuthProofs`: `TypeCorrect`, `AuthInvariant`, and from it `RootNeverLost`,
  `OnlyRootManages`, `NoOrphanSession`, `IdsNeverReused`, `NoBlockedDelete`,
  `ForcedChangeHolds`. None of these is inductive alone. `AuthInv` adds that row 1
  is the root, that ids above `seq` are unused, that only row 1 is a creator, and,
  for each request, that what it has read earlier still holds: a target to be
  deleted or toggled is not row 1, a remembered name is the name of the id.
  `ReplacedPasswordKicks` needs no more than types: the property names the requests
  that still owe a kick. `DeletionsLogged` adds `LoggedInv`: a request past its audit
  row has logged the deletion or its target is gone, and since ids are not given
  out again the target stays gone.
- `PpsWatchdogProofs`: `WatchdogTypes`, `WatchdogInvariant`, `RestartQuota`,
  `RestartsSpaced`, `OutageNoticed`, `UnvouchedNotServed`, `ServiceResumes`,
  `DegradedStaysClosed`. `WatchdogInv` has four parts. `QuotaInv`: a restart missing
  from the trimmed list is an hour old, so the list holds all that count
  (the cardinality facts come from `FiniteSetTheorems`). `OutageInv`: a bad pass
  takes a second, so the number of passes bounds the outage. `ServeInv`: what the
  script believes of chronyd is so, and the last attempt is older than the outage,
  so the throttle has run out. `CloseInv`: a deny in DEGRADED lasts.
- `NtpAclProofs`: `AclTypes`, `AclInvariant`, `AnswersPersist`, `AnswersInForce`,
  `AllowsComeBack`. `AclInv` says that the temporary file of the one helper is the
  file it will put in place, and that every promised allow is in force, or on
  the watchdog's list, or its request is still open.
- `PpsTodProofs`: `TodTypes`, `StepInvariant`, `StepsWithinQuota`,
  `StepsMeasuredAnew`, `StepsLand`. A write is later than its decision by the
  delay of the thread, so the pause between writes needs a bound on that delay,
  and this needs the order of the queue of edges the thread is woken by: `StepInv`
  is the chain `PastInv`, `QueueInv`, `LagInv` (delay), `PaceInv` (pause and room in
  the quota), `QuotaInv` (writes of this window and of the one before it) and
  `SecondInv` (anchor and second against the truth). Two adjacent windows cover
  any hour, hence twice the quota.
  `StatusStaysFresh` bounds the age of the status file by where the loop is
  (`StatusInv`). `HealthyClockKept` rests on `HealthyInv`, which
  ties the sentence in hand, anchor, edge count and edges waiting to one second:
  `EdgesInv` (one edge waits at most, and which second every pending edge began),
  `SerialInv` (a sentence in hand is of the present or an earlier second), `WaitingInv`
  (when edges are queued for a sentence), `CountInv` (when no edge is lost, anchor and
  count name the next edge or one beside it), `SaidInv` (when edges may be lost, the
  anchor is of this second or the last), `MisledInv` (a late sentence was paired with
  the next edge: then the sequence is too short for a step until an edge has
  corrected the measurement) and `KeptInv` (so nothing is done about it, and the clock
  stays right to half a second). `BadClockIsStepped` is a deadline, and its invariant `BadInv` a
  timetable: what has arrived and been counted at every point of the first four
  seconds (`PunctualInv`, `AnchorInv`), until the edge of the fifth leads to a step
  before time passes (`DeadlineInv`), with neither pause nor quota in the way (`OffInv`).
- `NicMonitorProofs`: `RingInvariant` and `TrafficLog`. `RingInv` says that slot `t % size`
  holds what the log has for time `t`, for the `size` times up to the newest one. A
  step of the clock forward clears the slots in between: those slots are the
  remainders of the skipped times (`ClearsAll`, `Covering`), and different times
  within one ring have different slots (`ModInjective`), both from arithmetic on
  division. `TrafficLog` is the refinement: every step of the monitor is a step of
  the log, for minutes (`MinuteCounts`) and for seconds (`SecondCounts`), or leaves
  it alone (`IdleStutters`), and `JsonShows` says that the ring, masked as
  `write_json` does, is what the log shows.
  `SnapshotStaysFresh` bounds the snapshot's age by where the process is and, since the
  code compares wall-clock times, by the wall clock with what it was set back
  (`AgeInv`, `WaitInv`), and with what the packets read since have taken (`Debt`). The attempt showed that a first version of `Setback` was too
  small when the process can die and the disk can be full in the same behaviour; it
  is now the larger of the two costs. `ResponsesNeverInvented`: what the counter has
  more than at the baseline was sent since, and is all of it unless somebody touches
  the rules (`CounterInv`), and the window together with what the next reading would
  add to it was sent since the baseline (`WindowInv`). `ClientsAccounted`: an entry is
  overwritten only by its own client, and the probe takes a slot that is free or the
  client's, for which the first such slot is needed (`ClientInv`, `Smallest`); the
  requests in a client's entries and in its expired ones are those counted for it
  (`CountInv`). Both rest on a small theory of sums. The library defines a sum by a
  recursion over finite sets and its induction theorems are out of reach, so the
  lemmas take a smallest set for which a claim fails (`FirstWrong`, from the
  well-foundedness of the numbers) and contradict it: the recursion has a solution
  (`FoldExists`), the order does not matter (`FoldSums`), a sum is monotone
  (`SumMonotone`), and it can be taken apart (`SumWithout`, `SumSplit`).
- `EthRollbackProofs`: `TypesHold` and `Eth0AlwaysAddressed`: every address that is in
  effect, saved, recorded or held by a request was accepted by NetworkManager, and
  the conversions between mask and prefix give back what was typed. Then two
  invariants on top. `OrderInv`, when changes follow one another: a change
  overlaps neither another one nor a watchdog (`Alone`), no login is about to confirm
  before it is on record (`NotYet`), what a rollback goes back to has been logged in to
  (`OldVouched`), eth0 is vouched for, or being changed, or the change is on
  record (`Kept`), and whoever confirms or removes the record finds it vouched for
  (`SecureAt`). From it
  `UnconfirmedOnRecord`, over power failures, failing commands and pulled cables.
  `CleanInv`, when nothing fails: an unconfirmed change has a record with a complete
  old address and a timer or instance that will take it back (`Pending`). From it
  `SettlesVouched`. `GatewayInv`, when changes follow one another and nmcli works,
  whatever else fails: a profile with a gateway whose port has a cable has it in effect,
  or is being brought up (`GatewaysActive`), which is what `clear_gateway_others` looks
  at, so a profile that still has one is of a port yet to be asked for, or of one
  without a cable (`Swept`). From it `GatewayTakenOver`.
  The conversions themselves are `MaskNumber` and `PrefixReturns`, from facts on powers
  of two and division: counting leading ones and shifting are inverse on the masks the
  form accepts, for octets of any width.
- `TimesyncProofs`: `SchemaInvariant`, `MigrationsLoseNothing`, `ShownModeWasSent`.
  `SchemaInv` says that one connection writes at a time (`OneWriter`), that only its
  copy is of the committed state (`Snapshot`), and that the copy differs from it by the
  statements it has been through (`Progress`). `ModeInv` says that every inode holds a
  mode that was sent or nothing (`FilesSent`), that a request which is alone has
  written what it sent (`Alone`), and that an empty file has a writer (`Filled`).
- `PagesProofs`: `LatestRowsKept`, `RatesNeverInvented`, `LastMinuteCovered`. What the
  page loads is the end of the readable rows of the file, by the least number of rows
  for which that fails (`RingLoads`); the file is the end of all rows ever appended,
  the whole of it or at least `KEEP` long, also when the trimming was cut short
  (`FileInv`), so a ring that is no larger misses none. For every row, what has been
  counted since it was read is at most what was asked since, and is all of it while
  the same counter runs (`HitsInv` for chronyd's, `EthInv` for the rule's). The page
  needs the same of two rows, which can no longer be derived once the counter has
  moved on, so the invariant keeps it per pair. `TimeInv` gives each row an activation of
  its own and, while the clock is left alone, its time.
  `TailWhole`, about the log viewer, has the same theory of rings (`RingFills`,
  `RingTurns`): the code's ring starts at 0 until it is full and at its next slot
  from then on (`AsRing`). `LogInv` says that the lines tile the file (`Tiled`), also
  while one is being written, and where the window was put (`Framed`). So the lines
  begun before the window are the first d, those in it the next up to e
  (`WindowShape`, from the order of the offsets), and only the last of these can
  reach over the end of the window or lack its newline (`LinesWhole`).

Only model-checked: `ChangeResolved`, which is liveness under fairness; that a
refinement's fairness carries over is not claimed. The four expected violations are
TLC's.

## 5. Not modelled, and the plan

Not modelled:

- string handling (`common.c`: parameters, URL decoding, JSON escaping), the layout of
  pages and snapshots, cutting a long line at `MAX_LINE_CHARS`;
- SHA-256, for which its test vectors say more than a bounded instance;
- decoding of captured packets, NMEA sentences and chronyc's tables;
- RTC and drift scripts, which run one command on one file; deployment; the web pages;
- a power failure between two writes of the CSV or log files: a row cut short is
  covered only by the part of a row a full disk leaves, and as a row that does not parse;
- `src/sqlite3.c` and `sqlite3.h`, the vendored SQLite library. It is external here,
  modelled by what its statements, locks and snapshots do. It makes up more than
  nine tenths of the repository's lines of C, so the share of all lines that is mapped
  is small while that of the repository's own programs is not.

Planned:

1. Compositions: the daemon's restart by the watchdog (quota forgotten), and the
   watchdog's clock stepped by the daemon.
