# Kizuna-Eye in TLA+

Kizuna-Eye watches one server. An **agent** runs on that server, samples it, runs plugins and talks to a
**dashboard** over one WebSocket. The dashboard serves browsers, keeps accounts and sessions, decides on alerts,
remembers them and sends them to notification channels. Both are Go programs; a few plugins
(Kizuna-Security above all) are loaded into the agent as Go `plugin` objects.

This directory holds TLA+ models of the parts of that code in which order, failure and time matter, the
configurations that model-check them with TLC, and proofs of the central properties for every size of the system,
checked by TLAPS. The source line behind each definition is listed in `PROJECT.json` ("map").

To check a configuration: `tlc -config Dashboard.cfg MCDashboard.tla`; to check proofs: `tlapm SessionStoreProofs.tla`.

## 1. The system

```
   plugins ──events──> agent ──status, events, answers──> WebSocket hub ──status, alerts──> browsers
      ^                  ^                                   |   ^                              |
      | run, configure   | commands                          |   | requests with a session      |
      +---- module manager                                   v   |                              v
            plugin loader <── modules.json <──────── configuration API <── middleware <── session manager
                                                             |                             user store
                                    status, disconnect ──────+──> alert engine ──> alert history (file)
                                                                       |
                                                                       +──> notification manager ──> Discord, SMTP, ...
```

| component | state | operations | talks to |
|---|---|---|---|
| Session manager `internal/auth/session.go` | table of sessions, the file it is saved to | create, get, delete, delete of a user's, delete all, reap, save, load | handlers call it from their own goroutines; disk |
| User store `internal/auth/store.go` | accounts, whether the file was damaged, `users.json` | load, create, authenticate, role, password, delete | handlers; disk |
| Login and account handlers `internal/auth/handlers.go` | none but setup's mutex; each request works in steps | setup, login, guest login, logout, password, user management | store, then sessions, under two locks |
| Login rate limiter `internal/auth/ratelimit.go` | failures and lockout per address, bounded | allow, record, evict, reset | login handlers, before and after the password comparison |
| Middleware `internal/auth/middleware.go` | none | who may ask for which path | session manager |
| WebSocket hub `cmd/dashboard/main.go` | clients, the agent's slot, last status, counters of refusals | add, mark, remove, broadcast, evict, send to the agent | alert engine by callbacks; browsers; agent |
| Alert engine `pkg/alert/engine.go` | per metric: since when, fired level, last notice; is the agent online | status, disconnect, timeout check, configuration | history and notification manager, outside its lock |
| Alert history `pkg/alert/history.go` | bounded list, file | add and trim, compact, clear, load | alert engine, API; disk |
| Notification manager `pkg/notify/manager.go` | batch, timer, send slots | notify, flush, dispatch, send | channels; timers; shutdown |
| Notification channels `pkg/notify/*.go` | none | one request with retries | the network |
| Module manager `pkg/module/base.go` | registered modules, their loops and contexts | register, unregister, start, stop, loop | agent, plugins |
| Plugin loader `cmd/agent/main.go` | names loaded, names per entry, last modification time | load `modules.json`, watch it | module manager, file |
| Agent connection loop `cmd/agent/main.go` | connection, backoff | connect, send statuses and events, handle commands | hub, plugins |
| Plugin runs and commands `internal/api/plugins.go` | the plugins with a run under way | acquire, release on an answer, on a failure or after 30 minutes | hub, agent |
| Plugin installation `internal/api/plugins.go` | quarantine, `.so`, signature and meta files, `modules.json` | upload and delete in a dozen writes and renames | module API; disk; the agent reads the result |
| Configuration API `internal/api/modules.go`, `alertconfig.go` | `modules.json`, `alert.json` | read-modify-write | alert engine, agent's watcher |
| Kizuna-Security: events `monitor.go`, `plugin.go` | bounded queue | emit, drain, requeue | detectors, agent's send loop |
| Kizuna-Security: logs `monitor.go`, `monitor_spoof.go` | offset and inode per log, cache of forged lines | scan, rotation, journald watch | failed logins |
| Kizuna-Security: failed logins, blocker `monitor.go`, `blocker.go` | bounded trackers; blocked addresses, state file, kernel rules | count, escalate, block, expire, restore | firewall commands; disk |
| Kizuna-Security: baselines `fim.go`, `cronmon.go`, `suid.go`, `portmon.go` | baseline, warnings, baseline file | check, save, report, reload | host; disk; event queue |
| Kizuna-Security: directory watch `suid_watch*.go`, `fim_watch.go` | inotify watches, pending paths, baseline of the tree | event, debounce, scan, fallback loop | kernel; host; event queue |
| Kizuna-Security: security log `logger.go`, `integrity.go` | hash chain, anchor of its length | log, verify, quarantine, periodic check | disk; reports into the same log |
| System module, updater, logging, signatures, web UI, installation | - | I/O, rendering, packaging | - |

### What is hard here

*Concurrency.* Each HTTP request, connection, timer, module and ticker is a goroutine, and the code deliberately
releases locks before slow work: the session table before its save, the hub before the disconnect callback, the
engine before the dispatch, the store before the sessions of an account are revoked. Whatever was decided under the
lock can be old when it is acted on.

*Failure.* Writes may fail or be cut short, the process may end between any two steps and read its files again, a
send may fail, hang or panic, a connection may be half open, a file may be damaged or edited by hand. The kernel drops
events, a log is rotated or truncated under its reader, a firewall command fails.

*Time.* Holds, cooldowns, recovery hysteresis, batch windows, idle and absolute session lifetimes, agent timeouts
and read deadlines all race with the events they guard.

*Limits.* A cap on sessions with a preference for evicting guests, 32 send slots with a preference for critical
alerts, a history with three trimming stages, bounds on limiter entries, failure trackers, blocked addresses, queued
events, watched directories, files and events of a scan, and viewers.

### What makes each component correct

| component | correct when | where |
|---|---|---|
| Session manager | a saved removal is final across races and restarts; the file is never behind a finished save; a restart extends no session; the cap holds | `SessionStore`, proved |
| Accounts | the last admin stays; only the first setup creates an admin; a damaged file is kept; a changed account's sessions go | `AccountSessions`, proved |
| Alert engine, metrics | no alert without its hold; no repeats inside the cooldown; a critical condition is always announced; recoveries are honest; a lasting condition is repeated | `MetricAlert`, proved but for the last |
| Alert engine, agent | a lost agent gives its slot up; a connected one is seen online; an outage is told; recoveries answer outages; flapping is throttled | `AgentPresence`, the safety part proved |
| Notification manager | every alert settles once per channel; no batch is stranded; critical alerts wait rather than drop; slots return | `NotifyManager`, proved but for liveness |
| Alert history | floods evict themselves; trust decides; cleared alerts stay away; a torn write costs one line | `AlertHistory`, proved |
| Plugin loader, module manager | one object per name; only enabled plugins run between loads; every later edit is loaded; shutdown starts nothing | `PluginReload`, proved but for "every later edit is loaded" |
| Rate limiter | a lockout lasts, whatever attempts were let in together and recorded late | `LoginLimiter`, proved |
| Plugin runs | runs of one plugin overlap only if one outlived its guard or lost it to a restart; nobody else's result opens the guard | `AgentLink` implements `RunLease`, proved |
| Plugin installation | the list and the files agree after any failure that did not cross a race; a failed upload leaves nothing behind | `PluginStore`, proved |
| Events | in order, once, no loss unseen, the newest kept; every event settles | `EventFlow`, proved but for the last |
| Log monitor | every line once and in order, none passed over, forgeries recognised | `LogWatch`, proved |
| Failed logins, blocker | an attack is reported, once; no rule stays in the kernel unknown | `FailedLogins`, proved |
| Baselines | nothing becomes normal in silence; no blind spot opens in silence | `Baselines`, proved |
| Directory watch | a difference is always on its way to a scan; the fallback alone suffices; a scan leaves nothing out | `DirWatch`, `DirScan`, proved but for liveness |
| Security log | the check says nothing without a cause, and no loss goes unseen | `LogChain`, proved |
| Hub, viewers | viewers never exceed the cap, an agent is never evicted for one, refusals are reported but bounded | planned |

## 2. The modules

Seventeen modules model components and `RunLease` is an abstract specification. Six modules put components of one
process or one way of data side by side, each on variables of its own, with their assumptions and properties; the `MC...`
modules instantiate those for TLC and `...Proofs` hold the proofs about them. Where components share no state a run checks
them one at a time: the `MC` module has a variable `part` that never changes, and a step is a step of that part alone, so
the run is the union of the parts' state graphs. The theorems speak of each part's own specification.

| composition | components | instance for TLC | proofs |
|---|---|---|---|
| `Dashboard` | `SessionStore`, `AgentPresence`, `AlertHistory` | `MCDashboard` | `SessionStoreProofs`, `DashboardProofs` |
| `Accounts` | `AccountSessions`, `LoginLimiter` | `MCAccounts` | `AccountsProofs` |
| `Alerts` | `MetricAlert`, `NotifyManager` | `MCAlerts` | `AlertsProofs` |
| `Plugins` | `PluginReload`, `PluginStore` | `MCPlugins` | `PluginsProofs` |
| `Link` | `AgentLink` with `RunLease`, `EventFlow`, `DirWatch` | `MCLink` | `AgentLinkProofs`, `LinkProofs` |
| `Monitors` | `FailedLogins`, `LogWatch`, `Baselines`, `DirScan`, `LogChain` | `MCMonitors` | `MonitorsProofs` |
| - | `AgentPresence` under fairness | `MCAgentPresence` | - |

The modules are connected by what they share in the code: `AccountSessions` sees the table that `SessionStore` models in
detail as one atomic set with a save that may fail; `AgentPresence` composes the hub with the engine; `MetricAlert`
is the rest of the engine (each metric has a state of its own, so one is enough); what both dispatch goes to
`AlertHistory` and `NotifyManager`; `AgentLink` and `EventFlow` see the same connection, once for commands and results and
once for events; `PluginStore` writes the `modules.json` that `PluginReload` reads; what `LogWatch` reads is counted by
`FailedLogins`; what the detectors report is queued in `EventFlow`; `DirWatch` decides when `DirScan` scans.

### SessionStore - `internal/auth/session.go`

A process is a goroutine in a handler, or the reaper. An operation changes the table under `m.mu` in one action
(`Create`, `Touch`, `GetExpired`, `Delete`, `DeleteUserSessions`, `DeleteAll`, `Reap`, `Stop`), leaves the process
at `pc = "save"`, and the save follows in two: `BeginWrite` takes `saveMu` and the snapshot, `EndWrite`
or `FailWrite` ends it. In between any other process moves. `Restart` may come anywhere, drops everything but the
file, and filters it as `load()` does. `Create` evicts one session when the table is full: the least recently seen
guest, or without guests the least recently seen session, with map order deciding ties. Roles and the binding to an
IP are data of a session and are left out.

`revoked` collects the keys whose removal reached the disk; `issued` the tokens generated so far, because 32 random
bytes do not come twice. `stale` notes that the last write failed, since then the file is behind on purpose.

### MetricAlert - `pkg/alert/engine.go`

One `metricState`, for any of the four metrics (`memory`, `disk_free`, `cpu_temp`, `disk_health`), which differ in
the readings they can produce: disk health knows no warning, only CPU temperature can be missing. `OnStatus` is one
evaluation; `UpdateConfig` the edit of the configuration at run time, with zero meaning "keep". A `time.Time` is
modelled by its age, which stops growing at `MaxAge`: no duration exceeds it, so the model is finite without a bound
on the run. What the operator sees (`reading`, `badFor`, `goodFor`, `told`, `toldAge`, `ended`) is kept apart from
the engine's own fields, so that the properties are about the outside.

### AgentPresence - `cmd/dashboard/main.go` and `pkg/alert/engine.go`

Each agent connection has a reading goroutine (`phase`) and at most one `Remove` that took it off (`removal`).
`Connect`, `MarkAgentConn`, `Receive`, `OnStatus`, `Leave` are the reading goroutine; `WriteFails` is any
other goroutine whose write failed and that runs `Remove` itself; `Lose` the network. `Release` is the part of
`Remove` under the hub lock, `OnAgentDisconnect` the callback after it, `Close` the rest. Alerts are decided under
the engine's lock (`Decide`) and dispatched later (`Dispatch`) by the same goroutine. `CheckAgentTimeout` is the
ticker. The callback of an old connection can so run when a new agent has already reported.

### NotifyManager - `pkg/notify/manager.go`

`Notify` puts an alert in the window or dispatches it; `Fire` and `FlushOnTimer` are the timer and its goroutine;
`FlushStop` and `FlushSend` the two halves of `Flush`. A dispatching goroutine goes through the channels one by one
(`sendAsync`, `Saturated`, `GiveUp`), each send is a goroutine that `Finish`es somehow and gives its slot back.
`Exit` is `main` returning, which ends every goroutine. The order inside a batch shows only in a message's wording,
so a batch is a set.

### AlertHistory - `pkg/alert/history.go`

An entry carries its arrival number, which stands for its place in the list and in the file. `trim` is the
three-stage rule (newest per key, half of the room per type, then by trust, level and age). `Add`, `Clear`, `Load`
each write the file or fail to; a write may be cut short (`torn`), and the next line is then glued to the rest.

### PluginReload - `cmd/agent/main.go` and `pkg/module/base.go`

`Read`, `ReadEntry` (with `Disable`, `Reconfigure`, `LoadEntry`, `LoadFails`) and `Sweep` are
`loadPluginsFromConfig`, entry by entry; `FirstLook` and `Look` are the watcher; `Start`, `Stop`, `Exit` the main
goroutine; `LoopStart`, `Return`, `Fire`, `Quit` a module's run loop. An entry's name and the name its plugin
registers under may differ, as they may in a hand-edited file. An operator edits the file and a signal comes at any
point.

### AccountSessions - `internal/auth/store.go`, `handlers.go`

A request is begun by one action (`BeginSetup`, `BeginLogin`, `BeginAdmin`, `BeginOwnPassword`: checks and copies)
and carried on by others (`Create`, `Delete`, `ChangeRole`, `ChangePassword`, `CreateSession`, then `Revoke`).
A save may fail and is rolled back in the store, but only logged in the session table. `Restart` may come anywhere;
`Damage` makes `users.json` unreadable. A session records how it came to be (`origin`): with the account as it is,
with a copy that was already old, or from the file.

### LoginLimiter - `internal/auth/ratelimit.go` and the handlers around it

`Allow` admits an attempt to an address; its password is compared without the lock (`checking`), and `RecordFailure` or
`Reset` comes when it comes, after other attempts, after the window, after the lockout. An entry is a count, the age
of its window and the time its lockout has left, so the clock needs no bound. `promised` is the lockout each address
was given, `slipped` that somebody came in before it was over without one of the reasons the code has.

### RunLease and AgentLink - `internal/api/plugins.go`, `cmd/dashboard/main.go`, `cmd/agent/main.go`

`RunLease` says what the run guard promises: a plugin's lease belongs to one run, it passes on only when that run is over
or has held it for the whole timeout, and no other run's end takes it away; a restart of the dashboard loses all leases.
`AgentLink` is how the code does it: `acquireRun` and `Send` are `handleRunPlugin` before and after it has the guard,
`handleDashboardCommand` and `sendBackupResult` the agent, `HandleAgentEvent` the reader of the dashboard with
`releaseRun`. A connection is a number; `Break` loses what is on it, `AgentNotices` and `DashboardNotices` come later and
apart, `Dial` follows both. A result is written to the connection its command came in on, which may be gone. Both sides
restart. `orphans` are the requests whose guard went without their result.

### EventFlow - Kizuna-Security's queue, the agent's send loop, the dashboard's reader

`emit` puts an event in the bounded queue and drops the oldest; `Drain`, `Write`, `WriteFails`, `Requeue`, `sendStatus`
are the agent's tick; `Read` the dashboard. A write to a broken connection may succeed; a status fails in the end.
Reconfiguration and stop drop the queue. `gone` records every loss with its reason.

### DirWatch and DirScan - `suid_watch.go`, `suid_watch_linux.go`, `fim_watch.go`, `plugin.go`

`DirWatch` is about when: a tree that changes, the kernel's queue of events with its overflow, watches installed on new
directories after their files may have been written, debounced scans, a limit on watched directories, a watch that breaks
or cannot be made, the fallback loop and reconfigurations. A scan there sees the whole tree. `DirScan` is about what: which
files a full or a path scan records when it meets large, unreadable and too many files, which events it reports when
they are too many, and what it keeps as the baseline.

### Baselines - `fim.go`, `cronmon.go`, `suid.go`, `portmon.go`

One module for four monitors of one pattern: load, read the host, compare, save, report. `kind` tells them apart where the
code does: two load lazily, `fim` reports before it saves and the others after, only `fim` keeps the value of what it
cannot read, ports have no content, and `cron` is silent about a new file that only a setting names. The host changes
while a check is under way; a save fails unnoticed; a reconfigured monitor's check goes on and saves late.

### LogWatch and FailedLogins - `monitor.go`, `monitor_spoof.go`, `blocker.go`

`LogWatch` follows one log by offset and inode through rotation and truncation, and keeps the bounded cache of forged
lines with which a scan tells a forgery from a login. `FailedLogins` takes the failures found: a tracker per source with two
bounded sliding windows and a bounded set of names, eviction of trackers, escalation once per campaign; and the
blocker, whose kernel rule, table and state file change in three steps with failures, reconfigurations and
restarts in between. `excused` names the sources whose rule the code may lose.

### LogChain - `logger.go`, `integrity.go`, `Configure` of `plugin.go`

A line is the number of its hash and of the one it follows. `Configure` opens the log anew while the old logger still
writes, and puts a log that does not verify aside in two renames; the check reads log, anchor and log again and reports
into the same log. Lines are torn, lost or not written, the process ends anywhere.

### PluginStore - `internal/api/plugins.go`, `internal/api/modules.go`

An upload is `Receive`, `CheckListed`, `CheckFiles`, `Place`, `Sign`, `Describe`, `Register`, a delete `Delist`,
`RemoveSo`, `DropSig`, `RemoveRest`; each writes one file or the list, any may fail, and other requests come in
between. `trouble` notes what the properties excuse: a race on the name, a crash, a failing disk, the module API.

## 3. The runs

| run | cfg | shows |
|---|---|---|
| `dashboard` | `Dashboard` | a removal that was saved is final, no save is lost, a restart extends nothing; the agent's slot has an owner, notices of outages are in step; what a full history gives up, and what its file brings back |
| `accounts` | `Accounts` | last admin, first setup, damaged file, the three ways a session can outlive a change of its account; a lockout is kept |
| `presence_live` | `AgentPresenceLive` | a lost agent's slot is freed, a connected agent is seen again, a lasting outage is told again and again |
| `alerts` | `Alerts` | hold, cooldown, escalation, recovery and repetition of a metric's alert; nothing is stranded, sent twice or left unsettled, critical alerts wait for a slot |
| `plugins` | `Plugins` | one object per name, the file decides what runs, every edit is loaded, a shutdown starts nothing; the list of plugins and the files agree |
| `link` | `Link` | overlapping runs are excused and the guard implements the lease; events keep order and settle; differences are on their way to a scan and are noticed without events |
| `monitors` | `Monitors` | attacks are reported once, rules are tracked; lines are read once; baselines take nothing in silence; scans are honest; the security log is watched |
| `presence_reason`, `notify_flush`, `history_trust`, `plugins_name`, `plugin_upload` | `AgentPresenceReason`, `AlertsFlush`, `DashboardTrust`, `PluginsName`, `PluginsUpload` | five findings, section 5 |

`Types` in `link` and `monitors` is the type invariant of their parts; it includes the bounds of queue, cache, trackers and
table. A property of an `MC` module of the same name as one of a part is that property.

### Bounds, and why they are enough

- `dashboard`: two goroutines that save, three tokens, a table for two, so that a create evicts while another saves
  and a saved removal can meet an older snapshot; one tick of time takes a session past its idle limit, two users
  because guests are evicted first. A third goroutine only waits for `saveMu`; the proof covers any number. Two
  connections are a predecessor and its successor, and one that is turned away; cooldown and timeout
  of two ticks let an event fall before, on and after each. Connections are interchangeable (symmetry). The history has
  room for four in memory (the least at which the cap per type works) and seven alerts of six
  kinds: three types, three levels, both trusts, a repeated key; with a file, room for two, a compaction after four lines
  and six or seven alerts, on a failing and on a sound disk.
- `presence_live`: no symmetry and durations of one tick, which keeps the graph small enough; throttled and
  unthrottled outages both occur.
- `alerts`: durations of up to four ticks with `MaxAge` five are told apart from "longer than all of them". Two
  configurations, one of which sends zeros, and recovery notices on and off. No bound on the run's length. One warning and
  one critical alert, one slot, two channels and two timers: a batch of both, a saturated
  manager, and a late timer goroutine that meets the next window all occur.
- `plugins`: two names, three objects (one may still be finishing when its name is loaded again), six contents of
  the file: empty, one and two entries, one disabled, and two in which a plugin's name is not its entry's. Two edits
  reach "loaded, changed during the load, changed again". Of one plugin name three uploads, two of them signed, and a
  delete: an upload over the remains of a failed one, a race, and a delete of what it left.
- `accounts`: two users and two requests meet in every order; two admins who remove each other need no
  more. One session is enough, as each property speaks of one session at a time; an admin's session exists while
  another request works. Users and requests are interchangeable. The limiter has three addresses in a table for two, a limit
  of two, two attempts at a time and windows of two ticks: an eviction, a second failure after the lockout began and one
  after the window ended all occur.
- `link`: three requests on two plugins are a run, its successor after the timeout, and one more that a late result
  must not let in; two connections are the one the command came on and the next. Three events and a queue for two
  overflow and requeue at once, with two of breakage, reconfiguration and stop. One subdirectory, a file in it and one in
  the root, a limit of one watched directory: each case of "written before watched" and "past the limit"; two faults
  are a break and the restart after it (one for the SUID watch, which scans everything each time).
- `monitors`: two sources in tables for one, two names and three failures reach each of the three limits and both
  evictions. Four lines, three of them forged, in two files. One path with two contents for each kind of monitor, with two
  faults: a lost save and the restart that shows it, or a reconfiguration and a late save; differences in several paths
  do not interact. Three paths, of which one is too deep, with limits of one file and one event. Four log lines, three
  openings and two accidents.

`CHECK_DEADLOCK FALSE` appears where the modelled run ends: the process has exited, the last alert has arrived, or a bound
on the clock or on the faults is reached.

### Fairness

- `alerts`: a status arrives again and again, whatever it reads (the agent samples on a ticker), and time passes; weak
  fairness of the manager's own steps as a whole: timers fire, goroutines run, each send has a
  context with a deadline. Nobody has to call `Notify` or to shut down.
- `presence_live`: the reading goroutine, the callback, the rest of `Remove`, a dispatch and the ticker's check are
  weakly fair: Go schedules runnable goroutines, a connected agent keeps sending, a dead connection meets the read
  deadline (`cmd/dashboard/main.go:916`), dispatching is bounded by its own timeouts. `Connect` is not fair: nothing
  makes an agent come back.
- `plugins`: weak fairness of the load, the watcher, the main goroutine and each loop (a plugin's `Run` returns);
  strong fairness of `Quit`, because a `select` with a ready timer and a done context picks either at random, so a
  loop that finds its context done infinitely often leaves.
- `link`: weak fairness of the agent's tick (`Dial`, `Drain`, `Write`, `sendStatus` together: one goroutine, one ticker) and of
  the dashboard's reader; strong fairness of `sendStatusFails`: a broken TCP connection may swallow some writes, not
  every one. For the directory watch only the plugin's `Run` and the fallback loop are fair, both tickers; nothing is
  assumed of inotify, whose debounce may be extended again and again.

## 4. What is proved

`SessionStoreProofs` proves, for every set of goroutines, keys and users and every cap and lifetime
(`SessionAssumption`):

- `RevocationIsFinal` (`RevokedIsFinal`), `NoLostUpdate` (`FileIsCurrent`), `NoExtension` (`RestartNeverExtends`) and
  `TypeCorrect` follow from one inductive invariant `IInv`. `RevokedIsFinal` alone is not inductive: a snapshot taken
  before a removal and written after it would undo it. `IInv` says why that cannot be: at most one goroutine writes
  (`OneWriter`), so a snapshot in flight was taken after every saved removal (`RevokedGone`) and after the writer's
  own (`RemovedGone`, `LocalsGone`); unless some save is still to start, the newest table is in the
  writer's hands or in the file (`InFlight`); every copy is an older view of the table (`ViewsAreOlder`); tokens are
  not generated twice (`Known`). One lemma per action shows that it preserves each part.
- `TableIsCapped` (`Capped`) has an invariant of its own, since the cap must hold of the file and of every snapshot
  too for a restart to keep it; `load()` itself does not look at the cap. It needs facts about the cardinality of a
  table with one key exchanged.

`DashboardProofs`: the agent's presence and the history of alerts.

- For any number of connections and every cooldown and timeout (`PresenceAssumption`): `SlotTheorem` (`SlotHasOwner`),
  `NoticesTheorem` (`NoticesAreInStep`), `PresenceTypes`. The engine has no record of what it announced; the invariant says
  that its fields stand for one: `offlineNotified` is the time since the last offline alert (`ThrottleIsExact`), and an
  outage has a reason only if the last decision was to announce it (`ReasonIsAnnounced`).
- For any kinds of alerts, capacities and disks (`HistoryAssumption`): `FileTheorem` (`FileIsFaithful`) and
  `EvictionTheorem` (`EvictionIsFair`). The invariant (`HistoryInvariance`) says that what memory and file hold arrived after
  the last saved clearing and within the capacity (`EntriesHold`), and that no more alerts are merged into a torn line than
  writes were cut short (`TornIsPaid`). `EvictionIsFair` needs what a stage of `trim` leaves behind in terms of
  cardinalities: the newest of each key, at most half of the room of one type, then the best by trust, level and age.
  The theorem excludes a capacity of three, where it is false: `trim` caps no type when the room is below four
  (`history.go:285`), so a third alert of one type can push the only one of another out. The engine keeps 200
  (`engine.go:69`); for one and two the shares leave no such case.

`AlertsProofs`: the engine's metrics and the notification manager.

- `NoEarlyAlert` (`HoldRespected`), `CooldownWithinEpisode` (`NoRepeatInEpisode`), `RecoveryTheorem` (`RecoveryIsHonest`),
  `CriticalTheorem` (`CriticalIsAnnounced`) and their conjunction `AlertsTheorem` (`AlertsAreHonest`, what the run checks)
  for every set of configurations with `MaxAge` at least their durations (`MetricAssumption`). The invariant relates the
  engine's fields to what the operator saw: `startedAt` is the start of the abnormal run (`StartIsRun`), a fired level is
  what was told and not ended (`FiredIsTold`), `normalSince` lies within the normal run (`NormalIsRun`).
- `SendsTheorem` (`SendsAreOrderly`), `BatchTheorem` (`NoStrandedBatch`) and `ManagerTypes`, which counts the slots taken,
  for any number of alerts, callers, timers, channels and slots (`NotifyAssumption`). The invariant follows an alert: in
  the batch or before it, it is in nobody's hands (`Waiting`), then in one goroutine's, for whom the channels ahead are
  untouched (`OneHand`), and a send under way is the fate of its alerts and of no other send (`OneSend`). A registered
  timer is armed, or its goroutine is about to flush, or main flushes (`TimerIsAlive`); the batch alone would not say so
  when a late timer meets a shutdown.

`AccountsProofs`: accounts and the throttle before them.

- `LastAdminStays` (`AdminRemains`), `SetupOnce` (`SetupIsFirst`), `DamageIsKept` (`DamagedFileIsKept`),
  `StaleSessionsExplained` (`StaleIsExplained`) and type correctness for any number of accounts, sessions and requests;
  `AccountAssumption` only says that the marks for "nothing" and "damaged" are no values. None of the three action
  properties follows from the guards alone. The invariant says that memory agrees with every file that is not damaged, so
  that neither a failed save nor a restart brings an older set of accounts (`DiskAgrees`); that a store with accounts has
  an admin (`HasAdmin`); that an installation without accounts has no session and no request but a setup
  (`FreshIsQuiet`), for otherwise a request admitted earlier could create a first user who is no admin; and that what a
  request found when it began still holds (`RequestsHold`). `StaleIsExplained` is a conjunct of it and preserved with
  the others.
- `LockoutTheorem` (`LockoutIsKept`) for any number of addresses and attempts and all limits (`LimiterBounds`): a lockout
  given out is in the address's entry and not shorter there (`PromiseIsKept`), whatever failure is recorded late.

`PluginsProofs`: the loader and the installation.

- `PluginsHaveOneOwner` (`OneOwner`) and `ShutdownStartsNothing` (`StopStartsNothing`) for any number of plugins and
  objects and any contents of `modules.json` (`PluginAssumption`). `OneOwner` needs beside itself that a registered
  object knows its name (`OwnName`): then no object has two names, and taking one off cancels the right loop. The other
  rests on `running` being true between `Start` and `Stop` only (`RunsWhileUp`).
- `FileTheorem` (`FileDecides`: between loads only enabled plugins run, and where names match every enabled one runs that
  could be loaded). The invariant is a loop invariant of `loadPluginsFromConfig`: the entries still to come are the rest
  of the file (`TodoIsTheRest`), what the sweep will spare was asked for by an entry dealt with (`SparedIsAskedFor`), and
  every enabled entry dealt with failed or is spared (`EnabledIsSpared`). It has one condition on the files, that no name
  has two entries, which `ModulesStorage.Add` keeps (`internal/api/modules.go`); with two the statement fails, since one
  of them can load a plugin that the other, disabled, makes the loader lose track of. The history variable `plain` says
  that only files with matching names were read so far: a plugin that once came in under another name lets
  its corrected entry pass for running, and the sweep then stops it (the cause is that of finding `plugins_name`).
- `StoreTheorem` (`FilesMatchTheList`) for any number of names, uploads and deletes (`StoreAssumption`). The invariant says,
  for a name without a race, that one request at most works on it (`WorksAlone`), that a listed plugin is whole and
  nobody is beyond the check of the list (`ListedIsWhole`), that the files put down so far are of the one upload
  (`FilesAreMine`), and which of them an unlisted plugin has at each step (`UnlistedIsBare`).

`AgentLinkProofs` proves, for any number of plugins, requests and connections (`LinkAssumption`; `NoneAssumption`: the mark for
"no entry" is no entry), `TypeCorrect`, `GuardStaysWithRun` (`GuardFollowsRun`), `OverlapTheorem` (`OverlapIsExcused`) and
`LeaseTheorem` (`ImplementsLease`): the initial states are the lease's, and each step is a step of the lease or a stutter. The
invariant says where a request is: it has a number given out (`IdsAreRequests`) and is in one place only, with its
handler, on the wire, running or on its way back (`OnePlace`). So the result that releases a guard is the result of the run
that holds it, and of a run that is over (`ResultsAreOver`), which is what `Return` of the lease asks. The overlap property
follows from `GuardFollowsRun`: two runs of a plugin cannot both be the one its guard names.

`LinkProofs`: events and directory watch.

- `QueueTheorem` (`QueueIsFaithful`) for any number of events and any size of the queue (`FlowBounds`). What the dashboard
  has, the wire, the batch being sent and the queue are in one order, one after the other (`InOneOrder`), and the
  agent's phase says which of them may be occupied (`PhaseTells`); one lemma (`LossStep`) says of every step
  that loses events what it must lose and why, and each losing action is an instance of it.
- `DifferencesTheorem` (`DifferencesAreOnTheirWay`) for any tree and any limit of watches (`WatchTree`). Beside the statement
  itself the invariant needs that a watch that is off has neither watches nor a queue (`WatchIsOff`) and that a file that
  is gone is on its way itself, since it cannot be found through its directory (`GoneIsNamed`).
- `TypesTheorem` (`Types`): the three specifications side by side keep their types, with the queue's limit.

`MonitorsProofs`: the monitors of the security plugin.

- `AbsorptionTheorem` (`NothingIsAbsorbed`) and `BlindnessTheorem` (`BlindnessIsTold`) for all four kinds of baseline, any paths and
  contents (`BaselineBounds`). What may be taken for normal is a set of pairs that only grows (`FairPairs`); table and
  file stay within it, and so does whatever a monitor without a file takes over (`Absorbed`). It needs what a check
  knows at each phase (`PhaseOfCheck`), that a value is only kept of what is watched (`ValuesAreWatched`), and for
  the other theorem that whatever silences a warning was told, in memory and in the saved file (`WarningsAreTold`).
- `ScanTheorem` (`ScanIsHonest`) for any tree and all limits (`ScanBounds`): after a full scan the baseline is what a walk of
  the tree finds until something changes (`ScanInv`).
- `RulesTheorem` (`RulesAreTracked`) and `AttacksTheorem` (`AttacksAreReported`) for any sources, names, thresholds, windows and
  sizes of the tables (`Validated`: what `SecurityConfig.Validate` lets through). The windows are cut to their
  thresholds, so an entry may have been dropped although its failure still counts. The invariant `CampaignKept`
  says that until the source is reported a window holds fewer entries than its limit and one for every
  failure since the window began (`Covers`): nothing was cut yet.
- `LinesTheorem` (`LinesAreReadOnce`) for any log, limits and forgeries (`WatchBounds`). What follows the offset is newer
  than everything read, and after a rotation or a truncation the whole file is (`Later`, in `FollowInv`); told
  forgeries, cache and journal are in the order of writing, and the cache holds the last of those told (`SpoofInv`),
  so that only a forgery too old or crowded out can be missed.
- `ChainTheorem` (`LogIsWatched`) for any number of lines, openings and accidents (`ChainBounds`). Hashes grow along the file
  (`Hashes`), a logger follows the newest line unless the old one wrote on, and without a cause the chain is whole
  (`LoggersFollow`); without a loss or a mixing of two chains the log is as long as any count of it (`AnchorFits`). A
  loss leaves a gap (`LossIsSeen`): a line below the anchor after which the file ends or does not fit, and every
  logger that may write next follows a line that is gone (`Continues`), so the gap can move back but never closes.
- `MonitorTypes` (`Types`): the five specifications side by side keep their types and the bounds of their tables.

Only model-checked: the liveness properties (`KeepsReminding`, `SlotIsFreed`, `ReturnsOnline`, `OutageIsTold`,
`EverySettles`, `ChangeIsLoaded`, `EveryEventSettles`, `ChangesAreNoticed`), as the prover handles neither fairness nor
`ENABLED`. Every safety property of a passing run is a theorem.

The proofs led to changes of the models where these could not be reasoned about: typed and unordered containers
got the types they have, `appendFailureTime` was split (`Dropped`), bounds became assumptions, and in `EventFlow` a step
loses a set of events at once; `plain` of `PluginReload` was added as a history variable. None changes what a step does.

## 5. What was found

Five statements of the repository that the code does not keep; each has a run whose counterexample is the scenario.

- `presence_reason` (`engine.go:325`). The reason of an outage is emptied when the cooldown silences its first alert,
  so that its recovery is silent too. When the cooldown is over the same outage is announced as a reminder, the
  reason stays empty, and the return of the agent is never announced.
- `notify_flush` (`manager.go:351`). `Flush` starts the sends of the pending window in goroutines and returns; `main`
  returns next, so they are lost, which the comments at `manager.go:386` and `cmd/dashboard/main.go:1357` say
  `Flush` prevents.
- `history_trust` (`history.go:286`). The cap per type looks at no trust: in a history full of trusted alerts
  of one type, one untrusted alert of another evicts the older half of them, although `history.go:30` says that
  untrusted ones go first.
- `plugins_name` (`cmd/agent/main.go:365`). An entry whose plugin already runs is not marked under the name the
  plugin registered with; if that differs from the entry's name the sweep stops the enabled plugin on the next change
  of the file, and the change after that loads it again.
- `plugin_upload` (`internal/api/plugins.go:679`). Two uploads of one name can both find the name free. Both put their
  files in place; the one that registers second is refused, and its rollback removes the files, which are
  those of the plugin the first has just registered. `plugins.go:594` says that a duplicate is refused before the
  installed plugin's files are touched.

Seen while modelling, and not contradicting anything the repository promises:

- `modules.json` is loaded first and the watcher notes its modification time later; an edit in between is missed
  until the next one (`ChangeIsLoaded` speaks of edits after the first look).
- A login opens its session with the copy of the account it took before the password comparison. If the
  account is changed meanwhile, the session is opened after the removal of that user's sessions and keeps the old
  role until it ends (`origin = "late"` in `StaleIsExplained`).
- A crash, or a failed save of the table, between the change of an account and the removal of its sessions
  lets a restart bring such a session back (`origin = "restored"`).
- A late failure opens a new window for an address whose old window is over, and the lockout it may still hold is gone
  with the old entry (excused in `LockoutIsKept`).
- The fallback loop of the directory watch ends when its feature is switched off; switched on again, the feature has none
  (`loop = "ended"` in `ChangesAreNoticed`).
- Three of the four baselines are saved before their events are emitted, so a restart or a reconfiguration in between takes
  a change for normal in silence (`"restart"`, `"replaced"` in `NothingIsAbsorbed`).
- The blocker loses track of a rule when its table is full, when a reconfiguration meets a block under way, and when a
  block runs out while the agent is down (`excused` in `RulesAreTracked`).
- A path scan that meets its limit on files reports the rest as gone (excused in `GoneIsGone`), while a full scan does not.
- Without an agent token the events of a connection's first tick are ignored: they precede the status that makes the
  connection the agent's (`EveryEventIsAccountedFor`).
- The cooldown of a metric never outlives a recovery: afterwards the fired level is "none", which every alert outranks
  in `shouldFire`, although the recovery notice restarts the cooldown. `NoRepeatInEpisode` therefore speaks of one
  episode, and what limits a flapping metric are the hold and the recovery hold.

## 6. The plan

Done: the modules of section 2, with the proofs of section 4.

Next, in this order:

1. `HubAdmission` (hub): cap on viewers, eviction by trust, reports of floods made while the hub lock is held, the
   last status a new browser is shown. Questions: does the cap hold with upgrades in flight, can a report deadlock on
   the lock, can a browser see an older status after a newer one.
2. The new-address check of logins (`monitor.go`) and the other checks of `integrity.go` (the dashboard's alert history,
   file permissions).
3. `DiscordSend`: retries, `Retry-After` and the budget of 46 s; numbers instead of processes.
4. Access rules of the middleware and the merging of alert and module configurations as operators, each checked
   against a reference definition.

| run | instance | questions |
|---|---|---|
| `hub` | three browsers, one agent, a cap of two viewers | cap with upgrades in flight, eviction, order of statuses, no self-deadlock in a flood report |
| `budget` | three retries, waits of zero to four ticks | a send ends within its budget, waits are honoured while it lasts |
| `rules` | every path class and role; every pair of a stored and a posted configuration | agreement with the reference definitions |

Refinement: `SessionStore` implements a table with atomic, durable removal, with a removal taking effect at the end of
its save, so that `AccountSessions` can rest on the abstract table; `EventFlow` a queue that loses only what it counts.

Proofs next: the refinement just named, with the abstract table as a specification of its own; of `MetricAlert`, that
the level told is never below the level the readings justify once the hold is over; and the theorems of `HubAdmission`
as it is written.

### Not modelled

The web interface, avatars, the sampling of the operating system, read-only APIs, signatures and release tooling, the
updater, installation: they keep no state that several actors change, or are I/O whose result the models take as given.
Notification channels are single requests; `NotifyManager` lets each succeed, fail, hang or panic. The access rules of the
middleware and the validation of configurations are decisions without state. Fields the models abstract from are named in
the components' notes in `PROJECT.json`.
