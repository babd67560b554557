# TLA+ verification of the Lavabit VPN (pahoehoe)

This directory models two programs of `lavabit/pahoehoe` and checks them with TLC
and TLAPS: the Android client (a Bitmask fork around ics-openvpn) together with
OpenVPN's side of the management interface, and `daemon(1)`, which starts,
supervises and stops the processes of the server. Paths below starting with `J/` are under
`src/android/app/src/main/java/`, those with `D/` under `src/daemon/`.

Run `tlc -config X.cfg M` for a run of the table below, `tlapm M.tla` for a
module of proofs.

## 1. Inventory

### The parts, their state and how they interact

| Part | State | Operations | Threads |
|---|---|---|---|
| **Status hub** `J/de/blinkt/openvpn/core/VpnStatus.java` | `mLaststate`, `mLastLevel`, the list of StateListeners | `updateStateString` with a level (synchronized) and without one (level computed before the lock by `getLevel`) | called by all of them |
| **EipStatus** `J/se/leap/bitmaskclient/eip/EipStatus.java` | `vpnLevel`, `currentEipLevel`, pending `DelayTask`s | `updateState` (a StateListener), `onPostExecute` (debouncing), `refresh` | publishers; serial AsyncTask executor; main |
| **DeviceStateReceiver** `J/de/blinkt/openvpn/core/DeviceStateReceiver.java` | `network`, `screen`, `userpause`, `lastConnectedNetwork`, a posted disconnect timer, the traffic window | connectivity and screen broadcasts, timer, `updateByteCount` | main; management thread |
| **Management thread** `J/.../OpenVpnManagementThread.java` | `mWaitingForRelease`, `lastPauseReason`, a posted `mResumeHoldRunnable`, `active` | `handleHold`, `pause`, `resume`, `networkChange`, `stopVPN`, the messages of the socket | management thread; main |
| **OpenVPNService** `J/.../OpenVPNService.java`, `OpenVPNThread.java` | `mProfile`, `mProcessThread`, `mManagement`, `mStarting`, `mDeviceStateReceiver` | `onStartCommand`, `startOpenVPN` (a new thread each time), `stopVPN`, `endVpnService`, end of the process | main, start threads, process thread, EIP worker |
| **EIP** `J/se/leap/bitmaskclient/eip/EIP.java`, `EipCommand.java` | a queue of jobs | START, STOP, START_BLOCKING, ... one at a time | JobIntentService worker |
| **EipSetupObserver** `J/.../eip/EipSetupObserver.java` | `setupVpnProfile`, `setupNClosestGateway`, `observedProfileFromVpnStatus` | broadcasts of EIP and ProviderAPI, `updateState` | main; publishers |
| **VoidVpnService** `J/.../eip/VoidVpnService.java` | the descriptor of the blocking VPN | establish, stop, revoke | main |
| **User interface** tile, notifications, EipFragment | (looks at EipStatus) | start, stop, stop blocking | main |
| **Pluggable transports** `J/.../pluggableTransports/Shapeshifter.java` | `retry`, `isErrorHandling`, `noNetwork` | start, stop, error callback, reconnect | start thread, Go thread |
| **Tethering and firewall** `J/.../firewall`, `J/.../tethering` | `isRunning`, tethering state | asynchronous shell tasks | main, AsyncTask |
| **Provider setup** `J/.../providersetup` | provider JSON, certificates | downloads and validation | one worker |
| **Tunnel configuration** `J/de/blinkt/openvpn/core/NetworkSpace.java`, `CIDRIP.java` | none (pure) | positive and negative routes to disjoint networks | |
| **Management interface** `src/android/ics-openvpn/main/src/main/cpp/openvpn/src/openvpn/manage.c` | held or not, the commands and messages on the socket | `management_hold`, `hold release`, `signal SIGUSR1`, byte counts, restarts | OpenVPN's one thread |
| **daemon(1) supervisor** `D/daemon.c`, `D/libslack/coproc.c`, `D/libslack/sig.c` | `g.pid`, the ends of the coprocess, `g.attempt`, `g.burst`, `g.spawn_time`, `g.terminated`, `g.received_sigchld`, the counters of caught signals | `run`, `spawn_child`, `examine_child`, `usr1`, `term`, `chld` | one process, with signals; its client |
| **Named daemons** `D/libslack/daemon.c`, `D/daemon.c` | the pidfile (inode, lock, pid), the client pidfile | start, `--stop`, `--restart`, `--running`, exit | many processes over one directory |
| **vpnweb** `src/vpnweb` | one SIP2 telnet connection, request counter | authenticate, certificate request, heartbeat | goroutines |
| installers, vendored libraries | | third party | |

A start goes: user -> `EipCommand` -> job on the EIP worker -> broadcast to
EipSetupObserver ("this is the gateway to watch") and service intent to
OpenVPNService, both handled by the main thread in order -> a `startOpenVPN`
thread -> process and management thread. Whatever happens is published through
VpnStatus; EipStatus turns it into what is shown, EipSetupObserver turns a
failure into a START of the next gateway and the failure of the last one into a
START_BLOCKING. DeviceStateReceiver decides meanwhile whether the process may
run, and the management thread holds and releases it.

On the server, `daemon(1)` locks the pidfile of its name, forks its client, copies the client's output until
that ends, reaps it, and respawns it or ends. A second `daemon(1)` of the name meets it in the
pidfile only: it finds the lock and gives up, asks (`--running`), or reads the pid and sends SIGTERM
(`--stop`) or SIGUSR1 (`--restart`).

### What is hard, and what correctness means

* **Hub and EipStatus.** Levels computed outside the lock reach the hub late; a
  two-second-old DelayTask overwrites the shown level without a lock. A stop
  must stick, the shown level must never overstate the connection, and a
  debounced level has to be shown in the end.
* **Holds.** Two threads communicate by two unsynchronised fields
  (`mWaitingForRelease` and the connect states), in opposite order, Dekker
  style. No release and no pause may be lost.
* **Commands and failover.** Jobs, broadcasts, service intents and callbacks of
  a status are queued in different places; retries repeat and overlap. The
  failover must end, connected or with blocked traffic; a stop must stop
  everything; what is shown as blocking must block. Closing and publishing, establishing and publishing are
  separate steps of different threads.
* **Service lifecycle.** Overlapping `startOpenVPN` threads and the late end of
  an old process share `mProcessThread`, `mManagement` and the receiver.
* **Supervision.** Signals are counted and handled later, at a few places, and
  interrupt only the call the daemon is blocked in. Between the handling and the next blocking
  call they interrupt nothing. A stop must not be lost or followed by a respawn, a dead client must be
  reaped, and the counters that decide when to give up must survive restarts.
* **Names.** A lock is on an inode, the name may lead elsewhere by the time it
  is held, pids are used again, any process may be killed at any step. One daemon per name, and a right answer
  to whether there is one.
* **Transports, tethering.** Retries against late answers, asynchronous
  tasks in the wrong order.

`PROJECT.json` lists each hazard at its line, with the property that covers it
or the reason why none does.

## 2. Modules

| Module | Models |
|---|---|
| `VpnStatus` | the hub: variables and actions of `updateStateString`/`getLevel`, no specification of its own |
| `EipStatus` | EXTENDS `VpnStatus`; the composition hub + EipStatus + DelayTask |
| `DeviceState` | DeviceStateReceiver, the hold handling of the management thread, and OpenVPN at the other end of the socket |
| `Eip` | EIP worker, EipSetupObserver, VoidVpnService; hub, service and process reduced |
| `DaemonLife` | abstract: what `daemon(1)` promises of its client |
| `Supervisor` | one `daemon(1)` process and its client; implements `DaemonLife` |
| `OneDaemon` | abstract: what a name promises |
| `NamedDaemons` | any number of `daemon(1)` processes of one name; implements `OneDaemon` |
| `MC*` | instances for TLC |
| `EipStatus_proofs`, `DeviceState_proofs`, `Eip_proofs`, `Supervisor_proofs`, `NamedDaemons_proofs` | the theorems |

### VpnStatus and EipStatus

`calls[t]` is the update a publishing thread is inside. `CallWithoutLevel` is the
first read of `mLaststate` by `getLevel`, `LookAgain` the second; `UpdateIgnored`
and `UpdateAccepted` are the early returns and the body of the synchronized
method, `UpdateReturns` ends it. `holder` is its lock, held while listeners run,
so that `UpdateState` and `SetEipLevel` (the two halves of
`EipStatus.updateState`) are atomic for other publishers and interleave with the
main thread's `onPostExecute` (`PostCompare`, `PostSet`, `PostRefresh`), which
takes no lock. The main thread is either in a call of its own or in an
`onPostExecute`. `shown` is what observers read at the last `refresh()`. One tick
is a second; `Delay` is the sleep of a task. `since` and `stopping` are history.

### DeviceState

A handler of the main thread is "decide" (change the fields, with every branch of
the code) followed by `ManagementCall` (the call it makes on the management
object). `handleHold` is `HoldArrives` (sets the flag) and `HoldDecides` (asks
`shouldBeRunning`); `updateByteCount` is `BytesArrive`, `LowTraffic` and
`LowTrafficPause`. `toProc`/`toMgmt` are the management socket. `timers` is a set of
remaining times because the runnable can be posted again while it is pending; `resumes` counts the posted
`mResumeHoldRunnable`s, each of which may release.

Assumed: fields that the code shares without `volatile` behave sequentially
consistently; the threads are prompt compared with a tick (seconds), while broadcasts and
posted runnables may wait; `userPause` is not used (nothing in the app sends
PAUSE_VPN); the preference `netchangereconnect` has its default.

The process is the other end, from `manage.c`. A SIGUSR1 ends the tunnel of a running
process, which then holds; one that is held already ignores it but announces
its HOLD again, so that the app sees more holds than the process makes. `ProcReads` takes as many lines as one
`recv()` may give (`man_read`): a held process does all of them and leaves the hold if one was a release
(`HeldReads`); a running one is restarted by a signal and forgets the releases read with it (`RunningReads`).
`doubled` is history: since the flag and the process last agreed, a hold was announced twice, or released
twice. The later of the two may be read when the first is answered already, and leaves `mWaitingForRelease`
wrong until the process holds or is released again.

### Eip

`jobs` and `worker` are the queue and the rest of the job at work: a STOP is the three
steps `PublishStopping`, `StopBlocking`, `Disconnect`, in the code's order. `posted`
holds broadcasts and service intents for the main thread, handled in order by
the `On...` and `FailedStart` actions. Publishing is one step, with
`ObserverUpdate` (EipSetupObserver.updateState) on the publishing thread; the finer
interleavings of the hub are the business of `VpnStatus`. Profiles are numbered
like their gateways; `Broken` are those whose profile `checkProfile` refuses; any
start may find the certificate invalid. While a level is debounced, what the user sees, and the
commands he can give, are those of that level or of the one before (`ShownBusy`, `ShownDisconnected`).

VoidVpnService publishes and establishes in two steps (`OnStartBlocking`, `Establish`), and closes and publishes
in two (`OnStopBlocking`, `EndBlocking`); `main` says which second one is due, while other threads go on.
`tun` is the interface the traffic goes to: a new `establish()`, of whichever service, takes the place of the old.

A `startOpenVPN` thread publishes (`PublishConfig`), and then writes the profile, which may fail (`ConfigFails`), ends the old
process (`ReplaceOld`) and opens the management socket, which may fail too (`ManagementFails`), or launches
(`StartOpenVPN`). The failures publish nothing. `attached` is `mProcessThread`: `endVpnService` clears it, also when the process
goes on. `proc` is the OpenVPN process: `launched` (no management connection yet: `stopVPN` returns false
and publishes nothing), `held` (`FirstHold`, `ConnectRetry`, `Reconnects`, `Pause`; `handleHold` publishes
CONNECTRETRY only for a wait of more than a second, and the reason of the pause when the tunnel should not run),
`managed` (`Tries`: it was released), `tunnel` (`OpenTun`: the management thread has called
`openTun`, CONNECTED is not published yet), `connected` (`Connects`), `told`. It ends when it is told to (`Exits`) or by
itself (`Dies`). When a hold ends is the subject of `DeviceState`; here it may last for ever. A management thread that is
inside `openTun` when its process is stopped opens the tunnel all the same, and closes it (`stale`, `StaleOpens`).

Two things are history. `wanted`: what the last command asked for, `"on"` until OpenVPN has connected, has ended by itself
or could not be started (`"open"` from then on). `disturbed`: the void VPN is not there, or is gone, and nobody was told:
`establish()` failed, the system revoked it, or a tunnel that took its place was closed without a status.

Assumed: the VPN permission is granted; a replaced process is gone when its successor is launched (the
code sleeps a second or two for it); one management thread at a time is late with `openTun`.

### Supervisor and DaemonLife

`pc` is where `run()` is. `select`, `wait` and `nap` are the blocking calls (the `select()` of
`coproc`, the `waitpid()` of `coproc_close`, the `nap()` of `spawn_child`); `decide`, `toWait` and
`toNap` are the windows before them, after `signal_handle_all()`, in which a caught signal
interrupts nothing. `pending` is libslack's `g_received`; `missed` is history and
tells which of those were caught in a window. `HandleAll` is
`signal_handle_all()` with the three handlers in the order of their numbers. `LongRun` and `ShortRun` are the
two sides of `spawn_child`'s question whether the last client lasted `--acceptable` seconds; since the
clock decides, both are possible whenever there was a client. `client` starts as `forked`: until
`prepare_child()` has run it has the daemon's handlers, and a SIGTERM only counts (`spared`). `pipe` is the
client's stdout and stderr taken as one: a client may close it before it exits, and a
child of the client's may keep it open after. `short` is history: the short runs since the counters began.
The options `--respawn`, `--read-eof`/`--ignore-eof` and `--limit` are variables that keep their first value, so
one run checks them all. Left out: pseudo terminals, stdin, where the output goes, and the binding to a login
session.

`DaemonLife` knows only whether there is a client, up or dead, whether the daemon
knows that it is to terminate, and whether it has ended. `Implements` maps `Supervisor` to it: one
client at a time, reaped before the next, none started once a SIGTERM is known, none left behind.

### NamedDaemons and OneDaemon

One step is one system call of one process (`ReadPid` is an open and a read). `path` is the inode the
name leads to, `fd` and `holds` each process's descriptor and `fcntl` lock, which ends with the descriptor or
the process. A process is known by its pid and an identifier is used again. `role` is its command
line: `start`, `stop`, `restart`, `running`. `Create` to `Verify` are `daemon_lock_pidfile`, with its
loop when the file is gone or is not the pidfile any more; `Drop`, `Remove`, `ReadPid` and `Signal` are
`daemon_stop` and `daemon_getpid`; the `Query...` actions are `daemon_is_running`; `AtExit` is what
`atexit()` calls, in its order. `Crash` is a SIGKILL at any step. Writing the pid, starting the client, recording it and the rest of `init()` may fail. A daemon
that cannot write its pid hangs with the file locked (`stuck`): `daemon_pidfile_unlocked` calls `daemon_close`,
which waits for the mutex that `daemon_pidfile` holds. One that cannot write the client pidfile logs that and
runs on (`unrecorded`), with no file or with what a killed daemon left there. `unlink()` is assumed to succeed.
What a daemon does with its client is reduced to `Spawn`, `Record`, `Reap`,
`Respawn`. `robbed` and `crashed` are history: the code has a gap of its own (`--stop` closes, and so
unlocks, the file before it unlinks it by name), and properties except what follows from it.
`--signal` and `--list` add no state.

`OneDaemon` knows only who owns the name (`owners`), the pid in the pidfile, whose client is in the
client pidfile, and whether the files were taken away from an owner (`broken`). An owner takes the name while
nobody has it, writes and clears the two files while it has it, and leaves; the pidfile it leaves may be removed while
there is no owner. `Implements` maps the processes past `Verified` to `owners`, `content`
to `pid`, `clientFile` to `client` and `robbed` to `broken`, after which nothing is promised. Locks, inodes,
descriptors, the loop around them, queries and stops are stutters.

## 3. Runs

| Run | Instance | Properties | Distinct states |
|---|---|---|---|
| `eip_status` | threads mgmt, main, eip; 2 DelayTasks of 1 tick | `TypeOK`, `StoppingNotConnected`, `ShownNeverOverstates`, `DelayedOnItsWay`, `DelayedLevelShown` | 317 000 |
| `eip_status_debounce` | mgmt and eip, sleep of 2 ticks | `Debounced` (violated) | |
| `device_state` | 2 networks, wait of 1 tick, 1 pending broadcast, 2 messages per direction, 2 posted releases | `TypeOK`, `WaitingAgrees`, `NoLostRelease`, `NetworkLossPauses`, `RunsAgain` | 557 000 |
| `device_state_wait` | 1 network, without the screen preference | `PausedAfterWait` (violated) | |
| `device_state_screen` | 1 network | `AwakeNotPaused` (violated) | |
| `eip` | 1 gateway; 2 user commands; `MaxQueued` 1; 1 start thread at a time | `TypeOK`, `BlockingShownIsBlocking` | 4 700 000 |
| `eip_failover` | 3 gateways, the second broken; 1 user command; `MaxQueued` 3; 2 start threads | `FailoverCarried`, `FailoverEnds`, `GatewaysInTurn` | 198 000 |
| `eip_stop_blocking` | as `eip`, `MaxQueued` 2 | `StopUnblocks` (violated) | |
| `eip_stop` | as `eip`, `MaxQueued` 2 | `StopSticks` (violated) | |
| `supervisor` | bursts of 2, limit none or 2, every other option; 2 signals, the client stopped once | `TypeOK`, `GivesUpOnlyThen`, `StuckOnlySo`, `StopWorks`, `ZombieReaped`, `Implements` | 61 000 |
| `supervisor_output` | the same options, no signals | `OutputKept` (violated) | |
| `named_daemons` | 3 processes, 4 inodes, symmetric | `TypeOK`, `SingleInstance`, `ClientFileAgrees`, `NoMeansNo`, `Implements` | 235 000 |

### What they show

* `StoppingNotConnected`: after STOPPING is accepted no late `>STATE` line, no level
  computed before it and no DelayTask makes the VPN connecting or connected.
* `ShownNeverOverstates`: between two updates, observers that show CONNECTED do so only
  while the level is CONNECTED or still being debounced, although `refresh()` is
  skipped when the level did not change.
* `DelayedLevelShown`: when the level stays NONETWORK or BLOCKING, EipStatus and its
  observers settle on DISCONNECTED or BLOCKING.
* `DelayedOnItsWay`: what that rests on. Whenever the hub is at rest, a level that is debounced is
  shown already or has a DelayTask that sleeps, is posted or is at work and will show it; no older task
  and no update in between leaves it without one.
* `WaitingAgrees`: the flag and the process agree on who waits, whatever crosses on the socket. A process that waits
  is known to, always; the flag is set for such a process only, unless a hold was `doubled`.
* `NoLostRelease`: no release is lost between the threads, `doubled` or not.
* `NetworkLossPauses`: when the loss of the network is final and all is handled, the *process* is held. The
  exception is a stale flag again: the pause finds `mWaitingForRelease` set, sends no signal, and a process that was
  released already runs on with no network (for example: the process restarts by itself, the pause reaches it held, so it announces
  its HOLD a second time, the first is answered, and the second is read when the network is lost again).
* `RunsAgain`: if the tunnel should run from some time on, the process runs again and again.
* `BlockingShownIsBlocking`: in every state, and not only at rest, LEVEL_BLOCKING means that the traffic goes to the void VPN,
  but in three moments and after what nobody is told of. The moments: `establish()` is the main thread's next step;
  `stop()` has closed (line 129) and publishes next (line 130); OpenVPN's tunnel has taken the void VPN's place
  and its CONNECTED, or what comes instead, is to follow. In the second the traffic is in the clear while the app shows it blocked: the code
  is so written, and the property does not hide it but says that nothing makes it last. What does last is `disturbed`: a failed
  `establish()`, a revoked VPN, or a tunnel that took its place and was closed without a status.
* `FailoverEnds`: one start gets connected, or ends with the traffic blocked, or in the app's
  own stop. It excepts what the code leaves open, each by name: a void VPN that is `disturbed` or was replaced by the tunnel of a process
  nobody watches (`Unwatched`); an OpenVPN process that ends by itself,
  since EipSetupObserver does nothing on NOPROCESS (line 293); and a start that fails for its profile or its
  socket, which publishes nothing (`wanted` is then `"open"`). And it excepts a process that stays held for ever, or restarts
  for ever with waits too short for a CONNECTRETRY: no event reaches the observer then, and it waits for one. It ends with the
  first CONNECTED, and has to: the process of the
  first gateway may connect while the next gateway's `startOpenVPN` is on its way, which then replaces it, and
  that CONNECTED has finished the observation of both (`EipSetupObserver.java:306`; the observed and the
  set up profile are already the next gateway's). The new process may retry for ever, and no failover begins.
* `FailoverCarried`: what it rests on. While `wanted` is `"on"`, when no job, message or start thread is
  left, the traffic is blocked or a process runs that EipSetupObserver listens for, with the same exceptions.
* `GatewaysInTurn`: until then a gateway is followed by the next one and by no other, and only after the
  last does the app give up, although one gateway may be retried many times: `selectNextGateway` reads the number
  at the time of the status, and nothing takes back a job or a message that a retry has already left. It speaks of the
  gateways *set up*. Whether each is tried is another matter: a CONNECTRETRY that the old process publishes after
  `OnStartVPN` counts against the new gateway, which may be left before its process was tried.
* `GivesUpOnlyThen`: the daemon gives up after exactly `limit` full bursts of short
  runs since it, or a restart, began to count, though a restart resets the counters
  only if there is a client, and a long run resets neither.
* `Implements`: see `DaemonLife`. It is what rules out a respawn after a noticed stop, a second client,
  and a daemon that ends before its client is reaped.
* `StopWorks`: a SIGTERM that was caught ends the daemon. Four ways out are left, each named, and each
  only if the daemon stays so for good: `Deaf`, the signal came in a window and nothing wakes the
  daemon (a comment in `run()` says so); `Unkilled`, the client got its SIGTERM before it had
  reset the inherited handlers; `OutputHeld`, `--read-eof` waits for an output that a grandchild
  holds open; `MissedChld`, SIGCHLD came in the window. A daemon that is stuck any other
  way, for instance one that waits for a client nobody killed, violates it.
* `ZombieReaped`: a client that exited is reaped, with the last two of those exceptions.
* `StuckOnlySo`: what both rest on, in every state: a daemon that is blocked while a stop or a dead
  client is outstanding has something that will wake it (`Wakes`), or one of the four names applies.
* `SingleInstance`: between any number of starts, stops, queries and crashes at most one daemon owns the name.
* `ClientFileAgrees`: the client pidfile names the client of the daemon that has recorded it, and no older daemon removes it. One that could not
  record its client runs with no file, or with a killed daemon's; without a crash the file never names a client of a daemon
  that is gone.
* `NoMeansNo`: when `--running` or `--stop` says "none", there was none at some time since it opened the pidfile. That covers the answer for
  want of a file, for a lock that is free, and for a lock that is free on a file that is the pidfile no more: it stopped being
  that in a step that left no daemon.
  The three except a daemon whose pidfile was unlinked by `--stop` (`robbed`); after that two daemons can run.
* `Implements` of `NamedDaemons`: see `OneDaemon`. Beyond the three it says who may write the files, and when:
  never a process that lost the race, and never an owner that has given the name up.

### Bounds

Every bound is a constant: `MaxTasks`, `MaxEvents`, `MaxPipe`, `MaxResumes`, `MaxCommands`,
`MaxQueued`, `MaxStarting`, `MaxSignals`, `MaxStops`. `MaxTasks = 2` lets an old DelayTask meet a
newer one of either level; a third would only queue behind them. `MaxPipe = 2` lets a
HOLD cross a release or a SIGUSR1 with another message in front; two networks tell
"same" from "different". `MaxResumes = 2` lets one posted release outlive another. Bounds stop new input (events, commands, retries),
never the handling of what is there: `MaxQueued` limits who may *add* a job by a
new command or retry; handlers of queued work may exceed it. In `eip` (`MaxQueued = 1`) a command or a retry is added
only when no job or message waits, though the worker, a start thread, the main thread and the process may all be at work. One gateway is
enough there: two user commands and the retries of both make starts, stops and blocks meet in every order, and with the first failure the
number one past the last gateway comes up. `eip_failover` has three gateways, so that a gateway's process meets the start of the next one's
and the jobs for the one after, and a refused profile between two that are not. `MaxQueued = 3` lets that many retries of
one process wait, and `MaxStarting = 2` two start threads overlap. `MaxStarting` is the exception that
delays handling: a service intent waits while that many start threads are
preparing (further starts wait as posted intents). There is
one command, since a second one may begin while the first is under way, with the same consequence as the race
described at `FailoverEnds`. `NotOver` is a state constraint: states in which `wanted` is not `"on"` any more have no successors,
which loses nothing, since with one command it never is again and all three properties speak of states and steps in which it is.

`MaxSignals = 2` lets a SIGTERM meet a SIGUSR1, or a second one, at every place of `run()`;
the same signal caught twice before it is handled is one. `MaxStops = 1` gives a SIGCHLD whose
client has not exited. With `Attempts = 2` and a limit of 2 there are a burst within and a burst at the
limit; without a limit the bursts go on for ever and `short` starts anew with each, which keeps the
instance finite. Three processes of a name are an owner, one that
starts and one that stops or asks; the theorems hold for any number. A process needs an inode of its own
only if it has a file open, so four inodes always leave one to create.

`CHECK_DEADLOCK FALSE` is set for the runs of `Eip` only: with the bounded commands given and
the VPN stopped there is nothing left to do. A daemon that has ended stutters (`Ended`).

### Fairness

* `EipStatus`: a thread inside a call finishes it; `Ignore`/`UpdateState` and
  `PostCompare` need a free lock or a free main thread, so they are strongly fair (the lock and the
  looper are starvation free in practice). Nobody has to make a call. Sleeps end.
* `DeviceState`: main, management thread and process serve what is queued; time passes. The looper
  serves its queue in order, but in the model other main actions can keep
  `MainIdle` false now and then, so the queued ones are strongly fair.
  Device, user and lost connections are not fair.
* `Eip`: worker, main thread and start threads are weakly fair; a process connects to its
  management socket (`FirstHold`); a try ends in one of its ways: a tunnel, a connection, a restart with or without a
  CONNECTRETRY, a pause; and a process that was told to ends. Which way is not fair, `ConnectRetry` may be all it ever does,
  and nothing says that a hold ends (`Tries` is not fair): whether it does depends on the network and the screen.
  The user, `OnRevoke`, `Dies`, `StaleOpens` and the download are not fair.
* `Supervisor`: the daemon goes on when it can and its naps end, which is one weak fairness of
  `Daemon` since it is sequential; a fork gets to its exec; a client that got SIGTERM exits. A
  client does not have to exit, to write or to close its output, and nobody has to send a signal.
* `NamedDaemons` is safety only.

### Findings

1. `Debounced` - `EipStatus.java:137` promises to ignore states valid for less than a
   second. An old DelayTask that wakes up while its level has just come *back* shows it at once.
2. `PausedAfterWait` - `DeviceStateReceiver.java:38` calls DISCONNECT_WAIT the time to wait
   after network loss. Turning the screen on during the wait removes the timer
   and pauses at once, with the reason userPause.
3. `AwakeNotPaused` - `updateByteCount` tests `screen` and writes it later, on another thread
   than ACTION_SCREEN_ON: the VPN can stay paused for the screen while the screen is on.
4. `StopUnblocks` - `stopEIP` publishes STOPPING before `stop()` asks whether the level
   is BLOCKING; `stopBlockingVpn()` is never reached and the void VPN stays up.
5. `StopSticks` - a stop while `startOpenVPN` prepares is reported as done, and OpenVPN starts
   all the same.
6. `OutputKept` - `spawn_child` resets `g.received_sigchld` but not the count of SIGCHLDs caught.
   When a client closes its output and then exits, its SIGCHLD is still pending after it was
   reaped and respawned; handled then, it makes an `--ignore-eof` daemon close the output of the new client.

## 4. Proofs

All theorems hold for every value of the constants that the named assumptions
(`ThreadsAssumption`, `EipAssumption`, `DeviceAssumption`, `SupervisorAssumption`,
`NamedAssumption`) allow; no other assumption is made.

* `EipStatusTypeOK`: `TypeOK` is inductive; `ExplicitTyped` and `StateLineTyped` say that
  what a thread can publish is in range.
* `EipStatusStopping`: `StoppingInv` = `TypeOK` + `HubConsistent` + the property.
  `HubConsistent` relates hub, EipStatus and the history variable while a thread is between the
  halves of an update: without it a state in which the hub's last state is not STOPPING although
  `stopping` is set would have a successor that connects.
* `EipStatusShown`: `ShownInv` judges `shown` by the level *before* the update (`tmp`)
  while one is in progress, the gap in which the property itself says nothing.
* `DeviceTypeOK`: inductive with the lemmas on sequences that the library lacks.
* `DeviceWaitingAgrees`, `DeviceNoLostRelease`, `DeviceNetworkLossPauses`: one inductive
  invariant, `HoldInv` = `TypeOK` + `Decided` + `HoldAnswered` + `Socket` + `InSync`.
  `Decided`: a pending call of the main thread still agrees with the fields it was decided by.
  `HoldAnswered`: while `waiting` and the tunnel should run, someone (a posted runnable, the management
  thread inside `handleHold`, or a call of the main thread) will look again.
  `Socket`: a held process whose HOLD was read is known to wait or about to be released; and after a final loss a SIGUSR1 is the last
  command on the socket, or a HOLD is on its way or known. `InSync`: unless `doubled`, a hold is in one place at a time (announced, known to
  wait, or about to be released), and in none while the process runs. It is what turns "the flag is set" into "the process is
  held": `DeviceNetworkLossPauses` gets the flag from `Socket` and the process from `InSync`. The three properties speak mostly of quiet
  states; the invariant is what holds on the way there.

* `EipTypeOK`: `TypeInv` = `TypeOK` + `Numbered` + `InvalidReported`. That the next number stays
  within the gateways rests on the observer, whose number is that of the gateway it set up,
  and on an invalid profile being reported only when there is a gateway.
* `EipFailoverCarried` and `EipGatewaysInTurn` share one invariant, `FailoverInv` = `TypeInv` + `CarriedInv` + `TurnInv`, since each needs the
  other: that nothing is left uncarried needs that nothing is asked for out of turn after the app has given up.
  `CarriedInv`, while the first VPN asked for has not connected, ended or failed to start
  (`First`): `NothingStops`: no job, task or message stops anything, so no STOPPING or CONNECTED finishes
  an observation and the hub drops nothing; `Paired`: the messages of a launch stay next to each other, so a
  `startVPN` is handled when the gateway it is for is the one set up; `Carried`: a start is on its way through job queue,
  worker or messages, or else, with a gateway set up, it is watched, and with none, a block is on its way or done
  (or the tunnel is `Unwatched`). The property speaks of quiet states only; `Carried` is what is handed from one queue to the next
  in between. `GivesUp`: once the job that blocks is asked for, no gateway is set up and nothing but
  NO_MORE_GATEWAYS is asked for. Without it the block's own disconnect could end a process that is still
  watched. `Untouched` is the state before any command.
* `EipGatewaysInTurn`: `TurnInv` beside `CarriedInv`. The gateways asked for and not yet set up stand in one line:
  those of the posted messages, the worker's, those of the jobs (`Asked`). `InLine`: their numbers never decrease;
  `SuccessorsAsked`: each is the gateway set up or its successor; `SameAsked`: before the first is set up, and
  after the last has failed, they are all equal. Every step moves the line on in its order, and only a
  successor joins, at its end (`LineMoved`, `TurnMoved`); so by the time gateway n + 1 is set up, nothing
  behind it asks for n. `InvalidSetUp`: an invalid profile is reported only behind its own gateway's
  set up, so that its successor joins too. The steps are those of `FirstStep` (no user command before the first
  CONNECTED) and `FirstTurn` (that command itself).
* `EipBlocking`: with its three moments the property is inductive as it stands. While the main thread is between the halves of a
  stop or of `establishBlockingVpn` nothing it does ends there but the second half, and what may come in between on another thread either
  publishes over BLOCKING or sets `disturbed` (`PublishedLevel`).

* `SupervisorTypeOK`, `SupervisorGivesUpOnlyThen`: `Inv` = `TypeOK` + `ClientAgrees` +
  `StopKnown` + `AttemptInBurst` + `Counted`. `Counted` says `short = burst * PerBurst +` the part of
  the current burst; the property speaks of the last burst only and could not be carried from one to the next.
  `Attempts` and `limit` are arbitrary, so the product is proved, not enumerated.
* `SupervisorImplements`: the same invariant lets every step map to a step of `DaemonLife` or to
  a stutter (`LifeStep`). `StopKnown` (a daemon on its way to fork knows of no SIGTERM) is why no client is
  started after a stop, `ClientAgrees` (`pc` tells whether there is a client) why none is left behind.
* `NamedTypeOK`, `NamedSingleInstance`, `NamedClientFileAgrees`, `NamedNoMeansNo`: `Inv` = `TypeOK` +
  `Exclusive` (write locks exclude) + `Locked` (who holds one, by place) + `OwnerHasPath` +
  `ClientRecorded`. The lock alone does not exclude two owners, who may each have locked
  an inode of their own; `OwnerHasPath` does: the name leads to the file an owner has locked. It is why `daemon_lock_pidfile` compares the
  inodes after locking. Only an owner that exits, or a `--stop` that met none, unlinks;
  one that hits an owner's file all the same sets `robbed`.

* `NamedImplements`: on the same invariant, `NameStep` maps every step of a process to a step of `OneDaemon` or to a
  stutter. `OwnersAfter` says how a step of one process changes the set of owners, `OnlyOwner` that
  there is no other; a step after `robbed` is a `Break`.
* `EipStatusDelayed`: `OnItsWay` is inductive beside `ShownInv`. When nothing is queued for the current
  level, the task at work is for that level and not yet overtaken; `WaitingAppend` and `WaitingTail` say what the
  queues keep.
* `SupervisorStuckOnlySo`: `Waking` = `SignalsMissed` (a blocked `select()` has only
  pending signals that were caught in a window) + `StopReached` (once the daemon knows of a stop, its client has been
  killed, or got the signal before it had handlers of its own) + `DeathCounted` (a dead client's SIGCHLD is pending or was
  noted) + `Reading` (it selects only while there is something to read), beside `Inv`.

Each liveness property thus has its safety core proved for every instance: `DelayedOnItsWay` for
`DelayedLevelShown`, `StuckOnlySo` for `StopWorks` and `ZombieReaped`, `FailoverCarried` for
`FailoverEnds`, and `NoLostRelease` for `RunsAgain`: no state in which nothing is
under way is a wrong one. That what is under way is also done is only model-checked (fairness and ENABLED are beyond
TLAPS). The properties found violated are statements of the code's comments and documents, not theorems.

## 5. Not modelled

* **Of modelled parts.** Proxy, password, descriptor and signature requests of the management thread; always-on
  start; permission dialogs; the geoip refresh; the log buffer. Of `daemon(1)`: pseudo terminals, stdin, output
  to syslog or files, login sessions, becoming a daemon before the pidfile is opened, reading of options.
* **OpenVPNService.** `Eip` has what a command can meet. What an old process does to the
  fields of a newer one when it exits (`mProcessThread`, `mManagement`, the receiver), `stopSelf` and `onDestroy` are left out:
  with them every process, management thread and start thread is an object of its own,
  and `Eip` is already the largest instance. The hazards are listed without a property.
* **NetworkSpace, CIDRIP, gateway selection.** Pure functions without an order of events;
  tests on tables serve them as well.
* **Shapeshifter.** One object around a Go library that is not in the repository; what is hard is how the library behaves.
* **Tethering and firewall.** Shell tasks on a rooted device; what the rules do is up to iptables.
* **Provider setup.** Sequential downloads on one worker, network and parsing.
* **vpnweb.** Stateless handlers; all SIP2 requests go through one goroutine that
  reads an answer before it sends the next request, so nothing interleaves on the connection.
* **Libraries.** OpenSSL, mbedTLS, LZO, the rest of OpenVPN and of libslack, the Go libraries: nearly all of the
  repository's million lines. They have no protocol of their own with the programs modelled here, and
  it is they that make the share of mapped lines small.
