# A TLA+ model of freebsd-launchd

freebsd-launchd is a small init and service supervisor: a rewrite of Apple's
launchd on libdispatch and GNUstep Foundation that runs as PID 1 of a FreeBSD
system, loads property lists, starts the jobs they describe, restarts the ones
marked `KeepAlive`, reaps every child, and obeys `launchctl` over an AF_UNIX
socket. Next to it the repository carries `kmodloader`, which loads kernel modules
at boot, and an import of Apple's configd, of which so far only a stub is compiled.
This directory models the daemon, kmodloader, and the parts of configd that keep
shared state (the dynamic store with its clients, the preferences with their lock,
the plugin that joins them), checks the models with TLC on small instances and
proves with TLAPS, for every instance, each safety property that a passing run
checks: of the supervisor and its boot, the command transport, kmodloader, the
store and its clients, and the preferences. Liveness stays with TLC.

Paths below are relative to the root of the repository.

## 1. Inventory

### 1.1 Components, their state and their operations

| component | source | state | operations |
|---|---|---|---|
| plist reader | `src/src/core.m` 155-282 | none | `jobmgr_load_plist_file` and the `nsdict_get_*` helpers |
| job table and supervisor | `src/src/core.m`, `core.h` | the list of `Job`s (label, policy, state, pid, time of the last spawn, `pending_unload`, `restart_timer`), the startup singleton and its done flag | insert, find by label or pid, free, spawn, schedule a respawn, the restart timer's handler, reap, unload, directory scan |
| runtime | `src/src/runtime.c` | the signal sources, `shutting_down` | SIGCHLD handler, SIGTERM/SIGINT/SIGHUP handler, `launchd_shutdown` |
| `main` | `src/src/launchd.c` | options | -p load, -S and default scans, start of the command server, `dispatch_main` |
| command handlers | `src/src/ipc.c` 55-270 | none of their own | load, unload, list, start, stop, shutdown |
| command transport | `src/src/ipc.c` 272-309, `ipc_proto.c` | the listening socket, one connection | accept loop, one framed message per connection, reply, close |
| socket path | `src/src/ipc.c` 311-439 | `sock_path`, `created_canonical`, files in `/tmp` and `/var/run/launchd` | `ipc_server_init`, `ipc_server_close` |
| `launchctl` | `src/support/launchctl.c` | one connection | send a command, print the reply, exit status |
| log | `src/src/log.c` | an open syslog | pure output |
| kmodloader | `kmodloader/src/KMDaemon.m` | what each tool printed, the plan | run pciconf, devmatch and kldstat, plan, kldload in a loop |
| netconfigd | `configd/src/configd.tproj/main.m`, `NCDaemon.m` | none | a stub that logs and exits |
| dynamic store server | `configd/src/configd.tproj/*.c` | keys with values and owners, sessions, watchers with reference counts, patterns with the keys they match, pending changes, notifiers | set, add, remove, notify, set many, watch, unwatch, fetch changes, register and cancel a notifier, open and close of a session |
| dynamic store client library | `configd/src/SystemConfiguration.fproj/SCD*.c` | a session port, watched keys, a run loop source or a queue, a notification port | requests with reconnect, register, cancel, callbacks, restoration after a death of configd |
| preferences | `configd/src/SystemConfiguration.fproj/SCP*.c` | the preferences file, its lock file, each session's copy with the signature of the file it came from | get, set, add, remove, lock, unlock, commit, apply, synchronize |
| PreferencesMonitor | `configd/src/Plugins/PreferencesMonitor/prefsmon.c` | a preferences session, the `Setup:` keys | on commit look, on apply copy |
| the rest of `configd/` | SystemConfiguration, other plugins, scutil, dnsinfo, nwi | - | Apple's code; imported, not built |
| liblaunch, wait4path, rc | `src/liblaunch`, `src/support/wait4path.c`, `src/rc` | - | Apple's code; not in the Makefile's programs |
| boot image | `overlays/`, `ramdisk/`, `boot/`, `build.sh`, `tests/` | - | plists, shell scripts |

### 1.2 How they interact

`main` runs first, alone: it installs the signal sources, loads the `-p` plist,
scans the directories in order, opens the socket and enters `dispatch_main`.
From then on everything is a handler on the one main queue: the SIGCHLD source
drains `waitpid` and calls `job_reap` for each child that has a job; a restart
timer's block calls `job_spawn`; a readable listening socket accepts a
connection, reads one message, runs a command handler and replies. Handlers do
not interrupt each other. What does interleave with them is the world: children
exit at any point, also in the middle of the drain loop; the kernel coalesces
SIGCHLD, reuses pids and reparents orphans to PID 1; clients send commands in
any order, between a SIGTERM and the exit it asks for, or between an exit and
the respawn; `posix_spawn`, `kill` and `dispatch_source_create` may fail.

kmodloader is one process that runs its tools one after the other, each behind two
pipes, while the kernel and other programs load modules too.

configd is one thread that takes one request at a time from many client processes
and then pushes the notifications it caused; the clients share nothing but that
server, which may die and be restarted between any two of their requests. Sessions
of the preferences do not go through configd at all: they meet in the file system,
in a lock file and a data file, and tell configd afterwards which key changed.

### 1.3 What is hard

* a command that finds a job half way: stopped but not reaped, unloaded but not
  reaped, exited with a throttle timer pending;
* a timer whose block captured a pointer to a `Job` that unload frees;
* coalesced signals and exits during the drain loop or during the boot scan;
* pids that come back as other processes;
* one failing step in a respawn, a scan or an unload;
* liveness: that every zombie is reaped, every KeepAlive job comes back, every
  unload ends, and `launchd -f -p` exits;
* a tool of kmodloader that fails, cannot be run, or fills a pipe nobody reads;
* indexes of the store that are brought up to date at different moments of one
  request (a key removed and set again in the same request is still listed);
* a notifier registered while changes are pending, a message dropped because the
  port is full, a session closed while it is due for a notification;
* a client that finds configd dead in the middle of restoring what the last death
  took away;
* a lock file that was unlinked between the open and the lock, a copy that went
  stale before the lock, a process that dies between write, rename and notify.

`PROJECT.json` lists them as hazards, with the line each bites at and the
properties that watch it.

### 1.4 What makes each component correct

* plist reader: a file yields a complete job or nothing.
* table: labels are unique; a job holds a pid exactly while it has a process,
  and the pid is that of a process spawned for it.
* throttle: at most one armed timer per job, never one without its job, none
  for a job being unloaded; respawns keep the interval.
* reaping: no zombie without a pending signal or a running drain.
* unload: ends, removes, and never respawns.
* boot: one bad plist does not keep another from loading.
* singleton: exits when, and only when, its job is gone.
* transport: a command is applied at most once, a client that reports success
  had its command applied, a silent client does not hold up the daemon.
* socket path: clients reach a live daemon or none.
* kmodloader: every driver a device wants is loaded or was refused, displays first,
  and it ends.
* dynamic store: exactly the sessions that watch a changed key are told; a session
  key goes away with its session; the indexes agree with the lists they are built from.
* client library: a client is never registered with nobody.
* preferences: one writer at a time, a whole file at all times, nothing overwritten
  unseen, the lock never left taken.
* PreferencesMonitor: what is applied is what is stored.

## 2. The modules

Five groups, each a chain of modules that extend one another:

* the supervisor: `LaunchdPlist` < `LaunchdCore` < `Launchd` < `MCLaunchd`, `MCBoot`,
  and `LaunchdProofs` < `LaunchdStepProofs` < `LaunchdBootProofs`;
* the command transport: `LaunchdIpc` < `MCIpc`, `LaunchdIpcProofs`, with
  `CommandService` as its abstract specification; it meets the supervisor in the
  command handlers;
* `KModLoader` < `MCKModLoader`, `KModProofs`;
* the dynamic store: `DynamicStore` (abstract: `StoreService`) < `MCStore`,
  `StoreProofs`, and `StoreClient`, which composes the server with clients and
  deaths, < `MCStoreClient`, `StoreClientProofs`;
* the preferences: `Preferences` (abstract: `PreferencesService`) < `MCPreferences`,
  `PreferencesProofs`, and `PreferencesMonitor`, which composes the sessions with
  the plugin, < `MCMonitor`.

**LaunchdPlist** models the plist reader. A file on disk is a record of what the
parser can tell of it (readable, parses, is a dictionary, and for every key
absent, of the wrong class, or a value); `jobmgr_load_plist_file` turns it into
the configuration part of a `Job` or `NULL`. Strings and argument vectors are
abstracted to whether they are there: nothing in launchd looks at more than
that, except for labels, which are compared.

**LaunchdCore** models `core.m`. `heap[o]` is the `Job` at address `o`, so that
a freed job, and a new one at the same address, can be told from the old one.
`timer[t]` is a dispatch timer with the pointer its block captured, `proc[q]` the
kernel's view of process `q`: live, zombie or none, the label it was spawned for
and whether launchd sent it a SIGTERM. The last two fields are history that only
properties read. Times are relative: `age` is the number of whole seconds since
`last_spawn_at`, counted up to the interval, and `rem` what is left on a timer,
so the state space is finite. Each C function is one operator of the same name;
a function called in the middle of a handler takes the job, process table and
timers as the handler has them at that point.

**Launchd** adds `main` (`pc` walks plist, scan, ipc, main), the SIGCHLD
source (`sigchld` is the pending event, `pc = "reap"` the drain loop with one
action per `waitpid`), the timers, shutdown, the four command handlers that
change state, and the environment: exits, orphans, time. Every handler is one
action, as it runs to completion on the main queue. `err` in a handler is the
errno of the reply. `launchctl list` and the default branch of `dispatch_msg`
change no job and have no action here. `exited` is final: nothing is modelled after
launchd's own exit.

**CommandService** says what a user of `launchctl` may rely on: a command is
carried out at most once; exit status 0 means that it was; an error reply means that
it was not, or only in part (`handle_load` replies `EIO` and keeps the job when only
the spawn fails), and will not be; a failed connect or send means that it had no effect
and will have none; after a lost connection either is possible.

**LaunchdIpc** models both ends of the socket: `client_connect`, `client_send` and
`client_recv` are `do_cmd` of `launchctl.c`, one `read` or `write` per action;
`accept`, `read_all`, `read_fails`, `ipc_recv`, `dispatch_msg`, `ipc_send` and
`close` are the accept loop and `handle_connection`. A message is a header of
`HdrLen` units followed by a payload; the contents that matter are whether the
header is well formed, the command and the length. `up` and `down` count the
units in each direction, at most `Cap`; a reply that is longer than that does not
go out in one `write`, and one that is longer than `MaxPayload` does not go out at all
(`E2BIG`), which only a list can be: `ListLen` are the lengths it may have. `Nonblock`
says whether `accept` hands the `O_NONBLOCK` of
the listening socket down, as FreeBSD's does (and Linux's does not). What a
command does to the jobs is in `Launchd`, where a handler is one action because
all of `handle_connection` runs on the main queue; here a handler succeeds, fails, or,
for a load, does the one and says the other, and `effect` records which. `MCIpc` has its requests.

**KModLoader** models `runOneShot`. A tool is a process that writes a number of
units into two pipes of `PipeSize` and exits; `task` and `pc` say how far the daemon is
with it. The daemon reads after `waitUntilExit`, so a tool that has more to write than
a pipe holds never exits. What a tool finds is in `machine`, lines reduced to what
the code compares: class and vendor of a PCI device, whether its device id is in
the Radeon table, the module a line of devmatch names. `orderedSet` is the
`NSMutableOrderedSet` the lists are collected in, a recursive function over the
lines. `Plan` is the ordered set of display drivers, then the others; `kldload` skips what kldstat listed and goes on
after a failure. `failed` and `heard` are history.

**StoreService** says what a session may rely on: a session that is interested in a
key gets every change to it on its list, and no other; a fetch empties the list.

**DynamicStore** models the server. The store is one record `db`, because within one
request the code transforms it step by step and the intermediate states matter:
`SetValue`, `RemoveValue` and `NotifyValue` are applied one after the other, `Push`
then tells the watchers, drops the removed keys from the patterns and from the lists
of session keys, in that order. `refs` are the watcher reference counts, kept as the
code keeps them (decremented per key and per pattern, never below zero) and not
computed from the lists. Every RPC handler is one action; `phase` alternates it with
`pushNotifications`. Patterns are given by the keys they match (`Matches`) or as
not compiling; values by the session that stored them as temporary.

**StoreClient** adds the client library and the death of configd. A request is one
step and may open a new session on the way (`Reached`), or find no server
(`CheckRetryAndHandleError`). `ReconnectNotifications` cancels, sets the keys and
registers in three requests, between which everything else may happen. `behind`
is history: how a client was notified when configd died, until it is called back.

**PreferencesService** says that what a session stores replaces the very preferences
its copy comes from.

**Preferences** models sessions of several processes, one action per system call that
others can see: `open`, the wait for the lock (`O_EXLOCK`), the comparison of the
inode at the path (`check`), that of the signature (`compare`), `unlink`, `close`; in
a commit `save`, `writen`, `rename`, `stat`, `post`. `Crash` may come between any
two: the kernel closes the files, the lock file and the half-written file stay.
A new file that finds remains of an older one may keep their end (`Torn`).
`signature` stands for the inode, size and times that the code compares; every stored
file has its own.

**PreferencesMonitor** adds the plugin: it copies on a commit, applies on an apply, and
sees notifications that came while it was busy as one.

**MCLaunchd**, **MCBoot**, **MCIpc**, **MCKModLoader**, **MCStore**, **MCStoreClient**,
**MCPreferences** and **MCMonitor** give the constants values for TLC;
the eight modules whose names end in `Proofs` hold the theorems (section 4).

Definitions with a suffix, such as `Push_Early` or `Plan_DevmatchFirst`, are variants of
the definition before the underscore, each with a plausible mistake. No specification
uses them; they document that every property can fail, and how.

Modelling decisions worth knowing:

* `calloc` returns any free address, or fails when there is none: two addresses
  make it fail in reach. `posix_spawn` fails when there is no free pid, and at
  any time if `Faults` says so.
* `time(NULL)` and the dispatch clock advance together, in whole seconds
  (`Tick`). A timer that is due may stay unserved for any time.
* A cancelled dispatch source does not run its handler again, even if it was due:
  cancel and handler are both on the main queue.
* `kill` of a zombie succeeds. `termed` records the call of `kill(SIGTERM)`, whether
  it succeeded or not; where `kill` may fail nothing is assumed of the child.
* `ChildExits`, `Reparent` and `TimePasses` are the kernel's steps, modelled from what
  the handlers expect of it.
* `JOB_STATE_REMOVED` is never assigned and is left out.

## 3. The runs

| run | instance | what it checks |
|---|---|---|
| `supervise` | PID 1, two labels, four plists (KeepAlive, run once, KeepAlive without RunAtLoad, disabled), two addresses, three pids, two timers, interval 2, all commands, spawn, timer and kill may fail | nine invariants of the table, the processes, the timers and SIGCHLD; which respawns keep the throttle; nothing but a manual start gives a process to a job being unloaded |
| `live` | two KeepAlive jobs from the boot scan, unload/stop/shutdown, two pids, fairness | zombies are reaped, KeepAlive jobs come back, unloads end |
| `boot` | `launchd -f -p once.plist` and eight plists in two directories: files that are refused at each stage of reading, and duplicates within and between the places; fairness | what the boot loads and starts; that launchd exits when its job is gone, and not before |
| `ipc` | a steady launchctl and a peer that may die, stall or send a bad header; commands with and without payload, a list reply longer than the buffer, or than a message may be, shutdown; a backlog of one; `malloc` and `accept` may fail; fairness | the transport implements `CommandService`; every accepted connection is closed; launchctl always ends |
| `kmod` | fifteen machines (no, one or two display controllers, cut lines, a 3D controller; devmatch lines with and without suffix, twice, blank), pipes of one unit and outputs of up to two, every tool may fail, modules appear by themselves; fairness | every wanted module is loaded or was refused, displays first; kmodloader ends unless a pipe clogs |
| `store` | two sessions and the shared one, one key, two patterns that match it and one that does not compile, notification by file | reference counts, pattern index, session keys, nothing left of a closed session; the server implements `StoreService` |
| `store_client` | one client by run loop and by queue, one key, one pattern, a port for one message, two deaths of configd; fairness | no client waits on a port nobody sends to; no change is left waiting; changes are fetched; a client on a queue learns of the death |
| `prefs` | two processes, one of which removes an empty file, one key, three inodes, two commits that overlap, open/write/rename/notify may fail, deaths; fairness | exclusion, a whole file, no lost update, the lock is given back |
| `start_throttle` | violation; one KeepAlive plist, load/start/stop | a timer that outlived a manual start respawns the job at once |
| `stop_start` | violation | a process launchd spawned is reaped as a stranger |
| `ipc_race` | violation, fairness | a well-formed command that is never dispatched |
| `apply_stale` | violation; one process, two commits, the plugin | the plugin applies preferences that another commit had already replaced |

Bounds. Two labels are enough for every interaction between jobs, since jobs
meet only through the label check, the pid lookup, the address allocator and the
singleton flag; a third job adds no new kind of meeting. Three pids let one job
lose a process, get a second one, and see the first pid reused by the other job
or by an orphan. Two timers let each job have one. An interval of two separates
"at once", "throttled for part" and "throttled for the whole" interval. Addresses, pids and timers are symmetric; the liveness runs do not
use symmetry.

In `ipc` two clients are enough because launchd serves one connection at a time:
the other can only queue, send, die or be refused. A header of two units can
arrive in halves, a payload of two as well; a buffer of three splits header from
payload and holds an ordinary reply but not a list. The code's backlog of 16 is
scaled to one, so that it overflows.

In `kmod` a pipe of one unit and outputs of up to two make every tool fit, just fit
and clog, on either stream. In `store` one key is enough: keys meet only in a set of
changed keys that is handled key by key, and every index is per key; two patterns
make the reference count of a session reach three and let one go while the other
stays. A request may set, remove and flag that key at once. In `store_client` one
client is enough, for clients share only the store; two deaths let the second come
at any point of the restoration after the first. In `prefs` three inodes are what two
open lock files and one at the path need. A commit begins while less than
`MaxCommits` = 1 files are stored, so that both sessions may begin one and the second
finds the file of the first.

Deadlock is not checked for launchd and kmodloader: after `exited`, or when the plan
is done, the model stops for good, as the process does. It is checked for the store,
its clients and the preferences.

Fairness. A dispatch source that has an event and is not starved is served:
weak fairness for the steps of `main`, which nothing else can disable, and strong
fairness for the beginning and end of the SIGCHLD handler and for due timers,
which other handlers on the same queue interrupt but, the queue being FIFO, do
not overtake for ever. The strong fairness of the drain loop's end excludes
children that exit faster than launchd reaps, without end. Clients owe nothing;
children need not exit, except that one that was sent a SIGTERM does so in the
end: launchd has no SIGKILL to follow (the comment at `src/src/core.m:532` leaves
it for later), so without that assumption no unload is certain to end.

In `LaunchdIpc` launchd's own steps are weakly fair, a successful `accept` strongly
so (other errors of `accept` are transient), and only the `Steady` clients keep
going.

In `KModLoader` the daemon and the tool it runs each go on while they can, which is
what the scheduler gives two processes; a tool that waits for room in a pipe cannot.
In `StoreClient` configd pushes what it has to push and launchd restarts it (weak
fairness); the run loop and the queue of a client go on strongly, since their
requests queue at configd's port, from which it takes them in turn. Writers and the
calls of the clients owe nothing. In `Preferences` a call that has begun goes on
(weak fairness of each session's steps); nobody need call anything, and `LockFreed`
grants that a session may wait for as long as others keep taking the lock, because
`flock` promises no order.

`RespawnThrottled` states the throttle as the comments do: a respawn that launchd
decides on itself comes an interval after the previous spawn, whoever asked for that
one. It is violated (`start_throttle`). `ThrottleKept`, which holds with all commands,
says that this is the only way: the one early respawn is that of a timer that outlived
a manual start and fires while the job is stopping.

`KeepAliveRespawns` is checked without failing calls: after a failed respawn a
KeepAlive job stays down, which the log message at `src/src/core.m:428` says
("will not retry until next reap").

### Findings

Each of these has a run that reaches it.

1. **stop, start** (`stop_start`) - `handle_start` and `job_spawn` refuse only
   `RUNNING`. A start before the stopped process is reaped gives the job a second
   process and forgets the first. The same end is reached by a second unload, or a stop
   and an unload: `jobmgr_unload` frees a `STOPPING` job at once, contrary to the
   comment on `jobmgr_remove_and_free`. A weaker invariant still holds and is proved:
   `UntrackedWasTermed` says that whatever launchd loses track of has at least been
   sent a SIGTERM.
2. **connect, read, write** (`ipc_race`) - on FreeBSD the accepted socket is
   non-blocking, and `read_all` takes `EAGAIN` for a protocol error: a command whose
   bytes come a moment after the connection is refused. `ServiceKept` shows that
   launchctl at least reports it truthfully, and `Answered` that the same
   non-blocking socket is what keeps a silent client from stalling PID 1.
3. **commit, commit, apply** (`apply_stale`) - the plugin keeps the copy it made when
   it was told of the first commit and applies it after the second, where
   `SCPreferences.h` speaks of the currently stored preferences.
4. **exit, start, stop** (`start_throttle`) - a manual start leaves the restart timer of
   the earlier exit armed, and the timer's block refuses only a `RUNNING` job. If the
   job is stopped and the timer fires before the reap, it starts a second process at
   once, although `ipc.c:227-228` subjects the respawn after a stop to the throttle and
   `core.h:8-10` anchors the throttle at the prior spawn.

Remarks that reading and modelling the code left, without a run of their own:

* a start revives a job being unloaded, and the reap of the process it had does not
  find it; `core.h:70-72` promises its removal on reap. `supervise` has such starts:
  the job is not respawned by launchd and goes with its new process. That it may take
  for ever is why `UnloadCompletes` is checked without `start`;
* a failed respawn of a KeepAlive singleton leaves `singleton_done` false although
  nothing will respawn it (`core.h:106-108`);
* `__SCDynamicStoreNotifyValue` on another session's temporary key makes it an
  ordinary one, which no longer goes away with its session;
* `SCDynamicStoreSetDispatchQueue(NULL)` does not tell the server, which keeps the
  registration until a send fails;
* a reconnect inside an ordinary call makes a session without watched keys; the keys
  come back only when the notice on the notification port is handled;
* a client on a run loop is not called back if configd cannot be found while the
  notifications are restored: the new source is never made, and there is nothing
  to signal (`QueueTold` therefore speaks of queues only);
* kmodloader hangs on a tool that writes more than a pipe holds (`Clogged`);
* the filter `class=0x0300` does not match 3D controllers, which the comment above it
  names;
* comments in the plists of the image count on an alphabetical scan; `readdir` promises
  no order, and `Launchd` scans in any;
* `SCPreferencesCommitChanges` opens the new file without `O_TRUNC`: after a crash or a
  failed rename the end of a longer file may follow the new contents (`Torn`). A reader
  that cannot parse that starts from nothing. `FileWhole` says only that what is in the
  file was written to its end;
* a process that dies after the rename and before the notification leaves a commit
  nobody is told of.

## 4. The proofs

Every theorem holds for all values of the constants that satisfy the named
assumptions of the module (`PlistAssumption`, `CoreAssumption`, `LaunchdAssumption`,
`IpcAssumption`, `KModLoaderConstants`, `StoreConstants`, `PreferencesConstants`).
They give types, and say that markers such as NULL, Absent, Blank, None or NoValue
are none of the values they stand beside; `StoreConstants` also has that there are
finitely many patterns, without which a reference count means nothing. What a theorem
assumes beyond that is named with it. Each inductive invariant was checked with TLC on
the instance of a run before it was proved.

### 4.1 The supervisor: `LaunchdProofs`, `LaunchdStepProofs`, `LaunchdBootProofs`

| theorem | states |
|---|---|
| `Invariance` | `Spec => []IInv` |
| `TypeCorrect` | `TypeOK` |
| `LabelSafety` | `LabelsUnique` |
| `PidSafety` | `PidIsOurs` and `StateMatchesPid` |
| `TimerSafety`, `TimerHeld`, `UnloadCancels` | `TimerSafe`, `TimerKnown`, `UnloadHasNoTimer` |
| `ReapSafety` | `ZombieSignalled` |
| `StopSafety`, `TrackSafety` | `StoppingWasTermed`, `UntrackedWasTermed` |
| `ThrottleHolds` | `ThrottleKept` |
| `ThrottleWithoutStart` | `RespawnThrottled`, if `start` is not among the commands |
| `UnloadIsFinal` | `NoRespawnAfterUnload` |
| `SingletonGone` | `ExitsAfterSingleton` |
| `BootLoads` | `BootComplete`, if there are at least as many addresses as labels, both finite |
| `BootStarts` | `BootSpawns`, if a pid is free wherever the next plist may be one to start (`PidLeft`) |

The inductive invariant `IInv` is the conjunction of the first six rows' invariants.
None of them is inductive alone: `PidIsOurs` needs `LabelsUnique` and `StateMatchesPid`
(two jobs with one pid would have one label), `TimerSafe` needs `TimerKnown`
(cancelling the timer a job knows must cancel the one that knows the job),
`UntrackedWasTermed` needs `StoppingWasTermed` (the process that a start or a second
unload forgets is that of a STOPPING job) and `StateMatchesPid`. The argument is
organised around two predicates: `Fits(o, j, pr, tm)`, what the new content of one job
must satisfy next to the new process table and timers, and `Gone(o, pr, tm)`, the same
for a freed job. `UpdateInv` and `FreeInv` show once that they preserve the table's
invariant; one lemma per C function then establishes `Fits` or `Gone`.

The action properties need two more invariants. `Throttled` says of a job with a timer
that it is a KeepAlive job and that the timer is due exactly when the interval is over
as long as the job is down, and not later once a manual start gave it a process and
left the timer behind. So a timer that finds its job down comes in time, one that finds
it RUNNING does nothing, and the one that finds it STOPPING is the exception that
`ThrottleKept` names. Without starts the job of a timer is always down, which is
`ThrottleWithoutStart`. A job being unloaded has no timer (`UnloadHasNoTimer`) and its
reap frees it, hence `UnloadIsFinal`. `Foreground`
says of `launchd -f -p`, which has no command socket, that no job is stopping or being
unloaded, that every process is that of a job in the table, and that the job of the
`-p` plist is there until launchd ends.

The boot invariant `BootInv` follows the scan over the sources, the `-p` plist being
the first: `Remains` (what is still to be read), `Origin` (every job comes from a
source up to the current one) and `Covered` (a label without a job is in none of the
plists already read). Where `calloc` has no address left, the jobs would be as many as
the addresses and so, by `LabelsUnique`, have all the labels: the pigeonhole lemma
`Room`. That is where the hypothesis on cardinalities is used; without it a boot that
runs out of memory does lose plists. `PidLeft` is the same for `BootStarts`: a boot
that has no pid for a job leaves it down. The instance of run `boot` satisfies both.

### 4.2 The command transport: `LaunchdIpcProofs`

| theorem | states |
|---|---|
| `Invariance` | `Spec => []IInv` |
| `TypeCorrect` | `TypeOK` |
| `ConnectionSafety` | `ConnectionsClosed` |
| `Refinement` | `ServiceKept`: the transport implements `CommandService` |

For any clients, requests, lengths, buffer and backlog, and for both kinds of accepted
socket. The invariant speaks of one client at a time: `ClientOK(c)` says where the two
ends of the connection of `c` can be at once (`Served`, `Connects`), how many units
were sent, are under way and were read (`Sends`, `Receives`), that a reply under way
and a status tell the truth about `effect` (`Truthful`), and that a refused client has
no effect to come (`Refused`). A step concerns one client or none; `Frame` keeps
`ClientOK` for the others. `Refinement` needs `Truthful`: exit status 0 is read from a
reply, which is sent only after the handler ran.

### 4.3 kmodloader: `KModProofs`

| theorem | states |
|---|---|
| `Invariance` | `Spec => []KInv` |
| `LoadsAll` | `AllLoaded` |
| `GpuComesFirst` | `GpuFirst` |

For any machine, that is for any output of the tools of any length. The proof has two
halves. The first is about `orderedSet`, a recursive function: that there is a function
with its values, that the result has the names of the sequence without blanks
(`OrderedMembers`), and that the names of a first part stay in front (`OrderedFirst`).
The induction over the sequence runs over a set of numbers instead of a predicate
(`SetInduction`, from the well-foundedness of `<`). The second half is `KInv`: the two
lists hold what the devices want as far as the tools were heard (`Lists`), kldstat never
lists more than is loaded, and while the plan is carried out all that is missing is in
the rest of it, a module that is no display driver behind all display drivers that are
missing (`Pending`).

### 4.4 The dynamic store: `StoreProofs`

| theorem | states |
|---|---|
| `Invariance` | `Spec => []IInv` |
| `TypeCorrect` | `TypeOK` |
| `CountsRight` | `WatcherCounts` |
| `IndexRight` | `PatternIndex` |
| `OwnersRight` | `SessionKeysTracked` |
| `EndIsFinal` | `ClosedForgotten` |
| `Refinement` | `KeepsPromise`: the server implements `StoreService` |

For any sessions and keys and any finite set of patterns. A request transforms the
store in several steps, between which the indexes disagree with the lists on purpose: a
removed key stays on the lists of its patterns until `Push`. `Sound(d)` is what holds of
a store `d` between any two of these steps (the pattern lists hold the keys that are
stored or whose removal is deferred, and the counts count them), `AtRest(d)` that
nothing is deferred. `IInv` is `Sound(db)`, `AtRest(db)` and the types. One lemma per
function of the server shows that it keeps `Sound` and what it does to the rest; each
request is a sequence of such lemmas that ends in `Push`. The refinement follows from
`PatternIndex` and `WatcherCounts`: the server tells a session of a key when its count
is not zero, the service when the session watches the key by name or pattern.

### 4.5 The clients: `StoreClientProofs`

| theorem | states |
|---|---|
| `ClientInvariance` | `CSpec => []CInv` |
| `ClientTypes` | `CTypeOK` |
| `PortSafety` | `PortHeld` |
| `WakeupSafety` | `NoLostWakeup` |
| `StoreSurvives` | the four invariants of the store, in the composition |

For any number of clients and of deaths of configd. `CInv` has the invariant of the
store, that a dead server has no session and nothing pending, and for each client
`Fit`: what the client believes of its session and what the server has of it. A client
that has a port has a source to be called through, is registered and is not being
restored, and the server holds the port, or a notice or a restoration is due; if the
server has changes for it, something is under way. `PortHeld` and `NoLostWakeup` are
parts of `Fit`; the rest of it is what they need where a request finds a new session
half way. The lemmas `OneStep`, `KeepStep`, `MissStep` and `AskStep` treat the other
clients, a request that reaches the server, and one that does not, once for all calls.

### 4.6 The preferences: `PreferencesProofs`

| theorem | states |
|---|---|
| `Invariance` | `Spec => []IInv` |
| `TypeCorrect` | `TypeOK` |
| `LockExcludes` | `MutualExclusion` |
| `AlwaysWhole` | `FileWhole` |
| `Refinement` | `NoLostUpdate`: the sessions implement `PreferencesService` |

For any sets of sessions, keys and inodes, any bound on commits and any failing calls.
`IInv` adds to the types `LockInv`: from where a session is in the code follow
whether it has the lock (`Stages`), an open lock file (`FilesOpen`), the kernel's lock on
that inode (`FlockHeld`), and that the inode is the one at the path (`PathHeld`).
Exclusion follows, because two holders have the same inode open and it has one lock;
it is not inductive without `PathHeld`, which is what `check` establishes and what only
a holder's own `unlink` may end. `CopyCurrent` (the copy of a holder has the signature
of the file) needs exclusion, since only a holder writes the file; it makes every
write a `Store` of the service. `TempWhole` says that a session about to rename finds
its own complete file, which again needs that nobody else writes it.

### 4.7 What is only model-checked

The liveness properties, which rest on fairness and ENABLED and are out of the prover's
reach: `ZombiesReaped`, `KeepAliveRespawns`, `UnloadCompletes`, `SingletonExits`,
`Answered`, `Ends`, `ChangesFetched`, `QueueTold` and `LockFreed`. The composition
`PreferencesMonitor` has one run, which reaches a violation, and no theorem.

## 5. What is not modelled, and the plan

In order of importance:

1. **More theorems**: that the composition with the plugin keeps the lock, the whole
   file and the service of the preferences.
2. **Socket path** (`ipc_server_init`, `ipc_server_close`): several daemons and
   the one canonical symlink.
3. **An abstract supervisor** (per label: absent, down, up, leaving) that
   `Launchd` without the overlapping commands refines.
4. **Clock**: sub-second truncation of `time(NULL)` and steps of the wall
   clock, against the throttle.
5. **List reply**: growth of the buffer, the row limit.
6. The parts left out of the components that are modelled in part: notification by
   file or signal in the client library, the helper and the move of the preferences
   file, the interfaces that PreferencesMonitor excludes.

Left out of the modelled functions, because it needs an environment the models do not
have:

* Preferences: a read-only file system (`EROFS` grants the lock without a file), one
  without `O_EXLOCK` (the lock goes through the dynamic store), a parent directory that
  has to be made first, and a `stat` that fails on the file that was just renamed (the
  session then keeps the older signature and is refused as stale at the next lock);
* PreferencesMonitor: the `rofs` branch, which keeps the copy after an apply, and
  `storeCallback`, which follows the network interfaces;
* the client library: Mach errors other than the death of configd, after which the
  session has no server although configd lives;
* the dynamic store: a registration by signal is the same `NotifyVia` as one by port or
  file and is in no instance.

Not planned: log output; plists and shell scripts of the boot image; liblaunch, which
nothing builds or uses; and the rest of the configd import. That rest is some 115
thousand lines, nine tenths of the C in the repository: network interfaces, services,
sets and connections, the plugins that watch macOS interfaces, and command line
tools. It is not compiled here, it mostly converts and formats dictionaries, and its
behaviour lives in frameworks that are not in the repository, so it would have to be
guessed rather than translated. The models therefore cover nearly all of the
repository's own programs and a small share of its lines.
