# kickit, specified

TLA+ specifications of the kickit init system: the init process with its services,
its power-off and its emergency shell; the log of a service; `/run/kickit` and the
listing that `ktctl` makes of it; the sandbox of a service; the machine's file
systems; and the sockets over which `ktctl` talks to the init. TLC checks small
instances; TLAPS proves, for all instances, every safety invariant and action
property that TLC finds to hold, and that the core implements an abstract life of its
services. Liveness is left to TLC.

Source paths below are relative to the repository's `src/` directory (the Rust
sources are in `src/src/`, the crate's own `src/` inside the checkout).

## 1. The system

| component | state it keeps | operations | talks to |
|---|---|---|---|
| init main (`init/kickit.rs`) | local list of services and handles; `STANDARD_SERVICES`, `TARGET`, `QUIET` set once | sanity checks, mounts, `/run/kickit`, sockets, one `up()` after the other, park | everything below |
| service lifecycle (`init/service/mod.rs`) | `Service.body`, `up`, pid, owners of process and logger | `try_source`, `up`, `up_inner`, `start_process`, `logger`, `supervisor`, `down`, `pid` | supervision, logs, cache, sandbox |
| supervision (`init/service/lifetime.rs`) | the `Child` it was given | `supervise`: wait for the death, judge it | `POWER_OFF_READY`, errors |
| service logs (`init/service/logger.rs`) | the log file, the pipe | `init`, `watch`, `log` | `INIT_STATE`, `MASTER_LOG`, ktctl through the file |
| service cache (`init/service/cache.rs`) | `/run/kickit/service/*/config` | `cache`, `write_as_data` | ktctl through the file |
| power-off (`init/power.rs`) | `POWER_OFF_READY` | `poweroff`, `force_poweroff` | services, mounts |
| emergency shell (`init/console.rs`, `state.rs`) | `INIT_STATE`, `MASTER_LOG` | `fatal`, `exit`, `kickToEmergencyShell`, `warn`, `status` | all tasks |
| error handling (`console.rs`) | none | `handle`, `or_warn`, `assess` | all tasks |
| init sockets (`socket.rs`, `init/socket.rs`) | the listeners | `open_sock`, the handlers of Core, Log and Power | ktctl, power-off, both mutexes |
| sandbox (`init/service/sandbox.rs`, `init/warden.rs`) | the container, its mounts | `setup`, `cli_args`; warden's `spawn_here` and `cleanup` | the service lifecycle |
| mounts (`init/mount.rs`) | tables read from `/etc/fstab`, `/proc/mounts`, `/dev/disk` | `parse`, `mount`, `unmount`, `resolve` | init main, power-off |
| ktctl (`ktctl/*.rs`) | none that lasts | requests, answers, `shutdown`, `state`, logs, service list | init sockets, `/run/kickit` |
| dynamic ownership (`helper_types.rs`) | who owns a value | `init`, `take`, `get` and the queries | service lifecycle |
| targets, command line (`init/target.rs`, `init/mod.rs`) | none | parsing | init main |
| macros, helpers | none | syntax, formatting | all |

How they interact. `main()` runs on the main thread; supervisors, log watchers,
socket listeners and connection handlers are tokio tasks on a fixed number of
worker threads, and several of them *block* their thread (`wait()`, `read_until`,
`park()`). They share statics: `INIT_STATE` and `MASTER_LOG` are mutexes,
`POWER_OFF_READY`, `STANDARD_SERVICES` and `TARGET` are set once. Processes are
reached through signals and pipes, ktctl through Unix sockets and the files below
`/run/kickit`, the kernel through mounts and `reboot(2)`.

What is hard about it:

* *Interleaving.* A service dies while `poweroff()` kills it; a power request comes
  while `main()` still starts services; several tasks fail at once; two power
  requests run side by side; the emergency takes `INIT_STATE` and then
  `MASTER_LOG` while a handler answers with the master log locked.
* *Partial failure.* Every system call can fail, in the middle of `up()`, of
  `poweroff()`, of warden's mounts, of `cleanup()`; some errors are assessed away
  (`optional`), some not.
* *Ordering.* Mounts hide each other; a parent is unmounted before its children;
  services are signalled, never waited for.
* *Peers that leave.* ktctl can be killed between any two steps of a request.
* *Files shared without a lock.* The init rewrites a log, and makes and removes
  caches and directories, while ktctl reads them and other instances start.
* *Crashes.* An instance beside another init can end at any point and leave its
  mark and its files behind.
* *Resources.* Blocking calls in async tasks use up the runtime's workers.

What makes each part correct is stated as the properties of the modules, listed in
section 3; the hazards they are for are in `PROJECT.json`, each at its line.

## 2. The modules

| module | models | state | actions |
|---|---|---|---|
| `Kickit` | init main, service lifecycle, supervision, power-off, emergency, opening of sockets | control state of every task (`pc`, `req`), the handle's fields, the processes, the once-locks, whether `MASTER_LOG` is gone | `MainStep` (one action per outcome of a step of `up()`), `ServiceTasks`, `WatchFails`, `SockFails`, `OpenShell`/`JoinEmergency`/`ShellMissing`, `Request`, `PowerStep`, `ForceOff`, `ChildExits`, `LogRelocked` |
| `KickitProofs` | theorems about `Kickit` | | |
| `ServiceLife` | what the init promises each service, abstractly | `turn`, `phase` and process of every service, whether the system is closing, reported deaths | `Start`, `Supervise`, `Leave`, `Die`, `Report`, `Announce`, `Tell` |
| `DynamicOwnership` | `DynamicOwnership` of `helper_types.rs`, one cell per value | the owner of each cell | `InitValue`, `Take` |
| `KickitLife` | `Kickit` as an implementation of both, by refinement mappings | | |
| `KickitLifeProofs` | theorems about `KickitLife` | | |
| `RunFs` | `sanity()`, `setupRunFs`, the files main makes for each service, the removal at power-off, for several instances; `ktctl service` reading them | instances, root, directories, cache files, sockets, processes behind pids, the listing | `Sanity`, `MakeRoot`, `MakeDir`, `Bind`, `UpInner`, `CreateCache`, `WriteCache`, `PowerOff`, `EmptyDir`, `RemoveDir`, `RemoveSocket`, `RemoveRoot`, `Exit`, `Crash`; `Gate`, `OpenDir`, `Import`, `PrintRow`, `Continue`; `ProcessEnds`, `Reap`, `Reuse` |
| `RunFsProofs` | theorems about `RunFs` | | |
| `ServiceLog` | the pipe of a service, `watch` and the reading of a RunOnce service, `log` with its file, ktctl reading it | the service, its pipe, the logging thread, the file's cells, the locks lost for good, the reader | `Say`, `Put`, `BrokenPipe`, `Exit`, `LeaveHelper`, `HelperExits`; `CreateLog`, `WriteNull`, `Spawn`, `Poll`, `LogEntry`, `Relay`, `Rewrite`, `Watch`, `Wait`, `Drain`, `Drained`; `Emergency`, `MasterLogKept`, `StateKept`; `OpenLog`, `ReadCell`, `CloseLog`, `Again` |
| `ServiceLogProofs` | theorems about `ServiceLog` | | |
| `Selection` | the elements of a sequence that lie in a set, in order: what the code's iterators filter and collect | | |
| `SelectionProofs` | lemmas about `Selection`, and induction in a form the provers can use | | |
| `MountTree` | the kernel's mount table: which mount a path reaches, which are busy, what a lazy unmount takes along | | |
| `Warden` | sandbox: container, warden, clean-up, and the signal of `down()` | profile, mounts in order, where warden is, the service | `SetUp` ... `Spawn`, `SpawnFails`, `Wait`, `UnmountNext`/`UnmountFails`/`UnmountBusy`, `Quit` |
| `WardenProofs` | theorems about `Warden` | | |
| `Mounts` | fstab parsing and mounting, `/proc/mounts` and the walk of `poweroff()` | mount table, lines and entries still to handle | `MountSystem`, `ReadFstab`, `MountEntry`, `ReadMounts`, `SkipEntry`/`UnmountEntry`/`UnmountLazily`, and their failures |
| `MountsProofs` | theorems about `Mounts` | | |
| `Sockets` | ktctl's requests, the three handlers with `relay!`, the two mutexes | clients, connections, handlers, who holds which mutex | `Connect` ... `Receive`, `Killed`; `Read` ... `Warn`; `ForcePowerOff`, `SetReady`, `PowerOff` and their failures; `Fatal`, `LockState`, `EnterEmergency` |
| `SocketsProofs` | theorems about `Sockets` | | |
| `MC*` | the instances TLC checks | | |

Correspondence with the code. Control is kept in full: an action is what a thread
does up to its next blocking call, await, or access to shared state, with every
early return an action of its own (`...Fails`, `...Refused`). Data is abstract: a
service's configuration is what `up()` branches on; a path is its sequence of
components; an answer on a socket is its first byte and a token for the rest. What a call of the kernel or of a library may return is a
nondeterministic choice, so each failing call is possible in each run.

`Kickit`: `pc[Main]` follows `main()` and, inside the loop, `up()` of the service
`cur` ("ready" is the sleep loop on `INIT_STATE`, "exec" `up_inner`, "establish"
what `start_process` does after the spawn, "once" the wait for a RunOnce service,
"cache", "handover" the calls of `logger()` and `supervisor()`). `body`, `up`,
`process`, `log` are the handle's fields; the owners are those of
`DynamicOwnership` ("This", "Foreign", "Nobody"). `req[r]` follows one connection
through `Power::handler` and `poweroff()`. A task that blocks its thread keeps a
worker (`Blocked`, `Sweeping`); the others need a free one to be polled. Every line for the master log,
be it of `main()`, of `poweroff()`, of an assessed error or of the emergency itself,
locks `MASTER_LOG`. That lock matters here for one thing, that it can be gone: a
handler of the Log socket that loses its peer locks it twice (the finding of
`sockets_relock`) and waits for itself on its worker. `LogRelocked` takes it so
(`logHeld`), at any time once the socket listens, and from then on no step that logs
can be taken (`CanLog`). A hold that ends is a delay, and left out.

`Warden` lists the mounts in the order of `spawn_here()` (`MountList`) and of
`cleanup()` (`UnmountList`). `Linker` is `DYNAMIC_LD`, written without a leading
slash in the code: mounted relative to the container, but unmounted relative to
the working directory, which `chroot()` leaves outside. A path is a sequence of
members of the constant `Name`; `Warden` and `Mounts` assume of it only that the
names the code itself writes are among them (`NameAssumption`).

`Warden` takes the namespaces as the profile has them: `flags` is any set of the
constant `Namespaces`, the empty one included, and `Unshare` unshares those and no
others.

`Mounts` adds up mount flags as the code does (`FlagsOf`), with the kernel's bits, and
asks of the sum what `mount(2)` does with it (`NewMount`): a remount and a change of
the propagation mount nothing. Two `bind` make the bit of a move, which fails for a
source that is no mount point (`Moves`); moving one that is is left out.

`Sockets` has one connection per run of ktctl at a time; `Asked` is the byte of the
current request, `hpc` the handler's place between `readable()` and its return.
`masterLog` and `stateLock` name a holder only where a guard is held over several
steps; a lock taken and released inside one step is a guard of that step
(`LogMessage`).
`poweroff()` is a single step with an outcome there, as `Kickit` has its steps.

`ServiceLife` knows nothing of tasks, locks or requests: services take turns, each
waits, is started, and is either supervised or left; its process is alive, told to
end, has obeyed or has exited by itself; once the system is closing, the supervised
are told in order, and a death is reported only before that. `KickitLife` maps
`Kickit` to it: a service is supervised when its handle is handed over, `turn` is
`cur`, "told" is a process with a pending SIGQUIT, and a report is a supervisor on
its way to the emergency. `DynamicOwnership` is instantiated twice, for the
`process` and the `log` field of every service.

`RunFs` composes what several components do with one directory: each instance
follows `main()` from `sanity()` on; the sockets are bound one by one, each at any
time after the directories are made (a bind that fails is an emergency, after which
main makes no further step, as it need not at any other point); `up_inner` is one step
with any of its outcomes, after which the handle holds what `RootService::cache` writes. Bytes are
kept where the code converts: `AsData` and `Instance` work on the 11 bytes of a
cache file. The listing is one ktctl that runs again and again. Processes end, are
reaped, and leave their pid to others.

`ServiceLog` counts a line as one write; a compressed frame is a run of cells, each
knowing which text it belongs to, its place and the frame's length, written and read
one by one. Whether a reader can decode what it read is then a question about cells.
Entries are bytes, so that the mark `0x8f` and UTF-8 can be told apart. What the rest
of the init can do to the logging thread is there in its three forms: the watcher may
never be polled (it is "queued" until `Poll`), `MASTER_LOG` may be gone
(`MasterLogKept`), which stops the relay of a shouted line, and so may `INIT_STATE`
(`StateKept`), which a task that then fails takes before it waits for the log.

## 3. What the runs check

Each property has a mutant in `PROJECT.json`: a change of one definition, such as a
bug would make, under which TLC finds the property violated.

| run | instance | properties |
|---|---|---|
| `kickit_safety` | two services of four kinds in any order, two power requests, one listener, five workers | `TypeOK`, `EmergencyShellOnce`, `KilledNotFatal`, `SingleSweep`, `SweepReachesAll`, `SupervisedIsWhole`, `PublishedIsComplete`, `RefusedOnlyIfHalfUp` |
| `kickit_live` | one service of four kinds, two requests, the power and the log socket, six workers | `DeathNoticed`, `PowerRequestSettles` |
| `kickit_life` | two services of different ones of four kinds, in any order, optional or not, with and without a logger; one request, five workers | `ImplementsLife` (the refinement), `OwnershipKept`, `OwnedWhenUsed`, `FatalHandOverCause`, `StartupSettles` |
| `runfs` | two instances, two sockets, one service of four kinds, one pid | `TypeOK`, `MarkedByOwner`, `ContentIsOwners`, `ListingIsWhole`, `RowsTrue` |
| `servicelog` | both patterns, up to two of four lines, frames of one or two cells, each of the two locks lost or not | `LogIsWhatWasSaid`, `ReaderWhole`, `AtMostOneLine`, `AllLogged`, `RunOnceSettles` |
| `warden` | ten import lists, all options, no, one or two namespaces | `TypeOK`, `ServiceIsContained`, `ImportsReachable`, `CleanupLeavesLinker` |
| `mounts` | thirteen fstabs, up to three mounts by services at six places, init or not | `TypeOK`, `RootMountedOnce`, `SweepDetaches`, `SpecialStay`, `ForeignMountsStay` |
| `sockets` | two clients, the pairs of operations that contend for both mutexes and those that both ask for power, init or not, a fatal error | `TypeOK`, `RebootOnlyAsInit`, `EveryQuestionAnswered`, `HandlersReturn`, `EmergencyEntered`, `ClientsSettle` |

Some of these say exactly how far what one expects of the code, or reads of it in the
repository, holds:

* `RefusedOnlyIfHalfUp`: the only service that `down()` refuses is an optional one
  that came up halfway. It does refuse that one, and `?` then ends the request for good,
  although the code's own comment wants power-off requests accepted "without error"
  after errors during startup (`init/power.rs:78`).
* `SingleSweep`: one request at most ever gets past `POWER_OFF_READY`. That is more than
  that no two sweep at once: after a sweep that failed or was refused there is never
  another, as the code keeps it.
* `DeathNoticed` and `PowerRequestSettles` hold until `MASTER_LOG` is gone, for whatever
  logs then waits for ever; and a death is noticed by a supervisor that is watching.
  That one gets to watch at all is what `kickit_workers` is about.
* `PowerRequestSettles`: a request ends, with the machine off or with an error. It does
  not say that the power-off succeeds: a mount table that cannot be read is enough for
  it to fail, and then `SingleSweep` says that it stays so.
* `StartupSettles`: main comes to rest for good in one of four places and nowhere else
  (`MainRests`): at its end, in an emergency of its own, before a service while another
  task is in emergency (a parked start-up never goes on, as nothing resets
  `INIT_STATE`), and at a RunOnce service that still runs. The last is what the code
  comes to, not what is said of it: RunOnce services are waited for "with a timeout"
  (`init/service/mod.rs:210`), but `wait()` blocks inside the timed future, whose timer
  is never looked at, so the model has no step for it.
* `FatalHandOverCause`: the hand-over of a service whose logger or process is
  missing is fatal, for an optional service as well, although its errors are not the
  init's (`init/service/mod.rs:87`).
* `ClientsSettle`: a run of ktctl ends or parks; it also parks when its power request
  failed or never arrived, although it is to block until the shutdown
  (`ktctl/ktctl.rs:269`).
* `RunOnceSettles`: start-up gets past every RunOnce service except one that blocks
  on a full pipe, which is read only after its end, and one that left behind a
  process with the pipe open, or one whose shouted line waits for a lock that is gone.
* `AllLogged`: a line is logged unless it or one before it was no UTF-8, which ends the
  watcher, or the logging thread is stuck for good (`Stuck`): never polled, for want of a
  worker, or before one of the init's two locks that is gone.
* `LogIsWhatWasSaid` speaks of the log and its writer. `ReaderWhole` speaks of readings
  that no rewrite overlapped; one that a rewrite overlapped can come out as anything.
* `ServiceIsContained`: the service runs with all its mounts, below its root and in the
  namespaces its profile has flags for. A profile without flags leaves it in the host's.
* `ContentIsOwners`: `/run/kickit` goes only when nothing is left below it. What lies
  there is the marked instance's, with one exception: an instance that has removed its
  root and not exited yet can still put files and sockets into the next one's.
* `RowsTrue`: a row that ktctl prints can say "Up" for a pid that another process has
  taken over since, and "Unknown" or a wrong letter for a program with a space in its
  name; "Sandboxed" is never shown for a service that was started.
* `ImportsReachable` and `CleanupLeavesLinker` are about profiles whose mounts are
  `Separate`: a later import at or above an earlier one hides it, and one below an
  earlier one makes that busy when `cleanup()` comes to it, which ends the clean-up.
  The one exception is `/run/dbus`, mounted last on `/run` and unmounted first.
* `RootMountedOnce`: an entry of fstab for the root remounts it unless a flag is given
  twice, `remount` included, which the code adds by itself: the flags are added up, and
  a repeated one carries into the next bit. A service may mount a root of its own.
* `SweepDetaches`: the sweep of `poweroff()` leaves nothing but the root and the special
  file systems if no mount lay hidden (`NoneHidden`); a hidden one has no path to unmount
  it by. `SpecialStay` also needs that no other mount carries a special one
  (`SpecialFree`): a lazy unmount of `/sys/fs` takes `/sys/fs/cgroup` along.
* `MarkedByOwner`: a crashed instance leaves the mark, and no other instance starts
  until it is removed by hand; the loser of a race for it ends in the emergency shell
  rather than with "already running".

The other runs each show a statement of the repository that the code does not keep:

| run | statement | what happens |
|---|---|---|
| `kickit_workers` | a process is constantly monitored (`init/service/mod.rs:170`) | blocking tasks take all workers, later supervisors are never polled |
| `warden_kill` | `down()` kills a service (`init/service/mod.rs:561`) | it kills warden; the service runs on |
| `mounts_uuid` | a UUID is displayed, and looked up, in its usual form (`init/mount.rs:495`) | a dash too many: the entry is never found |
| `sockets_relock` | handlers are errorless (`socket.rs:123`) | a peer that leaves makes the Log handler lock `MASTER_LOG` twice |

Bounds, and why they are enough:

* Two services are the least with a "before" and an "after": an optional one that
  fails before one that must be reached, a walk over the handles that has passed
  one and not the other. Two requests are the least that race. The theorems hold
  for all numbers. Requests are interchangeable and symmetric in the safety run.
* `kickit_life` has two services, for a second one after each outcome of the first,
  and one request, which ends services, lets supervisors retire or ends the machine.
  The services are of different kinds (`MixedSpec`): what two services do to each other
  goes by being optional or not and by having a logger. The theorems have the pairs of
  the same kind too; of `StartupSettles` there is none.
* Six workers are enough for the tasks of `kickit_live` never to starve for good, which
  is not its question, with one lost to the log; five for the
  runs without the log socket. `kickit_workers` has two for two services.
* The import lists of `MCWarden` hold each relation two imports can have: apart,
  one on the other, one hidden by the other, below a system mount, at one of warden's
  own, twice, relative, missing. The fstabs of `MCMounts` hold each outcome of `parse`,
  each lookup, the root with and without `remount`, nested entries, a special file
  system and one that carries a special one, a bind, a change of propagation, and a
  `bind` given twice, which is read as a move; `MaxOthers = 3` allows a mount, one on
  it, and one over it.
* Two clients are the least that contend for a mutex, and three takers are there
  with the emergency. Every kind of request occurs but the target's, which is
  answered like the version's.
* `warden` needs two namespaces for a profile that asks for one and not the other.
* `runfs` has the two instances a race needs; the instances are interchangeable, and
  the run uses that symmetry. It has the two sockets that the code asks by name, so
  that one can be bound and the other not. One service is enough for every step on the directory to race
  with every other, and one pid for a process to be taken over by another; the
  configurations are a required service, an optional one in a sandbox whose program's
  name has a space, an optional one without a logger, and a RunOnce one. That a
  listing is whole with several services is proved (section 4).
* `servicelog`: with room for one line in the pipe (`Capacity`), a second line
  (`MaxLines`) blocks its writer; two cells (`MaxCells`) are a frame that can be
  half written, and frames of two lengths let a shorter one lie over a longer. The
  lines are an empty one, a character, one whose second byte is the init's mark, and
  one that is no UTF-8.
* `CHECK_DEADLOCK FALSE` is set where the system really stops: the machine is off,
  every task is parked, warden has ended, the sweep is through, the clients are
  finished, all instances have ended, the log is read.

Fairness. `Kickit!Fairness` and `Sockets!Fairness` are weak fairness of the
program's own steps: the OS scheduler runs a runnable thread, tokio polls a queued
task when a worker is free, and a mutex or worker that stays free is acquired.
Nothing is assumed of what the program does not control: that a service exits, a
call fails, a client is killed, an operator leaves the shell. `ChildExits` is not
fair, so `DeathNoticed` starts from a death, and `StartupSettles` leaves out a RunOnce
service that does not end: the five-second timeout around it never fires, because
`wait()` blocks inside the timed future. A step that logs is enabled only while
`MASTER_LOG` can be had (`CanLog`), so once a handler has kept it (`LogRelocked`)
fairness promises nothing of that step, and the liveness properties of the core end in
`logHeld` as one of their outcomes. A mutex is requested finitely often in `Sockets`, so none of its takers needs more
than weak fairness to get it. `ServiceLog` assumes that the logging thread runs
(`Log`), that a write with room in the pipe goes on (`Put`), and that the service's
own program ends when it is not blocked (`Exit`); the last is an assumption about
services, without which no wait for a RunOnce service could end. That a watcher gets
a worker (`Poll`), that a lock once kept is given back, the end of a process left
behind, and an emergency, are not assumed.

## 4. What is proved

All theorems hold for every value of the constants under the modules' assumptions.
Every safety invariant and every action property of the passing runs is one of them.
An invariant that is not inductive is strengthened, and the strengthening is proved to
hold initially and to be kept by every action, with a lemma per group of actions.

### The core

`KickitProofs` proves, for every number of services and every target, every set of
sockets and of requests and every number of workers, the eight
properties of `kickit_safety` as theorems of `Kickit!Spec`. The assumptions are those
of the module: `NumServices` and `Workers` are natural numbers, targets consist of
configurations, and one of the sockets is the power socket.

None of the properties is inductive alone. The invariant

    IInv == TypeInv /\ StartInv /\ MainInv /\ TaskInv /\ PowerInv /\ KillInv

joins to the types:

* `StartInv`: what `main()` has done with every service before `cur`; the handles
  are in increasing order and below `cur`, and a service is handed over exactly
  when its process is "Foreign". Needed for `PublishedIsComplete`,
  `SupervisedIsWhole` and for the ownership guard of `down()`.
* `MainInv`: what is known of the service in hand at each place of `up()`; without
  it the steps of `HandOver` do not preserve `StartInv`. It also says that once
  `STANDARD_SERVICES` is set, `main()` makes no more steps, which freezes the list
  that a sweep walks over.
* `TaskInv`: which tasks exist, and that a task has the shell exactly when
  `INIT_STATE` says Emergency.
* `PowerInv`: a request past `POWER_OFF_READY`, also one that then waits for
  `MASTER_LOG`, implies that it is set, there is one at most (`SingleSweep`), a request that saw
  the services saw them all, and every handle it has passed was signalled or dead
  (`SweepReachesAll`, `RefusedOnlyIfHalfUp`).
* `KillInv`: a signalled child implies `POWER_OFF_READY`, and a supervisor that is
  past its wait has a dead child; together they give `KilledNotFatal`.

Each part has a lemma per group of actions; `Invariance` combines them.

`KickitLifeProofs` uses `IInv`, joined to what is known of the services that
`main()` has not come to (`LifeInvariance`), to prove the properties of
`KickitLife`: `LifeRefined` (`Spec => Life!Spec`: the initial states are those of
`ServiceLife`, and each action of `Kickit` is a step of one service's promised life or
leaves it alone), `OwnershipIsKept` (the same for `DynamicOwnership`, twice) and
`FieldsAreReady` (`OwnedWhenUsed`). The hard cases are the two where one step of the
code is seen twice: a sweep's signal, which is `Tell` only because the handles before
it were passed in order, and a death that races with it, which is `Die` of a process
that was told or was not. `HandOverFailsForCause` (`FatalHandOverCause`) needs the
history that a failed hand-over has: `CauseInv` says what `up()` has made of a service
that gets a cache file (`Tried`), and that only the service in hand, or one before it,
has one.

### The sockets

`SocketsProofs`, for any set of clients with any operations. `SockInv` says of each
client's connection what its handler has written at each of its control states, that
it holds `MASTER_LOG` only while it answers with the log, that the stream is closed
exactly when the handler is gone, and that a handler about to warn has either lost
its peer or was asked about power. `RebootIsTheInits` (`RebootOnlyAsInit`) and
`PeersAreTold` (`EveryQuestionAnswered`) follow. `SocketsTypes` (`TypeOK`) adds `Rest`:
a client is at a request that its operation has, because it goes to the next one only
when there is one (`FinishInProgram`), and the emergency is at most at one of its steps.

### The run directory

`RunFsProofs`, for any number of instances, services and pids, has three invariants,
each on top of the one before:

* `RunFsInv` adds to `MarkedByOwner` and `ContentIsOwners` that an instance before its
  first service has bound nothing and is not powering off, that one that has removed
  the mark does not have it, and that cache files lie in directories. `RootMarksOne`
  and `FilesAreOwners` follow.
* `ListInv`: as long as the marked instance is not asked to power off, its directories
  and the files it has written stay, whatever other instances do (`Unharmed`), and a
  listing that it answered for finds the sockets still bound (`Gated`).
  `ListingsAreWhole` (`ListingIsWhole`) follows. `DataIsWhole` shows that what
  `Cache::as_data` writes has the 11 bytes and the two first bytes a reader asks for.
* `RowInv == HandleTypes /\ Written /\ Read`: a cache file has nothing in it yet, or
  the bytes of what its instance knows of the service (`Written`), and what ktctl has
  imported is those bytes read (`Read`), although the instance goes on: it is past
  the service, whose handle it does not touch again (`Past`, `PastStays`).
  `RunFsTypesHold` (`TypeOK`) and `RowsSayWhatIsKnown` (`RowsTrue`) follow. Between
  writing and reading lie the bytes: `DataBytes` gives each byte of a file its value,
  `FromLeOfLe` shows that the four bytes of a number are read as that number, and
  `DataIsRead` that an instance is read as it was written, signs, widths and padding
  included. That holds for a pid of at most `PidMax`, the range of a `pid_t`, which
  is what a pid is before `Child::id` makes it unsigned.

### The log

`ServiceLogProofs`, for any lines, any room in the pipe and frames of any size. `RelayInv`
ties the relay to the state check before it; `OneLineIntrudes` (`AtMostOneLine`) follows.
The rest is

    LogInv == Control /\ Writers /\ Frames /\ Contents /\ Reader

* `Control`: what the entry in hand can be at each place of the logging thread.
* `Writers`: who can still write to the pipe; nobody, once a RunOnce service is logged
  as finished.
* `Frames`: the file is a whole frame, or the first cells of the one being written over
  what was there.
* `Contents`: what the frame says, the line in hand and the pipe are together what the
  service said, and the init's own entries are there once.
* `Reader`: what ktctl has read of a file that was not rewritten meanwhile is the
  beginning of the file.

`LogIsTheService` (`LogIsWhatWasSaid`) and `LogsAreReadWhole` (`ReaderWhole`) follow, the
second with lemmas that printing tells the init's entries from a service's for any
bytes: the mark `0x8f` begins no UTF-8.

### The sandbox

`WardenProofs`, for any import lists over any names:

* `Contained`: what is mounted and what is left to mount are together the profile's
  list; the service is started only when nothing is left, and what it was given does
  not change while it runs. `Containment` (`ServiceIsContained`) follows, and
  `Reachability` (`ImportsReachable`) from it. `Bounded` says that nothing else is ever
  mounted or unmounted, which makes `WardenTypes` (`TypeOK`).
* `Cleaning`: during the clean-up of a tidy profile, what is left of `UnmountList` is
  what is still mounted, each once, and nothing lies on anything but the bus on `/run`,
  as long as the bus is there (`LeftMounted`). It starts to hold because the two lists
  have the same mounts in two orders (`MountAt`, `UnmountAt`, `Reordered`), and leads
  to the linker as the one mount left: `CleanupIsComplete` (`CleanupLeavesLinker`).

### The mounts

`MountsProofs`, for any contents of fstab, any devices, and whatever services mount:

* `Typed` (`MountsTypes`): what is left of a walk is the end of the list it was over.
* `Sweeping`: every mount is one of the table that was read and none is hidden that was
  not then; what is neither special nor the root is still to come in the walk; and the
  walk has kept what it skips, in order. Its core is that unmounting one mount, or
  detaching it with all that is on it, leaves a part of the table in its order
  (`RemovedPart`, `DetachedPart`). `SweepIsComplete` (`SweepDetaches`),
  `SpecialStayMounted` (`SpecialStay`) and `ForeignStayMounted` (`ForeignMountsStay`)
  follow; the last two from lemmas on what a lazy unmount cannot take along.
* `RootKept` (`RootStaysAlone`, for `RootMountedOnce`): no mount but the first is the
  root. An entry for the root is remounted because the sum of flags given once is the
  set of their bits, of which `remount` is one (`SumIsBits`, by induction over the
  options).

### Selections

The lists of `Warden`, `Mounts` and `ServiceLog` are filtered by `Only` of `Selection`, a
`SelectSeq` that takes a set for its test and is written as a recursive function, so
that something can be proved of it. The library's induction theorems take a predicate,
which none of the provers can instantiate. `SelectionProofs` has induction over the
natural numbers for a set instead (`SetInduction`: the complement would have a least
element, as the numbers are well-founded), and from it `SequenceInduction`; with these
it shows that the recursion has a solution and what `Only` selects (`OnlyRange`), in
which order (`OnlyOrder`), and how it goes with appending, joining and removing.

### Only model-checked

Liveness, which is out of the prover's reach: `DeathNoticed`, `PowerRequestSettles` and
`StartupSettles` of the core, `AllLogged` and `RunOnceSettles` of the log,
`HandlersReturn`, `EmergencyEntered` and `ClientsSettle` of the sockets. And the four
statements that TLC refutes.

## 5. What is not modelled

* Parsing of services, targets, sandbox profiles, mount options and the command
  line, and all formatting: functions from text to the values the modules start
  from.
* The length of the master log: an answer longer than the socket's buffer is cut off
  and taken for whole by both ends.
* The clock: `ServiceLog` has it between the years 2001 and 2286, when its
  milliseconds have 13 digits. ktctl takes 13 bytes off every entry as its timestamp
  (`ktctl/service.rs:257`), so entries logged on a machine whose clock starts at 1970
  are cut in the wrong place. Also of the log: a line written in parts, a write error
  inside the compression (a panic in the code), and that the output of a RunOnce
  service that failed is dropped without being read, which is the early return
  modelled by `Wait`.
* The debug dump: with `--debug-dump` a release build neither makes `/run/kickit` nor
  the link to the dump (`init/kickit.rs:72`), and everything after that fails.
* The profiler, and ktctl's output as text.
* The wait for services to end, which the code does not do either: `poweroff()`
  signals them and goes on to unmount.
* Reuse of process ids in `Kickit` (`RunFs` has it, for what ktctl prints): `down()`
  signals the pid stored at the spawn. A service is one process there, its
  descendants are not followed; `ServiceLog` has one of them, for the pipe.
* Two ktctl at the same files: they only read.
* A `MASTER_LOG` that is held for a while and given back is a delay; `logHeld` and
  `held` are only the hold that never ends, by the one handler that locks it twice.
  `Kickit` puts the message of `kickToEmergencyShell` and its state change into one
  step, so what only needs `INIT_STATE` can still go on there while a failing task
  waits for the log with that lock in hand; `ServiceLog` has the two locks apart
  (`StateKept`). That `Logger::log` needs `MASTER_LOG` for a shouted line is in
  `ServiceLog` alone.
* Moving a mount: a `bind` given twice is summed to the kernel's flag for a move, and
  the model takes it that the entry's source is no mount point, so that it fails.
* Three things the properties step round, each with a hazard that says so: an option
  given twice (`SumKeepsRemount` takes flags given once), imports that cover each
  other (`Separate`), and a log read while it is rewritten (`fresh`).
* Mounts made while `poweroff()` walks its table: the table is read once, and what
  is mounted after that is not in it.
* Whether the user of ktctl is root; the clients of `Sockets` are.

## 6. Plan

Done: `Kickit`, `ServiceLife`, `DynamicOwnership` and `KickitLife`, `Sockets`, `RunFs`,
`ServiceLog`, `MountTree`, `Warden` and `Mounts`, and the proofs of their safety
properties. Two properties of the mounts turned out to say too much when their proofs
were planned, and TLC confirmed it on instances that the bounds had left out: what
lies on what had to be said more exactly for the imports (`Separate`) and for
`SpecialStay` (`SpecialFree`). These instances are among the bounds now.

What is left, in this order:

1. Mount options and devices by label, and the parsing of profiles and services, as
   operators checked against a reference definition over bounded inputs.
2. Reuse of process ids in `Kickit`, between a service's death and its `down()`.
