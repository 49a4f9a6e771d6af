------------------------------- MODULE Kickit -------------------------------
(***************************************************************************)
(* The init process of kickit from the moment its services have been       *)
(* parsed: main() brings them up one after the other, two tokio tasks per  *)
(* Standard service supervise its process and relay its output, the power  *)
(* socket shuts everything down, and any fatal error of any task opens the *)
(* emergency shell.                                                        *)
(*                                                                         *)
(*   main task      src/init/kickit.rs, Service::up and start_process      *)
(*   supervisors    Root::supervise (service/lifetime.rs)                  *)
(*   log watchers   Logger::watch (service/logger.rs), control flow only   *)
(*   sockets        Open::open_sock (init/socket.rs)                       *)
(*   requests       Power::handler and poweroff (init/power.rs)            *)
(*   emergency      Error::exit, kickToEmergencyShell (init/console.rs)    *)
(*                                                                         *)
(*   master log     MASTER_LOG, as far as it can be gone for good          *)
(*                                                                         *)
(* The children, the outcome of every system call, the clients and the     *)
(* operator at the emergency shell are the environment.                    *)
(***************************************************************************)
EXTENDS Integers, Sequences, FiniteSets

CONSTANTS NumServices,  \* length of target.services
          Configs,      \* the ServiceConfigs a target may hold
          Sockets,      \* names of the sockets main opens
          Requests,     \* connections to the power socket
          Workers       \* worker threads of the tokio runtime

Svc == 1..NumServices

\* What the control flow asks of a ServiceConfig; "exports" stands for a
\* sandbox profile with paths to mirror out of the container.
Config == [pattern : {"Standard", "RunOnce", "Forking"},
           optional : BOOLEAN, logger : BOOLEAN, exports : BOOLEAN]

ASSUME CountAssumption == NumServices \in Nat /\ Workers \in Nat
ASSUME ConfigAssumption == Configs \subseteq Config
ASSUME SocketAssumption == "Power" \in Sockets

VARIABLES
  cfg,            \* [Svc -> Configs], fixed by the target file
  cur,            \* the service main() is bringing up
  pc,             \* control state of every task
  body,           \* Service.body, by its variant
  up,             \* the Standard body's `up` flag
  process, log,   \* owners of the Standard body's DynamicOwnership fields
  child,          \* the service's process, as the kernel sees it
  cached,         \* services whose cache file has been written
  outServices,    \* main's local out_services, moved into STANDARD_SERVICES
  published,      \* STANDARD_SERVICES has been set
  initState,      \* INIT_STATE
  powerOffReady,  \* POWER_OFF_READY has been set
  req,            \* control state of every power request
  pos,            \* position of a request in its walk over the services
  seen,           \* the request found STANDARD_SERVICES set
  machine,        \* the init process itself
  logHeld         \* MASTER_LOG is held by a handler that waits for it itself

startVars == <<cur, body, up, process, log, cached, outServices, published>>
powerVars == <<powerOffReady, req, pos, seen>>
coreVars == <<cfg, startVars, pc, child, initState, powerVars, machine>>
vars == <<coreVars, logHeld>>

(***************************************************************************)
(* Tasks.  main() runs on the main thread (block_on); the others need a    *)
(* worker, and a task that blocks its thread keeps the worker.             *)
(***************************************************************************)
Main     == <<"main", 0>>
Sup(s)   == <<"sup", s>>
Watch(s) == <<"watch", s>>
Sock(k)  == <<"sock", k>>
Tasks == {Main} \cup {Sup(s) : s \in Svc} \cup {Watch(s) : s \in Svc}
                \cup {Sock(k) : k \in Sockets}

\* Where a task that called fatal() can be: about to lock INIT_STATE, running
\* the shell (or hung after it, which nothing can tell apart), panicked for want
\* of one, or parked because another task was in emergency already.
EmergencyPcs == {"fatal", "shell", "noshell", "parked"}
TaskPcs == EmergencyPcs \cup
  {"none", "queued",                                     \* any spawned task
   "setup", "ready", "exec", "establish", "once", "cache", "handover",
   "publish", "done",                                    \* main
   "waiting", "woken", "retired", "warned",              \* supervisors
   "watching", "listening"}                              \* watchers, sockets

\* A power request: accepted, past POWER_OFF_READY, walking the services,
\* unmounting, about to call reboot; ended by an error once it was past
\* POWER_OFF_READY, by down() refusing, or denied with nothing of it done.
ReqPcs == {"none", "requested", "ready", "sweep", "unmount", "reboot",
           "failed", "refused", "denied"}

\* A blocking task gives its worker up only by returning or panicking; a socket
\* task waits in accept().await without holding one.
Blocked == {t \in Tasks \ {Main} :
              pc[t] \notin {"none", "queued", "listening", "warned", "noshell"}}
Sweeping == {r \in Requests : req[r] \in {"ready", "sweep", "unmount", "reboot"}}
FreeWorker ==
  Cardinality(Blocked) + Cardinality(Sweeping) + (IF logHeld THEN 1 ELSE 0) < Workers

\* A line for the master log (status!, warn!, a fatal error's message) waits for
\* MASTER_LOG.  A step whose code writes one is guarded by this; where the code
\* does part of the step before it waits, nobody else can tell the difference.
CanLog == ~logHeld

\* The task that opened the emergency shell, or failed to.
ShellTasks == {t \in Tasks : pc[t] \in {"shell", "noshell"}}

----------------------------------------------------------------------------
Init ==
  /\ cfg \in [Svc -> Configs]
  /\ cur = 1
  /\ pc = [t \in Tasks |-> IF t = Main THEN "setup" ELSE "none"]
  /\ body = [s \in Svc |-> "PreExecution"]
  /\ up = [s \in Svc |-> FALSE]
  /\ process = [s \in Svc |-> "Nobody"]
  /\ log = [s \in Svc |-> "Nobody"]
  /\ child = [s \in Svc |-> "none"]
  /\ cached = {}
  /\ outServices = << >>
  /\ published = FALSE
  /\ initState = "Okay"
  /\ powerOffReady = FALSE
  /\ req = [r \in Requests |-> "none"]
  /\ pos = [r \in Requests |-> 1]
  /\ seen = [r \in Requests |-> FALSE]
  /\ machine = "on"
  /\ logHeld = FALSE

----------------------------------------------------------------------------
(* main(): mounts, work directory, sockets, then one service at a time.    *)

Goto(t, l) == pc' = [pc EXCEPT ![t] = l]

\* Where the loop stands before service i.
LoopAt(i) == IF i \in Svc THEN "ready" ELSE "publish"

\* setupRunFs and the mounts succeeded: the socket tasks are spawned.
SetUp ==
  /\ pc[Main] = "setup"
  /\ pc' = [t \in Tasks |-> IF t = Main THEN LoopAt(1)
                            ELSE IF t \in {Sock(k) : k \in Sockets} THEN "queued"
                            ELSE pc[t]]
  /\ UNCHANGED <<startVars, child, initState, powerVars, machine>>

SetUpFails ==
  /\ pc[Main] = "setup"
  /\ Goto(Main, "fatal")
  /\ UNCHANGED <<startVars, child, initState, powerVars, machine>>

IsUp(s) == up[s] \/ body[s] # "PreExecution"

\* Mutant: the already-up guard is inverted.
CheckReadyInverted ==
  /\ pc[Main] = "ready"
  /\ initState = "Okay"
  /\ IsUp(cur)
  /\ Goto(Main, "exec")
  /\ UNCHANGED <<startVars, child, initState, powerVars, machine>>

\* main announces the service and leaves the sleep loop of up(): INIT_STATE is
\* read once, and not again.
CheckReady ==
  /\ pc[Main] = "ready"
  /\ CanLog
  /\ initState = "Okay"
  /\ ~IsUp(cur)
  /\ Goto(Main, "exec")
  /\ UNCHANGED <<startVars, child, initState, powerVars, machine>>

\* Mutant: every service is treated as optional.
AssessAll(s) == "cache"

\* `.assess(self.cfg.optional)?`: where main goes on after an error of up_inner.
\* An optional service's error is logged first.
Assess(s) == IF cfg[s].optional THEN "cache" ELSE "fatal"
CanAssess(s) == cfg[s].optional => CanLog

\* default_from of a Forking service is a todo!(), which ends the process.
ForkingPanics ==
  /\ pc[Main] = "exec"
  /\ cfg[cur].pattern = "Forking"
  /\ machine' = "panicked"
  /\ UNCHANGED <<startVars, pc, child, initState, powerVars>>

\* Logger::init or the run directory fails before the placeholder body goes.
PrepareFails ==
  /\ pc[Main] = "exec"
  /\ cfg[cur].pattern # "Forking"
  /\ CanAssess(cur)
  /\ Goto(Main, Assess(cur))
  /\ UNCHANGED <<startVars, child, initState, powerVars, machine>>

\* Mutant: the logger is not put into the new body.
DefaultBodyNoLog ==
  /\ body' = [body EXCEPT ![cur] = cfg[cur].pattern]
  /\ log' = log

\* The body up_inner assigns: an initialised logger is owned by the service.
DefaultBody ==
  /\ body' = [body EXCEPT ![cur] = cfg[cur].pattern]
  /\ log' = [log EXCEPT ![cur] =
       IF cfg[cur].logger /\ cfg[cur].pattern = "Standard" THEN "This" ELSE @]

\* The pipe, the sandbox's container or the spawn itself fails.
SpawnFails ==
  /\ pc[Main] = "exec"
  /\ cfg[cur].pattern # "Forking"
  /\ DefaultBody
  /\ CanAssess(cur)
  /\ Goto(Main, Assess(cur))
  /\ UNCHANGED <<cur, up, process, cached, outServices, published,
                 child, initState, powerVars, machine>>

Spawn ==
  /\ pc[Main] = "exec"
  /\ cfg[cur].pattern # "Forking"
  /\ DefaultBody
  /\ child' = [child EXCEPT ![cur] = "running"]
  /\ Goto(Main, IF cfg[cur].pattern = "Standard" THEN "establish" ELSE "once")
  /\ UNCHANGED <<cur, up, process, cached, outServices, published,
                 initState, powerVars, machine>>

\* pid, process, the first log entry and the exports are in place.
Establish ==
  /\ pc[Main] = "establish"
  /\ process' = [process EXCEPT ![cur] = "This"]
  /\ up' = [up EXCEPT ![cur] = TRUE]
  /\ Goto(Main, "cache")
  /\ UNCHANGED <<cur, body, log, cached, outServices, published,
                 child, initState, powerVars, machine>>

\* The first log entry or an export fails: the process runs, `up` stays false.
EstablishFails ==
  /\ pc[Main] = "establish"
  /\ cfg[cur].logger \/ cfg[cur].exports
  /\ CanAssess(cur)
  /\ process' = [process EXCEPT ![cur] = "This"]
  /\ Goto(Main, Assess(cur))
  /\ UNCHANGED <<cur, body, up, log, cached, outServices, published,
                 child, initState, powerVars, machine>>

\* child.wait() blocks main inside the timeout's own future, so the RunOnce
\* service is waited for however long it takes.
RunOnceSucceeds ==
  /\ pc[Main] = "once"
  /\ child[cur] = "exited"
  /\ Goto(Main, "cache")
  /\ UNCHANGED <<startVars, child, initState, powerVars, machine>>

\* A failing exit status, or an error while its output is logged.
RunOnceFails ==
  /\ pc[Main] = "once"
  /\ child[cur] = "exited"
  /\ CanAssess(cur)
  /\ Goto(Main, Assess(cur))
  /\ UNCHANGED <<startVars, child, initState, powerVars, machine>>

WriteCache ==
  /\ pc[Main] = "cache"
  /\ cached' = cached \cup {cur}
  /\ Goto(Main, "handover")
  /\ UNCHANGED <<cur, body, up, process, log, outServices, published,
                 child, initState, powerVars, machine>>

\* The cache's errors are not assessed: they are fatal for optional services too.
CacheFails ==
  /\ pc[Main] = "cache"
  /\ Goto(Main, "fatal")
  /\ UNCHANGED <<startVars, child, initState, powerVars, machine>>

NextService ==
  /\ cur' = cur + 1
  /\ UNCHANGED <<body, up, cached, published, child, initState, powerVars, machine>>

\* Mutant: a service that did not come up is skipped like a RunOnce one.
RunOnceOrDownDone ==
  /\ pc[Main] = "handover"
  /\ cfg[cur].pattern = "RunOnce" \/ ~up[cur]
  /\ Goto(Main, LoopAt(cur + 1))
  /\ NextService
  /\ UNCHANGED <<process, log, outServices>>

\* A RunOnce service is not kept: up() returns None.
RunOnceDone ==
  /\ pc[Main] = "handover"
  /\ cfg[cur].pattern = "RunOnce"
  /\ Goto(Main, LoopAt(cur + 1))
  /\ NextService
  /\ UNCHANGED <<process, log, outServices>>

\* Mutant: the process is taken without asking whether it is there.
HandOverUnchecked ==
  /\ pc[Main] = "handover"
  /\ body[cur] = "Standard"
  /\ log[cur] = "This"
  /\ log' = [log EXCEPT ![cur] = "Foreign"]
  /\ process' = [process EXCEPT ![cur] = "Foreign"]
  /\ pc' = [pc EXCEPT ![Main] = LoopAt(cur + 1),
                      ![Watch(cur)] = "queued", ![Sup(cur)] = "queued"]
  /\ outServices' = Append(outServices, cur)
  /\ NextService

\* logger()? and supervisor()? both take; then the two tasks are spawned.
HandOver ==
  /\ pc[Main] = "handover"
  /\ cfg[cur].pattern # "RunOnce"
  /\ body[cur] = "Standard"
  /\ log[cur] = "This" /\ process[cur] = "This"
  /\ log' = [log EXCEPT ![cur] = "Foreign"]
  /\ process' = [process EXCEPT ![cur] = "Foreign"]
  /\ pc' = [pc EXCEPT ![Main] = LoopAt(cur + 1),
                      ![Watch(cur)] = "queued", ![Sup(cur)] = "queued"]
  /\ outServices' = Append(outServices, cur)
  /\ NextService

\* One of them returns an error, which up() passes on without assessing it.
HandOverFails ==
  /\ pc[Main] = "handover"
  /\ cfg[cur].pattern # "RunOnce"
  /\ body[cur] # "Standard" \/ log[cur] # "This" \/ process[cur] # "This"
  /\ log' = [log EXCEPT ![cur] = IF @ = "This" THEN "Foreign" ELSE @]
  /\ Goto(Main, "fatal")
  /\ UNCHANGED <<cur, body, up, process, cached, outServices, published,
                 child, initState, powerVars, machine>>

\* Mutant: the index is moved past the last service once more.
PublishAdvances ==
  /\ pc[Main] = "publish"
  /\ published' = TRUE
  /\ cur' = cur + 1
  /\ Goto(Main, "done")
  /\ UNCHANGED <<body, up, process, log, cached, outServices,
                 child, initState, powerVars, machine>>

Publish ==
  /\ pc[Main] = "publish"
  /\ published' = TRUE
  /\ Goto(Main, "done")
  /\ UNCHANGED <<cur, body, up, process, log, cached, outServices,
                 child, initState, powerVars, machine>>

MainStep ==
  \/ SetUp \/ SetUpFails \/ CheckReady \/ ForkingPanics \/ PrepareFails
  \/ SpawnFails \/ Spawn \/ Establish \/ EstablishFails
  \/ RunOnceSucceeds \/ RunOnceFails \/ WriteCache \/ CacheFails
  \/ RunOnceDone \/ HandOver \/ HandOverFails \/ Publish

----------------------------------------------------------------------------
(* The spawned tasks.                                                      *)

\* A worker picks a queued task up: first poll of the supervisor, the watcher
\* or the socket, up to its first blocking call.
StartTask(t, l) ==
  /\ pc[t] = "queued"
  /\ FreeWorker
  /\ Goto(t, l)
  /\ UNCHANGED <<startVars, child, initState, powerVars, machine>>

Dead(s) == child[s] \in {"exited", "killed"}

\* process.wait() returns.
SupWakes(s) ==
  /\ pc[Sup(s)] = "waiting"
  /\ Dead(s)
  /\ Goto(Sup(s), "woken")
  /\ UNCHANGED <<startVars, child, initState, powerVars, machine>>

\* The death is expected: park on the worker for good.
SupRetires(s) ==
  /\ pc[Sup(s)] = "woken"
  /\ powerOffReady
  /\ Goto(Sup(s), "retired")
  /\ UNCHANGED <<startVars, child, initState, powerVars, machine>>

\* Mutant: an exit is taken for a clean one.
SupReportsNothing(s) ==
  /\ pc[Sup(s)] = "woken"
  /\ ~powerOffReady
  /\ Goto(Sup(s), "retired")
  /\ UNCHANGED <<startVars, child, initState, powerVars, machine>>

\* It is not: assess(optional).handle().
SupReports(s) ==
  /\ pc[Sup(s)] = "woken"
  /\ ~powerOffReady
  /\ CanAssess(s)
  /\ Goto(Sup(s), IF cfg[s].optional THEN "warned" ELSE "fatal")
  /\ UNCHANGED <<startVars, child, initState, powerVars, machine>>

\* An unreadable line or a log file that cannot be rewritten ends the watcher;
\* at end of file it keeps reading.
WatchFails(s) ==
  /\ pc[Watch(s)] = "watching"
  /\ CanAssess(s)
  /\ Goto(Watch(s), IF cfg[s].optional THEN "warned" ELSE "fatal")
  /\ UNCHANGED <<startVars, child, initState, powerVars, machine>>

\* bind, chmod, listen or a later accept() fails.
SockFails(k) ==
  /\ pc[Sock(k)] \in {"queued", "listening"}
  /\ FreeWorker
  /\ Goto(Sock(k), "fatal")
  /\ UNCHANGED <<startVars, child, initState, powerVars, machine>>

ServiceTasks(s) ==
  \/ StartTask(Sup(s), "waiting") \/ SupWakes(s) \/ SupRetires(s) \/ SupReports(s)
  \/ StartTask(Watch(s), "watching")

----------------------------------------------------------------------------
(* kickToEmergencyShell, run by whichever task called fatal(), which logs  *)
(* the error first.  The winner logs once more while it holds INIT_STATE.  *)

\* Mutant: the state is set without being tested under the same lock.
OpenShellUntested(t) ==
  /\ pc[t] = "fatal"
  /\ initState' = "Emergency"
  /\ Goto(t, "shell")
  /\ UNCHANGED <<startVars, child, powerVars, machine>>

\* INIT_STATE is tested and set under one lock.
OpenShell(t) ==
  /\ pc[t] = "fatal"
  /\ CanLog
  /\ initState # "Emergency"
  /\ initState' = "Emergency"
  /\ Goto(t, "shell")
  /\ UNCHANGED <<startVars, child, powerVars, machine>>

JoinEmergency(t) ==
  /\ pc[t] = "fatal"
  /\ CanLog
  /\ initState = "Emergency"
  /\ Goto(t, "parked")
  /\ UNCHANGED <<startVars, child, initState, powerVars, machine>>

\* .expect() on the spawn: a panic ends the task, or the process if it is main.
ShellMissing(t) ==
  /\ pc[t] = "shell"
  /\ Goto(t, "noshell")
  /\ machine' = IF t = Main THEN "panicked" ELSE machine
  /\ UNCHANGED <<startVars, child, initState, powerVars>>

----------------------------------------------------------------------------
(* Power::handler and poweroff(), one task per connection.                 *)

Step(r, l) == req' = [req EXCEPT ![r] = l]

Request(r) ==
  /\ req[r] = "none"
  /\ pc[Sock("Power")] = "listening"
  /\ FreeWorker
  /\ Step(r, "requested")
  /\ UNCHANGED <<startVars, pc, child, initState, powerOffReady, pos, seen, machine>>

\* Mutant: services are killed before the supervisors are told.
SetReadyForgotten(r) ==
  /\ req[r] = "requested"
  /\ FreeWorker
  /\ Step(r, "ready")
  /\ UNCHANGED <<startVars, pc, child, initState, powerOffReady, pos, seen, machine>>

\* oncelock! { POWER_OFF_READY = true }?
SetReady(r) ==
  /\ req[r] = "requested"
  /\ FreeWorker
  /\ ~powerOffReady
  /\ powerOffReady' = TRUE
  /\ Step(r, "ready")
  /\ UNCHANGED <<startVars, pc, child, initState, pos, seen, machine>>

\* The lock is set already, by whatever request came first: or_warn().
AlreadySet(r) ==
  /\ req[r] = "requested"
  /\ FreeWorker
  /\ powerOffReady
  /\ CanLog
  /\ Step(r, "denied")
  /\ UNCHANGED <<startVars, pc, child, initState, powerOffReady, pos, seen, machine>>

\* STANDARD_SERVICES.get(): without it only a warning is given.
GetServices(r) ==
  /\ req[r] = "ready"
  /\ published \/ CanLog
  /\ seen' = [seen EXCEPT ![r] = published]
  /\ Step(r, IF published THEN "sweep" ELSE "unmount")
  /\ UNCHANGED <<startVars, pc, child, initState, powerOffReady, pos, machine>>

Target(r) == outServices[pos[r]]

\* The walk is announced service by service; service.down(): the guards, then
\* SIGQUIT, which a dead process ignores.
Down(r) ==
  /\ req[r] = "sweep"
  /\ CanLog
  /\ pos[r] <= Len(outServices)
  /\ up[Target(r)] /\ process[Target(r)] # "This"
  /\ child' = [child EXCEPT ![Target(r)] = IF @ = "running" THEN "quit" ELSE @]
  /\ pos' = [pos EXCEPT ![r] = @ + 1]
  /\ UNCHANGED <<startVars, pc, initState, powerOffReady, req, seen, machine>>

\* A guard of down() or pid() fails: `?` leaves the remaining services alone.
DownRefused(r) ==
  /\ req[r] = "sweep"
  /\ CanLog
  /\ pos[r] <= Len(outServices)
  /\ ~up[Target(r)] \/ process[Target(r)] = "This"
  /\ Step(r, "refused")
  /\ UNCHANGED <<startVars, pc, child, initState, powerOffReady, pos, seen, machine>>

\* Mutants: the walk stops one service early, or waits for one too many.
SweepDoneEarly(r) ==
  /\ req[r] = "sweep"
  /\ pos[r] >= Len(outServices)
  /\ Step(r, "unmount")
  /\ UNCHANGED <<startVars, pc, child, initState, powerOffReady, pos, seen, machine>>

SweepDoneLate(r) ==
  /\ req[r] = "sweep"
  /\ pos[r] > Len(outServices) + 1
  /\ Step(r, "unmount")
  /\ UNCHANGED <<startVars, pc, child, initState, powerOffReady, pos, seen, machine>>

SweepDone(r) ==
  /\ req[r] = "sweep"
  /\ pos[r] > Len(outServices)
  /\ Step(r, "unmount")
  /\ UNCHANGED <<startVars, pc, child, initState, powerOffReady, pos, seen, machine>>

\* Mutant: a shutdown that failed may be asked for again.
UnmountResets(r) ==
  /\ req[r] = "unmount"
  /\ CanLog
  /\ \E l \in {"reboot", "failed"} : Step(r, l) /\ powerOffReady' = (l = "reboot")
  /\ UNCHANGED <<startVars, pc, child, initState, pos, seen, machine>>

\* Every mount, lazily where it is busy; only reading the table can fail.  All
\* of it is logged, the failure and the end beside another init included.
Unmount(r) ==
  /\ req[r] = "unmount"
  /\ CanLog
  /\ \E l \in {"reboot", "failed"} : Step(r, l)
  /\ UNCHANGED <<startVars, pc, child, initState, powerOffReady, pos, seen, machine>>

\* reboot(2), or exit(0) when another process is the init.
Reboot(r) ==
  /\ req[r] = "reboot"
  /\ machine' = "off"
  /\ UNCHANGED <<startVars, pc, child, initState, powerVars>>

RebootFails(r) ==
  /\ req[r] = "reboot"
  /\ CanLog
  /\ Step(r, "failed")
  /\ UNCHANGED <<startVars, pc, child, initState, powerOffReady, pos, seen, machine>>

\* force_poweroff(): no service is touched, POWER_OFF_READY is not set.
ForceOff(r) ==
  /\ req[r] = "requested"
  /\ FreeWorker
  /\ \/ machine' = "off" /\ UNCHANGED req
     \/ CanLog /\ Step(r, "denied") /\ UNCHANGED machine
  /\ UNCHANGED <<startVars, pc, child, initState, powerOffReady, pos, seen>>

PowerStep(r) ==
  \/ SetReady(r) \/ AlreadySet(r) \/ GetServices(r) \/ Down(r) \/ DownRefused(r)
  \/ SweepDone(r) \/ Unmount(r) \/ Reboot(r) \/ RebootFails(r)

----------------------------------------------------------------------------
\* A service's process ends: by itself, or by the signal it was sent.
ChildExits(s) ==
  /\ child[s] \in {"running", "quit"}
  /\ child' = [child EXCEPT ![s] = IF @ = "running" THEN "exited" ELSE "killed"]
  /\ UNCHANGED <<startVars, pc, initState, powerVars, machine>>

\* A handler of the Log socket loses its peer while it answers: it warns of it
\* with MASTER_LOG in hand, and waits for itself on its worker for good (how it
\* comes to that is modelled in Sockets).
LogRelocked ==
  /\ ~logHeld
  /\ "Log" \in Sockets /\ pc[Sock("Log")] = "listening"
  /\ FreeWorker
  /\ logHeld' = TRUE
  /\ UNCHANGED <<startVars, pc, child, initState, powerVars, machine>>

OtherStep ==
  \/ \E s \in Svc : ServiceTasks(s) \/ WatchFails(s) \/ ChildExits(s)
  \/ \E k \in Sockets : StartTask(Sock(k), "listening") \/ SockFails(k)
  \/ \E t \in Tasks : OpenShell(t) \/ JoinEmergency(t) \/ ShellMissing(t)
  \/ \E r \in Requests : Request(r) \/ PowerStep(r) \/ ForceOff(r)

Next ==
  /\ machine = "on"
  /\ cfg' = cfg
  /\ \/ LogRelocked
     \/ logHeld' = logHeld /\ (MainStep \/ OtherStep)

Spec == Init /\ [][Next]_vars

(***************************************************************************)
(* A thread that can run does run: main's steps, a task that holds or can  *)
(* get a worker, a request that has been accepted.  Nothing is assumed of  *)
(* the children, the clients, the shell, or of calls failing.  A step that *)
(* logs cannot be taken once MASTER_LOG is gone, so nothing is assumed of  *)
(* it from then on.                                                        *)
(***************************************************************************)
On(A) == machine = "on" /\ cfg' = cfg /\ logHeld' = logHeld /\ A

Fairness ==
  /\ WF_vars(On(MainStep))
  /\ \A s \in Svc : /\ WF_vars(On(StartTask(Sup(s), "waiting")))
                    /\ WF_vars(On(StartTask(Watch(s), "watching")))
                    /\ WF_vars(On(SupWakes(s) \/ SupRetires(s) \/ SupReports(s)))
  /\ \A k \in Sockets : WF_vars(On(StartTask(Sock(k), "listening")))
  /\ \A t \in Tasks : WF_vars(On(OpenShell(t) \/ JoinEmergency(t)))
  /\ \A r \in Requests : WF_vars(On(PowerStep(r)))

FairSpec == Spec /\ Fairness

----------------------------------------------------------------------------
(* Properties.                                                             *)

\* The types of the variables; the owner of a field and the state of a child
\* take the values of DynamicOwnership::Owner and of the process table.
TypeOK ==
  /\ cfg \in [Svc -> Config]
  /\ cur \in 1..(NumServices + 1)
  /\ pc \in [Tasks -> TaskPcs]
  /\ body \in [Svc -> {"PreExecution", "Standard", "RunOnce", "Forking"}]
  /\ up \in [Svc -> BOOLEAN]
  /\ process \in [Svc -> {"Nobody", "This", "Foreign"}]
  /\ log \in [Svc -> {"Nobody", "This", "Foreign"}]
  /\ child \in [Svc -> {"none", "running", "quit", "exited", "killed"}]
  /\ cached \in SUBSET Svc
  /\ outServices \in Seq(Svc)
  /\ published \in BOOLEAN
  /\ initState \in {"Okay", "Emergency"}
  /\ powerOffReady \in BOOLEAN
  /\ req \in [Requests -> ReqPcs]
  /\ pos \in [Requests -> Nat \ {0}]
  /\ seen \in [Requests -> BOOLEAN]
  /\ machine \in {"on", "off", "panicked"}
  /\ logHeld \in BOOLEAN

\* Whichever tasks fail, and in whatever order, at most one of them opens the
\* emergency shell, and the init reports Emergency exactly when one has
\* (kickToEmergencyShell tests and sets INIT_STATE under one lock).
EmergencyShellOnce ==
  /\ initState = "Emergency" <=> ShellTasks # {}
  /\ \A t, u \in ShellTasks : t = u

\* The supervisor of a service that poweroff() signalled never reports its
\* death: POWER_OFF_READY is set before the first kill, so a supervisor that
\* wakes on a killed child finds it set (Root::supervise).
KilledNotFatal ==
  \A s \in Svc : child[s] = "killed" =>
    pc[Sup(s)] \in {"none", "queued", "waiting", "woken", "retired"}

\* One request at most ever gets past POWER_OFF_READY, to walk the services,
\* unmount and reboot: no two do so side by side, and after one that failed or
\* was refused on the way no other ever does.  A shutdown cannot be retried (the
\* OnceLock of poweroff()).
PastReady == {r \in Requests : req[r] \notin {"none", "requested", "denied"}}
SingleSweep == \A q, r \in PastReady : q = r

\* When poweroff() found STANDARD_SERVICES set and has gone on to unmount, every
\* service in it was signalled or had exited, and while it walks this holds of
\* those it has passed, whatever dies meanwhile.
SweepReachesAll ==
  \A r \in Sweeping : seen[r] =>
    \A i \in 1..Len(outServices) :
      i < pos[r] \/ req[r] # "sweep" =>
        child[outServices[i]] \in {"quit", "exited", "killed"}

Handed(s) == \E i \in 1..Len(outServices) : outServices[i] = s

\* up() hands a service over whole: the tasks, the process and the logger leave
\* the handle together, for a process that was spawned and a cache file that
\* was written, and for no other service.
SupervisedIsWhole ==
  \A s \in Svc :
    /\ Handed(s) <=> pc[Sup(s)] # "none"
    /\ Handed(s) <=> pc[Watch(s)] # "none"
    /\ Handed(s) <=> process[s] = "Foreign"
    /\ Handed(s) => /\ log[s] = "Foreign"
                    /\ child[s] # "none"
                    /\ s \in cached
                    /\ cfg[s].pattern = "Standard"

\* STANDARD_SERVICES, once it is set, is what its documentation says: every
\* Standard service of the target, once each and in the target's order, even if
\* optional services failed on the way; and every service has a cache file.
PublishedIsComplete ==
  published =>
    /\ \A s \in Svc : cfg[s].pattern = "Standard" => Handed(s)
    /\ \A i, j \in 1..Len(outServices) : i < j => outServices[i] < outServices[j]
    /\ cached = Svc

\* down() turns a handle down for one reason only: an optional service whose
\* start failed after its process was spawned, which is handed over with `up`
\* still false.  The ownership guard of down() never fires.
RefusedOnlyIfHalfUp ==
  \A r \in Requests : req[r] = "refused" =>
    /\ cfg[Target(r)].optional
    /\ ~up[Target(r)]
    /\ process[Target(r)] = "Foreign"

\* Before a poweroff, the death of a supervised service that is not optional
\* puts the init into emergency (the documentation of Supervisor), unless
\* MASTER_LOG is gone: the emergency starts with a message.
DeathNoticed ==
  \A s \in Svc :
    (pc[Sup(s)] = "waiting" /\ child[s] = "exited" /\ ~cfg[s].optional)
      ~> (initState = "Emergency" \/ powerOffReady \/ machine # "on" \/ logHeld)

\* A power request that reaches its handler comes to an end: the machine goes
\* off, or the request fails, is refused or is denied.  poweroff() waits for no
\* child and no other task on the way, for nothing but MASTER_LOG, which it
\* locks with every line it logs.
PowerRequestSettles ==
  \A r \in Requests :
    req[r] = "requested" ~>
      (req[r] \in {"failed", "refused", "denied"} \/ machine # "on" \/ logHeld)

\* What main may rest in: the end of its start-up, an emergency of its own, the
\* sleep loop of up() because another task is in emergency, which never ends, or
\* the wait for a RunOnce service that still runs.
MainRests ==
  \/ pc[Main] \in {"done", "shell", "parked"}
  \/ pc[Main] = "ready" /\ initState = "Emergency"
  \/ pc[Main] = "once" /\ child[cur] = "running"

\* Startup gets somewhere and stays there: whatever fails, main comes to rest in
\* one of the places above and nowhere else, unless the init is gone or its log
\* is.  Another task's emergency stops it only before its next service, and a
\* RunOnce service only until it ends (Service::up).
StartupSettles == <>[](MainRests \/ machine # "on" \/ logHeld)

----------------------------------------------------------------------------
(* What documentation and comments say and the code does not do.           *)

\* "The process is constantly monitored" (Supervisor): a supervisor that was
\* spawned gets to watch its process, unless the init is in emergency or gone.
EventuallyMonitored ==
  \A s \in Svc : pc[Sup(s)] = "queued" ~>
    (pc[Sup(s)] # "queued" \/ initState = "Emergency" \/ machine # "on")
=============================================================================
