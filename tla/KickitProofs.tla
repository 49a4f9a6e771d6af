---------------------------- MODULE KickitProofs ----------------------------
(***************************************************************************)
(* The safety properties of Kickit, proved for every target, every number  *)
(* of requests and every number of workers.                                *)
(***************************************************************************)
EXTENDS Kickit, TLAPS

\* Positions of main() at which `cur` is the service in hand.
Loop == {"ready", "exec", "establish", "once", "cache", "handover"}

TypeInv ==
  /\ TypeOK
  /\ pc[Main] = "setup" => cur = 1
  /\ pc[Main] \in Loop => cur \in Svc

\* What main has done with the services before `cur`, and with the one in hand.
StartInv ==
  /\ \A i \in 1..Len(outServices) : outServices[i] < cur
  /\ \A i, j \in 1..Len(outServices) : i < j => outServices[i] < outServices[j]
  /\ \A s \in Svc : s < cur => s \in cached /\ (cfg[s].pattern = "Standard" => Handed(s))
  /\ \A s \in Svc : Handed(s) <=> process[s] = "Foreign"
  /\ \A s \in Svc : process[s] # "Nobody" => child[s] # "none"
  /\ \A s \in Svc : Handed(s) => /\ log[s] = "Foreign"
                                 /\ cfg[s].pattern = "Standard"
                                 /\ up[s] \/ cfg[s].optional
  /\ \A s \in Svc : body[s] \in {"PreExecution", cfg[s].pattern}

MainInv ==
  /\ pc[Main] = "establish" => child[cur] # "none" /\ cfg[cur].pattern = "Standard"
  /\ pc[Main] = "once" => cfg[cur].pattern = "RunOnce"
  /\ pc[Main] \in {"cache", "handover"} /\ cfg[cur].pattern = "Standard" =>
       up[cur] \/ cfg[cur].optional
  /\ pc[Main] = "handover" => cur \in cached
  /\ pc[Main] \in {"publish", "done"} => cur = NumServices + 1
  /\ published => pc[Main] = "done"

\* Which tasks exist, and who has the shell.
TaskInv ==
  /\ pc[Main] = "setup" => \A k \in Sockets : pc[Sock(k)] = "none"
  /\ \A s \in Svc : /\ Handed(s) <=> pc[Sup(s)] # "none"
                    /\ Handed(s) <=> pc[Watch(s)] # "none"
  /\ EmergencyShellOnce

\* One request alone ever gets past POWER_OFF_READY, and it finds the services
\* either all there or not at all.
PowerInv ==
  /\ PastReady # {} => powerOffReady
  /\ SingleSweep
  /\ \A r \in Requests :
       /\ req[r] \in {"none", "requested", "ready"} => pos[r] = 1 /\ ~seen[r]
       /\ seen[r] => published
       /\ req[r] \in {"sweep", "refused"} => seen[r]
  /\ RefusedOnlyIfHalfUp
  /\ SweepReachesAll

\* A signalled child implies POWER_OFF_READY; a supervisor leaves wait() only
\* for a dead one.
KillInv ==
  /\ \A s \in Svc : child[s] \in {"quit", "killed"} => powerOffReady
  /\ \A s \in Svc : ~Dead(s) => pc[Sup(s)] \in {"none", "queued", "waiting"}
  /\ KilledNotFatal

IInv == TypeInv /\ StartInv /\ MainInv /\ TaskInv /\ PowerInv /\ KillInv

----------------------------------------------------------------------------
(* The names of the tasks.                                                 *)

LEMMA TaskNames ==
  /\ Main \in Tasks
  /\ \A s \in Svc : Sup(s) \in Tasks /\ Watch(s) \in Tasks
  /\ \A k \in Sockets : Sock(k) \in Tasks
  /\ \A s \in Svc : Sup(s) # Main /\ Watch(s) # Main
  /\ \A k \in Sockets : Sock(k) # Main
  /\ \A s, u \in Svc : /\ Sup(s) # Watch(u)
                       /\ Sup(s) = Sup(u) => s = u
                       /\ Watch(s) = Watch(u) => s = u
  /\ \A s \in Svc : \A k \in Sockets : Sup(s) # Sock(k) /\ Watch(s) # Sock(k)
  BY DEF Tasks, Main, Sup, Watch, Sock

\* A step is main's or another task's, or changes nothing but the master log.
LEMMA StepKinds ==
  ASSUME [Next]_vars
  PROVE  UNCHANGED coreVars \/ (cfg' = cfg /\ (MainStep \/ OtherStep))
  BY DEF Next, LogRelocked, vars, coreVars

----------------------------------------------------------------------------
(* Type correctness.                                                       *)

LEMMA TypeInit == Init => TypeInv
<1> SUFFICES ASSUME Init PROVE TypeInv
  OBVIOUS
<1>1. pc \in [Tasks -> TaskPcs] /\ pc[Main] = "setup"
  BY TaskNames DEF Init, TaskPcs
<1>2. cfg \in [Svc -> Config]
  BY ConfigAssumption DEF Init
<1>3. cur \in 1..(NumServices + 1)
  BY CountAssumption DEF Init
<1>4. cached \in SUBSET Svc /\ outServices \in Seq(Svc)
  BY DEF Init
<1>5. /\ req \in [Requests -> ReqPcs]
      /\ pos \in [Requests -> Nat \ {0}] /\ seen \in [Requests -> BOOLEAN]
  BY DEF Init, ReqPcs
<1>6. body \in [Svc -> {"PreExecution", "Standard", "RunOnce", "Forking"}]
      /\ up \in [Svc -> BOOLEAN]
  BY DEF Init
<1>7. process \in [Svc -> {"Nobody", "This", "Foreign"}]
      /\ log \in [Svc -> {"Nobody", "This", "Foreign"}]
      /\ child \in [Svc -> {"none", "running", "quit", "exited", "killed"}]
  BY DEF Init
<1>8. TypeOK
  BY <1>1, <1>2, <1>3, <1>4, <1>5, <1>6, <1>7 DEF Init, TypeOK
<1> QED
  BY <1>1, <1>8 DEF Init, TypeInv, Loop

\* What a Goto does to pc.
LEMMA GotoStep ==
  ASSUME pc \in [Tasks -> TaskPcs], NEW t \in Tasks, NEW l \in TaskPcs, Goto(t, l)
  PROVE  /\ pc' \in [Tasks -> TaskPcs]
         /\ pc'[t] = l
         /\ \A u \in Tasks \ {t} : pc'[u] = pc[u]
  BY DEF Goto

\* The values the labels of main's steps can take.
LEMMA Labels ==
  /\ Loop \subseteq TaskPcs /\ EmergencyPcs \subseteq TaskPcs
  /\ \A s : Assess(s) \in {"cache", "fatal"}
  /\ \A i : LoopAt(i) \in {"ready", "publish"} /\ (LoopAt(i) = "ready" => i \in Svc)
  /\ {"none", "queued", "waiting", "woken", "retired", "warned", "watching",
      "listening", "publish", "done"} \subseteq TaskPcs
  BY DEF Loop, TaskPcs, EmergencyPcs, Assess, LoopAt

\* A step of main that only moves it, within the loop or to fatal().
LEMMA TypeMove ==
  ASSUME TypeInv, cfg' = cfg, logHeld' = logHeld, NEW l \in Loop \cup {"fatal", "done"}, Goto(Main, l),
         l \in Loop => pc[Main] \in Loop,
         UNCHANGED <<startVars, child, initState, powerVars, machine>>
  PROVE  TypeInv'
<1>1. l \in TaskPcs /\ Main \in Tasks
  BY Labels, TaskNames DEF EmergencyPcs
<1>2. pc' \in [Tasks -> TaskPcs] /\ pc'[Main] = l
  BY <1>1, GotoStep DEF TypeInv, TypeOK
<1> QED
  BY <1>2 DEF TypeInv, TypeOK, startVars, powerVars, Loop

LEMMA TypeMain == ASSUME TypeInv, cfg' = cfg, logHeld' = logHeld, MainStep PROVE TypeInv'
<1>1. ASSUME SetUp PROVE TypeInv'
  <2>1. LoopAt(1) \in TaskPcs /\ LoopAt(1) # "setup" /\ (LoopAt(1) \in Loop => 1 \in Svc)
    BY Labels DEF Loop
  <2>2. pc' \in [Tasks -> TaskPcs] /\ pc'[Main] = LoopAt(1)
    BY <1>1, <2>1, Labels, TaskNames DEF SetUp, TypeInv, TypeOK
  <2> QED
    BY <1>1, <2>1, <2>2 DEF SetUp, TypeInv, TypeOK, startVars, powerVars
<1>2. ASSUME SetUpFails \/ CheckReady \/ CacheFails PROVE TypeInv'
  BY <1>2, TypeMove DEF SetUpFails, CheckReady, CacheFails, Loop
<1>3. ASSUME ForkingPanics PROVE TypeInv'
  BY <1>3 DEF ForkingPanics, TypeInv, TypeOK, startVars, powerVars
<1>4. ASSUME PrepareFails \/ RunOnceSucceeds \/ RunOnceFails PROVE TypeInv'
  <2>1. Assess(cur) \in Loop \cup {"fatal"}
    BY Labels DEF Loop
  <2> QED
    BY <1>4, <2>1, TypeMove DEF PrepareFails, RunOnceSucceeds, RunOnceFails, Loop
<1>5. ASSUME SpawnFails \/ Spawn PROVE TypeInv'
  <2>1. cur \in Svc /\ cfg[cur] \in Config
    BY <1>5 DEF SpawnFails, Spawn, Loop, TypeInv, TypeOK
  <2>2. body' \in [Svc -> {"PreExecution", "Standard", "RunOnce", "Forking"}]
    BY <1>5, <2>1 DEF SpawnFails, Spawn, DefaultBody, Config, TypeInv, TypeOK
  <2>3. log' \in [Svc -> {"Nobody", "This", "Foreign"}]
    BY <1>5, <2>1 DEF SpawnFails, Spawn, DefaultBody, TypeInv, TypeOK
  <2>4. child' \in [Svc -> {"none", "running", "quit", "exited", "killed"}]
    BY <1>5, <2>1 DEF SpawnFails, Spawn, TypeInv, TypeOK
  <2>5. \E l \in TaskPcs \ {"setup"} : Goto(Main, l)
    BY <1>5, Labels DEF SpawnFails, Spawn, Loop, EmergencyPcs
  <2>6. pc' \in [Tasks -> TaskPcs] /\ pc'[Main] # "setup"
    BY <2>5, GotoStep, TaskNames DEF TypeInv, TypeOK
  <2>7. UNCHANGED <<cur, up, process, cached, outServices, published, initState, powerVars, machine>>
    BY <1>5 DEF SpawnFails, Spawn
  <2>8. TypeOK'
    BY <2>2, <2>3, <2>4, <2>6, <2>7 DEF TypeInv, TypeOK, powerVars
  <2> QED
    BY <2>1, <2>6, <2>7, <2>8 DEF TypeInv
<1>6. ASSUME Establish \/ EstablishFails \/ WriteCache \/ HandOverFails PROVE TypeInv'
  <2>1. cur \in Svc
    BY <1>6 DEF Establish, EstablishFails, WriteCache, HandOverFails, Loop, TypeInv
  <2>2. \E l \in TaskPcs \ {"setup"} : Goto(Main, l)
    BY <1>6, Labels DEF Establish, EstablishFails, WriteCache, HandOverFails, Loop, EmergencyPcs
  <2>3. pc' \in [Tasks -> TaskPcs] /\ pc'[Main] # "setup"
    BY <2>2, GotoStep, TaskNames DEF TypeInv, TypeOK
  <2>4. /\ process' \in [Svc -> {"Nobody", "This", "Foreign"}]
        /\ log' \in [Svc -> {"Nobody", "This", "Foreign"}]
    BY <1>6, <2>1 DEF Establish, EstablishFails, WriteCache, HandOverFails, TypeInv, TypeOK
  <2>5. up' \in [Svc -> BOOLEAN] /\ cached' \in SUBSET Svc
    BY <1>6, <2>1 DEF Establish, EstablishFails, WriteCache, HandOverFails, TypeInv, TypeOK
  <2> QED
    BY <1>6, <2>1, <2>3, <2>4, <2>5
    DEF Establish, EstablishFails, WriteCache, HandOverFails, TypeInv, TypeOK, powerVars
<1>7. ASSUME RunOnceDone \/ HandOver PROVE TypeInv'
  <2>1. cur \in Svc /\ cur' = cur + 1 /\ cur' \in 1..(NumServices + 1)
    BY <1>7, CountAssumption DEF RunOnceDone, HandOver, NextService, Loop, Svc, TypeInv
  <2>2. LoopAt(cur + 1) \in TaskPcs \ {"setup"} /\ (LoopAt(cur + 1) \in Loop => cur' \in Svc)
    BY <2>1, Labels DEF Loop
  <2>3. CASE RunOnceDone
    <3>1. pc' \in [Tasks -> TaskPcs] /\ pc'[Main] = LoopAt(cur + 1)
      BY <2>2, <2>3, GotoStep, TaskNames DEF RunOnceDone, TypeInv, TypeOK
    <3>2. UNCHANGED <<body, up, process, log, cached, outServices, published,
                      child, initState, powerVars, machine>>
      BY <2>3 DEF RunOnceDone, NextService
    <3>3. TypeOK'
      BY <2>1, <3>1, <3>2 DEF TypeInv, TypeOK, powerVars
    <3> QED
      BY <2>2, <3>1, <3>3 DEF TypeInv
  <2>4. CASE HandOver
    <3>1. /\ Sup(cur) # Main /\ Watch(cur) # Main /\ {Main, Sup(cur), Watch(cur)} \subseteq Tasks
          /\ "queued" \in TaskPcs
      BY <2>1, TaskNames, Labels
    <3>2. pc' \in [Tasks -> TaskPcs] /\ pc'[Main] = LoopAt(cur + 1)
      BY <2>2, <2>4, <3>1 DEF HandOver, TypeInv, TypeOK
    <3>3. outServices' \in Seq(Svc)
      BY <2>1, <2>4 DEF HandOver, TypeInv, TypeOK
    <3>4. /\ process' \in [Svc -> {"Nobody", "This", "Foreign"}]
          /\ log' \in [Svc -> {"Nobody", "This", "Foreign"}]
      BY <2>1, <2>4 DEF HandOver, TypeInv, TypeOK
    <3>5. UNCHANGED <<body, up, cached, published, child, initState, powerVars, machine>>
      BY <2>4 DEF HandOver, NextService
    <3>6. TypeOK'
      BY <2>1, <3>2, <3>3, <3>4, <3>5 DEF TypeInv, TypeOK, powerVars
    <3> QED
      BY <2>2, <3>2, <3>6 DEF TypeInv
  <2> QED
    BY <1>7, <2>3, <2>4
<1>8. ASSUME Publish PROVE TypeInv'
  <2>1. pc' \in [Tasks -> TaskPcs] /\ pc'[Main] = "done"
    BY <1>8, GotoStep, TaskNames, Labels DEF Publish, TypeInv, TypeOK
  <2> QED
    BY <1>8, <2>1 DEF Publish, TypeInv, TypeOK, Loop, powerVars
<1> QED
  BY <1>1, <1>2, <1>3, <1>4, <1>5, <1>6, <1>7, <1>8 DEF MainStep

\* The tasks, the emergency and the power requests.
LEMMA TypeTask ==
  ASSUME TypeInv, cfg' = cfg, logHeld' = logHeld, NEW t \in Tasks,
         NEW l \in TaskPcs \ Loop, Goto(t, l),
         l # "setup", initState' \in {"Okay", "Emergency"}, machine' \in {"on", "panicked"},
         UNCHANGED <<startVars, child, powerVars>>
  PROVE  TypeInv'
<1>1. pc' \in [Tasks -> TaskPcs] /\ pc'[t] = l /\ (t # Main => pc'[Main] = pc[Main])
  BY GotoStep, TaskNames DEF TypeInv, TypeOK
<1>2. TypeOK' /\ cur' = cur
  BY <1>1 DEF TypeInv, TypeOK, startVars, powerVars
<1> QED
  BY <1>1, <1>2 DEF TypeInv

LEMMA TypePower ==
  ASSUME TypeInv, cfg' = cfg, logHeld' = logHeld, NEW r \in Requests,
         Request(r) \/ PowerStep(r) \/ ForceOff(r)
  PROVE  TypeInv'
<1>1. /\ UNCHANGED <<startVars, pc, initState>>
      /\ machine' \in {machine, "off"} /\ powerOffReady' \in {powerOffReady, TRUE}
  BY DEF Request, PowerStep, SetReady, AlreadySet, GetServices, Down, DownRefused, SweepDone,
         Unmount, Reboot, RebootFails, ForceOff, powerVars
<1>2. req' \in [Requests -> ReqPcs]
  <2>1. CASE Down(r)
    BY <2>1 DEF Down, TypeInv, TypeOK
  <2>2. CASE Request(r) \/ SetReady(r) \/ AlreadySet(r)
    BY <2>2 DEF Request, SetReady, AlreadySet, Step, ReqPcs, TypeInv, TypeOK
  <2>3. CASE GetServices(r) \/ DownRefused(r) \/ SweepDone(r)
    <3>1. PICK l \in ReqPcs : Step(r, l)
      BY <2>3 DEF GetServices, DownRefused, SweepDone, ReqPcs
    <3> QED
      BY <3>1 DEF Step, TypeInv, TypeOK
  <2>4. CASE Unmount(r) \/ RebootFails(r)
    <3>1. PICK l \in {"reboot", "failed"} : Step(r, l)
      BY <2>4 DEF Unmount, RebootFails
    <3> QED
      BY <3>1 DEF Step, ReqPcs, TypeInv, TypeOK
  <2>5. CASE Reboot(r) \/ ForceOff(r)
    BY <2>5 DEF Reboot, ForceOff, powerVars, Step, ReqPcs, TypeInv, TypeOK
  <2> QED
    BY <2>1, <2>2, <2>3, <2>4, <2>5 DEF PowerStep
<1>3. pos' \in [Requests -> Nat \ {0}]
  <2>1. CASE Down(r)
    BY <2>1 DEF Down, TypeInv, TypeOK
  <2>2. ~Down(r) => UNCHANGED pos
    BY DEF Request, PowerStep, SetReady, AlreadySet, GetServices, DownRefused, SweepDone,
           Unmount, Reboot, RebootFails, ForceOff, powerVars
  <2> QED
    BY <2>1, <2>2 DEF TypeInv, TypeOK
<1>4. seen' \in [Requests -> BOOLEAN]
  <2>1. CASE GetServices(r)
    BY <2>1 DEF GetServices, TypeInv, TypeOK
  <2>2. ~GetServices(r) => UNCHANGED seen
    BY DEF Request, PowerStep, SetReady, AlreadySet, Down, DownRefused, SweepDone,
           Unmount, Reboot, RebootFails, ForceOff, powerVars
  <2> QED
    BY <2>1, <2>2 DEF TypeInv, TypeOK
<1>5. child' \in [Svc -> {"none", "running", "quit", "exited", "killed"}]
  <2>1. CASE Down(r)
    BY <2>1 DEF Down, TypeInv, TypeOK
  <2>2. ~Down(r) => UNCHANGED child
    BY DEF Request, PowerStep, SetReady, AlreadySet, GetServices, DownRefused, SweepDone,
           Unmount, Reboot, RebootFails, ForceOff
  <2> QED
    BY <2>1, <2>2 DEF TypeInv, TypeOK
<1>6. TypeOK'
  BY <1>1, <1>2, <1>3, <1>4, <1>5 DEF TypeInv, TypeOK, startVars
<1> QED
  BY <1>1, <1>6 DEF TypeInv, startVars

LEMMA TypeStep == TypeInv /\ [Next]_vars => TypeInv'
<1> SUFFICES ASSUME TypeInv, [Next]_vars PROVE TypeInv'
  OBVIOUS
<1>1. CASE UNCHANGED vars
  BY <1>1 DEF TypeInv, TypeOK, vars, coreVars, startVars, powerVars
<1>2. CASE LogRelocked /\ cfg' = cfg
  BY <1>2 DEF LogRelocked, TypeInv, TypeOK, startVars, powerVars
<1>3. CASE Next /\ ~LogRelocked
  <2>1. cfg' = cfg /\ logHeld' = logHeld /\ machine = "on"
    BY <1>3 DEF Next
  <2>2. ASSUME MainStep PROVE TypeInv'
    BY <2>1, <2>2, TypeMain
  <2>3. ASSUME NEW s \in Svc, ServiceTasks(s) \/ WatchFails(s) PROVE TypeInv'
    <3>1. Sup(s) \in Tasks /\ Watch(s) \in Tasks
      BY TaskNames
    <3>2. PICK t \in Tasks, l \in TaskPcs \ Loop :
            l # "setup" /\ Goto(t, l) /\ UNCHANGED <<startVars, child, initState, powerVars, machine>>
      BY <2>3, <3>1 DEF ServiceTasks, WatchFails, StartTask, SupWakes, SupRetires, SupReports,
                        TaskPcs, EmergencyPcs, Loop
    <3> QED
      BY <2>1, <3>2, TypeTask DEF TypeInv, TypeOK
  <2>4. ASSUME NEW s \in Svc, ChildExits(s) PROVE TypeInv'
    BY <2>1, <2>4 DEF ChildExits, TypeInv, TypeOK, startVars, powerVars
  <2>5. ASSUME NEW k \in Sockets, StartTask(Sock(k), "listening") \/ SockFails(k) PROVE TypeInv'
    <3>1. Sock(k) \in Tasks
      BY TaskNames
    <3>2. PICK l \in TaskPcs \ Loop :
            l # "setup" /\ Goto(Sock(k), l) /\ UNCHANGED <<startVars, child, initState, powerVars, machine>>
      BY <2>5 DEF StartTask, SockFails, TaskPcs, EmergencyPcs, Loop
    <3> QED
      BY <2>1, <3>1, <3>2, TypeTask DEF TypeInv, TypeOK
  <2>6. ASSUME NEW t \in Tasks, OpenShell(t) \/ JoinEmergency(t) \/ ShellMissing(t) PROVE TypeInv'
    <3>1. PICK l \in TaskPcs \ Loop : l # "setup" /\ Goto(t, l)
      BY <2>6 DEF OpenShell, JoinEmergency, ShellMissing, TaskPcs, EmergencyPcs, Loop
    <3>2. /\ initState' \in {"Okay", "Emergency"} /\ machine' \in {"on", "panicked"}
          /\ UNCHANGED <<startVars, child, powerVars>>
      BY <2>1, <2>6 DEF OpenShell, JoinEmergency, ShellMissing, TypeInv, TypeOK
    <3> QED
      BY <2>1, <3>1, <3>2, TypeTask
  <2>7. ASSUME NEW r \in Requests, Request(r) \/ PowerStep(r) \/ ForceOff(r) PROVE TypeInv'
    BY <2>1, <2>7, TypePower
  <2> QED
    BY <1>3, <2>2, <2>3, <2>4, <2>5, <2>6, <2>7 DEF Next, OtherStep
<1> QED
  BY <1>1, <1>2, <1>3 DEF Next

\* The variables keep their types: TypeInv, which adds where `cur` stands, is
\* inductive.
THEOREM TypeCorrect == Spec => []TypeOK
<1>1. Spec => []TypeInv
  BY TypeInit, TypeStep, PTL DEF Spec
<1>2. TypeInv => TypeOK
  BY DEF TypeInv
<1> QED
  BY <1>1, <1>2, PTL

----------------------------------------------------------------------------
(* The inductive invariant holds initially.                                *)

LEMMA InitInv == Init => IInv
<1> SUFFICES ASSUME Init PROVE IInv
  OBVIOUS
<1>1. pc[Main] = "setup" /\ \A t \in Tasks \ {Main} : pc[t] = "none"
  BY TaskNames DEF Init
<1>2. \A s \in Svc : ~Handed(s)
  BY DEF Init, Handed
<1>3. StartInv
  BY <1>2, CountAssumption DEF Init, StartInv, Svc
<1>4. MainInv
  BY <1>1 DEF Init, MainInv
<1>5. EmergencyShellOnce
  BY <1>1 DEF Init, EmergencyShellOnce, ShellTasks
<1>6. TaskInv
  BY <1>1, <1>2, <1>5, TaskNames DEF TaskInv
<1>7. PowerInv
  <2>1. Sweeping = {} /\ \A r \in Requests : req[r] = "none"
    BY DEF Init, Sweeping
  <2> QED
    BY <2>1 DEF Init, PowerInv, PastReady, SingleSweep, RefusedOnlyIfHalfUp, SweepReachesAll
<1>8. KillInv
  BY <1>1, TaskNames DEF Init, KillInv, KilledNotFatal, Dead
<1> QED
  BY <1>3, <1>4, <1>6, <1>7, <1>8, TypeInit DEF IInv

----------------------------------------------------------------------------
(* What the steps of the tasks, the requests and the children leave alone: *)
(* everything main builds.  The loss of the master log leaves everything   *)
(* else alone.                                                             *)

\* A step of one task other than main, or of main in emergency.
LEMMA TaskFrame ==
  ASSUME TypeInv, NEW t \in Tasks, NEW l \in TaskPcs \ {"none"}, Goto(t, l),
         pc[t] # "none", t = Main => {pc[Main], l} \subseteq EmergencyPcs
  PROVE  /\ \A u \in Tasks : pc'[u] = "none" <=> pc[u] = "none"
         /\ pc'[Main] = pc[Main] \/ {pc[Main], pc'[Main]} \subseteq EmergencyPcs
<1>1. pc' \in [Tasks -> TaskPcs] /\ pc'[t] = l /\ \A u \in Tasks \ {t} : pc'[u] = pc[u]
  BY GotoStep DEF TypeInv, TypeOK
<1> QED
  BY <1>1, TaskNames

LEMMA Frame ==
  ASSUME TypeInv, OtherStep
  PROVE  /\ UNCHANGED startVars
         /\ \A t \in Tasks : pc'[t] = "none" <=> pc[t] = "none"
         /\ pc'[Main] = pc[Main] \/ {pc[Main], pc'[Main]} \subseteq EmergencyPcs
         /\ \A s \in Svc : child'[s] = "none" <=> child[s] = "none"
<1>1. ASSUME NEW s \in Svc, ServiceTasks(s) \/ WatchFails(s)
      PROVE  /\ UNCHANGED <<startVars, child>>
             /\ \E t \in Tasks \ {Main}, l \in TaskPcs \ {"none"} : Goto(t, l) /\ pc[t] # "none"
  <2>1. Sup(s) \in Tasks \ {Main} /\ Watch(s) \in Tasks \ {Main}
    BY TaskNames
  <2> QED
    BY <1>1, <2>1 DEF ServiceTasks, WatchFails, StartTask, SupWakes, SupRetires, SupReports,
                      TaskPcs, EmergencyPcs
<1>2. ASSUME NEW s \in Svc, ChildExits(s)
      PROVE  /\ UNCHANGED <<startVars, pc>>
             /\ \A u \in Svc : child'[u] = "none" <=> child[u] = "none"
  BY <1>2 DEF ChildExits, TypeInv, TypeOK
<1>3. ASSUME NEW k \in Sockets, StartTask(Sock(k), "listening") \/ SockFails(k)
      PROVE  /\ UNCHANGED <<startVars, child>>
             /\ \E t \in Tasks \ {Main}, l \in TaskPcs \ {"none"} : Goto(t, l) /\ pc[t] # "none"
  <2>1. Sock(k) \in Tasks \ {Main}
    BY TaskNames
  <2> QED
    BY <1>3, <2>1 DEF StartTask, SockFails, TaskPcs, EmergencyPcs
<1>4. ASSUME NEW t \in Tasks, OpenShell(t) \/ JoinEmergency(t) \/ ShellMissing(t)
      PROVE  /\ UNCHANGED <<startVars, child>>
             /\ pc[t] \in EmergencyPcs
             /\ \E l \in EmergencyPcs : Goto(t, l)
  BY <1>4 DEF OpenShell, JoinEmergency, ShellMissing, EmergencyPcs
<1>5. ASSUME NEW r \in Requests, Request(r) \/ PowerStep(r) \/ ForceOff(r)
      PROVE  UNCHANGED <<startVars, pc>>
  BY <1>5 DEF Request, PowerStep, SetReady, AlreadySet, GetServices, Down, DownRefused,
              SweepDone, Unmount, Reboot, RebootFails, ForceOff
<1>6. ASSUME NEW r \in Requests, Request(r) \/ PowerStep(r) \/ ForceOff(r)
      PROVE  \A u \in Svc : child'[u] = "none" <=> child[u] = "none"
  <2>1. CASE Down(r)
    BY <2>1 DEF Down, TypeInv, TypeOK
  <2>2. ~Down(r) => UNCHANGED child
    BY <1>6 DEF Request, PowerStep, SetReady, AlreadySet, GetServices, DownRefused, SweepDone,
                Unmount, Reboot, RebootFails, ForceOff
  <2> QED
    BY <2>1, <2>2
<1>7. EmergencyPcs \subseteq TaskPcs \ {"none"}
  BY DEF EmergencyPcs, TaskPcs
<1>8. CASE \E t \in Tasks, l \in TaskPcs \ {"none"} :
             /\ Goto(t, l) /\ pc[t] # "none" /\ UNCHANGED <<startVars, child>>
             /\ t = Main => {pc[Main], l} \subseteq EmergencyPcs
  <2>1. PICK t \in Tasks, l \in TaskPcs \ {"none"} :
          /\ Goto(t, l) /\ pc[t] # "none" /\ UNCHANGED <<startVars, child>>
          /\ t = Main => {pc[Main], l} \subseteq EmergencyPcs
    BY <1>8
  <2>2. /\ \A u \in Tasks : pc'[u] = "none" <=> pc[u] = "none"
        /\ pc'[Main] = pc[Main] \/ {pc[Main], pc'[Main]} \subseteq EmergencyPcs
    BY <2>1, TaskFrame
  <2> QED
    BY <2>1, <2>2
<1>9. CASE UNCHANGED <<startVars, pc>> /\ \A u \in Svc : child'[u] = "none" <=> child[u] = "none"
  BY <1>9
<1>10. CASE \E s \in Svc : ServiceTasks(s) \/ WatchFails(s) \/ ChildExits(s)
  BY <1>1, <1>2, <1>8, <1>9, <1>10
<1>11. CASE \E k \in Sockets : StartTask(Sock(k), "listening") \/ SockFails(k)
  BY <1>3, <1>8, <1>11
<1>12. CASE \E t \in Tasks : OpenShell(t) \/ JoinEmergency(t) \/ ShellMissing(t)
  <2>1. PICK t \in Tasks : OpenShell(t) \/ JoinEmergency(t) \/ ShellMissing(t)
    BY <1>12
  <2>2. PICK l \in EmergencyPcs : Goto(t, l)
    BY <1>4, <2>1
  <2>3. UNCHANGED <<startVars, child>> /\ pc[t] \in EmergencyPcs
    BY <1>4, <2>1
  <2> QED
    BY <1>7, <1>8, <2>2, <2>3
<1>13. CASE \E r \in Requests : Request(r) \/ PowerStep(r) \/ ForceOff(r)
  BY <1>5, <1>6, <1>9, <1>13
<1> QED
  BY <1>10, <1>11, <1>12, <1>13 DEF OtherStep

----------------------------------------------------------------------------
(* Main's part of the invariant.                                           *)

LEMMA StartOther ==
  ASSUME IInv, cfg' = cfg, OtherStep
  PROVE  StartInv' /\ MainInv'
<1>1. /\ UNCHANGED <<cur, body, up, process, log, cached, outServices, published>>
      /\ pc'[Main] = pc[Main] \/ {pc[Main], pc'[Main]} \subseteq EmergencyPcs
      /\ \A s \in Svc : child'[s] = "none" <=> child[s] = "none"
  BY Frame DEF IInv, startVars
<1>2. \A s \in Svc : Handed(s)' = Handed(s)
  BY <1>1 DEF Handed
<1>3. StartInv'
  BY <1>1, <1>2 DEF IInv, StartInv
<1>4. MainInv'
  BY <1>1 DEF IInv, TypeInv, MainInv, EmergencyPcs, Loop
<1> QED
  BY <1>3, <1>4

\* The service in hand has not been handed over yet.
LEMMA NotYetHanded == ASSUME IInv, cur \in Svc PROVE ~Handed(cur)
<1>1. \A i \in 1..Len(outServices) : outServices[i] \in Svc /\ outServices[i] < cur
  BY DEF IInv, StartInv, TypeInv, TypeOK
<1> QED
  BY <1>1 DEF Handed, Svc

\* Steps of main that only move it, or only write body, up, process and log.
MoveSteps == \/ SetUpFails \/ CheckReady \/ PrepareFails
             \/ RunOnceSucceeds \/ RunOnceFails \/ CacheFails
FieldSteps == SpawnFails \/ Spawn \/ Establish \/ EstablishFails \/ HandOverFails

LEMMA MainLabel ==
  ASSUME TypeInv, NEW l \in TaskPcs, Goto(Main, l) PROVE pc'[Main] = l
  BY GotoStep, TaskNames DEF TypeInv, TypeOK

LEMMA StartMove == ASSUME IInv, cfg' = cfg, MoveSteps PROVE StartInv' /\ MainInv'
<1>1. UNCHANGED <<cur, body, up, process, log, cached, outServices, published, child>>
  BY DEF MoveSteps, SetUpFails, CheckReady, PrepareFails, RunOnceSucceeds, RunOnceFails,
         CacheFails, startVars
<1>2. \A s \in Svc : Handed(s)' = Handed(s)
  BY <1>1 DEF Handed
<1>3. StartInv'
  BY <1>1, <1>2 DEF IInv, StartInv
<1>4. ~published
  BY DEF IInv, MainInv, MoveSteps, SetUpFails, CheckReady, PrepareFails, RunOnceSucceeds,
         RunOnceFails, CacheFails
<1>5. \/ pc'[Main] \in {"fatal", "exec"}
      \/ pc'[Main] = "cache" /\ (cfg[cur].optional \/ cfg[cur].pattern = "RunOnce")
  <2>1. CASE SetUpFails \/ CheckReady \/ CacheFails
    BY <2>1, MainLabel DEF IInv, SetUpFails, CheckReady, CacheFails, TaskPcs, EmergencyPcs
  <2>2. CASE PrepareFails \/ RunOnceFails
    <3>1. PICK l \in TaskPcs : Goto(Main, l) /\ l = Assess(cur)
      BY <2>2, Labels DEF PrepareFails, RunOnceFails, TaskPcs, EmergencyPcs
    <3> QED
      BY <3>1, MainLabel DEF IInv, Assess
  <2>3. CASE RunOnceSucceeds
    BY <2>3, MainLabel DEF IInv, MainInv, RunOnceSucceeds, TaskPcs
  <2> QED
    BY <2>1, <2>2, <2>3 DEF MoveSteps
<1>6. MainInv'
  BY <1>1, <1>4, <1>5 DEF MainInv
<1> QED
  BY <1>3, <1>6

LEMMA StartFields == ASSUME IInv, cfg' = cfg, FieldSteps PROVE StartInv' /\ MainInv'
<1>1. /\ UNCHANGED <<cur, cached, outServices, published>>
      /\ cur \in Svc /\ ~published
  BY DEF FieldSteps, SpawnFails, Spawn, Establish, EstablishFails, HandOverFails,
         IInv, TypeInv, MainInv, Loop
<1>2. \A s \in Svc : Handed(s)' = Handed(s)
  BY <1>1 DEF Handed
<1>3. ~Handed(cur) /\ process[cur] # "Foreign"
  BY <1>1, NotYetHanded DEF IInv, StartInv
<1>4. ASSUME NEW s \in Svc, s # cur
      PROVE  /\ process'[s] = process[s] /\ log'[s] = log[s] /\ up'[s] = up[s]
             /\ body'[s] = body[s] /\ child'[s] = child[s]
  BY <1>1, <1>4 DEF FieldSteps, SpawnFails, Spawn, DefaultBody, Establish, EstablishFails,
                    HandOverFails, IInv, TypeInv, TypeOK
<1>5. /\ process'[cur] # "Foreign"
      /\ process'[cur] # "Nobody" => child'[cur] # "none"
      /\ body'[cur] \in {"PreExecution", cfg[cur].pattern}
  <2>1. CASE SpawnFails \/ Spawn
    BY <1>1, <1>3, <2>1 DEF SpawnFails, Spawn, DefaultBody, IInv, TypeInv, TypeOK, StartInv
  <2>2. CASE Establish \/ EstablishFails \/ HandOverFails
    BY <1>1, <1>3, <2>2 DEF Establish, EstablishFails, HandOverFails, IInv, TypeInv, TypeOK,
                            StartInv, MainInv
  <2> QED
    BY <2>1, <2>2 DEF FieldSteps
<1>6. StartInv'
  BY <1>1, <1>2, <1>3, <1>4, <1>5 DEF IInv, StartInv
<1>7. CASE SpawnFails \/ EstablishFails
  <2>1. PICK l \in TaskPcs : Goto(Main, l) /\ l = Assess(cur)
    BY <1>7, Labels DEF SpawnFails, EstablishFails, TaskPcs, EmergencyPcs
  <2>2. \/ pc'[Main] = "fatal"
        \/ pc'[Main] = "cache" /\ cfg[cur].optional
    BY <2>1, MainLabel DEF IInv, Assess
  <2>3. MainInv'
    BY <1>1, <2>2 DEF MainInv
  <2> QED
    BY <1>6, <2>3
<1>8. CASE Spawn
  <2>1. /\ cfg[cur].pattern \in {"Standard", "RunOnce"}
        /\ child'[cur] = "running"
    BY <1>1, <1>8 DEF Spawn, IInv, TypeInv, TypeOK, Config
  <2>2. PICK l \in TaskPcs : /\ Goto(Main, l)
                             /\ l = IF cfg[cur].pattern = "Standard" THEN "establish" ELSE "once"
    BY <1>8 DEF Spawn, TaskPcs
  <2>3. pc'[Main] = IF cfg[cur].pattern = "Standard" THEN "establish" ELSE "once"
    BY <2>2, MainLabel DEF IInv
  <2>4. MainInv'
    BY <1>1, <2>1, <2>3 DEF MainInv
  <2> QED
    BY <1>6, <2>4
<1>9. CASE Establish
  <2>1. pc'[Main] = "cache" /\ up'[cur]
    BY <1>1, <1>9, MainLabel DEF Establish, IInv, TypeInv, TypeOK, TaskPcs
  <2>2. MainInv'
    BY <1>1, <2>1 DEF MainInv
  <2> QED
    BY <1>6, <2>2
<1>10. CASE HandOverFails
  <2>1. pc'[Main] = "fatal"
    BY <1>10, MainLabel DEF HandOverFails, IInv, TaskPcs, EmergencyPcs
  <2>2. MainInv'
    BY <1>1, <2>1 DEF MainInv
  <2> QED
    BY <1>6, <2>2
<1> QED
  BY <1>7, <1>8, <1>9, <1>10 DEF FieldSteps

LEMMA StartAdvance ==
  ASSUME IInv, cfg' = cfg, SetUp \/ ForkingPanics \/ WriteCache \/ RunOnceDone \/ Publish
  PROVE  StartInv' /\ MainInv'
<1>1. UNCHANGED <<body, up, process, log, outServices, child>>
  BY DEF SetUp, ForkingPanics, WriteCache, RunOnceDone, NextService, Publish, startVars
<1>2. \A s \in Svc : Handed(s)' = Handed(s)
  BY <1>1 DEF Handed
<1>3. /\ cur \in Int /\ cached \subseteq cached' /\ ~published
      /\ cur' = cur \/ (cur' = cur + 1 /\ cur \in cached /\ cfg[cur].pattern # "Standard")
  BY CountAssumption
  DEF SetUp, ForkingPanics, WriteCache, RunOnceDone, NextService, Publish, startVars,
      IInv, TypeInv, TypeOK, MainInv
<1>4. StartInv'
  <2>1. \A s \in Svc : s < cur' => s \in cached' /\ (cfg[s].pattern = "Standard" => Handed(s))
    BY <1>3 DEF IInv, StartInv, Svc
  <2>2. \A i \in 1..Len(outServices) : outServices[i] \in Int /\ outServices[i] < cur
    <3>1. \A i \in 1..Len(outServices) : outServices[i] \in Svc
      BY DEF IInv, TypeInv, TypeOK
    <3> QED
      BY <3>1 DEF IInv, StartInv, Svc
  <2>3. \A i \in 1..Len(outServices) : outServices[i] < cur'
    BY <1>3, <2>2
  <2> QED
    BY <1>1, <1>2, <2>1, <2>3 DEF IInv, StartInv
<1>5. MainInv'
  <2>1. CASE SetUp
    <3>1. pc'[Main] = LoopAt(1) /\ cur = 1 /\ cur' = 1 /\ published' = published
      BY <2>1, TaskNames, Labels DEF SetUp, IInv, TypeInv, TypeOK, startVars
    <3>2. LoopAt(1) = "ready" \/ (LoopAt(1) = "publish" /\ NumServices = 0)
      BY CountAssumption DEF LoopAt, Svc
    <3> QED
      BY <1>3, <3>1, <3>2 DEF MainInv
  <2>2. CASE ForkingPanics
    BY <1>1, <2>2 DEF ForkingPanics, IInv, MainInv, startVars
  <2>3. CASE WriteCache
    <3>1. pc'[Main] = "handover" /\ cur \in cached' /\ cur' = cur /\ published' = published
      BY <2>3, MainLabel DEF WriteCache, IInv, TaskPcs
    <3> QED
      BY <1>1, <1>3, <2>3, <3>1 DEF WriteCache, IInv, MainInv
  <2>4. CASE RunOnceDone
    <3>1. pc'[Main] = LoopAt(cur + 1) /\ cur' = cur + 1 /\ published' = published /\ cur \in Svc
      BY <2>4, MainLabel, Labels DEF RunOnceDone, NextService, IInv, TypeInv, TaskPcs, Loop
    <3>2. LoopAt(cur + 1) = "ready" \/ (LoopAt(cur + 1) = "publish" /\ cur + 1 = NumServices + 1)
      BY <3>1, CountAssumption DEF LoopAt, Svc
    <3> QED
      BY <1>3, <3>1, <3>2 DEF MainInv
  <2>5. CASE Publish
    <3>1. pc'[Main] = "done" /\ cur' = cur /\ cur = NumServices + 1
      BY <2>5, MainLabel DEF Publish, IInv, MainInv, TaskPcs
    <3> QED
      BY <3>1 DEF MainInv
  <2> QED
    BY <2>1, <2>2, <2>3, <2>4, <2>5
<1> QED
  BY <1>4, <1>5

LEMMA StartHandOver == ASSUME IInv, cfg' = cfg, HandOver PROVE StartInv' /\ MainInv'
<1>1. /\ cur \in Svc /\ cur \in Int /\ ~Handed(cur) /\ ~published
      /\ cfg[cur].pattern = "Standard" /\ (up[cur] \/ cfg[cur].optional) /\ cur \in cached
      /\ child[cur] # "none"
  <2>1. cur \in Svc /\ cur \in Int
    BY DEF HandOver, IInv, TypeInv, Loop, Svc
  <2>2. body[cur] = "Standard" /\ process[cur] = "This"
    BY DEF HandOver
  <2> QED
    BY <2>1, <2>2, NotYetHanded DEF HandOver, IInv, StartInv, MainInv
<1>2. /\ outServices \in Seq(Svc) /\ outServices' = Append(outServices, cur)
      /\ cur' = cur + 1
      /\ UNCHANGED <<body, up, cached, published, child>>
  BY DEF HandOver, NextService, IInv, TypeInv, TypeOK
<1>3. /\ Len(outServices') = Len(outServices) + 1 /\ Len(outServices) \in Nat
      /\ \A i \in 1..Len(outServices) : outServices'[i] = outServices[i]
      /\ outServices'[Len(outServices) + 1] = cur
  BY <1>1, <1>2
<1>4. \A i \in 1..Len(outServices) : outServices[i] \in Int /\ outServices[i] < cur
  <2>1. \A i \in 1..Len(outServices) : outServices[i] \in Svc
    BY <1>2
  <2> QED
    BY <2>1 DEF IInv, StartInv, Svc
<1>5. \A s \in Svc : Handed(s)' <=> Handed(s) \/ s = cur
  BY <1>3 DEF Handed
<1>6. \A i \in 1..Len(outServices') : outServices'[i] < cur'
  BY <1>1, <1>2, <1>3, <1>4
<1>7. \A i, j \in 1..Len(outServices') : i < j => outServices'[i] < outServices'[j]
  <2>1. \A i, j \in 1..Len(outServices) : i < j => outServices[i] < outServices[j]
    BY DEF IInv, StartInv
  <2>2. SUFFICES ASSUME NEW i \in 1..Len(outServices'), NEW j \in 1..Len(outServices'), i < j
                 PROVE  outServices'[i] < outServices'[j]
    OBVIOUS
  <2>3. CASE j \in 1..Len(outServices)
    BY <1>3, <2>1, <2>2, <2>3
  <2>4. CASE j = Len(outServices) + 1
    BY <1>3, <1>4, <2>2, <2>4
  <2> QED
    BY <1>3, <2>3, <2>4
<1>8. \A s \in Svc : /\ s # cur => process'[s] = process[s] /\ log'[s] = log[s]
                     /\ s = cur => process'[s] = "Foreign" /\ log'[s] = "Foreign"
  BY <1>1 DEF HandOver, IInv, TypeInv, TypeOK
<1>9. \A s \in Svc : s < cur' => s < cur \/ s = cur
  BY <1>1, <1>2 DEF Svc
<1>10. StartInv'
  BY <1>1, <1>2, <1>5, <1>6, <1>7, <1>8, <1>9 DEF IInv, StartInv
<1>11. MainInv'
  <2>1. pc'[Main] = LoopAt(cur + 1)
    BY <1>1, TaskNames DEF HandOver, IInv, TypeInv, TypeOK
  <2>2. LoopAt(cur + 1) = "ready" \/ (LoopAt(cur + 1) = "publish" /\ cur + 1 = NumServices + 1)
    BY <1>1, CountAssumption DEF LoopAt, Svc
  <2> QED
    BY <1>1, <1>2, <2>1, <2>2 DEF MainInv
<1> QED
  BY <1>10, <1>11

LEMMA StartStep == ASSUME IInv, [Next]_vars PROVE StartInv' /\ MainInv'
<1>1. CASE UNCHANGED coreVars
  BY <1>1 DEF IInv, StartInv, MainInv, Handed, coreVars, startVars
<1>2. CASE cfg' = cfg /\ (MainStep \/ OtherStep)
  BY <1>2, StartMove, StartFields, StartAdvance, StartHandOver, StartOther
  DEF MainStep, MoveSteps, FieldSteps
<1> QED
  BY <1>1, <1>2, StepKinds

----------------------------------------------------------------------------
(* The tasks and the emergency shell.                                      *)

\* A Goto whose source and target are both with, or both without, the shell.
LEMMA ShellFrame ==
  ASSUME TypeInv, NEW t \in Tasks, NEW l \in TaskPcs, Goto(t, l),
         pc[t] \in {"shell", "noshell"} <=> l \in {"shell", "noshell"}
  PROVE  ShellTasks' = ShellTasks
<1>1. pc'[t] = l /\ \A u \in Tasks \ {t} : pc'[u] = pc[u]
  BY GotoStep DEF TypeInv, TypeOK
<1> QED
  BY <1>1 DEF ShellTasks

\* Main's steps other than the two that create tasks.
LEMMA MainGoto ==
  ASSUME IInv, MainStep, ~SetUp, ~HandOver
  PROVE  /\ UNCHANGED <<outServices, initState>>
         /\ pc[Main] \in Loop \cup {"setup", "publish"}
         /\ UNCHANGED pc \/ \E l \in Loop \cup {"fatal", "publish", "done"} : Goto(Main, l)
<1>1. UNCHANGED <<outServices, initState>>
  BY DEF MainStep, SetUpFails, CheckReady, ForkingPanics, PrepareFails, SpawnFails, Spawn,
         Establish, EstablishFails, RunOnceSucceeds, RunOnceFails, WriteCache, CacheFails,
         RunOnceDone, NextService, HandOverFails, Publish, startVars
<1>2. pc[Main] \in Loop \cup {"setup", "publish"}
  BY DEF MainStep, SetUpFails, CheckReady, ForkingPanics, PrepareFails, SpawnFails, Spawn,
         Establish, EstablishFails, RunOnceSucceeds, RunOnceFails, WriteCache, CacheFails,
         RunOnceDone, HandOverFails, Publish, Loop
<1>3. UNCHANGED pc \/ \E l \in Loop \cup {"fatal", "publish", "done"} : Goto(Main, l)
  <2>1. CASE ForkingPanics
    BY <2>1 DEF ForkingPanics
  <2>2. CASE SetUpFails \/ CacheFails \/ HandOverFails
    BY <2>2 DEF SetUpFails, CacheFails, HandOverFails
  <2>3. CASE CheckReady \/ WriteCache \/ Establish \/ Publish
    BY <2>3 DEF CheckReady, WriteCache, Establish, Publish, Loop
  <2>4. CASE PrepareFails \/ SpawnFails \/ EstablishFails \/ RunOnceFails
    BY <2>4, Labels DEF PrepareFails, SpawnFails, EstablishFails, RunOnceFails, Loop
  <2>5. CASE Spawn
    BY <2>5 DEF Spawn, Loop
  <2>6. CASE RunOnceSucceeds
    BY <2>6 DEF RunOnceSucceeds, Loop
  <2>7. CASE RunOnceDone
    BY <2>7, Labels DEF RunOnceDone, Loop
  <2> QED
    BY <2>1, <2>2, <2>3, <2>4, <2>5, <2>6, <2>7 DEF MainStep
<1> QED
  BY <1>1, <1>2, <1>3

LEMMA TaskMain == ASSUME IInv, cfg' = cfg, MainStep PROVE TaskInv'
<1>1. CASE SetUp
  <2>1. /\ pc'[Main] \in {"ready", "publish"}
        /\ \A t \in Tasks \ {Main} : /\ t \in {Sock(k) : k \in Sockets} => pc'[t] = "queued"
                                     /\ t \notin {Sock(k) : k \in Sockets} => pc'[t] = pc[t]
    BY <1>1, TaskNames, Labels DEF SetUp
  <2>2. pc[Main] = "setup" /\ \A k \in Sockets : pc[Sock(k)] = "none"
    BY <1>1 DEF SetUp, IInv, TaskInv
  <2>3. \A s \in Svc : /\ pc'[Sup(s)] = pc[Sup(s)] /\ pc'[Watch(s)] = pc[Watch(s)]
                       /\ Handed(s)' = Handed(s)
    BY <1>1, <2>1, TaskNames DEF SetUp, startVars, Handed
  <2>4. ShellTasks' = ShellTasks
    BY <2>1, <2>2 DEF ShellTasks
  <2> QED
    BY <1>1, <2>1, <2>3, <2>4 DEF SetUp, IInv, TaskInv, EmergencyShellOnce
<1>2. CASE HandOver
  <2>1. cur \in Svc /\ ~Handed(cur) /\ pc[Main] = "handover"
    BY <1>2, NotYetHanded DEF HandOver, IInv, TypeInv, Loop
  <2>2. /\ pc'[Main] = LoopAt(cur + 1) /\ pc'[Sup(cur)] = "queued" /\ pc'[Watch(cur)] = "queued"
        /\ \A t \in Tasks \ {Main, Sup(cur), Watch(cur)} : pc'[t] = pc[t]
    BY <1>2, <2>1, TaskNames DEF HandOver, IInv, TypeInv, TypeOK
  <2>3. \A s \in Svc : Handed(s)' <=> Handed(s) \/ s = cur
    <3>1. outServices \in Seq(Svc) /\ outServices' = Append(outServices, cur)
      BY <1>2 DEF HandOver, IInv, TypeInv, TypeOK
    <3>2. /\ Len(outServices') = Len(outServices) + 1 /\ Len(outServices) \in Nat
          /\ \A i \in 1..Len(outServices) : outServices'[i] = outServices[i]
          /\ outServices'[Len(outServices) + 1] = cur
      BY <2>1, <3>1
    <3> QED
      BY <3>2 DEF Handed
  <2>4. pc[Sup(cur)] = "none" /\ pc[Watch(cur)] = "none"
    BY <2>1 DEF IInv, TaskInv
  <2>5. \A s \in Svc \ {cur} : pc'[Sup(s)] = pc[Sup(s)] /\ pc'[Watch(s)] = pc[Watch(s)]
    BY <2>1, <2>2, TaskNames
  <2>6. ShellTasks' = ShellTasks
    BY <2>1, <2>2, <2>4, Labels DEF ShellTasks
  <2>7. initState' = initState /\ pc'[Main] # "setup"
    BY <1>2, <2>2, Labels DEF HandOver, NextService
  <2> QED
    BY <2>1, <2>2, <2>3, <2>5, <2>6, <2>7 DEF IInv, TaskInv, EmergencyShellOnce
<1>3. CASE ~SetUp /\ ~HandOver
  <2>1. /\ UNCHANGED <<outServices, initState>>
        /\ pc[Main] \in Loop \cup {"setup", "publish"}
        /\ UNCHANGED pc \/ \E l \in Loop \cup {"fatal", "publish", "done"} : Goto(Main, l)
    BY <1>3, MainGoto
  <2>2. \A s \in Svc : Handed(s)' = Handed(s)
    BY <2>1 DEF Handed
  <2>3. CASE UNCHANGED pc
    BY <2>1, <2>2, <2>3 DEF IInv, TaskInv, EmergencyShellOnce, ShellTasks
  <2>4. ASSUME NEW l \in Loop \cup {"fatal", "publish", "done"}, Goto(Main, l) PROVE TaskInv'
    <3>1. l \in TaskPcs
      BY Labels DEF EmergencyPcs
    <3>2. pc'[Main] = l /\ \A t \in Tasks \ {Main} : pc'[t] = pc[t]
      BY <2>4, <3>1, GotoStep, TaskNames DEF IInv, TypeInv, TypeOK
    <3>3. ShellTasks' = ShellTasks
      BY <2>1, <2>4, <3>1, ShellFrame, TaskNames DEF IInv, Loop
    <3> QED
      BY <2>1, <2>2, <2>4, <3>2, <3>3, TaskNames DEF IInv, TaskInv, EmergencyShellOnce, Loop
  <2> QED
    BY <2>1, <2>3, <2>4
<1> QED
  BY <1>1, <1>2, <1>3

\* Only the tasks that call fatal() touch INIT_STATE and the shell.
LEMMA ShellOther == ASSUME IInv, OtherStep PROVE EmergencyShellOnce'
<1>0. EmergencyShellOnce /\ TypeInv
  BY DEF IInv, TaskInv
<1>1. CASE ShellTasks' = ShellTasks /\ initState' = initState
  BY <1>0, <1>1 DEF EmergencyShellOnce
<1>2. ASSUME NEW s \in Svc, ServiceTasks(s) \/ WatchFails(s) PROVE EmergencyShellOnce'
  <2>1. Sup(s) \in Tasks /\ Watch(s) \in Tasks
    BY TaskNames
  <2>2. PICK t \in Tasks, l \in TaskPcs :
          /\ Goto(t, l) /\ initState' = initState
          /\ pc[t] \notin {"shell", "noshell"} /\ l \notin {"shell", "noshell"}
    BY <1>2, <2>1 DEF ServiceTasks, WatchFails, StartTask, SupWakes, SupRetires, SupReports,
                      TaskPcs, EmergencyPcs
  <2> QED
    BY <1>0, <1>1, <2>2, ShellFrame
<1>3. ASSUME NEW k \in Sockets, StartTask(Sock(k), "listening") \/ SockFails(k)
      PROVE  EmergencyShellOnce'
  <2>1. PICK l \in TaskPcs :
          /\ Goto(Sock(k), l) /\ initState' = initState
          /\ pc[Sock(k)] \notin {"shell", "noshell"} /\ l \notin {"shell", "noshell"}
    BY <1>3 DEF StartTask, SockFails, TaskPcs, EmergencyPcs
  <2> QED
    BY <1>0, <1>1, <2>1, ShellFrame, TaskNames
<1>4. ASSUME NEW t \in Tasks, OpenShell(t) PROVE EmergencyShellOnce'
  <2>1. ShellTasks = {} /\ initState' = "Emergency"
    BY <1>0, <1>4 DEF OpenShell, EmergencyShellOnce
  <2>2. pc'[t] = "shell" /\ \A u \in Tasks \ {t} : pc'[u] = pc[u]
    BY <1>0, <1>4, GotoStep DEF OpenShell, TypeInv, TypeOK, TaskPcs, EmergencyPcs
  <2>3. ShellTasks' = {t}
    BY <2>1, <2>2 DEF ShellTasks
  <2> QED
    BY <2>1, <2>3 DEF EmergencyShellOnce
<1>5. ASSUME NEW t \in Tasks, JoinEmergency(t) \/ ShellMissing(t) PROVE EmergencyShellOnce'
  <2>1. PICK l \in TaskPcs :
          /\ Goto(t, l) /\ initState' = initState
          /\ pc[t] \in {"shell", "noshell"} <=> l \in {"shell", "noshell"}
    BY <1>5 DEF JoinEmergency, ShellMissing, TaskPcs, EmergencyPcs
  <2> QED
    BY <1>0, <1>1, <2>1, ShellFrame
<1>6. ASSUME NEW s \in Svc, ChildExits(s) PROVE EmergencyShellOnce'
  BY <1>1, <1>6 DEF ChildExits, ShellTasks
<1>7. ASSUME NEW r \in Requests, Request(r) \/ PowerStep(r) \/ ForceOff(r)
      PROVE  EmergencyShellOnce'
  <2>1. UNCHANGED <<pc, initState>>
    BY <1>7 DEF Request, PowerStep, SetReady, AlreadySet, GetServices, Down, DownRefused,
                SweepDone, Unmount, Reboot, RebootFails, ForceOff
  <2> QED
    BY <1>1, <2>1 DEF ShellTasks
<1> QED
  BY <1>2, <1>3, <1>4, <1>5, <1>6, <1>7 DEF OtherStep

LEMMA TaskStep == ASSUME IInv, [Next]_vars PROVE TaskInv'
<1>1. CASE UNCHANGED coreVars
  BY <1>1 DEF IInv, TaskInv, EmergencyShellOnce, ShellTasks, Handed, coreVars, startVars
<1>2. CASE MainStep /\ cfg' = cfg
  BY <1>2, TaskMain
<1>3. CASE OtherStep
  <2>1. /\ UNCHANGED <<cur, body, up, process, log, cached, outServices, published>>
        /\ \A t \in Tasks : pc'[t] = "none" <=> pc[t] = "none"
        /\ pc'[Main] = pc[Main] \/ {pc[Main], pc'[Main]} \subseteq EmergencyPcs
    BY <1>3, Frame DEF IInv, startVars
  <2>2. \A s \in Svc : Handed(s)' = Handed(s)
    BY <2>1 DEF Handed
  <2>3. pc'[Main] = "setup" => pc[Main] = "setup"
    BY <2>1 DEF EmergencyPcs
  <2> QED
    BY <1>3, <2>1, <2>2, <2>3, ShellOther, TaskNames DEF IInv, TaskInv
<1> QED
  BY <1>1, <1>2, <1>3, StepKinds

----------------------------------------------------------------------------
(* The children and their supervisors.                                     *)

LEMMA KillMain == ASSUME IInv, cfg' = cfg, MainStep PROVE KillInv'
<1>1. powerOffReady' = powerOffReady
  BY DEF MainStep, SetUp, SetUpFails, CheckReady, ForkingPanics, PrepareFails, SpawnFails, Spawn,
         Establish, EstablishFails, RunOnceSucceeds, RunOnceFails, WriteCache, CacheFails,
         RunOnceDone, HandOver, NextService, HandOverFails, Publish, powerVars
<1>2. ASSUME NEW s \in Svc
      PROVE  pc'[Sup(s)] = pc[Sup(s)] \/ pc'[Sup(s)] = "queued"
  <2>1. CASE SetUp
    BY <2>1, TaskNames DEF SetUp
  <2>2. CASE HandOver
    <3>1. cur \in Svc
      BY <2>2 DEF HandOver, IInv, TypeInv, Loop
    <3>2. pc' = [pc EXCEPT ![Main] = LoopAt(cur + 1), ![Watch(cur)] = "queued", ![Sup(cur)] = "queued"]
      BY <2>2 DEF HandOver
    <3> QED
      BY <3>1, <3>2, TaskNames DEF IInv, TypeInv, TypeOK
  <2>3. CASE ~SetUp /\ ~HandOver
    BY <2>3, MainGoto, TaskNames DEF Goto, IInv, TypeInv, TypeOK
  <2> QED
    BY <2>1, <2>2, <2>3
<1>3. CASE UNCHANGED child
  BY <1>1, <1>2, <1>3 DEF IInv, KillInv, KilledNotFatal, Dead
<1>4. CASE Spawn
  <2>1. cur \in Svc /\ ~Handed(cur) /\ pc[Sup(cur)] = "none"
    BY <1>4, NotYetHanded DEF Spawn, IInv, TypeInv, TaskInv, Loop
  <2>2. child'[cur] = "running" /\ \A s \in Svc \ {cur} : child'[s] = child[s]
    BY <1>4, <2>1 DEF Spawn, IInv, TypeInv, TypeOK
  <2> QED
    BY <1>1, <1>2, <2>1, <2>2 DEF IInv, KillInv, KilledNotFatal, Dead
<1>5. ~Spawn => UNCHANGED child
  BY DEF MainStep, SetUp, SetUpFails, CheckReady, ForkingPanics, PrepareFails, SpawnFails,
         Establish, EstablishFails, RunOnceSucceeds, RunOnceFails, WriteCache, CacheFails,
         RunOnceDone, HandOver, NextService, HandOverFails, Publish
<1> QED
  BY <1>3, <1>4, <1>5

\* A step of some other task than the supervisor of s leaves it where it is.
LEMMA KillOther == ASSUME IInv, cfg' = cfg, OtherStep PROVE KillInv'
<1>0. TypeInv /\ KillInv /\ pc \in [Tasks -> TaskPcs]
  BY DEF IInv, TypeInv, TypeOK
<1>1. ASSUME NEW u \in Svc, ServiceTasks(u) PROVE KillInv'
  <2>1. /\ UNCHANGED <<child, powerOffReady>>
        /\ \A s \in Svc \ {u} : pc'[Sup(s)] = pc[Sup(s)]
    BY <1>0, <1>1, TaskNames DEF ServiceTasks, StartTask, SupWakes, SupRetires, SupReports, Goto, powerVars
  <2>2. CASE StartTask(Sup(u), "waiting")
    <3>1. pc[Sup(u)] = "queued" /\ pc'[Sup(u)] = "waiting"
      BY <1>0, <2>2, TaskNames DEF StartTask, Goto
    <3> QED
      BY <1>0, <2>1, <3>1 DEF KillInv, KilledNotFatal, Dead
  <2>3. CASE SupWakes(u) \/ SupRetires(u)
    <3>1. pc'[Sup(u)] \in {"woken", "retired"} /\ (Dead(u) \/ pc[Sup(u)] = "woken")
      BY <1>0, <2>3, TaskNames DEF SupWakes, SupRetires, Goto
    <3>2. Dead(u)
      BY <1>0, <3>1 DEF KillInv
    <3> QED
      BY <1>0, <2>1, <3>1, <3>2 DEF KillInv, KilledNotFatal, Dead
  <2>4. CASE SupReports(u)
    <3>1. ~powerOffReady /\ pc[Sup(u)] = "woken"
      BY <2>4 DEF SupReports
    <3>2. child[u] = "exited"
      BY <1>0, <3>1 DEF KillInv, Dead
    <3> QED
      BY <1>0, <2>1, <3>1, <3>2 DEF KillInv, KilledNotFatal, Dead
  <2>5. CASE StartTask(Watch(u), "watching")
    <3>1. pc'[Sup(u)] = pc[Sup(u)]
      BY <1>0, <2>5, TaskNames DEF StartTask, Goto
    <3> QED
      BY <1>0, <2>1, <3>1 DEF KillInv, KilledNotFatal, Dead
  <2> QED
    BY <1>1, <2>2, <2>3, <2>4, <2>5 DEF ServiceTasks
<1>2. CASE \A s \in Svc : pc'[Sup(s)] = pc[Sup(s)] /\ child'[s] = child[s]
  <2>1. powerOffReady => powerOffReady'
    BY DEF OtherStep, ServiceTasks, WatchFails, ChildExits, StartTask, SockFails, SupWakes,
           SupRetires, SupReports, OpenShell, JoinEmergency, ShellMissing, Request, PowerStep,
           SetReady, AlreadySet, GetServices, Down, DownRefused, SweepDone, Unmount, Reboot,
           RebootFails, ForceOff, powerVars
  <2> QED
    BY <1>0, <1>2, <2>1 DEF KillInv, KilledNotFatal, Dead
<1>3. ASSUME NEW u \in Svc, WatchFails(u) PROVE KillInv'
  BY <1>0, <1>2, <1>3, TaskNames DEF WatchFails, Goto
<1>4. ASSUME NEW k \in Sockets, StartTask(Sock(k), "listening") \/ SockFails(k) PROVE KillInv'
  BY <1>0, <1>2, <1>4, TaskNames DEF StartTask, SockFails, Goto
<1>5. ASSUME NEW t \in Tasks, OpenShell(t) \/ JoinEmergency(t) \/ ShellMissing(t) PROVE KillInv'
  <2>1. pc[t] \in EmergencyPcs /\ UNCHANGED <<child, powerOffReady>>
    BY <1>5 DEF OpenShell, JoinEmergency, ShellMissing, EmergencyPcs, powerVars
  <2>2. \A s \in Svc : pc'[Sup(s)] # pc[Sup(s)] => Sup(s) = t
    BY <1>0, <1>5, TaskNames DEF OpenShell, JoinEmergency, ShellMissing, Goto
  <2>3. \A s \in Svc : Sup(s) = t => child[s] = "exited"
    BY <1>0, <2>1 DEF KillInv, KilledNotFatal, Dead, EmergencyPcs
  <2> QED
    BY <1>0, <2>1, <2>2, <2>3 DEF KillInv, KilledNotFatal, Dead
<1>6. ASSUME NEW u \in Svc, ChildExits(u) PROVE KillInv'
  <2>1. UNCHANGED <<pc, powerOffReady>>
    BY <1>6 DEF ChildExits, powerVars
  <2>2. /\ child[u] \in {"running", "quit"}
        /\ child'[u] = IF child[u] = "running" THEN "exited" ELSE "killed"
        /\ \A s \in Svc \ {u} : child'[s] = child[s]
    BY <1>6 DEF ChildExits, IInv, TypeInv, TypeOK
  <2>3. pc[Sup(u)] \in {"none", "queued", "waiting"}
    BY <1>0, <2>2 DEF KillInv, Dead
  <2> QED
    BY <1>0, <2>1, <2>2, <2>3 DEF KillInv, KilledNotFatal, Dead
<1>7. ASSUME NEW r \in Requests, Down(r) PROVE KillInv'
  <2>1. powerOffReady /\ UNCHANGED <<pc, powerOffReady>>
    BY <1>7 DEF Down, IInv, PowerInv, PastReady
  <2>2. \A s \in Svc : child'[s] = child[s] \/ (child[s] = "running" /\ child'[s] = "quit")
    BY <1>7 DEF Down, IInv, TypeInv, TypeOK
  <2> QED
    BY <1>0, <2>1, <2>2 DEF KillInv, KilledNotFatal, Dead
<1>8. ASSUME NEW r \in Requests, Request(r) \/ PowerStep(r) \/ ForceOff(r), ~Down(r) PROVE KillInv'
  <2>1. UNCHANGED <<pc, child>>
    BY <1>8 DEF Request, PowerStep, SetReady, AlreadySet, GetServices, DownRefused, SweepDone,
                Unmount, Reboot, RebootFails, ForceOff
  <2> QED
    BY <1>2, <2>1
<1> QED
  BY <1>1, <1>3, <1>4, <1>5, <1>6, <1>7, <1>8 DEF OtherStep

LEMMA KillStep == ASSUME IInv, [Next]_vars PROVE KillInv'
<1>1. CASE UNCHANGED coreVars
  BY <1>1 DEF IInv, KillInv, KilledNotFatal, Dead, coreVars, powerVars
<1>2. CASE cfg' = cfg /\ (MainStep \/ OtherStep)
  BY <1>2, KillMain, KillOther
<1> QED
  BY <1>1, <1>2, StepKinds

----------------------------------------------------------------------------
(* The power requests.                                                     *)

\* While main still runs, no request has seen STANDARD_SERVICES set.
LEMMA PowerMain == ASSUME IInv, cfg' = cfg, MainStep PROVE PowerInv'
<1>1. pc[Main] # "done"
  BY DEF MainStep, SetUp, SetUpFails, CheckReady, ForkingPanics, PrepareFails, SpawnFails, Spawn,
         Establish, EstablishFails, RunOnceSucceeds, RunOnceFails, WriteCache, CacheFails,
         RunOnceDone, HandOver, HandOverFails, Publish
<1>2. \A r \in Requests : ~seen[r] /\ req[r] \notin {"sweep", "refused"}
  BY <1>1 DEF IInv, MainInv, PowerInv
<1>3. UNCHANGED powerVars
  BY DEF MainStep, SetUp, SetUpFails, CheckReady, ForkingPanics, PrepareFails, SpawnFails, Spawn,
         Establish, EstablishFails, RunOnceSucceeds, RunOnceFails, WriteCache, CacheFails,
         RunOnceDone, HandOver, NextService, HandOverFails, Publish
<1>4. /\ UNCHANGED <<req, pos, seen, powerOffReady>>
      /\ Sweeping' = Sweeping /\ PastReady' = PastReady
  BY <1>3 DEF powerVars, Sweeping, PastReady
<1>5. SingleSweep' /\ RefusedOnlyIfHalfUp' /\ SweepReachesAll'
  BY <1>2, <1>4 DEF IInv, PowerInv, SingleSweep, RefusedOnlyIfHalfUp, SweepReachesAll, Sweeping
<1> QED
  BY <1>2, <1>4, <1>5 DEF IInv, PowerInv

\* Steps of anyone else leave the requests alone; children only die.
LEMMA PowerOther ==
  ASSUME IInv, cfg' = cfg, UNCHANGED <<startVars, powerVars>>,
         \A s \in Svc : child'[s] = child[s]
                        \/ (child[s] \in {"running", "quit"} /\ child'[s] \in {"exited", "killed"})
  PROVE  PowerInv'
<1>1. UNCHANGED <<up, process, outServices, published, req, pos, seen, powerOffReady>>
  BY DEF startVars, powerVars
<1>2. Sweeping' = Sweeping /\ PastReady' = PastReady
  BY <1>1 DEF Sweeping, PastReady
<1>3. \A i \in 1..Len(outServices) : outServices[i] \in Svc
  BY DEF IInv, TypeInv, TypeOK
<1>4. SweepReachesAll'
  BY <1>1, <1>2, <1>3 DEF IInv, PowerInv, SweepReachesAll
<1>5. RefusedOnlyIfHalfUp' /\ SingleSweep'
  BY <1>1, <1>2 DEF IInv, PowerInv, RefusedOnlyIfHalfUp, SingleSweep, Target
<1> QED
  BY <1>1, <1>2, <1>4, <1>5 DEF IInv, PowerInv

\* One request moves; the others stay.
LEMMA StepFrame ==
  ASSUME TypeInv, NEW r \in Requests, NEW l \in ReqPcs, Step(r, l)
  PROVE  req'[r] = l /\ \A q \in Requests \ {r} : req'[q] = req[q]
  BY DEF Step, TypeInv, TypeOK

\* Requests that are not past POWER_OFF_READY, before and after the step.
LEMMA PowerOutside ==
  ASSUME IInv, cfg' = cfg, NEW r \in Requests, NEW l \in {"requested", "denied"}, Step(r, l),
         UNCHANGED <<startVars, child, pos, seen, powerOffReady>>,
         req[r] \in {"none", "requested"}
  PROVE  PowerInv'
<1>1. UNCHANGED <<up, process, outServices, published, pos, seen, powerOffReady>>
  BY DEF startVars
<1>2. req'[r] = l /\ \A q \in Requests \ {r} : req'[q] = req[q]
  BY StepFrame DEF IInv, ReqPcs
<1>3. Sweeping' = Sweeping /\ PastReady' = PastReady
  BY <1>2 DEF Sweeping, PastReady
<1>4. \A q \in Sweeping' : req'[q] = req[q]
  BY <1>2 DEF Sweeping
<1>5. SingleSweep' /\ (PastReady' # {} => powerOffReady')
  BY <1>1, <1>3 DEF IInv, PowerInv, SingleSweep
<1>6. SweepReachesAll'
  BY <1>1, <1>3, <1>4 DEF IInv, PowerInv, SweepReachesAll
<1>7. RefusedOnlyIfHalfUp'
  BY <1>1, <1>2 DEF IInv, PowerInv, RefusedOnlyIfHalfUp, Target
<1> QED
  BY <1>1, <1>2, <1>5, <1>6, <1>7 DEF IInv, PowerInv

LEMMA PowerRequest ==
  ASSUME IInv, cfg' = cfg, NEW r \in Requests, Request(r) \/ PowerStep(r) \/ ForceOff(r)
  PROVE  PowerInv'
<1>0. TypeInv /\ PowerInv
  BY DEF IInv
<1>1. CASE Request(r) \/ AlreadySet(r)
  BY <1>1, PowerOutside DEF Request, AlreadySet
<1>2. CASE Reboot(r)
  BY <1>2, PowerOther DEF Reboot
<1>3. CASE ForceOff(r)
  <2>1. CASE UNCHANGED <<startVars, powerVars, child>>
    BY <2>1, PowerOther
  <2>2. CASE Step(r, "denied")
    BY <1>3, <2>2, PowerOutside DEF ForceOff
  <2> QED
    BY <1>3, <2>1, <2>2 DEF ForceOff, powerVars
<1>4. CASE SetReady(r)
  <2>1. req'[r] = "ready" /\ \A q \in Requests \ {r} : req'[q] = req[q]
    BY <1>0, <1>4, StepFrame DEF SetReady, ReqPcs
  <2>2. powerOffReady' /\ PastReady = {} /\ req[r] = "requested"
    BY <1>0, <1>4 DEF SetReady, PowerInv
  <2>3. UNCHANGED <<up, process, outServices, published, pos, seen, child>>
    BY <1>4 DEF SetReady, startVars
  <2>4. PastReady' = {r} /\ Sweeping' = {r}
    BY <2>1, <2>2 DEF Sweeping, PastReady
  <2>5. SingleSweep' /\ SweepReachesAll'
    BY <1>0, <2>2, <2>3, <2>4 DEF PowerInv, SingleSweep, SweepReachesAll
  <2>6. RefusedOnlyIfHalfUp'
    BY <1>0, <2>1, <2>3 DEF PowerInv, RefusedOnlyIfHalfUp, Target
  <2> QED
    BY <1>0, <2>1, <2>2, <2>3, <2>5, <2>6 DEF PowerInv
<1>5. CASE GetServices(r) \/ SweepDone(r) \/ Unmount(r) \/ RebootFails(r) \/ DownRefused(r)
  <2>1. PICK l \in ReqPcs : Step(r, l) /\ l \in {"sweep", "unmount", "reboot", "failed", "refused"}
    <3>1. CASE Unmount(r)
      BY <3>1 DEF Unmount, ReqPcs
    <3>2. CASE GetServices(r) \/ SweepDone(r) \/ RebootFails(r) \/ DownRefused(r)
      BY <3>2 DEF GetServices, SweepDone, RebootFails, DownRefused, ReqPcs
    <3> QED
      BY <1>5, <3>1, <3>2
  <2>2. req'[r] = l /\ \A q \in Requests \ {r} : req'[q] = req[q]
    BY <1>0, <2>1, StepFrame
  <2>3. /\ r \in Sweeping /\ Sweeping' \subseteq {r} /\ Sweeping = {r}
        /\ PastReady = {r} /\ PastReady' = {r}
    <3>1. r \in Sweeping
      BY <1>5 DEF GetServices, SweepDone, Unmount, RebootFails, DownRefused, Sweeping
    <3>2. PastReady = {r}
      BY <1>0, <3>1 DEF PowerInv, SingleSweep, Sweeping, PastReady
    <3> QED
      BY <2>1, <2>2, <3>1, <3>2 DEF Sweeping, PastReady
  <2>4. UNCHANGED <<up, process, outServices, published, pos, child, powerOffReady>>
    BY <1>5 DEF GetServices, SweepDone, Unmount, RebootFails, DownRefused, startVars
  <2>5. SingleSweep' /\ powerOffReady'
    BY <1>0, <2>3, <2>4 DEF PowerInv, SingleSweep
  <2>6. /\ seen'[r] => published
        /\ l \in {"sweep", "refused"} => seen'[r]
        /\ \A q \in Requests \ {r} : seen'[q] = seen[q]
    BY <1>0, <1>5, <2>1, <2>2
    DEF GetServices, SweepDone, Unmount, RebootFails, DownRefused, Step, PowerInv, TypeInv, TypeOK
  <2>7. SweepReachesAll'
    <3>1. CASE GetServices(r)
      <4>1. pos[r] = 1 /\ (seen'[r] => l = "sweep")
        BY <1>0, <2>1, <2>2, <3>1 DEF GetServices, PowerInv, Step, TypeInv, TypeOK
      <4> QED
        BY <2>2, <2>3, <2>4, <4>1 DEF SweepReachesAll
    <3>2. CASE SweepDone(r)
      <4>1. req[r] = "sweep" /\ pos[r] > Len(outServices) /\ seen' = seen
        BY <3>2 DEF SweepDone
      <4>2. \A i \in 1..Len(outServices) : i < pos[r]
        BY <1>0, <4>1 DEF TypeInv, TypeOK
      <4> QED
        BY <1>0, <2>3, <2>4, <4>1, <4>2 DEF PowerInv, SweepReachesAll
    <3>3. CASE Unmount(r)
      <4>1. req[r] = "unmount" /\ seen' = seen
        BY <3>3 DEF Unmount
      <4> QED
        BY <1>0, <2>3, <2>4, <4>1 DEF PowerInv, SweepReachesAll
    <3>4. CASE DownRefused(r) \/ RebootFails(r)
      <4>1. Sweeping' = {}
        BY <1>0, <2>2, <2>3, <3>4, StepFrame DEF DownRefused, RebootFails, Step, TypeInv, TypeOK, Sweeping
      <4> QED
        BY <4>1 DEF SweepReachesAll
    <3> QED
      BY <1>5, <3>1, <3>2, <3>3, <3>4
  <2>8. RefusedOnlyIfHalfUp'
    <3>1. CASE DownRefused(r)
      <4>1. pos[r] \in 1..Len(outServices) /\ Target(r) \in Svc /\ Handed(Target(r))
        BY <1>0, <3>1 DEF DownRefused, Target, Handed, TypeInv, TypeOK
      <4>2. process[Target(r)] = "Foreign" /\ (up[Target(r)] \/ cfg[Target(r)].optional)
        BY <4>1 DEF IInv, StartInv
      <4>3. ~up[Target(r)] /\ cfg[Target(r)].optional
        BY <3>1, <4>2 DEF DownRefused
      <4> QED
        BY <1>0, <2>2, <2>4, <4>2, <4>3 DEF PowerInv, RefusedOnlyIfHalfUp, Target
    <3>2. CASE ~DownRefused(r)
      <4>1. l # "refused"
        BY <1>0, <1>5, <2>2, <3>2 DEF GetServices, SweepDone, Unmount, RebootFails, Step, TypeInv, TypeOK
      <4> QED
        BY <1>0, <2>2, <2>4, <4>1 DEF PowerInv, RefusedOnlyIfHalfUp, Target
    <3> QED
      BY <3>1, <3>2
  <2> QED
    BY <1>0, <2>1, <2>2, <2>4, <2>5, <2>6, <2>7, <2>8 DEF PowerInv
<1>6. CASE Down(r)
  <2>1. /\ req[r] = "sweep" /\ pos[r] \in 1..Len(outServices) /\ Target(r) \in Svc
        /\ UNCHANGED <<up, process, outServices, published, req, seen, powerOffReady>>
    BY <1>0, <1>6 DEF Down, Target, startVars, TypeInv, TypeOK
  <2>2. pos'[r] = pos[r] + 1 /\ \A q \in Requests \ {r} : pos'[q] = pos[q]
    BY <1>0, <1>6 DEF Down, TypeInv, TypeOK
  <2>3. /\ child'[Target(r)] \in {"none", "quit", "exited", "killed"}
        /\ child[Target(r)] # "none" => child'[Target(r)] # "none"
        /\ \A s \in Svc : child[s] \in {"quit", "exited", "killed"} => child'[s] = child[s]
    BY <1>0, <1>6, <2>1 DEF Down, TypeInv, TypeOK
  <2>4. child[Target(r)] # "none"
    BY <2>1 DEF IInv, StartInv, Handed, Target
  <2>5. Sweeping' = Sweeping /\ Sweeping = {r} /\ PastReady' = PastReady /\ PastReady = {r}
    BY <1>0, <2>1 DEF PowerInv, SingleSweep, Sweeping, PastReady
  <2>6. SweepReachesAll'
    <3>1. SUFFICES ASSUME seen[r], NEW i \in 1..Len(outServices), i < pos'[r]
                   PROVE  child'[outServices[i]] \in {"quit", "exited", "killed"}
      BY <2>1, <2>5 DEF SweepReachesAll
    <3>2. CASE i = pos[r]
      BY <2>3, <2>4, <3>2 DEF Target
    <3>3. CASE i < pos[r]
      <4>1. child[outServices[i]] \in {"quit", "exited", "killed"} /\ outServices[i] \in Svc
        BY <1>0, <2>5, <3>1, <3>3 DEF PowerInv, SweepReachesAll, TypeInv, TypeOK
      <4> QED
        BY <2>3, <4>1
    <3> QED
      BY <2>1, <2>2, <3>1, <3>2, <3>3
  <2>7. SingleSweep'
    BY <1>0, <2>5 DEF PowerInv, SingleSweep
  <2>8. RefusedOnlyIfHalfUp'
    BY <1>0, <2>1, <2>2 DEF PowerInv, RefusedOnlyIfHalfUp, Target
  <2> QED
    BY <1>0, <2>1, <2>2, <2>5, <2>6, <2>7, <2>8 DEF PowerInv
<1> QED
  BY <1>1, <1>2, <1>3, <1>4, <1>5, <1>6 DEF PowerStep

LEMMA PowerInvStep == ASSUME IInv, [Next]_vars PROVE PowerInv'
<1>1. CASE UNCHANGED coreVars
  BY <1>1, PowerOther DEF coreVars
<1>2. CASE MainStep /\ cfg' = cfg
  BY <1>2, PowerMain
<1>3. CASE cfg' = cfg /\ \E r \in Requests : Request(r) \/ PowerStep(r) \/ ForceOff(r)
  BY <1>3, PowerRequest
<1>4. ASSUME cfg' = cfg, NEW s \in Svc, ServiceTasks(s) \/ WatchFails(s) PROVE PowerInv'
  <2>1. UNCHANGED <<startVars, powerVars, child>>
    BY <1>4 DEF ServiceTasks, WatchFails, StartTask, SupWakes, SupRetires, SupReports
  <2> QED
    BY <1>4, <2>1, PowerOther
<1>5. ASSUME cfg' = cfg, NEW s \in Svc, ChildExits(s) PROVE PowerInv'
  <2>1. \A u \in Svc : child'[u] = child[u]
          \/ (child[u] \in {"running", "quit"} /\ child'[u] \in {"exited", "killed"})
    BY <1>5 DEF ChildExits, IInv, TypeInv, TypeOK
  <2> QED
    BY <1>5, <2>1, PowerOther DEF ChildExits
<1>6. ASSUME cfg' = cfg, NEW k \in Sockets, StartTask(Sock(k), "listening") \/ SockFails(k)
      PROVE  PowerInv'
  BY <1>6, PowerOther DEF StartTask, SockFails
<1>7. ASSUME cfg' = cfg, NEW t \in Tasks, OpenShell(t) \/ JoinEmergency(t) \/ ShellMissing(t)
      PROVE  PowerInv'
  BY <1>7, PowerOther DEF OpenShell, JoinEmergency, ShellMissing
<1> QED
  BY <1>1, <1>2, <1>3, <1>4, <1>5, <1>6, <1>7, StepKinds DEF OtherStep

----------------------------------------------------------------------------
(* The theorems.                                                           *)

LEMMA Inductive == IInv /\ [Next]_vars => IInv'
  BY TypeStep, StartStep, TaskStep, PowerInvStep, KillStep DEF IInv

\* IInv is an invariant; every property below is one of its parts or follows
\* from them.
THEOREM Invariance == Spec => []IInv
  BY InitInv, Inductive, PTL DEF Spec

\* At most one task ever opens the emergency shell (kickToEmergencyShell),
\* whatever number of tasks fail and in whatever order.
THEOREM ShellOnce == Spec => []EmergencyShellOnce
<1>1. IInv => EmergencyShellOnce
  BY DEF IInv, TaskInv
<1> QED
  BY <1>1, Invariance, PTL

\* No supervisor reports a service that poweroff() killed.
THEOREM NoFalseAlarm == Spec => []KilledNotFatal
<1>1. IInv => KilledNotFatal
  BY DEF IInv, KillInv
<1> QED
  BY <1>1, Invariance, PTL

\* However many requests arrive, one of them at most ever gets to kill, unmount and
\* reboot, and none after it, whether it succeeds or fails.
THEOREM OneSweep == Spec => []SingleSweep
<1>1. IInv => SingleSweep
  BY DEF IInv, PowerInv
<1> QED
  BY <1>1, Invariance, PTL

\* The sweep of poweroff() misses no service of STANDARD_SERVICES.
THEOREM SweepIsComplete == Spec => []SweepReachesAll
<1>1. IInv => SweepReachesAll
  BY DEF IInv, PowerInv
<1> QED
  BY <1>1, Invariance, PTL

\* up() hands over both tasks, the process and the logger together, or nothing.
THEOREM HandOverIsWhole == Spec => []SupervisedIsWhole
<1>1. ASSUME IInv, NEW s \in Svc
      PROVE  /\ Handed(s) <=> pc[Sup(s)] # "none"
             /\ Handed(s) <=> pc[Watch(s)] # "none"
             /\ Handed(s) <=> process[s] = "Foreign"
  BY <1>1 DEF IInv, StartInv, TaskInv
<1>2. ASSUME IInv, NEW s \in Svc, Handed(s)
      PROVE  log[s] = "Foreign" /\ child[s] # "none" /\ cfg[s].pattern = "Standard"
  <2>1. process[s] # "Nobody"
    BY <1>1, <1>2
  <2> QED
    BY <1>2, <2>1 DEF IInv, StartInv
<1>3. ASSUME IInv, NEW s \in Svc, Handed(s)
      PROVE  s \in cached
  <2>1. s < cur
    BY <1>3 DEF IInv, StartInv, Handed
  <2> QED
    BY <1>3, <2>1 DEF IInv, StartInv
<1>4. IInv => SupervisedIsWhole
  BY <1>1, <1>2, <1>3 DEF SupervisedIsWhole
<1> QED
  BY <1>4, Invariance, PTL

\* STANDARD_SERVICES holds every Standard service, in order, once it is set.
THEOREM Completeness == Spec => []PublishedIsComplete
<1>1. ASSUME IInv, published, NEW s \in Svc
      PROVE  s \in cached /\ (cfg[s].pattern = "Standard" => Handed(s))
  <2>1. cur = NumServices + 1
    BY <1>1 DEF IInv, MainInv
  <2>2. s < cur
    BY <2>1, CountAssumption DEF Svc
  <2> QED
    BY <1>1, <2>2 DEF IInv, StartInv
<1>2. IInv => cached \subseteq Svc
  BY DEF IInv, TypeInv, TypeOK
<1>3. IInv => \A i, j \in 1..Len(outServices) : i < j => outServices[i] < outServices[j]
  BY DEF IInv, StartInv
<1>4. IInv => PublishedIsComplete
  BY <1>1, <1>2, <1>3 DEF PublishedIsComplete
<1> QED
  BY <1>4, Invariance, PTL

\* down() refuses a handle only if an optional service came up halfway.
THEOREM RefusalCause == Spec => []RefusedOnlyIfHalfUp
<1>1. IInv => RefusedOnlyIfHalfUp
  BY DEF IInv, PowerInv
<1> QED
  BY <1>1, Invariance, PTL

=============================================================================
