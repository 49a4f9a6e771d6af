-------------------------- MODULE KickitLifeProofs --------------------------
(***************************************************************************)
(* Kickit implements ServiceLife and DynamicOwnership, for every target,   *)
(* any number of requests and any number of workers; and why a hand-over   *)
(* of a service fails.                                                     *)
(***************************************************************************)
EXTENDS KickitLife, KickitProofs

\* Nothing has been done with a service before its turn in the loop.
Untouched(s) == child[s] = "none" /\ process[s] = "Nobody" /\ log[s] = "Nobody"
Early == {"setup", "ready", "exec"}

OwnInv ==
  /\ \A s \in Svc : s > cur => Untouched(s)
  /\ pc[Main] \in Early /\ cur \in Svc => Untouched(cur)
  /\ OwnedWhenUsed

LInv == IInv /\ OwnInv

----------------------------------------------------------------------------
(* The strengthened invariant.                                             *)

LEMMA OwnInit == Init => OwnInv
<1> SUFFICES ASSUME Init PROVE OwnInv
  OBVIOUS
<1>1. pc[Main] = "setup"
  BY TaskNames DEF Init
<1>2. \A s \in Svc : Untouched(s)
  BY DEF Init, Untouched
<1> QED
  BY <1>1, <1>2 DEF OwnInv, OwnedWhenUsed

LEMMA OwnOther == ASSUME LInv, cfg' = cfg, OtherStep PROVE OwnInv'
<1>1. /\ UNCHANGED <<cur, process, log>>
      /\ pc'[Main] = pc[Main] \/ {pc[Main], pc'[Main]} \subseteq EmergencyPcs
      /\ \A s \in Svc : child'[s] = "none" <=> child[s] = "none"
  BY Frame DEF LInv, IInv, startVars
<1>2. pc'[Main] \in Early \cup {"establish"} => pc'[Main] = pc[Main]
  BY <1>1 DEF Early, EmergencyPcs
<1>3. \A s \in Svc : Untouched(s)' <=> Untouched(s)
  BY <1>1 DEF Untouched
<1>4. OwnedWhenUsed'
  BY <1>1, <1>2 DEF LInv, OwnInv, OwnedWhenUsed, Log!IsOwned
<1> QED
  BY <1>1, <1>2, <1>3, <1>4 DEF LInv, OwnInv

\* A step of main that leaves the fields alone and does not enter establish.
LEMMA OwnMove ==
  ASSUME LInv, cfg' = cfg, UNCHANGED <<process, log, child>>,
         cur' = cur \/ cur' = cur + 1, pc'[Main] # "establish",
         pc'[Main] \in Early => pc[Main] \in Early \/ cur' = cur + 1
  PROVE  OwnInv'
<1>1. \A s \in Svc : Untouched(s)' <=> Untouched(s)
  BY DEF Untouched
<1>2. cur \in Nat /\ \A s \in Svc : s \in Nat
  BY CountAssumption DEF LInv, IInv, TypeInv, TypeOK, Svc
<1>3. \A s \in Svc : s > cur' => s > cur
  BY <1>2
<1>4. cur' = cur + 1 /\ cur' \in Svc => Untouched(cur')
  BY <1>2 DEF LInv, OwnInv
<1>5. cur' = cur /\ pc'[Main] \in Early /\ cur \in Svc => Untouched(cur)
  BY <1>2 DEF LInv, OwnInv
<1>6. pc'[Main] \in Early /\ cur' \in Svc =>
        child'[cur'] = "none" /\ process'[cur'] = "Nobody" /\ log'[cur'] = "Nobody"
  BY <1>4, <1>5 DEF Untouched
<1>7. (\A s \in Svc : s > cur => Untouched(s))'
  BY <1>1, <1>3 DEF LInv, OwnInv
<1>8. OwnedWhenUsed'
  BY DEF OwnedWhenUsed
<1>9. (pc[Main] \in Early /\ cur \in Svc => Untouched(cur))'
  BY <1>6 DEF Untouched
<1> QED
  BY <1>7, <1>8, <1>9 DEF OwnInv

LEMMA OwnMain == ASSUME LInv, cfg' = cfg, MainStep PROVE OwnInv'
<1>0. /\ IInv /\ TypeInv /\ OwnInv /\ Main \in Tasks
      /\ cur \in Nat /\ \A s \in Svc : s \in Nat
      /\ process \in [Svc -> {"Nobody", "This", "Foreign"}]
      /\ log \in [Svc -> {"Nobody", "This", "Foreign"}]
      /\ child \in [Svc -> {"none", "running", "quit", "exited", "killed"}]
      /\ pc \in [Tasks -> TaskPcs]
  BY CountAssumption, TaskNames DEF LInv, IInv, TypeInv, TypeOK, Svc
<1>1. CASE SetUp
  BY <1>0, <1>1, OwnMove, Labels DEF SetUp, startVars, Early
<1>2. CASE SetUpFails \/ CheckReady \/ PrepareFails \/ RunOnceSucceeds \/ RunOnceFails \/ CacheFails
  <2>1. UNCHANGED <<process, log, child, cur>>
    BY <1>2 DEF SetUpFails, CheckReady, PrepareFails, RunOnceSucceeds, RunOnceFails, CacheFails, startVars
  <2>2. \E l \in {"fatal", "cache"} : Goto(Main, l) \/ (CheckReady /\ Goto(Main, "exec"))
    BY <1>2, Labels DEF SetUpFails, CheckReady, PrepareFails, RunOnceSucceeds, RunOnceFails, CacheFails
  <2>3. pc'[Main] \in {"fatal", "cache"} \/ (CheckReady /\ pc'[Main] = "exec")
    BY <1>0, <2>2 DEF Goto
  <2> QED
    BY <2>1, <2>3, OwnMove DEF CheckReady, Early
<1>3. CASE ForkingPanics
  BY <1>3, OwnMove DEF ForkingPanics, startVars
<1>4. CASE WriteCache
  BY <1>0, <1>4, OwnMove DEF WriteCache, Goto, Early
<1>5. CASE RunOnceDone
  BY <1>0, <1>5, OwnMove, Labels DEF RunOnceDone, NextService, Goto
<1>6. CASE Publish
  BY <1>0, <1>6, OwnMove DEF Publish, Goto, Early
<1>7. ASSUME SpawnFails \/ Spawn \/ Establish \/ EstablishFails \/ HandOverFails
      PROVE  OwnInv'
  <2>1. cur' = cur /\ cur \in Svc
    BY <1>0, <1>7 DEF SpawnFails, Spawn, Establish, EstablishFails, HandOverFails, TypeInv, Loop
  <2>2. \A s \in Svc : s > cur => Untouched(s)'
    BY <1>0, <1>7 DEF SpawnFails, Spawn, DefaultBody, Establish, EstablishFails, HandOverFails,
                      OwnInv, Untouched
  <2>3. pc'[Main] \in {"fatal", "cache", "establish", "once"}
    BY <1>0, <1>7, Labels DEF SpawnFails, Spawn, Establish, EstablishFails, HandOverFails, Goto
  <2>4. ASSUME pc'[Main] = "establish"
        PROVE  process'[cur] = "Nobody" /\ (cfg[cur].logger <=> log'[cur] = "This")
    <3>1. Spawn /\ cfg[cur].pattern = "Standard"
      BY <1>0, <1>7, <2>4, Labels DEF SpawnFails, Spawn, Establish, EstablishFails, HandOverFails, Goto
    <3>2. process[cur] = "Nobody" /\ log[cur] = "Nobody" /\ process' = process
      BY <1>0, <2>1, <3>1 DEF Spawn, OwnInv, Untouched, Early
    <3> QED
      BY <1>0, <2>1, <3>1, <3>2 DEF Spawn, DefaultBody
  <2>5. OwnedWhenUsed'
    BY <2>1, <2>4 DEF OwnedWhenUsed, Log!IsOwned
  <2> QED
    BY <2>1, <2>2, <2>3, <2>5 DEF OwnInv, Early
<1>8. CASE HandOver
  <2>1. cur' = cur + 1 /\ child' = child /\ cur \in Svc
    BY <1>0, <1>8 DEF HandOver, NextService, TypeInv, Loop
  <2>2. \A s \in Svc : s > cur => Untouched(s)'
    BY <1>0, <1>8, <2>1 DEF HandOver, OwnInv, Untouched
  <2>3. pc'[Main] \in {"ready", "publish"}
    BY <1>0, <1>8, <2>1, TaskNames, Labels DEF HandOver
  <2>4. OwnedWhenUsed'
    BY <2>3 DEF OwnedWhenUsed
  <2>5. \A s \in Svc : s > cur' => s > cur
    BY <1>0, <2>1
  <2>6. cur' \in Svc => cur' > cur
    BY <1>0, <2>1
  <2> QED
    BY <2>2, <2>4, <2>5, <2>6 DEF OwnInv, Untouched
<1> QED
  BY <1>1, <1>2, <1>3, <1>4, <1>5, <1>6, <1>7, <1>8 DEF MainStep

LEMMA OwnStep == LInv /\ [Next]_vars => LInv'
<1> SUFFICES ASSUME LInv, [Next]_vars PROVE OwnInv'
  BY Inductive DEF LInv
<1>1. CASE UNCHANGED coreVars
  BY <1>1 DEF LInv, OwnInv, OwnedWhenUsed, Untouched, Log!IsOwned, coreVars, startVars
<1>2. CASE cfg' = cfg /\ (MainStep \/ OtherStep)
  BY <1>2, OwnMain, OwnOther
<1> QED
  BY <1>1, <1>2, StepKinds

\* The invariant of the refinement.
THEOREM LifeInvariance == Spec => []LInv
<1>1. Init => LInv
  BY InitInv, OwnInit DEF LInv
<1> QED
  BY <1>1, OwnStep, PTL DEF Spec

\* start_process finds the process not yet there and the logger owned.
THEOREM FieldsAreReady == Spec => []OwnedWhenUsed
<1>1. LInv => OwnedWhenUsed
  BY DEF LInv, OwnInv
<1> QED
  BY <1>1, LifeInvariance, PTL

----------------------------------------------------------------------------
(* The two DynamicOwnership fields.                                        *)

LEMMA FieldTypes ==
  ASSUME LInv
  PROVE  /\ cur \in Nat /\ \A s \in Svc : s \in Nat
         /\ process \in [Svc -> {"Nobody", "This", "Foreign"}]
         /\ log \in [Svc -> {"Nobody", "This", "Foreign"}]
         /\ child \in [Svc -> {"none", "running", "quit", "exited", "killed"}]
         /\ pc \in [Tasks -> TaskPcs]
  BY CountAssumption DEF LInv, IInv, TypeInv, TypeOK, Svc

\* The steps that touch the process field: put in once, taken once.
LEMMA ProcessStep == LInv /\ [Next]_vars => [Process!Next]_process
<1> SUFFICES ASSUME LInv, [Next]_vars, process' # process PROVE Process!Next
  OBVIOUS
<1>1. \/ Establish \/ EstablishFails \/ HandOver
  BY Frame, StepKinds DEF MainStep, SetUp, SetUpFails, CheckReady, ForkingPanics,
     PrepareFails, SpawnFails, Spawn, RunOnceSucceeds, RunOnceFails, WriteCache, CacheFails,
     RunOnceDone, NextService, HandOverFails, Publish, startVars, coreVars, LInv, IInv
<1>2. cur \in Svc
  BY <1>1 DEF Establish, EstablishFails, HandOver, LInv, IInv, TypeInv, Loop
<1>3. CASE Establish \/ EstablishFails
  <2>1. process[cur] = "Nobody"
    BY <1>3 DEF Establish, EstablishFails, LInv, OwnInv, OwnedWhenUsed
  <2>2. process' = [process EXCEPT ![cur] = "This"]
    BY <1>3 DEF Establish, EstablishFails
  <2> QED
    BY <1>2, <2>1, <2>2 DEF Process!Next, Process!InitValue
<1>4. CASE HandOver
  BY <1>2, <1>4 DEF HandOver, Process!Next, Process!Take, Process!IsOwned
<1> QED
  BY <1>1, <1>3, <1>4

\* The steps that touch the logger field, failing starts and hand-overs included.
LEMMA LogStep == LInv /\ [Next]_vars => [Log!Next]_log
<1> SUFFICES ASSUME LInv, [Next]_vars, log' # log PROVE Log!Next
  OBVIOUS
<1>1. \/ SpawnFails \/ Spawn \/ HandOver \/ HandOverFails
  BY Frame, StepKinds DEF MainStep, SetUp, SetUpFails, CheckReady, ForkingPanics,
     PrepareFails, Establish, EstablishFails, RunOnceSucceeds, RunOnceFails, WriteCache, CacheFails,
     RunOnceDone, NextService, Publish, startVars, coreVars, LInv, IInv
<1>2. cur \in Svc
  BY <1>1 DEF SpawnFails, Spawn, HandOver, HandOverFails, LInv, IInv, TypeInv, Loop
<1>3. CASE SpawnFails \/ Spawn
  <2>1. log[cur] = "Nobody"
    BY <1>2, <1>3 DEF SpawnFails, Spawn, LInv, OwnInv, Untouched, Early
  <2>2. log' = [log EXCEPT ![cur] = "This"]
    BY <1>2, <1>3, FieldTypes DEF SpawnFails, Spawn, DefaultBody
  <2> QED
    BY <1>2, <2>1, <2>2 DEF Log!Next, Log!InitValue
<1>4. CASE HandOver
  BY <1>2, <1>4 DEF HandOver, Log!Next, Log!Take, Log!IsOwned
<1>5. CASE HandOverFails
  <2>1. log[cur] = "This" /\ log' = [log EXCEPT ![cur] = "Foreign"]
    BY <1>2, <1>5, FieldTypes DEF HandOverFails
  <2> QED
    BY <1>2, <2>1 DEF Log!Next, Log!Take, Log!IsOwned
<1> QED
  BY <1>1, <1>3, <1>4, <1>5

\* Kickit uses both fields as DynamicOwnership demands; no assertion fires.
THEOREM OwnershipIsKept == Spec => OwnershipKept
<1>1. Init => Process!Init /\ Log!Init
  BY DEF Init, Process!Init, Log!Init
<1> QED
  BY <1>1, LifeInvariance, ProcessStep, LogStep, PTL
  DEF Spec, OwnershipKept, Process!Spec, Log!Spec

----------------------------------------------------------------------------
(* The refinement of ServiceLife.                                          *)

LEMMA LifeInit == Init => Life!Init
<1> SUFFICES ASSUME Init PROVE Life!Init
  OBVIOUS
<1>1. \A s \in Svc : ~Handed(s) /\ child[s] = "none" /\ ~(s < cur)
  BY CountAssumption DEF Init, Handed, Svc
<1>2. Svc = Life!Svc
  BY DEF Svc, Life!Svc
<1>3. \A s \in Svc : Sup(s) \in Tasks /\ Sup(s) # Main
  BY TaskNames
<1>4. Reported = {}
  BY <1>3 DEF Init, Reported, EmergencyPcs
<1>5. \A s \in Svc : Phase(s) = "waiting" /\ ProcOf[child[s]] = "none"
  BY <1>1 DEF Phase, ProcOf
<1> QED
  BY <1>2, <1>4, <1>5 DEF Init, Life!Init

\* The mapped state, and what leaves it as it is.
LifeVars == <<cur, [s \in Svc |-> Phase(s)], [s \in Svc |-> ProcOf[child[s]]],
              powerOffReady, Reported>>

LEMMA LifeStutter ==
  ASSUME LInv, UNCHANGED <<cur, outServices, child, powerOffReady>>, Reported' = Reported
  PROVE  UNCHANGED LifeVars
<1>1. \A s \in Svc : Phase(s)' = Phase(s)
  BY DEF Phase, Handed
<1> QED
  BY <1>1 DEF LifeVars

\* What every case of the refinement needs to know of the state.
LEMMA LifeFacts ==
  ASSUME LInv
  PROVE  /\ \A s \in Svc : Phase(s) = "supervised" <=> Handed(s)
         /\ \A s \in Svc : s >= cur => ~Handed(s)
         /\ cur \in Svc => (child[cur] = "none" => Phase(cur) = "waiting")
         /\ cur \in Svc => (child[cur] # "none" => Phase(cur) = "started")
         /\ \A s \in Svc : child[s] \in DOMAIN ProcOf
         /\ Svc = Life!Svc
<1>1. \A i \in 1..Len(outServices) : outServices[i] \in Svc /\ outServices[i] < cur
  BY DEF LInv, IInv, StartInv, TypeInv, TypeOK
<1>2. \A s \in Svc : s >= cur => ~Handed(s)
  BY <1>1, FieldTypes DEF Handed
<1> QED
  BY <1>2, FieldTypes DEF Phase, ProcOf, Svc, Life!Svc

\* The loop goes on to the next service: the one it leaves is handed over or left.
LEMMA LifeAdvance ==
  ASSUME LInv, cur \in Svc, cur' = cur + 1, child' = child, NEW s \in Svc,
         s # cur => (Handed(s)' <=> Handed(s))
  PROVE  Phase(s)' = IF s # cur THEN Phase(s)
                     ELSE IF Handed(s)' THEN "supervised" ELSE "left"
<1>1. cur \in Nat /\ s \in Nat
  BY FieldTypes
<1>2. s < cur' <=> s < cur \/ s = cur
  BY <1>1
<1> QED
  BY <1>1, <1>2 DEF Phase

\* main's steps.
LEMMA LifeMain == ASSUME LInv, cfg' = cfg, MainStep PROVE Life!Next \/ UNCHANGED Life!vars
<1>0. /\ IInv /\ TypeInv /\ Main \in Tasks
      /\ pc \in [Tasks -> TaskPcs]
      /\ \A s \in Svc : Sup(s) \in Tasks /\ Sup(s) # Main /\ Sup(s) # Watch(s)
      /\ Life!Svc = Svc
  BY TaskNames, LifeFacts, FieldTypes DEF LInv, IInv
<1>1. powerOffReady' = powerOffReady
  BY DEF MainStep, SetUp, SetUpFails, CheckReady, ForkingPanics, PrepareFails, SpawnFails, Spawn,
         Establish, EstablishFails, RunOnceSucceeds, RunOnceFails, WriteCache, CacheFails,
         RunOnceDone, HandOver, NextService, HandOverFails, Publish, powerVars
<1>2. Reported' = Reported
  <2>1. CASE SetUp
    <3>1. \A s \in Svc : pc'[Sup(s)] = pc[Sup(s)]
      BY <2>1, TaskNames DEF SetUp
    <3> QED
      BY <3>1 DEF Reported
  <2>2. CASE HandOver
    <3>1. cur \in Svc /\ pc[Sup(cur)] = "none"
      BY <1>0, <2>2, NotYetHanded DEF HandOver, IInv, TypeInv, TaskInv, Loop
    <3>2. pc' = [pc EXCEPT ![Main] = LoopAt(cur + 1), ![Watch(cur)] = "queued", ![Sup(cur)] = "queued"]
      BY <2>2 DEF HandOver
    <3>3. \A s \in Svc : pc'[Sup(s)] = IF s = cur THEN "queued" ELSE pc[Sup(s)]
      BY <1>0, <3>1, <3>2, TaskNames
    <3> QED
      BY <3>1, <3>3 DEF Reported, EmergencyPcs
  <2>3. CASE ~SetUp /\ ~HandOver
    <3>1. \A s \in Svc : pc'[Sup(s)] = pc[Sup(s)]
      BY <1>0, <2>3, MainGoto, TaskNames DEF Goto
    <3> QED
      BY <3>1 DEF Reported
  <2> QED
    BY <2>1, <2>2, <2>3
<1>3. CASE Spawn
  <2>1. /\ cur \in Svc /\ child[cur] = "none"
        /\ child' = [child EXCEPT ![cur] = "running"]
        /\ UNCHANGED <<cur, outServices>>
    BY <1>0, <1>3 DEF Spawn, TypeInv, Loop, LInv, OwnInv, Early, Untouched
  <2>2. ~Handed(cur) /\ Phase(cur) = "waiting" /\ ~(cur < cur)
    BY <2>1, LifeFacts, FieldTypes
  <2>3. \A s \in Svc : Handed(s)' <=> Handed(s)
    BY <2>1 DEF Handed
  <2>4. \A s \in Svc : Phase(s)' = IF s = cur THEN "started" ELSE Phase(s)
    BY <2>1, <2>2, <2>3, FieldTypes DEF Phase
  <2>5. \A s \in Svc : child'[s] = IF s = cur THEN "running" ELSE child[s]
    BY <2>1, FieldTypes
  <2>6. [s \in Svc |-> Phase(s)]' = [[s \in Svc |-> Phase(s)] EXCEPT ![cur] = "started"]
    BY <2>1, <2>4
  <2>7. [s \in Svc |-> ProcOf[child[s]]]' = [[s \in Svc |-> ProcOf[child[s]]] EXCEPT ![cur] = "alive"]
    <3>1. ProcOf["running"] = "alive"
      BY DEF ProcOf
    <3>2. \A s \in Svc : ProcOf[child'[s]] = IF s = cur THEN "alive" ELSE ProcOf[child[s]]
      BY <2>5, <3>1
    <3>3. ProcOf' = ProcOf
      BY DEF ProcOf
    <3> QED
      BY <2>1, <3>2, <3>3
  <2>8. ASSUME NEW s \in Svc, s = cur PROVE Life!Start(s)
    BY <1>1, <1>2, <2>1, <2>2, <2>6, <2>7, <2>8 DEF Life!Start
  <2> QED
    BY <1>0, <2>1, <2>8 DEF Life!Next
<1>4. CASE HandOver
  <2>1. /\ cur \in Svc /\ cur' = cur + 1 /\ child' = child
        /\ outServices' = Append(outServices, cur)
        /\ process[cur] = "This" /\ outServices \in Seq(Svc)
    BY <1>0, <1>4 DEF HandOver, NextService, TypeInv, TypeOK, Loop
  <2>2. \A s \in Svc : Handed(s)' <=> Handed(s) \/ s = cur
    <3>1. /\ Len(outServices') = Len(outServices) + 1 /\ Len(outServices) \in Nat
          /\ \A i \in 1..Len(outServices) : outServices'[i] = outServices[i]
          /\ outServices'[Len(outServices) + 1] = cur
      BY <2>1
    <3> QED
      BY <3>1 DEF Handed
  <2>3. child[cur] # "none"
    BY <1>0, <2>1 DEF IInv, StartInv
  <2>4. Phase(cur) = "started"
    BY <2>1, <2>3, LifeFacts
  <2>5. \A s \in Svc : Phase(s)' = IF s = cur THEN "supervised" ELSE Phase(s)
    BY <2>1, <2>2, LifeAdvance
  <2>6. [s \in Svc |-> Phase(s)]' = [[s \in Svc |-> Phase(s)] EXCEPT ![cur] = "supervised"]
    BY <2>1, <2>5
  <2>7. Life!Supervise(cur)
    BY <1>1, <1>2, <2>1, <2>4, <2>6 DEF Life!Supervise
  <2> QED
    BY <1>0, <2>1, <2>7 DEF Life!Next
<1>5. CASE RunOnceDone
  <2>1. /\ cur \in Svc /\ cur' = cur + 1 /\ UNCHANGED <<child, outServices>>
    BY <1>0, <1>5 DEF RunOnceDone, NextService, TypeInv, Loop
  <2>2. \A s \in Svc : Handed(s)' <=> Handed(s)
    BY <2>1 DEF Handed
  <2>3. ~Handed(cur) /\ Phase(cur) \in {"waiting", "started"}
    BY <2>1, LifeFacts, FieldTypes
  <2>4. \A s \in Svc : Phase(s)' = IF s = cur THEN "left" ELSE Phase(s)
    BY <2>1, <2>2, <2>3, LifeAdvance
  <2>5. [s \in Svc |-> Phase(s)]' = [[s \in Svc |-> Phase(s)] EXCEPT ![cur] = "left"]
    BY <2>1, <2>4
  <2>6. Life!Leave(cur)
    BY <1>1, <1>2, <2>1, <2>3, <2>5 DEF Life!Leave
  <2> QED
    BY <1>0, <2>1, <2>6 DEF Life!Next
<1>6. CASE ~Spawn /\ ~HandOver /\ ~RunOnceDone
  <2>1. UNCHANGED <<cur, outServices, child>>
    BY <1>6 DEF MainStep, SetUp, SetUpFails, CheckReady, ForkingPanics, PrepareFails, SpawnFails,
       Establish, EstablishFails, RunOnceSucceeds, RunOnceFails, WriteCache, CacheFails,
       HandOverFails, Publish, startVars
  <2> QED
    BY <1>1, <1>2, <2>1, LifeStutter DEF Life!vars, LifeVars
<1> QED
  BY <1>3, <1>4, <1>5, <1>6

\* The other steps: a child dies, a supervisor reports, a request shuts down.
LEMMA LifeOther == ASSUME LInv, cfg' = cfg, OtherStep PROVE Life!Next \/ UNCHANGED Life!vars
<1>0. /\ IInv /\ TypeInv /\ Life!Svc = Svc
      /\ child \in [Svc -> {"none", "running", "quit", "exited", "killed"}]
      /\ pc \in [Tasks -> TaskPcs]
  BY LifeFacts, FieldTypes DEF LInv, IInv
<1>1. UNCHANGED <<cur, outServices>>
  BY <1>0, Frame DEF startVars
<1>2. ProcOf' = ProcOf /\ \A s \in Svc : Handed(s)' = Handed(s)
  BY <1>1 DEF ProcOf, Handed
<1>3. (\A s \in Svc : child'[s] = "none" <=> child[s] = "none") => \A s \in Svc : Phase(s)' = Phase(s)
  BY <1>1, <1>2 DEF Phase
<1>4. [s \in Svc |-> Phase(s)]' = [s \in Svc |-> Phase(s)]
  BY <1>0, <1>3, Frame
<1>5. ASSUME NEW s \in Svc, SupReports(s) PROVE Life!Next
  <2>1. /\ pc[Sup(s)] = "woken" /\ ~powerOffReady
        /\ UNCHANGED <<child, powerOffReady>>
        /\ pc'[Sup(s)] \in EmergencyPcs \cup {"warned"}
        /\ \A u \in Svc \ {s} : pc'[Sup(u)] = pc[Sup(u)]
    BY <1>0, <1>5, TaskNames DEF SupReports, powerVars, Goto, EmergencyPcs
  <2>2. child[s] = "exited" /\ Handed(s)
    BY <1>0, <2>1 DEF IInv, KillInv, TaskInv, Dead
  <2>3. Reported' = Reported \cup {s} /\ s \notin Reported
    BY <2>1 DEF Reported, EmergencyPcs
  <2>4. Phase(s) = "supervised" /\ ProcOf[child[s]] = "exited"
    BY <2>2, LifeFacts DEF ProcOf
  <2>5. Life!Report(s)
    BY <1>1, <1>2, <1>4, <2>1, <2>3, <2>4 DEF Life!Report
  <2>6. s \in Life!Svc
    BY <1>0
  <2> QED
    BY <2>5, <2>6 DEF Life!Next
<1>6. ASSUME NEW s \in Svc, ChildExits(s) PROVE Life!Next
  <2>1. UNCHANGED <<pc, powerOffReady>>
    BY <1>6 DEF ChildExits, powerVars
  <2>2. /\ child[s] \in {"running", "quit"}
        /\ child'[s] = IF child[s] = "running" THEN "exited" ELSE "killed"
        /\ \A u \in Svc \ {s} : child'[u] = child[u]
    BY <1>0, <1>6 DEF ChildExits
  <2>3. Reported' = Reported
    BY <2>1 DEF Reported
  <2>4. /\ child[s] = "running" => ProcOf[child[s]] = "alive" /\ ProcOf[child'[s]] = "exited"
        /\ child[s] = "quit" => ProcOf[child[s]] = "told" /\ ProcOf[child'[s]] = "obeyed"
    BY <2>2 DEF ProcOf
  <2>5. [u \in Svc |-> ProcOf[child[u]]]' =
          [[u \in Svc |-> ProcOf[child[u]]] EXCEPT ![s] = ProcOf[child'[s]]]
    BY <1>2, <2>2
  <2>6. Life!Die(s)
    BY <1>1, <1>4, <2>1, <2>2, <2>3, <2>4, <2>5 DEF Life!Die
  <2>7. s \in Life!Svc
    BY <1>0
  <2> QED
    BY <2>6, <2>7 DEF Life!Next
<1>7. CASE Reported' = Reported /\ UNCHANGED <<child, powerOffReady>>
  BY <1>1, <1>7, LifeStutter DEF Life!vars, LifeVars
<1>8. ASSUME NEW s \in Svc, ServiceTasks(s) \/ WatchFails(s), ~SupReports(s)
      PROVE  UNCHANGED Life!vars
  <2>1. UNCHANGED <<child, powerOffReady>>
    BY <1>8 DEF ServiceTasks, WatchFails, StartTask, SupWakes, SupRetires, powerVars
  <2>2. \A u \in Svc : \/ pc'[Sup(u)] = pc[Sup(u)]
                       \/ {pc[Sup(u)], pc'[Sup(u)]} \subseteq {"queued", "waiting", "woken", "retired"}
    BY <1>0, <1>8, TaskNames DEF ServiceTasks, WatchFails, StartTask, SupWakes, SupRetires, Goto
  <2>3. Reported' = Reported
    BY <2>2 DEF Reported, EmergencyPcs
  <2> QED
    BY <1>1, <2>1, <2>3, LifeStutter DEF Life!vars, LifeVars
<1>9. ASSUME NEW k \in Sockets, StartTask(Sock(k), "listening") \/ SockFails(k)
      PROVE  UNCHANGED Life!vars
  <2>1. UNCHANGED <<child, powerOffReady>>
    BY <1>9 DEF StartTask, SockFails, powerVars
  <2>2. \A u \in Svc : pc'[Sup(u)] = pc[Sup(u)]
    BY <1>0, <1>9, TaskNames DEF StartTask, SockFails, Goto
  <2>3. Reported' = Reported
    BY <2>2 DEF Reported
  <2> QED
    BY <1>1, <2>1, <2>3, LifeStutter DEF Life!vars, LifeVars
<1>10. ASSUME NEW t \in Tasks, OpenShell(t) \/ JoinEmergency(t) \/ ShellMissing(t)
      PROVE  UNCHANGED Life!vars
  <2>1. UNCHANGED <<child, powerOffReady>>
    BY <1>10 DEF OpenShell, JoinEmergency, ShellMissing, powerVars
  <2>2. \A u \in Svc : \/ pc'[Sup(u)] = pc[Sup(u)]
                       \/ {pc[Sup(u)], pc'[Sup(u)]} \subseteq EmergencyPcs
    BY <1>0, <1>10, TaskNames DEF OpenShell, JoinEmergency, ShellMissing, Goto, EmergencyPcs
  <2>3. Reported' = Reported
    BY <2>2 DEF Reported
  <2> QED
    BY <1>1, <2>1, <2>3, LifeStutter DEF Life!vars, LifeVars
<1>11. ASSUME NEW r \in Requests, SetReady(r) PROVE Life!Next
  <2>1. ~powerOffReady /\ powerOffReady' /\ UNCHANGED <<pc, child>>
    BY <1>11 DEF SetReady
  <2>2. Reported' = Reported
    BY <2>1 DEF Reported
  <2>3. Life!Announce
    BY <1>1, <1>2, <1>4, <2>1, <2>2 DEF Life!Announce, SetReady, TypeInv, TypeOK
  <2> QED
    BY <2>3 DEF Life!Next
<1>12. ASSUME NEW r \in Requests, Down(r) PROVE Life!Next \/ UNCHANGED Life!vars
  <2> DEFINE t == outServices[pos[r]]
  <2>1. /\ pos[r] \in 1..Len(outServices) /\ req[r] = "sweep" /\ UNCHANGED <<pc, powerOffReady>>
        /\ child' = [child EXCEPT ![t] = IF @ = "running" THEN "quit" ELSE @]
    BY <1>0, <1>12 DEF Down, Target, TypeInv, TypeOK
  <2>2. t \in Svc /\ Handed(t) /\ powerOffReady /\ seen[r] /\ r \in Sweeping
    BY <1>0, <2>1 DEF Handed, IInv, PowerInv, Sweeping, PastReady, TypeInv, TypeOK
  <2>3. Reported' = Reported
    BY <2>1 DEF Reported
  <2>4. CASE child[t] # "running"
    <3>1. child' = child
      BY <1>0, <2>1, <2>2, <2>4
    <3> QED
      BY <1>7, <2>1, <2>3, <3>1
  <2>5. CASE child[t] = "running"
    <3>1. \A s \in Svc : ProcOf[child'[s]] = IF s = t THEN "told" ELSE ProcOf[child[s]]
      BY <1>0, <2>1, <2>2, <2>5 DEF ProcOf
    <3>2. [s \in Svc |-> ProcOf[child[s]]]' = [[s \in Svc |-> ProcOf[child[s]]] EXCEPT ![t] = "told"]
      BY <1>2, <2>2, <3>1
    <3>3. Phase(t) = "supervised" /\ ProcOf[child[t]] = "alive"
      BY <2>2, <2>5, LifeFacts DEF ProcOf
    <3>4. ASSUME NEW e \in Svc, e < t, Handed(e) PROVE ProcOf[child[e]] # "alive"
      <4>1. PICK i \in 1..Len(outServices) : outServices[i] = e
        BY <3>4 DEF Handed
      <4>2. ~(pos[r] < i) /\ pos[r] # i
        BY <1>0, <2>1, <2>2, <3>4, <4>1, FieldTypes DEF IInv, StartInv
      <4>3. i < pos[r]
        BY <2>1, <4>1, <4>2
      <4>4. child[e] \in {"quit", "exited", "killed"}
        BY <1>0, <2>2, <4>1, <4>3 DEF IInv, PowerInv, SweepReachesAll
      <4> QED
        BY <4>4 DEF ProcOf
    <3>5. \A e \in Svc : Phase(e) = "supervised" => Handed(e)
      BY LifeFacts
    <3>6. ASSUME NEW s \in Svc, s = t PROVE Life!Tell(s)
      BY <1>0, <1>1, <1>4, <2>1, <2>2, <2>3, <3>2, <3>3, <3>4, <3>5, <3>6 DEF Life!Tell
    <3> QED
      BY <1>0, <2>2, <3>6 DEF Life!Next
  <2> QED
    BY <2>4, <2>5
<1>13. ASSUME NEW r \in Requests, Request(r) \/ PowerStep(r) \/ ForceOff(r), ~SetReady(r), ~Down(r)
      PROVE  UNCHANGED Life!vars
  <2>1. UNCHANGED <<pc, child, powerOffReady>>
    BY <1>13 DEF Request, PowerStep, AlreadySet, GetServices, DownRefused, SweepDone,
                 Unmount, Reboot, RebootFails, ForceOff, powerVars
  <2>2. Reported' = Reported
    BY <2>1 DEF Reported
  <2> QED
    BY <1>1, <2>1, <2>2, LifeStutter DEF Life!vars, LifeVars
<1> QED
  BY <1>5, <1>6, <1>8, <1>9, <1>10, <1>11, <1>12, <1>13 DEF OtherStep

\* Kickit implements ServiceLife.
THEOREM LifeRefined == Spec => ImplementsLife
<1>1. LInv /\ [Next]_vars => [Life!Next]_(Life!vars)
  <2> SUFFICES ASSUME LInv, [Next]_vars PROVE Life!Next \/ UNCHANGED Life!vars
    OBVIOUS
  <2>1. CASE UNCHANGED coreVars
    <3>1. Reported' = Reported
      BY <2>1 DEF coreVars, Reported
    <3> QED
      BY <2>1, <3>1, LifeStutter DEF coreVars, startVars, powerVars, Life!vars, LifeVars
  <2>2. CASE cfg' = cfg /\ (MainStep \/ OtherStep)
    BY <2>2, LifeMain, LifeOther
  <2> QED
    BY <2>1, <2>2, StepKinds
<1> QED
  BY <1>1, LifeInit, LifeInvariance, PTL DEF Spec, ImplementsLife, Life!Spec

----------------------------------------------------------------------------
(* Why a service's hand-over fails.                                        *)

\* The service in hand once it has come up, or failed to and is optional: without
\* a process, the body is the placeholder's or the new one; the logger is there if
\* it is configured and the body is the new one.
Tried(s) ==
  /\ cfg[s].pattern # "Forking"
  /\ cfg[s].pattern = "Standard" =>
       /\ process[s] = "Nobody" => cfg[s].optional
       /\ \/ body[s] = "PreExecution" /\ process[s] = "Nobody"
          \/ body[s] = "Standard" /\ (cfg[s].logger <=> log[s] = "This")

\* What has a cache file, what the body is on the way to it, and the cause.
CauseInv ==
  /\ \A s \in cached : s < cur \/ (s = cur /\ pc[Main] \in {"handover"} \cup EmergencyPcs)
  /\ pc[Main] = "exec" => body[cur] = "PreExecution"
  /\ pc[Main] = "establish" => body[cur] = "Standard"
  /\ pc[Main] \in {"cache", "handover"} => Tried(cur)
  /\ FatalHandOverCause

\* The invariant with what CauseInv adds.
CInv == LInv /\ CauseInv

\* It holds at first.
LEMMA CauseInit == Init => CauseInv
<1> SUFFICES ASSUME Init PROVE CauseInv
  OBVIOUS
<1>1. pc[Main] = "setup" /\ cached = {}
  BY TaskNames DEF Init
<1> QED
  BY <1>1 DEF CauseInv, FatalHandOverCause, EmergencyPcs

\* What CInv says of the step at hand.
LEMMA CauseFacts ==
  ASSUME CInv
  PROVE  /\ TypeInv /\ Main \in Tasks /\ pc \in [Tasks -> TaskPcs]
         /\ cur \in Nat /\ \A s \in cached : s \in Nat /\ s \in Svc
         /\ cur \in Svc => /\ process[cur] \in {"Nobody", "This"}
                           /\ body[cur] \in {"PreExecution", cfg[cur].pattern}
                           /\ cfg[cur].pattern \in {"Standard", "RunOnce", "Forking"}
                           /\ cfg[cur].optional \in BOOLEAN /\ cfg[cur].logger \in BOOLEAN
         /\ pc[Main] \in Loop => cur \in Svc
<1>1. IInv /\ TypeInv
  BY DEF CInv, LInv, IInv
<1>2. Main \in Tasks /\ pc \in [Tasks -> TaskPcs]
  BY <1>1, TaskNames DEF TypeInv, TypeOK
<1>3. cur \in Nat /\ \A s \in cached : s \in Nat /\ s \in Svc
  BY <1>1, CountAssumption DEF TypeInv, TypeOK, Svc
<1>4. ASSUME cur \in Svc
      PROVE  /\ process[cur] \in {"Nobody", "This"}
             /\ body[cur] \in {"PreExecution", cfg[cur].pattern}
             /\ cfg[cur].pattern \in {"Standard", "RunOnce", "Forking"}
             /\ cfg[cur].optional \in BOOLEAN /\ cfg[cur].logger \in BOOLEAN
  <2>1. ~Handed(cur)
    BY <1>1, <1>4, NotYetHanded
  <2>2. process[cur] # "Foreign" /\ body[cur] \in {"PreExecution", cfg[cur].pattern}
    BY <1>1, <1>4, <2>1 DEF IInv, StartInv
  <2>3. process[cur] \in {"Nobody", "This", "Foreign"} /\ cfg[cur] \in Config
    BY <1>1, <1>4 DEF TypeInv, TypeOK
  <2> QED BY <2>2, <2>3 DEF Config
<1>5. pc[Main] \in Loop => cur \in Svc
  BY <1>1 DEF TypeInv
<1> QED BY <1>1, <1>2, <1>3, <1>4, <1>5

\* No other task writes the fields of a service or moves main, but in emergency.
LEMMA CauseOther == ASSUME CInv, cfg' = cfg, OtherStep PROVE CauseInv'
<1>1. /\ UNCHANGED <<cur, body, process, log, cached>>
      /\ pc'[Main] = pc[Main] \/ {pc[Main], pc'[Main]} \subseteq EmergencyPcs
  BY CauseFacts, Frame DEF startVars
<1>2. pc'[Main] \in {"exec", "establish", "cache", "handover"} => pc'[Main] = pc[Main]
  BY <1>1 DEF EmergencyPcs
<1>3. pc'[Main] \in EmergencyPcs => pc[Main] \in EmergencyPcs
  BY <1>1
<1> QED
  BY <1>1, <1>2, <1>3 DEF CInv, CauseInv, Tried, FatalHandOverCause

\* A step of main before the service in hand has its cache file.
LEMMA CauseBefore ==
  ASSUME CInv, cfg' = cfg, UNCHANGED <<cur, cached>>,
         pc[Main] \notin {"handover"} \cup EmergencyPcs,
         pc'[Main] # "handover",
         pc'[Main] = "exec" => body'[cur] = "PreExecution",
         pc'[Main] = "establish" => body'[cur] = "Standard",
         pc'[Main] = "cache" => Tried(cur)'
  PROVE  CauseInv'
<1>1. \A s \in cached : s < cur
  BY DEF CInv, CauseInv
<1>2. cur \notin cached
  BY <1>1, CauseFacts
<1> QED
  BY <1>1, <1>2 DEF CauseInv, FatalHandOverCause, Tried

\* Every step of main keeps it: the hand-over finds what the start left.
LEMMA CauseMain == ASSUME CInv, cfg' = cfg, MainStep PROVE CauseInv'
<1> USE CauseFacts
<1>1. CASE SetUp \/ SetUpFails \/ Publish
  <2>1. UNCHANGED <<cur, cached>> /\ pc[Main] \in {"setup", "publish"}
    BY <1>1 DEF SetUp, SetUpFails, Publish, startVars
  <2>2. pc'[Main] \in {"ready", "publish", "fatal", "done"}
    BY <1>1, Labels DEF SetUp, SetUpFails, Publish, Goto
  <2> QED BY <2>1, <2>2, CauseBefore DEF EmergencyPcs
<1>2. CASE CheckReady
  BY <1>2, CauseBefore DEF CheckReady, IsUp, Goto, startVars, EmergencyPcs
<1>3. CASE ForkingPanics
  <2>1. UNCHANGED <<cur, cached, pc, body>> /\ pc[Main] = "exec"
    BY <1>3 DEF ForkingPanics, startVars
  <2> QED BY <2>1, CauseBefore DEF CInv, CauseInv, EmergencyPcs
<1>4. CASE PrepareFails
  <2>1. /\ UNCHANGED <<cur, cached, body, process, log>> /\ pc[Main] = "exec"
        /\ cfg[cur].pattern # "Forking" /\ pc'[Main] = Assess(cur) /\ cur \in Svc
    BY <1>4, Labels DEF PrepareFails, startVars, Goto, Loop
  <2>2. process[cur] = "Nobody" /\ body[cur] = "PreExecution"
    BY <2>1 DEF CInv, LInv, OwnInv, Untouched, Early, CauseInv
  <2>3. pc'[Main] = "cache" => Tried(cur)'
    BY <2>1, <2>2 DEF Tried, Assess
  <2> QED BY <2>1, <2>3, CauseBefore DEF EmergencyPcs, Assess
<1>5. CASE SpawnFails \/ Spawn
  <2>1. /\ UNCHANGED <<cur, cached, process>> /\ pc[Main] = "exec"
        /\ cfg[cur].pattern # "Forking" /\ cur \in Svc /\ DefaultBody
    BY <1>5 DEF SpawnFails, Spawn, Loop
  <2>2. \/ pc'[Main] = Assess(cur)
        \/ pc'[Main] = (IF cfg[cur].pattern = "Standard" THEN "establish" ELSE "once")
    BY <1>5, Labels DEF SpawnFails, Spawn, Goto
  <2>3. process[cur] = "Nobody" /\ log[cur] = "Nobody"
    BY <2>1 DEF CInv, LInv, OwnInv, Untouched, Early
  <2>4. body'[cur] = cfg[cur].pattern
    BY <2>1 DEF DefaultBody, TypeInv, TypeOK
  <2>5. cfg[cur].pattern = "Standard" => (cfg[cur].logger <=> log'[cur] = "This")
    BY <2>1, <2>3 DEF DefaultBody, TypeInv, TypeOK
  <2>6. pc'[Main] = "cache" => Tried(cur)'
    BY <2>1, <2>2, <2>3, <2>4, <2>5 DEF Tried, Assess
  <2>7. pc'[Main] \in {"cache", "fatal", "establish", "once"} /\ (pc'[Main] = "establish" => body'[cur] = "Standard")
    BY <2>2, <2>4 DEF Assess
  <2> QED BY <2>1, <2>6, <2>7, CauseBefore DEF EmergencyPcs
<1>6. CASE Establish \/ EstablishFails
  <2>1. /\ UNCHANGED <<cur, cached, body, log>> /\ pc[Main] = "establish" /\ cur \in Svc
        /\ process'[cur] = "This" /\ pc'[Main] \in {"cache", "fatal"}
    BY <1>6, Labels DEF Establish, EstablishFails, Loop, Goto, TypeInv, TypeOK
  <2>2. cfg[cur].pattern = "Standard" /\ body[cur] = "Standard"
    BY <2>1 DEF CInv, CauseInv, LInv, IInv, MainInv
  <2>3. cfg[cur].logger <=> log[cur] = "This"
    BY <2>1 DEF CInv, LInv, OwnInv, OwnedWhenUsed, Log!IsOwned
  <2>4. Tried(cur)'
    BY <2>1, <2>2, <2>3 DEF Tried
  <2> QED BY <2>1, <2>4, CauseBefore DEF EmergencyPcs
<1>7. CASE RunOnceSucceeds \/ RunOnceFails
  <2>1. UNCHANGED <<cur, cached>> /\ pc[Main] = "once" /\ pc'[Main] \in {"cache", "fatal"}
    BY <1>7, Labels DEF RunOnceSucceeds, RunOnceFails, startVars, Goto
  <2>2. cfg[cur].pattern = "RunOnce"
    BY <2>1 DEF CInv, LInv, IInv, MainInv
  <2>3. Tried(cur)'
    BY <2>1, <2>2 DEF Tried
  <2> QED BY <2>1, <2>3, CauseBefore DEF EmergencyPcs
<1>8. CASE WriteCache
  <2>1. /\ UNCHANGED <<cur, body, process, log>> /\ pc[Main] = "cache" /\ pc'[Main] = "handover"
        /\ cached' = cached \cup {cur}
    BY <1>8, Labels DEF WriteCache, Goto, Loop
  <2>2. \A s \in cached : s < cur
    BY <2>1 DEF CInv, CauseInv, EmergencyPcs
  <2>3. Tried(cur)'
    BY <2>1 DEF CInv, CauseInv, Tried
  <2> QED BY <2>1, <2>2, <2>3 DEF CauseInv, FatalHandOverCause, EmergencyPcs
<1>9. CASE CacheFails
  <2>1. UNCHANGED <<cur, cached>> /\ pc[Main] = "cache" /\ pc'[Main] = "fatal"
    BY <1>9, Labels DEF CacheFails, startVars, Goto, EmergencyPcs
  <2> QED BY <2>1, CauseBefore DEF EmergencyPcs
<1>10. CASE RunOnceDone \/ HandOver
  <2>1. cached' = cached /\ cur' = cur + 1 /\ pc[Main] = "handover" /\ cur \in Svc
    BY <1>10 DEF RunOnceDone, HandOver, NextService, Loop
  <2>2. pc'[Main] = LoopAt(cur + 1)
    BY <1>10, <2>1, Labels, TaskNames DEF RunOnceDone, HandOver, Goto
  <2>3. pc'[Main] \in {"ready", "publish"}
    BY <2>2, Labels
  <2>4. \A s \in cached' : s < cur'
    BY <2>1 DEF CInv, CauseInv
  <2> QED BY <2>3, <2>4 DEF CauseInv, FatalHandOverCause, EmergencyPcs
<1>11. CASE HandOverFails
  <2>1. /\ UNCHANGED <<cur, cached, body, process>> /\ pc[Main] = "handover" /\ pc'[Main] = "fatal"
        /\ cfg[cur].pattern # "RunOnce" /\ cur \in Svc
        /\ body[cur] # "Standard" \/ log[cur] # "This" \/ process[cur] # "This"
    BY <1>11, Labels DEF HandOverFails, Goto, EmergencyPcs, Loop
  <2>2. Tried(cur)
    BY <2>1 DEF CInv, CauseInv
  <2>3. /\ cfg[cur].pattern = "Standard"
        /\ process[cur] = "Nobody" => cfg[cur].optional
        /\ process[cur] = "Nobody" \/ ~cfg[cur].logger
    BY <2>1, <2>2 DEF Tried
  <2>4. \A s \in cached : s < cur \/ s = cur
    BY DEF CInv, CauseInv
  <2> QED BY <2>1, <2>3, <2>4 DEF CauseInv, FatalHandOverCause, EmergencyPcs
<1> QED BY <1>1, <1>2, <1>3, <1>4, <1>5, <1>6, <1>7, <1>8, <1>9, <1>10, <1>11 DEF MainStep

\* The invariant with the causes.
LEMMA CauseInvariance == Spec => []CInv
<1>1. Init => CInv
  BY InitInv, OwnInit, CauseInit DEF CInv, LInv
<1>2. CInv /\ [Next]_vars => CInv'
  <2> SUFFICES ASSUME CInv, [Next]_vars PROVE CauseInv'
    BY OwnStep DEF CInv
  <2>1. CASE UNCHANGED coreVars
    BY <2>1 DEF CInv, CauseInv, Tried, FatalHandOverCause, coreVars, startVars
  <2>2. CASE cfg' = cfg /\ (MainStep \/ OtherStep)
    BY <2>2, CauseMain, CauseOther
  <2> QED BY <2>1, <2>2, StepKinds
<1> QED
  BY <1>1, <1>2, PTL DEF Spec

\* FatalHandOverCause: a hand-over fails over a missing logger or process only, which
\* takes a configuration without a logger, or a failed start of an optional service.
THEOREM HandOverFailsForCause == Spec => []FatalHandOverCause
<1>1. CInv => FatalHandOverCause
  BY DEF CInv, CauseInv
<1> QED
  BY <1>1, CauseInvariance, PTL
=============================================================================
