----------------------------- MODULE KickitLife -----------------------------
(***************************************************************************)
(* Kickit implements ServiceLife, and uses the two DynamicOwnership fields *)
(* of a Standard service's body the way their type demands.                *)
(***************************************************************************)
EXTENDS Kickit

\* handed over; passed by the loop without it; spawned; or none of these
Phase(s) == IF Handed(s) THEN "supervised"
            ELSE IF s < cur THEN "left"
            ELSE IF child[s] # "none" THEN "started" ELSE "waiting"

ProcOf == [none |-> "none", running |-> "alive", quit |-> "told",
           exited |-> "exited", killed |-> "obeyed"]

\* A supervisor that left `woken` for anything but its retirement has reported.
Reported == {s \in Svc : pc[Sup(s)] \in EmergencyPcs \cup {"warned"}}

Life == INSTANCE ServiceLife WITH
  turn <- cur,
  phase <- [s \in Svc |-> Phase(s)],
  proc <- [s \in Svc |-> ProcOf[child[s]]],
  closing <- powerOffReady,
  reported <- Reported

\* The tasks, locks and requests together keep the promises of ServiceLife: one
\* service at a time in the target's order, supervision only of what was
\* spawned, signals only in a shutdown and in order, no report of a killed one
\* (Service::up, Root::supervise, poweroff).
ImplementsLife == Life!Spec

Process == INSTANCE DynamicOwnership WITH Cells <- Svc, owner <- process
Log     == INSTANCE DynamicOwnership WITH Cells <- Svc, owner <- log

\* Neither field of any service is ever initialised twice, taken before it is
\* there or taken twice, on any path through up(), its failing ones included:
\* init()'s assertion never fires (DynamicOwnership::init, ::take).
OwnershipKept == Process!Spec /\ Log!Spec

\* start_process finds its fields as it needs them, whatever failed before: the
\* process not yet there when it is put in, and the logger owned by the service
\* when the first entry is logged (`oncelock!(&mut log)`).
OwnedWhenUsed ==
  pc[Main] = "establish" =>
    /\ process[cur] = "Nobody"
    /\ cfg[cur].logger <=> Log!IsOwned(cur)

\* Once a service has its cache file, main is in emergency over it for one
\* reason: its logger or its process is missing, because it is configured
\* without a logger or because its start failed and it is optional
\* (Service::up; an optional service is not spared this).
FatalHandOverCause ==
  pc[Main] \in EmergencyPcs /\ cur \in cached =>
    /\ cfg[cur].pattern = "Standard"
    /\ process[cur] = "Nobody" => cfg[cur].optional
    /\ process[cur] = "Nobody" \/ ~cfg[cur].logger
=============================================================================
