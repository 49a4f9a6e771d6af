---------------------------- MODULE ServiceLife ----------------------------
(***************************************************************************)
(* What the init promises about the life of its services, without its      *)
(* tasks, locks and positions (the lifetime documented at Service::up and  *)
(* Supervisor, src/init/service/mod.rs, and at poweroff(), init/power.rs): *)
(* services are dealt with one after the other in the target's order, each *)
(* either ends up supervised or is left; a supervised service is told to   *)
(* quit only in a shutdown, once, after all that come before it; and its   *)
(* death is reported only if it was not told to die.                       *)
(***************************************************************************)
EXTENDS Integers

CONSTANT NumServices

Svc == 1..NumServices

VARIABLES
  turn,      \* the service the startup is dealing with
  phase,     \* how far each service has come
  proc,      \* what has become of its process
  closing,   \* a shutdown has been announced
  reported   \* the services whose death was reported

vars == <<turn, phase, proc, closing, reported>>

Init ==
  /\ turn = 1
  /\ phase = [s \in Svc |-> "waiting"]
  /\ proc = [s \in Svc |-> "none"]
  /\ closing = FALSE
  /\ reported = {}

Start(s) ==
  /\ s = turn /\ phase[s] = "waiting"
  /\ phase' = [phase EXCEPT ![s] = "started"]
  /\ proc' = [proc EXCEPT ![s] = "alive"]
  /\ UNCHANGED <<turn, closing, reported>>

\* Only what was started is supervised.
Supervise(s) ==
  /\ s = turn /\ phase[s] = "started"
  /\ phase' = [phase EXCEPT ![s] = "supervised"]
  /\ turn' = turn + 1
  /\ UNCHANGED <<proc, closing, reported>>

\* A service nobody waits for any more: it ran once, or it is optional.
Leave(s) ==
  /\ s = turn /\ phase[s] \in {"waiting", "started"}
  /\ phase' = [phase EXCEPT ![s] = "left"]
  /\ turn' = turn + 1
  /\ UNCHANGED <<proc, closing, reported>>

Die(s) ==
  /\ \/ proc[s] = "alive" /\ proc' = [proc EXCEPT ![s] = "exited"]
     \/ proc[s] = "told" /\ proc' = [proc EXCEPT ![s] = "obeyed"]
  /\ UNCHANGED <<turn, phase, closing, reported>>

\* The supervisor saw the service die, and nobody had told it to.
Report(s) ==
  /\ phase[s] = "supervised" /\ proc[s] = "exited" /\ ~closing
  /\ s \notin reported
  /\ reported' = reported \cup {s}
  /\ UNCHANGED <<turn, phase, proc, closing>>

Announce ==
  /\ ~closing
  /\ closing' = TRUE
  /\ UNCHANGED <<turn, phase, proc, reported>>

Tell(s) ==
  /\ closing
  /\ phase[s] = "supervised" /\ proc[s] = "alive"
  /\ \A e \in Svc : e < s /\ phase[e] = "supervised" => proc[e] # "alive"
  /\ proc' = [proc EXCEPT ![s] = "told"]
  /\ UNCHANGED <<turn, phase, closing, reported>>

Next ==
  \/ Announce
  \/ \E s \in Svc : Start(s) \/ Supervise(s) \/ Leave(s) \/ Die(s) \/ Report(s) \/ Tell(s)

Spec == Init /\ [][Next]_vars
=============================================================================
