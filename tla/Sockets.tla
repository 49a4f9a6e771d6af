------------------------------ MODULE Sockets ------------------------------
(***************************************************************************)
(* The conversation between ktctl and the init over the Core, Log and      *)
(* Power sockets, and the two mutexes it goes through: INIT_STATE and      *)
(* MASTER_LOG.                                                             *)
(*                                                                         *)
(*   ktctl      Operation::run, Init::state, Init::pid (ktctl/ktctl.rs),   *)
(*              Request::request and SocketResult::result (ktctl/socket.rs)*)
(*   handlers   Core, Log and Power (init/socket.rs) with relay!           *)
(*   emergency  one fatal error, up to the state it sets (init/console.rs) *)
(*                                                                         *)
(* poweroff() is one step with an outcome here; Kickit has its steps, and  *)
(* the runtime's workers.  A message is logged in one step, and what the   *)
(* log holds is left out.  The clients are privileged users.               *)
(***************************************************************************)
EXTENDS Integers, Sequences

CONSTANTS Clients,     \* runs of ktctl
          Ops          \* the operations they may be, one for each client

\* The requests an operation makes, in order: sanity() and state() ask for the
\* version and the state, then the operation asks what it is about.
Program == [service  |-> <<"VERSION", "STATE">>,
            state    |-> <<"VERSION", "STATE", "PID">>,
            target   |-> <<"VERSION", "STATE", "TARGET">>,
            log      |-> <<"VERSION", "STATE", "MASTER">>,
            shutdown |-> <<"VERSION", "STATE", "PID", "SHUTDOWN">>,
            force    |-> <<"VERSION", "STATE", "PID", "FORCE_SHUTDOWN">>]

ASSUME ClientAssumption == "none" \notin Clients
ASSUME OpsAssumption == Ops \subseteq [Clients -> DOMAIN Program]

VARIABLES
  asInit,         \* the init's process id is 1
  machine,        \* the init process, or the whole machine
  initState,      \* INIT_STATE
  stateLock,      \* who holds INIT_STATE over several steps
  masterLog,      \* who holds MASTER_LOG over several steps
  powerOffReady,  \* POWER_OFF_READY has been set
  crash,          \* control state of the task with a fatal error
  op, cpc, step,  \* what a client runs, its control state and its request
  conn,           \* its connection
  hpc             \* control state of the handler of that connection

initVars   == <<asInit, machine, initState, stateLock, masterLog, powerOffReady>>
clientVars == <<op, cpc, step>>
vars == <<initVars, crash, clientVars, conn, hpc>>

Conn == [open : BOOLEAN,   \* the client has not gone away
         sent : BOOLEAN,   \* its request byte is in the stream
         answer : Seq({"OK", "ERR", "data", "Unsupported", "IoRead"}),
         eof : BOOLEAN]    \* the handler has dropped the stream
NoConn == [open |-> FALSE, sent |-> FALSE, answer |-> << >>, eof |-> TRUE]

Asked(c) == Program[op[c]][step[c]]
PowerBytes == {"SHUTDOWN", "FORCE_SHUTDOWN"}

Ended == {"done", "failed", "down", "killed"}
ClientPcs == Ended \cup {"connect", "write", "await", "parked"}
\* A handler: waiting for the byte, with the byte read, with MASTER_LOG locked,
\* with the OK byte written, in poweroff(), about to warn and return, about to
\* warn and refuse, about to write an error.
HandlerPcs == {"none", "accepted", "asked", "locked", "ok", "sweep",
               "warn", "warnRefuse", "refuse", "unread"}

Init ==
  /\ asInit \in BOOLEAN
  /\ machine = "on"
  /\ initState = "Okay" /\ stateLock = "none"
  /\ masterLog = "none"
  /\ powerOffReady = FALSE
  /\ crash = "none"
  /\ op \in Ops
  /\ cpc = [c \in Clients |-> "connect"]
  /\ step = [c \in Clients |-> 1]
  /\ conn = [c \in Clients |-> NoConn]
  /\ hpc = [c \in Clients |-> "none"]

\* log!: MASTER_LOG is locked, pushed to and released.
LogMessage == masterLog = "none"

----------------------------------------------------------------------------
(* ktctl.                                                                  *)

\* SocketResult::result: two bytes at least, the first of them OK or ERR.
Verdict(answer) ==
  IF Len(answer) < 2 THEN "bad" ELSE IF answer[1] = "OK" THEN "ok" ELSE "refused"

\* Where a verdict on the current request leaves the client.
Continue(c) == IF step[c] < Len(Program[op[c]]) THEN "connect" ELSE "done"
After(c, verdict) ==
  IF Asked(c) \in PowerBytes
  THEN IF verdict = "refused" THEN "failed" ELSE IF asInit THEN "parked" ELSE "done"
  ELSE IF verdict = "ok" THEN Continue(c)
  ELSE IF Asked(c) \in {"VERSION", "STATE"} THEN "down" ELSE "failed"

\* Mutant: the position moves on after the last request, too.
FinishPast(c, verdict) ==
  /\ cpc' = [cpc EXCEPT ![c] = After(c, verdict)]
  /\ step' = [step EXCEPT ![c] = @ + 1]
  /\ UNCHANGED op

Finish(c, verdict) ==
  /\ cpc' = [cpc EXCEPT ![c] = After(c, verdict)]
  /\ step' = [step EXCEPT ![c] = IF After(c, verdict) = "connect" THEN @ + 1 ELSE @]
  /\ UNCHANGED op

\* The connection lands in the listener's queue and is accepted.
Connect(c) ==
  /\ cpc[c] = "connect"
  /\ machine = "on"
  /\ cpc' = [cpc EXCEPT ![c] = "write"]
  /\ conn' = [conn EXCEPT ![c] = [open |-> TRUE, sent |-> FALSE, answer |-> << >>, eof |-> FALSE]]
  /\ hpc' = [hpc EXCEPT ![c] = "accepted"]
  /\ UNCHANGED <<initVars, crash, op, step>>

\* The socket is not open yet, or other users' connections fill its backlog.
ConnectFails(c) ==
  /\ cpc[c] = "connect"
  /\ machine # "rebooted"
  /\ Finish(c, "bad")
  /\ UNCHANGED <<initVars, crash, conn, hpc>>

Send(c) ==
  /\ cpc[c] = "write"
  /\ machine # "rebooted"
  /\ IF conn[c].eof
     THEN Finish(c, "bad") /\ UNCHANGED conn
     ELSE /\ cpc' = [cpc EXCEPT ![c] = "await"]
          /\ conn' = [conn EXCEPT ![c].sent = TRUE]
          /\ UNCHANGED <<op, step>>
  /\ UNCHANGED <<initVars, crash, hpc>>

\* read_to_end returns at the end of the stream.
Receive(c) ==
  /\ cpc[c] = "await"
  /\ machine # "rebooted"
  /\ conn[c].eof
  /\ Finish(c, Verdict(conn[c].answer))
  /\ UNCHANGED <<initVars, crash, conn, hpc>>

\* The user ends ktctl while it waits.
Killed(c) ==
  /\ cpc[c] \in {"write", "await"}
  /\ machine # "rebooted"
  /\ cpc' = [cpc EXCEPT ![c] = "killed"]
  /\ conn' = [conn EXCEPT ![c].open = FALSE]
  /\ UNCHANGED <<initVars, crash, op, step, hpc>>

----------------------------------------------------------------------------
(* The handlers.                                                           *)

Handler(c, at, to) ==
  /\ machine = "on"
  /\ hpc[c] = at
  /\ hpc' = [hpc EXCEPT ![c] = to]

\* The handler returns: the stream is dropped, and a guard with it.
Return(c, at, bytes) ==
  /\ Handler(c, at, "none")
  /\ conn' = [conn EXCEPT ![c].answer = @ \o bytes, ![c].eof = TRUE]
  /\ masterLog' = IF masterLog = c THEN "none" ELSE masterLog

KeepInit == UNCHANGED <<asInit, machine, initState, stateLock, powerOffReady>>

Read(c) ==
  /\ conn[c].sent
  /\ Handler(c, "accepted", "asked")
  /\ UNCHANGED <<initVars, crash, clientVars, conn>>

\* A spurious readiness: try_read would block.
ReadFails(c) ==
  /\ conn[c].sent
  /\ Handler(c, "accepted", "unread")
  /\ UNCHANGED <<initVars, crash, clientVars, conn>>

\* The client went away without a request: try_read gives no byte, the zero in
\* the buffer is bad input, and the answer to that cannot be written.
ReadNothing(c) ==
  /\ ~conn[c].open /\ ~conn[c].sent
  /\ Handler(c, "accepted", "warn")
  /\ UNCHANGED <<initVars, crash, clientVars, conn>>

\* Mutant: a failed read returns without an answer.
RefuseSilently(c, at, error) ==
  /\ Return(c, at, << >>)
  /\ UNCHANGED <<crash, clientVars>> /\ KeepInit

\* relay!(Err(e)): one write, whose failure is a warning.
RefuseWith(c, at, error) ==
  /\ conn[c].open
  /\ Return(c, at, <<"ERR", error>>)
  /\ UNCHANGED <<crash, clientVars>> /\ KeepInit

Refuse(c) == RefuseWith(c, "unread", "IoRead") \/ RefuseWith(c, "refuse", "Unsupported")

RefuseFails(c) ==
  /\ ~conn[c].open
  /\ Handler(c, "unread", "warn") \/ Handler(c, "refuse", "warn")
  /\ UNCHANGED <<initVars, crash, clientVars, conn>>

\* Log: MASTER_LOG stays locked for the whole answer.
LockLog(c) ==
  /\ Asked(c) = "MASTER"
  /\ masterLog = "none"
  /\ Handler(c, "asked", "locked")
  /\ masterLog' = c
  /\ UNCHANGED <<crash, clientVars, conn>> /\ KeepInit

\* relay!(Ok(...)): the OK byte goes out before the bytes are even evaluated.
WriteOk(c) ==
  /\ conn[c].open
  /\ \/ Handler(c, "locked", "ok")
     \/ Asked(c) \notin PowerBytes \cup {"MASTER"} /\ Handler(c, "asked", "ok")
  /\ conn' = [conn EXCEPT ![c].answer = <<"OK">>]
  /\ UNCHANGED <<initVars, crash, clientVars>>

\* Mutant: the log handler, too, asks for the state while it answers.
WriteDataAndState(c) ==
  /\ conn[c].open
  /\ stateLock = "none"
  /\ Return(c, "ok", <<"data">>)
  /\ UNCHANGED <<crash, clientVars>> /\ KeepInit

\* Mutant: the handler keeps the stream, for a next request.
WriteDataKeepsStream(c) ==
  /\ conn[c].open
  /\ Asked(c) = "STATE" => stateLock = "none"
  /\ Handler(c, "ok", "none")
  /\ conn' = [conn EXCEPT ![c].answer = @ \o <<"data">>]
  /\ masterLog' = IF masterLog = c THEN "none" ELSE masterLog
  /\ UNCHANGED <<crash, clientVars>> /\ KeepInit

\* state!() waits for INIT_STATE; a write that takes a part of the bytes counts
\* as one that took them all.
WriteData(c) ==
  /\ conn[c].open
  /\ Asked(c) = "STATE" => stateLock = "none"
  /\ Return(c, "ok", <<"data">>)
  /\ UNCHANGED <<crash, clientVars>> /\ KeepInit

WriteFails(c) ==
  /\ ~conn[c].open
  /\ \/ Handler(c, "ok", "warn") /\ (Asked(c) = "STATE" => stateLock = "none")
     \/ Handler(c, "locked", "warn")
     \/ Asked(c) \notin PowerBytes \cup {"MASTER"} /\ Handler(c, "asked", "warn")
  /\ UNCHANGED <<initVars, crash, clientVars, conn>>

\* One warning or two lock MASTER_LOG, whoever holds it, then the handler
\* returns.
Warn(c) ==
  /\ LogMessage
  /\ Return(c, "warn", << >>)
  /\ UNCHANGED <<crash, clientVars>> /\ KeepInit

\* Mutant: force_poweroff is not asked whether kickit is the init.
ForceUnguarded(c) ==
  /\ Asked(c) = "FORCE_SHUTDOWN"
  /\ hpc[c] = "asked" /\ machine = "on"
  /\ machine' = "rebooted"
  /\ UNCHANGED <<asInit, initState, stateLock, masterLog, powerOffReady,
                 crash, clientVars, conn, hpc>>

\* force_poweroff: reboot() at once, on the init only.
ForcePowerOff(c) ==
  /\ Asked(c) = "FORCE_SHUTDOWN" /\ asInit
  /\ hpc[c] = "asked" /\ machine = "on"
  /\ machine' = "rebooted"
  /\ UNCHANGED <<asInit, initState, stateLock, masterLog, powerOffReady,
                 crash, clientVars, conn, hpc>>

ForceFails(c) ==
  /\ Asked(c) = "FORCE_SHUTDOWN" /\ asInit
  /\ Handler(c, "asked", "warn")
  /\ UNCHANGED <<initVars, crash, clientVars, conn>>

ForceUnsupported(c) ==
  /\ Asked(c) = "FORCE_SHUTDOWN" /\ ~asInit
  /\ Handler(c, "asked", "warnRefuse")
  /\ UNCHANGED <<initVars, crash, clientVars, conn>>

WarnUnsupported(c) ==
  /\ LogMessage
  /\ Handler(c, "warnRefuse", "refuse")
  /\ UNCHANGED <<masterLog, crash, clientVars, conn>> /\ KeepInit

\* poweroff() sets POWER_OFF_READY, which works once.
SetReady(c) ==
  /\ Asked(c) = "SHUTDOWN" /\ ~powerOffReady
  /\ Handler(c, "asked", "sweep")
  /\ powerOffReady' = TRUE
  /\ UNCHANGED <<asInit, machine, initState, stateLock, masterLog,
                 crash, clientVars, conn>>

AlreadySet(c) ==
  /\ Asked(c) = "SHUTDOWN" /\ powerOffReady
  /\ Handler(c, "asked", "warn")
  /\ UNCHANGED <<initVars, crash, clientVars, conn>>

\* The rest of poweroff(), which logs on its way: the machine goes down, or the
\* process exits and its connections end.
PowerOff(c) ==
  /\ hpc[c] = "sweep" /\ machine = "on"
  /\ LogMessage
  /\ machine' = IF asInit THEN "rebooted" ELSE "exited"
  /\ conn' = [d \in Clients |-> [conn[d] EXCEPT !.eof = TRUE]]
  /\ hpc' = [d \in Clients |-> "none"]
  /\ stateLock' = "none"
  /\ UNCHANGED <<asInit, initState, masterLog, powerOffReady, crash, clientVars>>

\* A service, a mount or reboot() itself fails it.
PowerOffFails(c) ==
  /\ Handler(c, "sweep", "warn")
  /\ UNCHANGED <<initVars, crash, clientVars, conn>>

----------------------------------------------------------------------------
(* The other users of the two mutexes.                                     *)

\* A fatal error is logged.
Fatal ==
  /\ machine = "on" /\ crash = "none"
  /\ LogMessage
  /\ crash' = "fatal"
  /\ UNCHANGED <<asInit, machine, initState, stateLock, masterLog, powerOffReady,
                 clientVars, conn, hpc>>

LockState ==
  /\ machine = "on" /\ crash = "fatal"
  /\ stateLock = "none"
  /\ crash' = "locked"
  /\ stateLock' = "emergency"
  /\ UNCHANGED <<asInit, machine, initState, masterLog, powerOffReady,
                 clientVars, conn, hpc>>

\* Mutant: the state is not released before the shell is waited for.
KeepState ==
  /\ machine = "on" /\ crash = "locked"
  /\ LogMessage
  /\ initState' = "Emergency"
  /\ crash' = "shell"
  /\ UNCHANGED <<asInit, machine, stateLock, masterLog, powerOffReady,
                 clientVars, conn, hpc>>

\* The warning is logged with INIT_STATE held, which is then set and released.
EnterEmergency ==
  /\ machine = "on" /\ crash = "locked"
  /\ LogMessage
  /\ initState' = "Emergency"
  /\ stateLock' = "none"
  /\ crash' = "shell"
  /\ UNCHANGED <<asInit, machine, masterLog, powerOffReady,
                 clientVars, conn, hpc>>

----------------------------------------------------------------------------
ClientStep(c) == Connect(c) \/ ConnectFails(c) \/ Send(c) \/ Receive(c)
HandlerStep(c) ==
  \/ Read(c) \/ ReadFails(c) \/ ReadNothing(c) \/ Refuse(c) \/ RefuseFails(c)
  \/ LockLog(c) \/ WriteOk(c) \/ WriteData(c) \/ WriteFails(c) \/ Warn(c)
  \/ ForcePowerOff(c) \/ ForceFails(c) \/ ForceUnsupported(c) \/ WarnUnsupported(c)
  \/ SetReady(c) \/ AlreadySet(c) \/ PowerOff(c) \/ PowerOffFails(c)
EmergencyStep == LockState \/ EnterEmergency

Next ==
  \/ \E c \in Clients : ClientStep(c) \/ Killed(c) \/ HandlerStep(c)
  \/ Fatal \/ EmergencyStep

\* Programs that can run do run, and a mutex that stays free is acquired;
\* nobody has to kill ktctl or to fail fatally.
Fairness ==
  /\ \A c \in Clients : WF_vars(ClientStep(c)) /\ WF_vars(HandlerStep(c))
  /\ WF_vars(EmergencyStep)

Spec == Init /\ [][Next]_vars /\ Fairness

----------------------------------------------------------------------------
(* Properties.                                                             *)

\* Every variable keeps its type, and a mutex is held only by code that is
\* between its lock and its return.
TypeOK ==
  /\ asInit \in BOOLEAN /\ powerOffReady \in BOOLEAN
  /\ machine \in {"on", "exited", "rebooted"}
  /\ initState \in {"Okay", "Emergency"}
  /\ stateLock \in {"none", "emergency"}
  /\ masterLog \in Clients \cup {"none"}
  /\ crash \in {"none", "fatal", "locked", "shell"}
  /\ op \in Ops
  /\ cpc \in [Clients -> ClientPcs]
  /\ \A c \in Clients : step[c] \in 1..Len(Program[op[c]])
  /\ conn \in [Clients -> Conn]
  /\ hpc \in [Clients -> HandlerPcs]
  /\ \A c \in Clients : masterLog = c => Asked(c) = "MASTER" /\ hpc[c] \in {"locked", "ok", "warn"}

\* A kickit that runs beside another init never takes the machine down with it:
\* every way through Power::handler and poweroff() ends in its own exit.
RebootOnlyAsInit == machine = "rebooted" => asInit

\* A running init ends a connection without an answer only after a power
\* request: whatever else goes wrong in a handler, the peer that stays is told.
EveryQuestionAnswered ==
  \A c \in Clients :
    machine = "on" /\ conn[c].open /\ conn[c].eof /\ Verdict(conn[c].answer) = "bad"
      => Asked(c) \in PowerBytes

\* A log handler is in the warning of its own failed write, which waits for the
\* mutex the handler itself holds.
Relocked == \E c \in Clients : masterLog = c /\ hpc[c] = "warn"

\* Every handler returns: neither the lock that kickToEmergencyShell nests in
\* another nor the log held over an answer makes a cycle.  The only thing that
\* stops handlers is a log handler that locks its own mutex again.
HandlersReturn ==
  \A c \in Clients : hpc[c] # "none" ~> hpc[c] = "none" \/ machine # "on" \/ Relocked

\* A fatal error reaches the emergency state, whatever ktctl is asking for.
EmergencyEntered ==
  crash = "fatal" ~> initState = "Emergency" \/ machine # "on" \/ Relocked

\* Every run of ktctl comes to an end, or to the park() that waits for the
\* machine to go down.
ClientsSettle ==
  \A c \in Clients : <>(cpc[c] \in Ended \cup {"parked"} \/ machine = "rebooted" \/ Relocked)

\* The handlers are "completely errorless" (socket.rs): no request makes one wait
\* for a mutex it holds itself.
LogNeverRelocked == ~Relocked
=============================================================================
