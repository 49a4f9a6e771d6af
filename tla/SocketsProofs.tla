--------------------------- MODULE SocketsProofs ---------------------------
(***************************************************************************)
(* For any number of clients with any operations: a kickit beside another  *)
(* init never takes the machine down, MASTER_LOG is held over several      *)
(* steps only by a handler that answers with the log, a peer that stays    *)
(* is told how its request went, and every client stays in its program.    *)
(***************************************************************************)
EXTENDS Sockets, SequenceTheorems, TLAPS

\* All that a handler ever puts on a stream.
Answers == {<< >>, <<"OK">>, <<"OK", "data">>, <<"ERR", "IoRead">>, <<"ERR", "Unsupported">>}
Links == [open : BOOLEAN, sent : BOOLEAN, answer : Answers, eof : BOOLEAN]

\* The types the argument needs.
SockTypes ==
  /\ asInit \in BOOLEAN
  /\ machine \in {"on", "exited", "rebooted"}
  /\ masterLog \in Clients \cup {"none"}
  /\ op \in [Clients -> DOMAIN Program]
  /\ cpc \in [Clients -> ClientPcs]
  /\ step \in [Clients -> Nat]
  /\ conn \in [Clients -> Links]
  /\ hpc \in [Clients -> HandlerPcs]

\* What a peer that stays has been told, of a running init.
Told(c) ==
  machine = "on" /\ conn[c].open /\ conn[c].eof /\ Verdict(conn[c].answer) = "bad"
    => Asked(c) \in PowerBytes

\* The handler of c: what it holds, and what it has written and will have.
Holds(c) == masterLog = c => Asked(c) = "MASTER" /\ hpc[c] \in {"locked", "ok", "warn"}
Wrote(c) ==
  /\ conn[c].eof <=> hpc[c] = "none"
  /\ cpc[c] = "connect" => hpc[c] = "none"
  /\ hpc[c] = "ok" => conn[c].answer = <<"OK">>
  /\ hpc[c] \in {"accepted", "asked", "locked", "unread", "refuse", "warnRefuse", "sweep"} =>
       conn[c].answer = << >>
  /\ hpc[c] = "warn" /\ conn[c].open => Asked(c) \in PowerBytes
  /\ hpc[c] = "sweep" => Asked(c) \in PowerBytes

PerClient(c) == Holds(c) /\ Wrote(c) /\ Told(c)

SockInv == SockTypes /\ RebootOnlyAsInit /\ \A c \in Clients : PerClient(c)

USE ClientAssumption

----------------------------------------------------------------------------
(* Helpers.                                                                *)

\* A client that another client's step does not touch.
LEMMA Untouched ==
  ASSUME NEW d \in Clients, PerClient(d), op' = op, step'[d] = step[d], cpc'[d] = cpc[d],
         conn'[d] = conn[d], hpc'[d] = hpc[d],
         machine' = "on" => machine = "on",
         masterLog' = d => masterLog = d
  PROVE  PerClient(d)'
  BY DEF PerClient, Holds, Wrote, Told, Asked

\* The verdicts on what handlers write.
LEMMA Verdicts ==
  /\ Verdict(<<"OK", "data">>) = "ok"
  /\ \A e : Verdict(<<"ERR", e>>) = "refused"
  /\ Verdict(<< >>) = "bad" /\ Verdict(<<"OK">>) = "bad"
<1>1. Len(<<"OK", "data">>) = 2 /\ Len(<< >>) = 0 /\ Len(<<"OK">>) = 1
  OBVIOUS
<1>2. \A e : Len(<<"ERR", e>>) = 2
  OBVIOUS
<1> QED BY <1>1, <1>2 DEF Verdict

\* The streams that handlers make by one more write.
LEMMA Writes ==
  /\ \A e : << >> \o <<"ERR", e>> = <<"ERR", e>>
  /\ <<"OK">> \o <<"data">> = <<"OK", "data">>
  /\ \A a \in Answers : a \o << >> = a
<1>1. ASSUME NEW e PROVE << >> \o <<"ERR", e>> = <<"ERR", e>>
  <2>1. <<"ERR", e>> \in Seq({"ERR", e})
    OBVIOUS
  <2> QED BY <2>1, ConcatEmptySeq
<1>2. <<"OK">> \o <<"data">> = <<"OK", "data">>
  <2> DEFINE S == {"OK", "data"}  all == <<"OK">> \o <<"data">>
  <2>1. <<"OK">> \in Seq(S) /\ <<"data">> \in Seq(S) /\ <<"OK", "data">> \in Seq(S)
    OBVIOUS
  <2>2. all \in Seq(S) /\ Len(all) = 2 /\ all[1] = "OK" /\ all[2] = "data"
    <3>1. Len(<<"OK">>) = 1 /\ Len(<<"data">>) = 1
      OBVIOUS
    <3>2. /\ all \in Seq(S) /\ Len(all) = 2
          /\ \A i \in 1..2 : all[i] = IF i <= 1 THEN <<"OK">>[i] ELSE <<"data">>[i - 1]
      BY <2>1, <3>1, ConcatProperties
    <3> HIDE DEF all
    <3> QED BY <3>2
  <2> HIDE DEF all
  <2>3. \A i \in 1..Len(all) : all[i] = <<"OK", "data">>[i]
    BY <2>2
  <2>4. Len(<<"OK", "data">>) = Len(all)
    BY <2>2
  <2>5. all = <<"OK", "data">>
    BY <2>1, <2>2, <2>3, <2>4, SeqEqual
  <2> QED BY <2>5 DEF all
<1>3. ASSUME NEW a \in Answers PROVE a \o << >> = a
  <2> DEFINE S == {"OK", "data", "ERR", "IoRead", "Unsupported"}
  <2>1. a \in Seq(S)
    <3>1. /\ << >> \in Seq(S) /\ <<"OK">> \in Seq(S) /\ <<"OK", "data">> \in Seq(S)
          /\ <<"ERR", "IoRead">> \in Seq(S) /\ <<"ERR", "Unsupported">> \in Seq(S)
      OBVIOUS
    <3> QED BY <3>1 DEF Answers
  <2> QED BY <2>1, ConcatEmptySeq
<1> QED BY <1>1, <1>2, <1>3

\* A run of ktctl goes on to its next request only from a good answer.
LEMMA Onwards ==
  ASSUME NEW c \in Clients, NEW v, After(c, v) = "connect"
  PROVE  v = "ok" /\ Asked(c) \notin PowerBytes
  BY DEF After, Continue

\* Finish moves the client to a state of its own, and its request only onwards.
LEMMA FinishMoves ==
  ASSUME SockTypes, NEW c \in Clients, NEW v, Finish(c, v)
  PROVE  /\ op' = op
         /\ cpc' \in [Clients -> ClientPcs] /\ step' \in [Clients -> Nat]
         /\ cpc'[c] = "connect" => v = "ok"
         /\ cpc'[c] # "connect" => step'[c] = step[c]
         /\ \A d \in Clients \ {c} : cpc'[d] = cpc[d] /\ step'[d] = step[d]
<1>1. After(c, v) \in ClientPcs
  BY DEF After, Continue, ClientPcs, Ended
<1>2. After(c, v) = "connect" => v = "ok"
  BY Onwards
<1> QED BY <1>1, <1>2 DEF Finish, SockTypes

\* Invariance of the initial state.
LEMMA SockInit == Init => SockInv
<1> SUFFICES ASSUME Init PROVE SockInv
  OBVIOUS
<1>1. NoConn \in Links
  BY DEF NoConn, Links, Answers
<1>2. SockTypes
  BY <1>1, OpsAssumption DEF Init, SockTypes, ClientPcs, HandlerPcs
<1>3. ASSUME NEW c \in Clients PROVE PerClient(c)
  BY <1>3 DEF Init, PerClient, Holds, Wrote, Told, NoConn
<1> QED BY <1>2, <1>3 DEF Init, SockInv, RebootOnlyAsInit

----------------------------------------------------------------------------
(* The client's steps.                                                     *)

\* A finished request leaves a connection whose handler is gone.
LEMMA FinishKeeps ==
  ASSUME SockInv, NEW c \in Clients, NEW v, Finish(c, v), hpc[c] = "none",
         v = "ok" => Verdict(conn[c].answer) = "ok",
         UNCHANGED <<initVars, conn, hpc>>
  PROVE  SockInv'
<1>1. SockTypes'
  BY FinishMoves DEF SockInv, SockTypes, initVars
<1>2. ASSUME NEW d \in Clients \ {c} PROVE PerClient(d)'
  BY FinishMoves, Untouched DEF SockInv, initVars
<1>3. PerClient(c)'
  <2>1. masterLog # c /\ conn[c].eof
    BY DEF SockInv, PerClient, Holds, Wrote
  <2>2. Holds(c)' /\ Wrote(c)'
    BY <2>1 DEF Holds, Wrote, initVars
  <2>3. ASSUME cpc'[c] = "connect" PROVE Told(c)'
    <3>1. Verdict(conn[c].answer) # "bad"
      BY <2>3, FinishMoves DEF SockInv
    <3> QED BY <3>1 DEF Told
  <2>4. ASSUME cpc'[c] # "connect" PROVE Told(c)'
    <3>1. step'[c] = step[c] /\ op' = op
      BY <2>4, FinishMoves DEF SockInv
    <3> QED BY <3>1 DEF SockInv, PerClient, Told, Asked, initVars
  <2> QED BY <2>2, <2>3, <2>4 DEF PerClient
<1>4. RebootOnlyAsInit'
  BY DEF SockInv, RebootOnlyAsInit, initVars
<1> QED BY <1>1, <1>2, <1>3, <1>4 DEF SockInv

\* ktctl: a request begins with no handler and ends when its handler is gone.
LEMMA SockClient ==
  ASSUME SockInv, NEW c \in Clients, ClientStep(c) \/ Killed(c)
  PROVE  SockInv'
<1>1. CASE Connect(c)
  <2>1. UNCHANGED <<initVars, op, step>> /\ hpc[c] = "none"
    BY <1>1 DEF Connect, SockInv, PerClient, Wrote
  <2>2. /\ cpc' = [cpc EXCEPT ![c] = "write"] /\ hpc' = [hpc EXCEPT ![c] = "accepted"]
        /\ conn' = [conn EXCEPT ![c] = [open |-> TRUE, sent |-> FALSE, answer |-> << >>, eof |-> FALSE]]
    BY <1>1 DEF Connect
  <2>3. SockTypes'
    BY <2>1, <2>2 DEF SockInv, SockTypes, initVars, Links, Answers, ClientPcs, HandlerPcs
  <2>4. ASSUME NEW d \in Clients \ {c} PROVE PerClient(d)'
    BY <2>1, <2>2, Untouched DEF SockInv, SockTypes, initVars
  <2>5. PerClient(c)'
    BY <2>1, <2>2 DEF SockInv, SockTypes, PerClient, Holds, Wrote, Told, initVars
  <2> QED BY <2>1, <2>3, <2>4, <2>5 DEF SockInv, RebootOnlyAsInit, initVars
<1>2. CASE ConnectFails(c)
  <2>1. hpc[c] = "none"
    BY <1>2 DEF ConnectFails, SockInv, PerClient, Wrote
  <2> QED BY <1>2, <2>1, FinishKeeps DEF ConnectFails
<1>3. CASE Send(c)
  <2>1. CASE conn[c].eof
    <3>1. hpc[c] = "none"
      BY <2>1 DEF SockInv, PerClient, Wrote
    <3> QED BY <1>3, <2>1, <3>1, FinishKeeps DEF Send
  <2>2. CASE ~conn[c].eof
    <3>1. /\ cpc' = [cpc EXCEPT ![c] = "await"] /\ conn' = [conn EXCEPT ![c].sent = TRUE]
          /\ UNCHANGED <<initVars, op, step, hpc>>
      BY <1>3, <2>2 DEF Send
    <3>2. SockTypes'
      BY <3>1 DEF SockInv, SockTypes, initVars, Links, ClientPcs
    <3>3. ASSUME NEW d \in Clients \ {c} PROVE PerClient(d)'
      BY <3>1, Untouched DEF SockInv, SockTypes, initVars
    <3>4. PerClient(c)'
      BY <3>1, <2>2 DEF SockInv, SockTypes, Links, PerClient, Holds, Wrote, Told, Asked, initVars
    <3> QED BY <3>1, <3>2, <3>3, <3>4 DEF SockInv, RebootOnlyAsInit, initVars
  <2> QED BY <2>1, <2>2
<1>4. CASE Receive(c)
  <2>1. hpc[c] = "none"
    BY <1>4 DEF Receive, SockInv, PerClient, Wrote
  <2> QED BY <1>4, <2>1, FinishKeeps DEF Receive
<1>5. CASE Killed(c)
  <2>1. /\ cpc' = [cpc EXCEPT ![c] = "killed"] /\ conn' = [conn EXCEPT ![c].open = FALSE]
        /\ UNCHANGED <<initVars, op, step, hpc>>
    BY <1>5 DEF Killed
  <2>2. SockTypes'
    BY <2>1 DEF SockInv, SockTypes, initVars, Links, ClientPcs, Ended
  <2>3. ASSUME NEW d \in Clients \ {c} PROVE PerClient(d)'
    BY <2>1, Untouched DEF SockInv, SockTypes, initVars
  <2>4. PerClient(c)'
    BY <2>1 DEF SockInv, SockTypes, Links, PerClient, Holds, Wrote, Told, Asked, initVars
  <2> QED BY <2>1, <2>2, <2>3, <2>4 DEF SockInv, RebootOnlyAsInit, initVars
<1> QED BY <1>1, <1>2, <1>3, <1>4, <1>5 DEF ClientStep
----------------------------------------------------------------------------
(* The handler's steps.                                                    *)

\* A handler that goes on without writing anything.
LEMMA HandlerMoves ==
  ASSUME SockInv, NEW c \in Clients, NEW at \in HandlerPcs \ {"none"}, NEW to \in HandlerPcs \ {"none"},
         Handler(c, at, to), UNCHANGED <<asInit, machine, clientVars, conn>>,
         masterLog' \in Clients \cup {"none"},
         \A d \in Clients \ {c} : masterLog' = d => masterLog = d,
         masterLog' = c => Asked(c) = "MASTER" /\ to \in {"locked", "ok", "warn"},
         to # "ok",
         to = "warn" => ~conn[c].open \/ Asked(c) \in PowerBytes,
         to = "sweep" => Asked(c) \in PowerBytes,
         to # "warn" => conn[c].answer = << >>
  PROVE  SockInv'
<1>1. hpc[c] = at /\ hpc' = [hpc EXCEPT ![c] = to]
  BY DEF Handler
<1>2. SockTypes'
  BY <1>1 DEF SockInv, SockTypes, clientVars
<1>3. ASSUME NEW d \in Clients \ {c} PROVE PerClient(d)'
  BY <1>1, Untouched DEF SockInv, SockTypes, clientVars
<1>4. PerClient(c)'
  BY <1>1 DEF SockInv, SockTypes, PerClient, Holds, Wrote, Told, Asked, clientVars
<1> QED BY <1>2, <1>3, <1>4 DEF SockInv, RebootOnlyAsInit

\* A handler that returns, with what it still writes.
LEMMA HandlerReturns ==
  ASSUME SockInv, NEW c \in Clients, NEW at \in HandlerPcs \ {"none"}, NEW bytes,
         Return(c, at, bytes), UNCHANGED <<asInit, machine, clientVars>>,
         conn[c].answer \o bytes \in Answers,
         conn[c].open /\ Verdict(conn[c].answer \o bytes) = "bad" => Asked(c) \in PowerBytes
  PROVE  SockInv'
<1>1. /\ hpc[c] = at /\ hpc' = [hpc EXCEPT ![c] = "none"]
      /\ conn' = [conn EXCEPT ![c].answer = @ \o bytes, ![c].eof = TRUE]
      /\ masterLog' = IF masterLog = c THEN "none" ELSE masterLog
  BY DEF Return, Handler
<1>2. conn[c] \in Links
  BY DEF SockInv, SockTypes
<1>3. /\ conn'[c] = [conn[c] EXCEPT !.answer = @ \o bytes, !.eof = TRUE]
      /\ \A d \in Clients \ {c} : conn'[d] = conn[d]
  BY <1>1 DEF SockInv, SockTypes
<1>4. /\ conn'[c].answer = conn[c].answer \o bytes
      /\ conn'[c].eof = TRUE /\ conn'[c].open = conn[c].open
  BY <1>2, <1>3 DEF Links
<1>5. SockTypes'
  <2>1. conn'[c] \in Links
    BY <1>2, <1>3 DEF Links
  <2> QED BY <1>1, <1>3, <2>1 DEF SockInv, SockTypes, clientVars, HandlerPcs
<1>6. ASSUME NEW d \in Clients \ {c} PROVE PerClient(d)'
  BY <1>1, <1>3, Untouched DEF SockInv, SockTypes, clientVars
<1>7. PerClient(c)'
  <2>1. hpc'[c] = "none" /\ masterLog' # c
    BY <1>1 DEF SockInv, SockTypes
  <2>2. Holds(c)' /\ Wrote(c)'
    BY <1>4, <2>1 DEF Holds, Wrote
  <2>3. Told(c)'
    BY <1>4 DEF Told, Asked, clientVars
  <2> QED BY <2>2, <2>3 DEF PerClient
<1> QED BY <1>5, <1>6, <1>7 DEF SockInv, RebootOnlyAsInit

\* Reading the request, and refusing it.
LEMMA SockRead ==
  ASSUME SockInv, NEW c \in Clients,
         \/ Read(c) \/ ReadFails(c) \/ ReadNothing(c) \/ Refuse(c) \/ RefuseFails(c)
         \/ WarnUnsupported(c)
  PROVE  SockInv'
<1> USE DEF HandlerPcs
<1>0. /\ hpc[c] \in {"accepted", "unread", "refuse", "warnRefuse"} => conn[c].answer = << >> /\ masterLog # c
      /\ masterLog \in Clients \cup {"none"}
  BY DEF SockInv, SockTypes, PerClient, Holds, Wrote
<1>1. CASE Read(c)
  <2>1. hpc[c] = "accepted"
    BY <1>1 DEF Read, Handler
  <2> QED BY <1>0, <1>1, <2>1, HandlerMoves DEF Read, initVars
<1>2. CASE ReadFails(c)
  <2>1. hpc[c] = "accepted"
    BY <1>2 DEF ReadFails, Handler
  <2> QED BY <1>0, <1>2, <2>1, HandlerMoves DEF ReadFails, initVars
<1>3. CASE ReadNothing(c)
  <2>1. hpc[c] = "accepted"
    BY <1>3 DEF ReadNothing, Handler
  <2> QED BY <1>0, <1>3, <2>1, HandlerMoves DEF ReadNothing, initVars
<1>4. ASSUME NEW at \in {"unread", "refuse"}, NEW e \in {"IoRead", "Unsupported"}, RefuseWith(c, at, e)
      PROVE  SockInv'
  <2>1. hpc[c] = at /\ Return(c, at, <<"ERR", e>>) /\ UNCHANGED <<asInit, machine, clientVars>>
    BY <1>4 DEF RefuseWith, Return, Handler, KeepInit
  <2>2. conn[c].answer \o <<"ERR", e>> = <<"ERR", e>>
    BY <1>0, <2>1, Writes
  <2>3. <<"ERR", e>> \in Answers
    BY DEF Answers
  <2>4. Verdict(<<"ERR", e>>) # "bad"
    BY Verdicts
  <2> QED BY <2>1, <2>2, <2>3, <2>4, HandlerReturns
<1>5. CASE RefuseFails(c)
  <2>1. PICK at \in {"unread", "refuse"} : hpc[c] = at /\ Handler(c, at, "warn")
    BY <1>5 DEF RefuseFails, Handler
  <2> QED BY <1>0, <1>5, <2>1, HandlerMoves DEF RefuseFails, initVars
<1>6. CASE WarnUnsupported(c)
  <2>1. hpc[c] = "warnRefuse"
    BY <1>6 DEF WarnUnsupported, Handler
  <2> QED BY <1>0, <1>6, <2>1, HandlerMoves DEF WarnUnsupported, KeepInit
<1> QED BY <1>1, <1>2, <1>3, <1>4, <1>5, <1>6 DEF Refuse

\* Answering a question, and the warnings when that fails.
LEMMA SockAnswer ==
  ASSUME SockInv, NEW c \in Clients,
         LockLog(c) \/ WriteOk(c) \/ WriteData(c) \/ WriteFails(c) \/ Warn(c)
  PROVE  SockInv'
<1> USE DEF HandlerPcs
<1>0. /\ masterLog \in Clients \cup {"none"}
      /\ Holds(c) /\ Wrote(c)
      /\ conn[c] \in Links
  BY DEF SockInv, SockTypes, PerClient
<1>1. CASE LockLog(c)
  <2>1. hpc[c] = "asked"
    BY <1>1 DEF LockLog, Handler
  <2> QED BY <1>0, <1>1, <2>1, HandlerMoves DEF LockLog, KeepInit, Wrote
<1>2. CASE WriteOk(c)
  <2>1. /\ hpc[c] \in {"locked", "asked"} /\ hpc' = [hpc EXCEPT ![c] = "ok"]
        /\ conn' = [conn EXCEPT ![c].answer = <<"OK">>]
        /\ UNCHANGED <<initVars, clientVars>>
    BY <1>2 DEF WriteOk, Handler
  <2>2. SockTypes'
    BY <2>1 DEF SockInv, SockTypes, initVars, clientVars, Links, Answers
  <2>3. ASSUME NEW d \in Clients \ {c} PROVE PerClient(d)'
    BY <2>1, Untouched DEF SockInv, SockTypes, initVars, clientVars
  <2>4. PerClient(c)'
    BY <1>0, <2>1 DEF SockInv, SockTypes, Links, PerClient, Holds, Wrote, Told, Asked, initVars, clientVars
  <2> QED BY <2>1, <2>2, <2>3, <2>4 DEF SockInv, RebootOnlyAsInit, initVars
<1>3. CASE WriteData(c)
  <2>1. hpc[c] = "ok" /\ Return(c, "ok", <<"data">>) /\ UNCHANGED <<asInit, machine, clientVars>>
    BY <1>3 DEF WriteData, Return, Handler, KeepInit
  <2>2. conn[c].answer \o <<"data">> = <<"OK", "data">>
    <3>1. conn[c].answer = <<"OK">>
      BY <1>0, <2>1 DEF Wrote
    <3> QED BY <3>1, Writes
  <2>3. <<"OK", "data">> \in Answers /\ Verdict(<<"OK", "data">>) # "bad"
    BY Verdicts DEF Answers
  <2> QED BY <2>1, <2>2, <2>3, HandlerReturns
<1>4. CASE WriteFails(c)
  <2>1. PICK at \in {"ok", "locked", "asked"} : hpc[c] = at /\ Handler(c, at, "warn")
    BY <1>4 DEF WriteFails, Handler
  <2>2. ~conn[c].open /\ UNCHANGED <<initVars, clientVars, conn>>
    BY <1>4 DEF WriteFails
  <2> QED BY <1>0, <2>1, <2>2, HandlerMoves DEF Holds, initVars
<1>5. CASE Warn(c)
  <2>1. hpc[c] = "warn" /\ Return(c, "warn", << >>) /\ UNCHANGED <<asInit, machine, clientVars>>
    BY <1>5 DEF Warn, Return, Handler, KeepInit
  <2>2. conn[c].answer \o << >> \in Answers
    BY <1>0, Writes DEF Links
  <2>3. conn[c].open => Asked(c) \in PowerBytes
    BY <1>0, <2>1 DEF Wrote
  <2> QED BY <2>1, <2>2, <2>3, HandlerReturns
<1> QED BY <1>1, <1>2, <1>3, <1>4, <1>5

\* The power requests: each way down is behind the question whether kickit is
\* the init.
LEMMA SockPower ==
  ASSUME SockInv, NEW c \in Clients,
         \/ ForcePowerOff(c) \/ ForceFails(c) \/ ForceUnsupported(c)
         \/ SetReady(c) \/ AlreadySet(c) \/ PowerOff(c) \/ PowerOffFails(c)
  PROVE  SockInv'
<1> USE DEF HandlerPcs
<1>0. /\ masterLog \in Clients \cup {"none"}
      /\ hpc[c] \in {"asked", "sweep"} => masterLog # c
      /\ Asked(c) \in PowerBytes => Asked(c) # "MASTER"
      /\ hpc[c] \in {"asked", "sweep"} => conn[c].answer = << >>
      /\ hpc[c] = "sweep" => Asked(c) \in PowerBytes
  BY DEF SockInv, SockTypes, PerClient, Holds, Wrote, PowerBytes
<1>1. CASE ForcePowerOff(c)
  <2>1. SockTypes' /\ RebootOnlyAsInit'
    BY <1>1 DEF ForcePowerOff, SockInv, SockTypes, RebootOnlyAsInit, clientVars
  <2>2. ASSUME NEW d \in Clients PROVE PerClient(d)'
    BY <1>1, Untouched DEF ForcePowerOff, SockInv, clientVars
  <2> QED BY <2>1, <2>2 DEF SockInv
<1>2. CASE ForceFails(c)
  <2>1. hpc[c] = "asked" /\ Asked(c) \in PowerBytes
    BY <1>2 DEF ForceFails, Handler, PowerBytes
  <2> QED BY <1>0, <1>2, <2>1, HandlerMoves DEF ForceFails, initVars
<1>3. CASE ForceUnsupported(c)
  <2>1. hpc[c] = "asked" /\ Asked(c) \in PowerBytes
    BY <1>3 DEF ForceUnsupported, Handler, PowerBytes
  <2> QED BY <1>0, <1>3, <2>1, HandlerMoves DEF ForceUnsupported, initVars
<1>4. CASE SetReady(c)
  <2>1. hpc[c] = "asked" /\ Asked(c) \in PowerBytes
    BY <1>4 DEF SetReady, Handler, PowerBytes
  <2> QED BY <1>0, <1>4, <2>1, HandlerMoves DEF SetReady
<1>5. CASE AlreadySet(c)
  <2>1. hpc[c] = "asked" /\ Asked(c) \in PowerBytes
    BY <1>5 DEF AlreadySet, Handler, PowerBytes
  <2> QED BY <1>0, <1>5, <2>1, HandlerMoves DEF AlreadySet, initVars
<1>6. CASE PowerOff(c)
  <2>1. /\ machine' = IF asInit THEN "rebooted" ELSE "exited"
        /\ conn' = [d \in Clients |-> [conn[d] EXCEPT !.eof = TRUE]]
        /\ hpc' = [d \in Clients |-> "none"]
        /\ masterLog = "none"
        /\ UNCHANGED <<asInit, masterLog, clientVars>>
    BY <1>6 DEF PowerOff, LogMessage
  <2>2. SockTypes' /\ RebootOnlyAsInit'
    BY <2>1 DEF SockInv, SockTypes, RebootOnlyAsInit, clientVars, Links
  <2>3. ASSUME NEW d \in Clients PROVE PerClient(d)'
    BY <2>1 DEF SockInv, SockTypes, Links, PerClient, Holds, Wrote, Told
  <2> QED BY <2>2, <2>3 DEF SockInv
<1>7. CASE PowerOffFails(c)
  <2>1. hpc[c] = "sweep"
    BY <1>7 DEF PowerOffFails, Handler
  <2> QED BY <1>0, <1>7, <2>1, HandlerMoves DEF PowerOffFails, initVars
<1> QED BY <1>1, <1>2, <1>3, <1>4, <1>5, <1>6, <1>7

\* The fatal error holds INIT_STATE over several steps and MASTER_LOG over none.
LEMMA SockFatal ==
  ASSUME SockInv,
         Fatal \/ EmergencyStep \/ UNCHANGED vars
  PROVE  SockInv'
<1>1. UNCHANGED <<asInit, machine, masterLog, op, cpc, step, conn, hpc>>
  BY DEF Fatal, EmergencyStep, LockState, EnterEmergency, vars, initVars, clientVars
<1>2. SockTypes' /\ RebootOnlyAsInit'
  BY <1>1 DEF SockInv, SockTypes, RebootOnlyAsInit
<1>3. ASSUME NEW d \in Clients PROVE PerClient(d)'
  BY <1>1, Untouched DEF SockInv
<1> QED BY <1>2, <1>3 DEF SockInv

----------------------------------------------------------------------------
(* The theorems.                                                           *)

\* The invariant of the conversation, for every set of clients and operations.
THEOREM SockInvariance == Spec => []SockInv
<1>1. ASSUME SockInv, [Next]_vars PROVE SockInv'
  <2>1. ASSUME NEW c \in Clients, ClientStep(c) \/ Killed(c) \/ HandlerStep(c)
        PROVE  SockInv'
    BY <1>1, <2>1, SockClient, SockRead, SockAnswer, SockPower DEF HandlerStep
  <2>2. CASE Fatal \/ EmergencyStep \/ UNCHANGED vars
    BY <1>1, <2>2, SockFatal
  <2> QED BY <1>1, <2>1, <2>2 DEF Next
<1> QED BY SockInit, <1>1, PTL DEF Spec

\* force_poweroff and poweroff() take the machine down only when kickit is its
\* init, whoever asks and however often.
THEOREM RebootIsTheInits == Spec => []RebootOnlyAsInit
<1>1. SockInv => RebootOnlyAsInit
  BY DEF SockInv
<1> QED BY SockInvariance, <1>1, PTL

\* A peer that stays gets an answer to every request that is not about power,
\* whatever else its handler runs into.
THEOREM PeersAreTold == Spec => []EveryQuestionAnswered
<1>1. SockInv => EveryQuestionAnswered
  BY DEF SockInv, PerClient, Told, EveryQuestionAnswered
<1> QED BY SockInvariance, <1>1, PTL

----------------------------------------------------------------------------
(* The other variables' types.                                             *)

\* What holds of them beside SockInv: a client is at a request of its operation.
Rest ==
  /\ powerOffReady \in BOOLEAN
  /\ initState \in {"Okay", "Emergency"}
  /\ stateLock \in {"none", "emergency"}
  /\ crash \in {"none", "fatal", "locked", "shell"}
  /\ op \in Ops
  /\ \A c \in Clients : step[c] \in 1..Len(Program[op[c]])

\* Every operation makes a request.
LEMMA Requests == \A o \in DOMAIN Program : Len(Program[o]) \in Nat /\ 1 \in 1..Len(Program[o])
<1> SUFFICES ASSUME NEW o \in DOMAIN Program PROVE Len(Program[o]) \in Nat /\ 1 \in 1..Len(Program[o])
  OBVIOUS
<1>1. Len(Program[o]) \in {2, 3, 4}
  <2>1. o \in {"service", "state", "target", "log", "shutdown", "force"}
    BY DEF Program
  <2>2. /\ Program["service"] = <<"VERSION", "STATE">>
        /\ Program["state"] = <<"VERSION", "STATE", "PID">>
        /\ Program["target"] = <<"VERSION", "STATE", "TARGET">>
        /\ Program["log"] = <<"VERSION", "STATE", "MASTER">>
        /\ Program["shutdown"] = <<"VERSION", "STATE", "PID", "SHUTDOWN">>
        /\ Program["force"] = <<"VERSION", "STATE", "PID", "FORCE_SHUTDOWN">>
    BY DEF Program
  <2>3. /\ Len(<<"VERSION", "STATE">>) = 2
        /\ Len(<<"VERSION", "STATE", "PID">>) = 3
        /\ Len(<<"VERSION", "STATE", "TARGET">>) = 3
        /\ Len(<<"VERSION", "STATE", "MASTER">>) = 3
        /\ Len(<<"VERSION", "STATE", "PID", "SHUTDOWN">>) = 4
        /\ Len(<<"VERSION", "STATE", "PID", "FORCE_SHUTDOWN">>) = 4
    OBVIOUS
  <2> QED BY <2>1, <2>2, <2>3
<1> QED BY <1>1

\* A client goes on to a request only if there is one.
LEMMA FinishInProgram ==
  ASSUME SockTypes, Rest, NEW c \in Clients, NEW v, Finish(c, v)
  PROVE  op' = op /\ \A d \in Clients : step'[d] \in 1..Len(Program[op[d]])
<1>1. op' = op /\ step' = [step EXCEPT ![c] = IF After(c, v) = "connect" THEN @ + 1 ELSE @]
  BY DEF Finish
<1>2. Len(Program[op[c]]) \in Nat
  BY Requests DEF SockTypes
<1>3. After(c, v) = "connect" => step[c] + 1 \in 1..Len(Program[op[c]])
  <2>1. After(c, v) = "connect" => step[c] < Len(Program[op[c]])
    BY DEF After, Continue
  <2> QED BY <1>2, <2>1 DEF Rest
<1>4. \A d \in Clients : step'[d] = IF d = c /\ After(c, v) = "connect" THEN step[d] + 1 ELSE step[d]
  BY <1>1 DEF SockTypes
<1> QED BY <1>1, <1>3, <1>4 DEF Rest

\* Everything else leaves the clients at their requests.
LEMMA RestKept ==
  ASSUME SockInv, Rest, [Next]_vars
  PROVE  Rest'
<1>1. ASSUME NEW c \in Clients, ClientStep(c)
      PROVE  Rest'
  <2>1. UNCHANGED <<powerOffReady, initState, stateLock, crash>>
    BY <1>1 DEF ClientStep, Connect, ConnectFails, Send, Receive, initVars
  <2>2. UNCHANGED <<op, step>> \/ \E v : Finish(c, v)
    BY <1>1 DEF ClientStep, Connect, ConnectFails, Send, Receive
  <2> QED BY <2>1, <2>2, FinishInProgram DEF SockInv, Rest
<1>2. ASSUME NEW c \in Clients, HandlerStep(c)
      PROVE  /\ UNCHANGED <<op, step, crash, initState>>
             /\ powerOffReady' \in {TRUE, powerOffReady} /\ stateLock' \in {"none", stateLock}
  BY <1>2 DEF HandlerStep, Read, ReadFails, ReadNothing, Refuse, RefuseWith, RefuseFails, LockLog, WriteOk,
              WriteData, WriteFails, Warn, ForcePowerOff, ForceFails, ForceUnsupported, WarnUnsupported,
              SetReady, AlreadySet, PowerOff, PowerOffFails, KeepInit, initVars, clientVars
<1>3. CASE (\E c \in Clients : Killed(c)) \/ UNCHANGED vars
  BY <1>3 DEF Killed, vars, initVars, clientVars, Rest
<1>4. CASE Fatal \/ EmergencyStep
  BY <1>4 DEF Fatal, EmergencyStep, LockState, EnterEmergency, clientVars, Rest
<1>5. ASSUME NEW c \in Clients, HandlerStep(c) PROVE Rest'
  BY <1>2, <1>5 DEF Rest
<1> QED BY <1>1, <1>3, <1>4, <1>5 DEF Next

\* The types of all variables: who holds a mutex is between its lock and its
\* return, and every client is at a request of its operation.
THEOREM SocketsTypes == Spec => []TypeOK
<1>1. Init => Rest
  <2> SUFFICES ASSUME Init PROVE Rest
    OBVIOUS
  <2>1. op \in [Clients -> DOMAIN Program]
    BY OpsAssumption DEF Init
  <2> QED BY <2>1, Requests DEF Init, Rest
<1>2. SockInv /\ Rest => TypeOK
  <2> SUFFICES ASSUME SockInv, Rest PROVE TypeOK
    OBVIOUS
  <2>1. conn \in [Clients -> Conn]
    <3>1. Answers \subseteq Seq({"OK", "ERR", "data", "Unsupported", "IoRead"})
      BY DEF Answers
    <3>2. Links \subseteq Conn
      BY <3>1 DEF Links, Conn
    <3> QED BY <3>2 DEF SockInv, SockTypes
  <2> QED BY <2>1 DEF TypeOK, SockInv, SockTypes, Rest, PerClient, Holds
<1> QED BY <1>1, <1>2, RestKept, SockInvariance, PTL DEF Spec
=============================================================================
