----------------------------- MODULE ServiceLog -----------------------------
(***************************************************************************)
(* The log of one service: the service and a process it may leave behind   *)
(* write to the pipe; the init reads it line by line (Logger::watch for a  *)
(* Standard service, start_process for a RunOnce one, after it has exited) *)
(* and rewrites the compressed log file for every line (Logger::log);      *)
(* `ktctl service NAME logs` reads that file meanwhile.                    *)
(*                                                                         *)
(* A line is one write.  A compressed frame is a run of cells that are     *)
(* written, and read, one at a time; how many a text takes is open.  The   *)
(* clock stands between 2001 and 2286, when its milliseconds have the 13   *)
(* digits that the reader takes off every entry.                           *)
(***************************************************************************)
EXTENDS Integers, Sequences, SequencesExt, Selection

CONSTANTS Lines,     \* what the processes write, as bytes
          Shout,     \* the configuration's shout: lines are relayed to the console
          Capacity,  \* lines the pipe holds
          MaxLines,  \* bound: lines written
          MaxCells   \* cells a frame may take

Line == Seq(0..255)   \* bytes, without the end of the line

ASSUME LinesAssumption == Lines \subseteq Line
ASSUME ShoutAssumption == Shout \in BOOLEAN
ASSUME BoundAssumption == {Capacity, MaxLines, MaxCells} \subseteq Nat \ {0}

VARIABLES
  kind,      \* the service's pattern
  svc,       \* the service's process
  helper,    \* a process it left behind holds the pipe too
  want,      \* the line it is writing, in a sequence, if any
  said,      \* the lines that went into the pipe
  pipe,      \* the lines that are in it
  lpc,       \* the thread that logs
  entry,     \* the entry log() was given
  out,       \* the new text, the cells it takes, those written
  file,      \* the cells of the log file
  ok,        \* INIT_STATE is okay
  held,      \* the init's locks that a task took and never gives back
  intruded,  \* lines relayed to the console after an emergency began
  rpc,       \* ktctl
  cells,     \* the cells it has read
  fresh      \* no rewrite was on when ktctl opened the log, or began since

logVars == <<lpc, entry, out, file, intruded, fresh>>
svcVars == <<svc, helper, want, said>>
ktVars == <<rpc, cells>>
vars == <<kind, svcVars, pipe, logVars, ok, held, ktVars>>

\* Mutant: a mark that may also start a character.
INIT_ENTRY_Lead == 195

INIT_ENTRY == 143                 \* 0x8f, which starts no UTF-8 character
Started == [init |-> TRUE, line |-> <<83>>]    \* "Started service"
Finished == [init |-> TRUE, line |-> <<70>>]   \* "Service finished successfully"
ServiceEntry(l) == [init |-> FALSE, line |-> l]
NoOut == [text |-> << >>, of |-> 0, done |-> 0]

\* String::from_utf8, of one- and two-byte characters.
Lead(b) == b \in 194..223
Following(b) == b \in 128..191
Utf8(l) ==
  \A k \in DOMAIN l :
    /\ l[k] < 128 \/ Lead(l[k]) \/ Following(l[k])
    /\ Following(l[k]) <=> k > 1 /\ Lead(l[k - 1])
    /\ Lead(l[k]) => k < Len(l)

Init ==
  /\ kind \in {"Standard", "RunOnce"}
  /\ svc = "none" /\ helper = FALSE /\ want = << >> /\ said = << >> /\ pipe = << >>
  /\ lpc = "create" /\ entry = Started /\ out = NoOut /\ file = << >>
  /\ ok = TRUE /\ held = {} /\ intruded = 0
  /\ rpc = "idle" /\ cells = << >> /\ fresh = TRUE

----------------------------------------------------------------------------
(* The processes that write.                                               *)

Alive == svc = "running" \/ helper
Reading == lpc \notin {"ended", "failed", "done"}

\* The service leaves a process behind that inherits the pipe.
LeaveHelper ==
  /\ svc = "running" /\ want = << >> /\ ~helper
  /\ helper' = TRUE
  /\ UNCHANGED <<kind, svc, want, said, pipe, logVars, ok, held, ktVars>>

Say(l) ==
  /\ Alive /\ want = << >> /\ Len(said) < MaxLines
  /\ want' = <<l>>
  /\ UNCHANGED <<kind, svc, helper, said, pipe, logVars, ok, held, ktVars>>

\* write(2) blocks while the pipe is full ...
Put ==
  /\ want # << >> /\ Reading /\ Len(pipe) < Capacity
  /\ pipe' = Append(pipe, want[1]) /\ said' = Append(said, want[1])
  /\ want' = << >>
  /\ UNCHANGED <<kind, svc, helper, logVars, ok, held, ktVars>>

\* ... and ends the writer once nobody reads.
BrokenPipe ==
  /\ want # << >> /\ ~Reading
  /\ want' = << >> /\ svc' = IF svc = "running" THEN "failed" ELSE svc
  /\ helper' = IF svc = "running" THEN helper ELSE FALSE
  /\ UNCHANGED <<kind, said, pipe, logVars, ok, held, ktVars>>

Exit ==
  /\ svc = "running" /\ want = << >>
  /\ svc' \in {"exited", "failed"}
  /\ UNCHANGED <<kind, helper, want, said, pipe, logVars, ok, held, ktVars>>

HelperExits ==
  /\ helper /\ (want = << >> \/ svc = "running")
  /\ helper' = FALSE
  /\ UNCHANGED <<kind, svc, want, said, pipe, logVars, ok, held, ktVars>>

----------------------------------------------------------------------------
(* The log file.                                                           *)

\* The cells of text t as a frame of n.
Cell(t, n, k) == [text |-> t, of |-> n, at |-> k]

\* StreamingDecoder: one frame from the start; what lies behind it is not read.
Decodes(f) ==
  f # << >> /\ Len(f) >= f[1].of /\ \A k \in 1..f[1].of : f[k] = Cell(f[1].text, f[1].of, k)
Decoded(f) == f[1].text

\* Logger::init: the file, then NULL_ZSTD.
CreateLog ==
  /\ lpc = "create"
  /\ lpc' = "null"
  /\ UNCHANGED <<kind, svcVars, pipe, entry, out, file, intruded, fresh, ok, held, ktVars>>

WriteNull ==
  /\ lpc = "null"
  /\ file' = <<Cell(<< >>, 1, 1)>> /\ fresh' = FALSE
  /\ lpc' = "spawn"
  /\ UNCHANGED <<kind, svcVars, pipe, entry, out, intruded, ok, held, ktVars>>

\* The spawn; a Standard service's log starts with an entry of the init.
Spawn ==
  /\ lpc = "spawn"
  /\ svc' = "running"
  /\ lpc' = IF kind = "Standard" THEN "log" ELSE "wait"
  /\ UNCHANGED <<kind, helper, want, said, pipe, entry, out, file, intruded, fresh, ok, held, ktVars>>

\* Where log() returns to; once a Standard service's start is logged, up() makes
\* its watcher a task.
Return ==
  IF kind = "Standard" THEN IF entry.init THEN "queued" ELSE "watch"
  ELSE IF entry.init THEN "done" ELSE "drain"

\* An entry's bytes behind the 13 digits of its time.
Bytes(e) == IF e.init THEN <<INIT_ENTRY>> \o e.line ELSE e.line

\* Mutant: empty lines are logged too.
LogEntryEmpty ==
  /\ lpc = "log"
  /\ \E n \in 1..MaxCells :
       /\ out' = [text |-> Append(Decoded(file), Bytes(entry)), of |-> n, done |-> 0]
       /\ lpc' = IF ok /\ ~entry.init /\ Shout THEN "relay" ELSE "rewrite"
  /\ UNCHANGED <<kind, svcVars, pipe, entry, file, intruded, fresh, ok, held, ktVars>>

\* Mutant: the state is not looked at.
LogEntryBlind ==
  /\ lpc = "log"
  /\ IF entry.line = << >> THEN lpc' = Return /\ out' = out
     ELSE \E n \in 1..MaxCells :
            /\ out' = [text |-> Append(Decoded(file), Bytes(entry)), of |-> n, done |-> 0]
            /\ lpc' = IF ~entry.init /\ Shout THEN "relay" ELSE "rewrite"
  /\ UNCHANGED <<kind, svcVars, pipe, entry, file, intruded, fresh, ok, held, ktVars>>

\* log(): an empty line is dropped; the old text is read back from the file,
\* the entry added; then the init's state is looked at, under its lock.
LogEntry ==
  /\ lpc = "log" /\ (entry.line = << >> \/ "INIT_STATE" \notin held)
  /\ IF entry.line = << >> THEN lpc' = Return /\ out' = out
     ELSE \E n \in 1..MaxCells :
            /\ out' = [text |-> Append(Decoded(file), Bytes(entry)), of |-> n, done |-> 0]
            /\ lpc' = IF ok /\ ~entry.init /\ Shout THEN "relay" ELSE "rewrite"
  /\ UNCHANGED <<kind, svcVars, pipe, entry, file, intruded, fresh, ok, held, ktVars>>

\* Mutant: the relay waits for the init to be okay, as up() does.
RelayWaits ==
  /\ lpc = "relay" /\ ok /\ "MASTER_LOG" \notin held
  /\ lpc' = "rewrite"
  /\ UNCHANGED <<kind, svcVars, pipe, entry, out, file, intruded, fresh, ok, held, ktVars>>

\* The line goes to the console and, under its lock, to the init's own log,
\* whatever has become of the state since.
Relay ==
  /\ lpc = "relay" /\ "MASTER_LOG" \notin held
  /\ intruded' = IF ok THEN intruded ELSE intruded + 1
  /\ lpc' = "rewrite"
  /\ UNCHANGED <<kind, svcVars, pipe, entry, out, file, fresh, ok, held, ktVars>>

\* compress() writes over the file from its start and does not truncate it.
Rewrite ==
  /\ lpc = "rewrite"
  /\ LET k == out.done + 1
         c == Cell(out.text, out.of, k) IN
     /\ file' = IF k <= Len(file) THEN [file EXCEPT ![k] = c] ELSE Append(file, c)
     /\ fresh' = FALSE
     /\ IF k = out.of THEN lpc' = Return /\ out' = NoOut
        ELSE lpc' = lpc /\ out' = [out EXCEPT !.done = k]
  /\ UNCHANGED <<kind, svcVars, pipe, entry, intruded, ok, held, ktVars>>

----------------------------------------------------------------------------
(* The init reads the pipe.                                                *)

\* A worker of the runtime takes the watcher up, if ever one is free.
Poll ==
  /\ lpc = "queued"
  /\ lpc' = "watch"
  /\ UNCHANGED <<kind, svcVars, pipe, entry, out, file, intruded, fresh, ok, held, ktVars>>

\* An error begins an emergency, unless the service is optional or the message
\* that comes first waits for ever.
Fails == ok' \in {ok, FALSE} /\ (held # {} => ok' = ok)

\* watch(): a line that is no UTF-8 ends it, and is fatal unless optional.  At
\* the end of the pipe read_until() returns at once, with nothing: it spins.
Watch ==
  /\ lpc = "watch" /\ pipe # << >>
  /\ LET l == Head(pipe) IN
     /\ pipe' = Tail(pipe)
     /\ IF Utf8(l) THEN lpc' = "log" /\ entry' = ServiceEntry(l) /\ ok' = ok
        ELSE lpc' = "ended" /\ entry' = entry /\ Fails
  /\ UNCHANGED <<kind, svcVars, out, file, intruded, fresh, held, ktVars>>

\* child.wait() of a RunOnce service: a failure returns before any reading.
Wait ==
  /\ lpc = "wait" /\ svc \in {"exited", "failed"}
  /\ IF svc = "exited" THEN lpc' = "drain" /\ ok' = ok
     ELSE lpc' = "failed" /\ Fails
  /\ UNCHANGED <<kind, svcVars, pipe, entry, out, file, intruded, fresh, held, ktVars>>

\* lines(): the next line, an error, or the end once no writer is left.
Drain ==
  /\ lpc = "drain" /\ pipe # << >>
  /\ LET l == Head(pipe) IN
     /\ pipe' = Tail(pipe)
     /\ IF Utf8(l) THEN lpc' = "log" /\ entry' = ServiceEntry(l) /\ ok' = ok
        ELSE lpc' = "failed" /\ entry' = entry /\ Fails
  /\ UNCHANGED <<kind, svcVars, out, file, intruded, fresh, held, ktVars>>

\* Mutant: the init keeps a writing end of the pipe itself.
DrainedNever == FALSE /\ UNCHANGED vars

\* The end is logged, after which the log file becomes read-only.
Drained ==
  /\ lpc = "drain" /\ pipe = << >> /\ ~Alive
  /\ entry' = Finished
  /\ lpc' = "log"
  /\ UNCHANGED <<kind, svcVars, pipe, out, file, intruded, fresh, ok, held, ktVars>>

\* Some other task's fatal error opens the emergency shell.
Emergency ==
  /\ ok /\ lpc # "create" /\ held = {}
  /\ ok' = FALSE
  /\ UNCHANGED <<kind, svcVars, pipe, logVars, held, ktVars>>

\* A handler of the log socket locks the init's log twice and keeps it; a task that
\* then fails takes INIT_STATE and waits for that log.
MasterLogKept ==
  /\ held = {}
  /\ held' = {"MASTER_LOG"}
  /\ UNCHANGED <<kind, svcVars, pipe, logVars, ok, ktVars>>

StateKept ==
  /\ held = {"MASTER_LOG"} /\ ok
  /\ held' = held \cup {"INIT_STATE"}
  /\ UNCHANGED <<kind, svcVars, pipe, logVars, ok, ktVars>>

----------------------------------------------------------------------------
(* ktctl service NAME logs                                                 *)

OpenLog ==
  /\ rpc = "idle" /\ lpc # "create"
  /\ rpc' = "reading" /\ cells' = << >> /\ fresh' = (out.done = 0)
  /\ UNCHANGED <<kind, svcVars, pipe, lpc, entry, out, file, intruded, ok, held>>

Complete == cells # << >> /\ Len(cells) = cells[1].of

ReadCell ==
  /\ rpc = "reading" /\ ~Complete /\ Len(cells) < Len(file)
  /\ cells' = Append(cells, file[Len(cells) + 1])
  /\ UNCHANGED <<kind, svcVars, pipe, logVars, ok, held, rpc>>

\* The frame is complete, or the file ends in it.
CloseLog ==
  /\ rpc = "reading" /\ (Complete \/ Len(cells) >= Len(file))
  /\ rpc' = "read"
  /\ UNCHANGED <<kind, svcVars, pipe, logVars, ok, held, cells>>

Again ==
  /\ rpc = "read"
  /\ rpc' = "idle" /\ cells' = << >> /\ fresh' = TRUE
  /\ UNCHANGED <<kind, svcVars, pipe, lpc, entry, out, file, intruded, ok, held>>

\* An entry as printed: the mark of the init is the first byte behind the time.
Shown(b) ==
  IF IsPrefix(<<INIT_ENTRY>>, b) THEN [init |-> TRUE, line |-> Tail(b)] ELSE [init |-> FALSE, line |-> b]
Printed(t) == [k \in DOMAIN t |-> Shown(t[k])]

Log == CreateLog \/ WriteNull \/ Spawn \/ LogEntry \/ Relay \/ Rewrite
       \/ Watch \/ Wait \/ Drain \/ Drained
Next ==
  \/ Log \/ Poll \/ LeaveHelper \/ Put \/ BrokenPipe \/ Exit \/ HelperExits
  \/ Emergency \/ MasterLogKept \/ StateKept
  \/ OpenLog \/ ReadCell \/ CloseLog \/ Again
  \/ \E l \in Lines : Say(l)

\* Threads run, a write that can go on does, and a service's program ends; that a
\* watcher is polled, or a lock given back, nobody promises.
Spec == Init /\ [][Next]_vars /\ WF_vars(Log) /\ WF_vars(Put) /\ WF_vars(Exit)
----------------------------------------------------------------------------
(* Properties.                                                             *)

InFile == IF Decodes(file) THEN Decoded(file) ELSE << >>
Text == IF lpc \in {"relay", "rewrite"} THEN out.text
        ELSE IF file = << >> THEN << >> ELSE Decoded(file)
NonEmpty(ls) == Only(ls, Line \ {<< >>})
LinesOf(t) == LET own == Only(Printed(t), [init : {FALSE}, line : Line])
              IN [k \in DOMAIN own |-> own[k].line]
InHand == IF lpc = "log" /\ ~entry.init THEN <<entry.line>> ELSE << >>

\* The log is what was said: the lines logged, the one in hand and those in the
\* pipe are the service's own, in order, none twice and none missing but the
\* empty ones, after the watcher and lines() alike (Logger::log, watch); reading
\* ends early only at a line that is no UTF-8, or at a failed exit.
LogIsWhatWasSaid ==
  LET logged == LinesOf(Text) \o NonEmpty(InHand)
      all == NonEmpty(said) IN
  /\ Reading => logged \o NonEmpty(pipe) = all
  /\ lpc = "done" => logged = all
  /\ IsPrefix(logged, all)
  /\ lpc \in {"ended", "failed"} /\ logged # all =>
       svc = "failed" \/ ~Utf8(all[Len(logged) + 1])

\* A reading of the log that no rewrite overlapped shows what was said, short of
\* what the init has not logged yet, init's entries and the service's told apart
\* whatever bytes a line has (LogEntry, Logger::log, CacheInstance::logs).
ReaderWhole ==
  rpc = "read" /\ fresh /\ lpc \in {"queued", "watch", "drain", "wait", "done"} =>
    LET shown == Printed(Decoded(cells)) IN
    /\ Decodes(cells)
    /\ LinesOf(Decoded(cells)) \o NonEmpty(pipe) = NonEmpty(said)
    /\ Only(shown, [init : {TRUE}, line : Line]) =
         IF kind = "Standard" THEN <<Started>> ELSE IF lpc = "done" THEN <<Finished>> ELSE << >>

\* Whatever else happens, of an emergency shell and a logger at most one line of
\* it lands on the other's console (state check and relay in Logger::log).
AtMostOneLine == intruded <= 1

\* The thread waits for a worker, or for a lock that is not given back.
Stuck ==
  \/ lpc = "queued"
  \/ lpc = "relay" /\ "MASTER_LOG" \in held
  \/ lpc = "log" /\ "INIT_STATE" \in held

\* A Standard service's n-th line comes into its log, unless it or one before it is
\* no UTF-8, or the thread is stuck for ever: with no worker free to poll it, or
\* before a lock that was never given back (Logger::watch, Logger::log).
AllLogged ==
  \A n \in 1..MaxLines :
    kind = "Standard" /\ Len(NonEmpty(said)) >= n
      ~> \/ Len(LinesOf(InFile)) >= n
         \/ \E k \in DOMAIN NonEmpty(said) : k <= n /\ ~Utf8(NonEmpty(said)[k])
         \/ []Stuck

\* Start-up gets past every RunOnce service, unless it is blocked on the pipe that
\* is only read after its end, left a process behind that holds the pipe open, or
\* its thread is stuck before a lock that was never given back (start_process).
Blocked == want # << >> /\ Len(pipe) = Capacity /\ lpc = "wait"
RunOnceSettles ==
  kind = "RunOnce" ~> lpc \in {"done", "failed"} \/ []Blocked \/ []helper \/ []Stuck
=============================================================================
