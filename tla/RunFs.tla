------------------------------- MODULE RunFs -------------------------------
(***************************************************************************)
(* /run/kickit, the directory of a running init, with several instances of *)
(* kickit started beside another init (--no-init): it marks that one runs, *)
(* holds a directory per service with the log and the cache file that      *)
(* `ktctl service` reads, and the sockets; poweroff() removes it.          *)
(*                                                                         *)
(*   instances   sanity, setupRunFs, main (init/kickit.rs), Service::up,   *)
(*               Cache (service/cache.rs), the end of poweroff             *)
(*   one ktctl   is_running, serviceList, PartialService (ktctl/)          *)
(*                                                                         *)
(* An instance may be killed between any two steps.  What up_inner does to *)
(* a service is one step here, with any of its outcomes (Kickit has its    *)
(* steps), and so are the shutdown's steps before the directory goes.      *)
(***************************************************************************)
EXTENDS Integers, Sequences, Functions

CONSTANTS Instances,    \* kickit processes, each started once
          Sockets,      \* the sockets main opens
          NumServices,  \* the target names services 1..NumServices
          Configs,      \* the configurations they may have
          Pids          \* process ids the kernel hands out

Svc == 1..NumServices
Config == [pattern : {"Standard", "RunOnce"},
           optional : BOOLEAN, sandbox : BOOLEAN, logger : BOOLEAN,
          spaced : BOOLEAN]   \* the program has a space in its name

Nobody == "nobody"   \* no instance
PidMax == 2147483647 \* of a pid_t
NoPid == 0           \* Option<u32>::None, by its unwrap_or_default
NoCode == -1         \* no exit code: never ran, or ended by a signal
Stranger == -1       \* a process that is no service of ours

ASSUME InstanceAssumption == Nobody \notin Instances
ASSUME SocketAssumption == {"Core", "Power"} \subseteq Sockets
ASSUME CountAssumption == NumServices \in Nat \ {0}
ASSUME ConfigAssumption == Configs \subseteq Config
ASSUME PidAssumption == \A p \in Pids : p \in Nat /\ 0 < p /\ p <= PidMax

VARIABLES
  cfg,      \* the services' configurations
  pc,       \* main of each instance, or how the instance ended
  cur,      \* the service it has come to
  handle,   \* what its Service structures say: pid, exit code, sandbox taken
  bound,    \* the sockets it has bound
  off,      \* its poweroff(), from removing the directory on
  emptied,  \* the service directory the removal has emptied and not removed
  root,     \* the instance that made /run/kickit
  dirs,     \* service directories
  cache,    \* cache files: who made it, and its bytes
  sock,     \* the socket files: the instance that bound each, if any
  proc,     \* the processes behind the pids
  list      \* the listing: position, entries left, the cache read, its row

instVars == <<pc, cur, handle, bound, off, emptied>>
fsVars == <<root, dirs, cache, sock>>
vars == <<cfg, instVars, fsVars, proc, list>>

Ended == {"exited", "refused", "crashed"}
Starting == {"sanity", "mkdir"}
Live(i) == pc[i] \notin Ended \cup Starting
Unstarted == [pid |-> NoPid, code |-> NoCode, sandbox |-> FALSE]
Free == [of |-> 0, is |-> "free"]
Idle == [at |-> "idle", by |-> Nobody, left |-> {}, got |-> << >>, row |-> << >>]

Init ==
  /\ cfg \in [Svc -> Configs]
  /\ pc = [i \in Instances |-> "sanity"]
  /\ cur = [i \in Instances |-> 1]
  /\ handle = [i \in Instances |-> [s \in Svc |-> Unstarted]]
  /\ bound = [i \in Instances |-> {}]
  /\ off = [i \in Instances |-> "no"]
  /\ emptied = [i \in Instances |-> 0]
  /\ root = Nobody /\ dirs = {} /\ cache = << >>
  /\ sock = [k \in Sockets |-> Nobody]
  /\ proc = [p \in Pids |-> Free]
  /\ list = Idle

Goto(i, l) == pc' = [pc EXCEPT ![i] = l]

----------------------------------------------------------------------------
(* The start: sanity(), setupRunFs(), the socket tasks.                    *)

\* /run/kickit exists: AlreadyRunning ends the process.
Sanity(i) ==
  /\ pc[i] = "sanity"
  /\ Goto(i, IF root = Nobody THEN "mkdir" ELSE "refused")
  /\ UNCHANGED <<cfg, cur, handle, bound, off, emptied, fsVars, proc, list>>

\* Mutant: a directory that is there is as good as a new one.
MakeRootOrUse(i) ==
  /\ pc[i] = "mkdir"
  /\ root' = i
  /\ Goto(i, "dirs")
  /\ UNCHANGED <<cfg, cur, handle, bound, off, emptied, dirs, cache, sock, proc, list>>

\* create_dir fails if another instance was faster: RunFsFail is an emergency.
MakeRoot(i) ==
  /\ pc[i] = "mkdir"
  /\ IF root = Nobody
     THEN root' = i /\ Goto(i, "dirs")
     ELSE root' = root /\ Goto(i, "emergency")
  /\ UNCHANGED <<cfg, cur, handle, bound, off, emptied, dirs, cache, sock, proc, list>>

\* One directory per service, then the loop over them.
MakeDir(i) ==
  /\ pc[i] = "dirs"
  /\ dirs' = dirs \cup {cur[i]}
  /\ IF cur[i] < NumServices
     THEN cur' = [cur EXCEPT ![i] = @ + 1] /\ pc' = pc
     ELSE cur' = [cur EXCEPT ![i] = 1] /\ Goto(i, "exec")
  /\ UNCHANGED <<cfg, handle, bound, off, emptied, root, cache, sock, proc, list>>

MakeDirFails(i) ==
  /\ pc[i] = "dirs"
  /\ Goto(i, "emergency")
  /\ UNCHANGED <<cfg, cur, handle, bound, off, emptied, fsVars, proc, list>>

Serving == {"exec", "create", "write", "up", "stalled"}

\* Mutant: the sockets are opened before the directories are made.
BindEarly(i, k) ==
  /\ pc[i] \in Serving \cup {"dirs"}
  /\ k \notin bound[i] /\ root # Nobody /\ sock[k] = Nobody
  /\ bound' = [bound EXCEPT ![i] = @ \cup {k}]
  /\ sock' = [sock EXCEPT ![k] = i]
  /\ UNCHANGED <<cfg, pc, cur, handle, off, emptied, root, dirs, cache, proc, list>>

\* The socket tasks, spawned after setupRunFs, get to bind, each in its own time
\* and not over the socket of another instance.  That is an emergency, after
\* which main makes no further step; it need not make one here anyway.
Bind(i, k) ==
  /\ pc[i] \in Serving
  /\ k \notin bound[i] /\ root # Nobody /\ sock[k] = Nobody
  /\ bound' = [bound EXCEPT ![i] = @ \cup {k}]
  /\ sock' = [sock EXCEPT ![k] = i]
  /\ UNCHANGED <<cfg, pc, cur, handle, off, emptied, root, dirs, cache, proc, list>>

----------------------------------------------------------------------------
(* One service: up_inner, the cache file, the hand-over.                   *)

\* How up_inner can end.  Only a Standard service keeps a process, and args()
\* takes the sandbox profile out of the configuration before the spawn.  What a
\* RunOnce service has written is logged after its exit, which may fail.
Failed(s) == {[pid |-> NoPid, code |-> NoCode, sandbox |-> FALSE, ok |-> FALSE]}
Outcomes(s) ==
  Failed(s) \cup
  IF cfg[s].pattern = "Standard"
  THEN {[pid |-> p, code |-> NoCode, sandbox |-> FALSE, ok |-> o] :
          p \in {q \in Pids : proc[q] = Free},
          o \in IF cfg[s].logger \/ cfg[s].sandbox THEN BOOLEAN ELSE {TRUE}}
  ELSE {o \in [pid : {NoPid}, code : {0, 3, NoCode}, sandbox : {FALSE}, ok : BOOLEAN] :
          IF o.code = 0 THEN o.ok \/ cfg[s].logger ELSE ~o.ok}

\* Before args(): the log file cannot be made, or the run directory.
Unprepared(s) == [pid |-> NoPid, code |-> NoCode, sandbox |-> cfg[s].sandbox, ok |-> FALSE]

UpInner(i) ==
  LET s == cur[i] IN
  /\ pc[i] = "exec"
  /\ \E o \in {Unprepared(s)} \cup
              (IF cfg[s].logger /\ s \notin dirs THEN {} ELSE Outcomes(s)) :
       /\ handle' = [handle EXCEPT ![i][s] = [pid |-> o.pid, code |-> o.code, sandbox |-> o.sandbox]]
       /\ proc' = IF o.pid = NoPid THEN proc
                  ELSE [proc EXCEPT ![o.pid] = [of |-> s, is |-> "running"]]
       /\ Goto(i, IF o.ok \/ cfg[s].optional THEN "create" ELSE "stalled")
  /\ UNCHANGED <<cfg, cur, bound, off, emptied, root, dirs, cache, sock, list>>

\* File::create_new: not without the directory, and not over another file.
CreateCache(i) ==
  LET s == cur[i] IN
  /\ pc[i] = "create"
  /\ IF s \in dirs /\ s \notin DOMAIN cache
     THEN /\ cache' = [u \in DOMAIN cache \cup {s} |->
                       IF u = s THEN [by |-> i, bytes |-> << >>] ELSE cache[u]]
          /\ Goto(i, "write")
     ELSE cache' = cache /\ Goto(i, "stalled")
  /\ UNCHANGED <<cfg, cur, handle, bound, off, emptied, root, dirs, sock, proc, list>>

\* Pattern as a byte; integers in little-endian order.
PatternByte == [Standard |-> 164, RunOnce |-> 233, Forking |-> 239]
Le(n) == <<n % 256, (n \div 256) % 256, (n \div 65536) % 256, (n \div 16777216) % 256>>
FromLe(b) == b[1] + 256 * b[2] + 65536 * b[3] + 16777216 * b[4]

\* Mutant: a missing exit code is one null byte.
AsDataUnpadded(s, h) ==
  <<PatternByte[cfg[s].pattern], IF h.sandbox THEN 1 ELSE 0>>
  \o Le(h.pid) \o (IF h.code = NoCode THEN <<0>> ELSE <<1>> \o Le(h.code))

\* Cache::as_data of RootService::cache: 11 bytes, whatever is missing is null.
AsData(s, h) ==
  <<PatternByte[cfg[s].pattern], IF h.sandbox THEN 1 ELSE 0>>
  \o Le(h.pid)
  \o (IF h.code = NoCode THEN <<0>> \o Le(0) ELSE <<1>> \o Le(h.code))

\* logger()? and supervisor()?: a Standard service without a logger, or whose
\* process was never spawned, is an emergency after its cache is written.
HandedOver(s, h) == cfg[s].pattern = "RunOnce" \/ (cfg[s].logger /\ h.pid # NoPid)

\* The write goes to the file that was opened, linked or not.
WriteCache(i) ==
  LET s == cur[i] IN
  /\ pc[i] = "write"
  /\ cache' = IF s \in DOMAIN cache /\ cache[s].by = i
              THEN [cache EXCEPT ![s].bytes = AsData(s, handle[i][s])] ELSE cache
  /\ IF ~HandedOver(s, handle[i][s]) THEN Goto(i, "stalled") /\ cur' = cur
     ELSE IF s = NumServices THEN Goto(i, "up") /\ cur' = cur
     ELSE Goto(i, "exec") /\ cur' = [cur EXCEPT ![i] = @ + 1]
  /\ UNCHANGED <<cfg, handle, bound, off, emptied, root, dirs, sock, proc, list>>

WriteFails(i) ==
  /\ pc[i] = "write"
  /\ Goto(i, "stalled")
  /\ UNCHANGED <<cfg, cur, handle, bound, off, emptied, fsVars, proc, list>>

----------------------------------------------------------------------------
(* The end of poweroff() beside another init: remove_dir_all, exit(0).     *)

PowerOff(i) ==
  /\ Live(i) /\ off[i] = "no"
  /\ sock["Power"] = i
  /\ \E l \in {"removing", "failed"} : off' = [off EXCEPT ![i] = l]
  /\ UNCHANGED <<cfg, pc, cur, handle, bound, emptied, fsVars, proc, list>>

Removing(i) == Live(i) /\ off[i] = "removing"

\* The files of a service directory are unlinked ...
EmptyDir(i, s) ==
  /\ Removing(i) /\ emptied[i] = 0 /\ s \in dirs
  /\ cache' = Restrict(cache, DOMAIN cache \ {s})
  /\ emptied' = [emptied EXCEPT ![i] = s]
  /\ UNCHANGED <<cfg, pc, cur, handle, bound, off, root, dirs, sock, proc, list>>

\* ... and the directory goes, unless main has made a file in it meanwhile.
RemoveDir(i) ==
  LET s == emptied[i] IN
  /\ Removing(i) /\ s # 0
  /\ IF s \in DOMAIN cache
     THEN off' = [off EXCEPT ![i] = "failed"] /\ dirs' = dirs
     ELSE off' = off /\ dirs' = dirs \ {s}
  /\ emptied' = [emptied EXCEPT ![i] = 0]
  /\ UNCHANGED <<cfg, pc, cur, handle, bound, root, cache, sock, proc, list>>

RemoveSocket(i, k) ==
  /\ Removing(i) /\ emptied[i] = 0 /\ sock[k] # Nobody
  /\ sock' = [sock EXCEPT ![k] = Nobody]
  /\ UNCHANGED <<cfg, instVars, root, dirs, cache, proc, list>>

\* Mutant: the mark is removed first.
RemoveRootFirst(i) ==
  /\ Removing(i) /\ emptied[i] = 0
  /\ root' = Nobody /\ off' = [off EXCEPT ![i] = "removed"]
  /\ UNCHANGED <<cfg, pc, cur, handle, bound, emptied, dirs, cache, sock, proc, list>>

\* A socket bound since its directory was read keeps the root from going.
RemoveRoot(i) ==
  /\ Removing(i) /\ emptied[i] = 0 /\ dirs = {}
  /\ IF \A k \in Sockets : sock[k] = Nobody
     THEN root' = Nobody /\ off' = [off EXCEPT ![i] = "removed"]
     ELSE root' = root /\ off' = [off EXCEPT ![i] = "failed"]
  /\ UNCHANGED <<cfg, pc, cur, handle, bound, emptied, dirs, cache, sock, proc, list>>

\* What the instance knew goes with it.
Exit(i) ==
  /\ Live(i) /\ off[i] = "removed"
  /\ Goto(i, "exited")
  /\ cur' = [cur EXCEPT ![i] = 1]
  /\ handle' = [handle EXCEPT ![i] = [s \in Svc |-> Unstarted]]
  /\ bound' = [bound EXCEPT ![i] = {}]
  /\ UNCHANGED <<cfg, off, emptied, fsVars, proc, list>>

\* Killed, or a panic of main: nothing is cleaned up.
Crash(i) ==
  /\ Live(i)
  /\ Goto(i, "crashed")
  /\ cur' = [cur EXCEPT ![i] = 1]
  /\ UNCHANGED <<cfg, handle, bound, off, emptied, fsVars, proc, list>>

----------------------------------------------------------------------------
(* ktctl service                                                           *)

\* is_running(): io.Core answers.
Gate ==
  /\ list.at = "idle"
  /\ sock["Core"] # Nobody /\ Live(sock["Core"])
  /\ list' = [list EXCEPT !.at = "gated", !.by = sock["Core"]]
  /\ UNCHANGED <<cfg, instVars, fsVars, proc>>

\* read_dir of the service directory, which may be gone by now.
OpenDir ==
  /\ list.at = "gated"
  /\ \/ root # Nobody /\ list' = [list EXCEPT !.at = "listing", !.left = dirs]
     \/ dirs = {} /\ list' = [list EXCEPT !.at = "failed"]
  /\ UNCHANGED <<cfg, instVars, fsVars, proc>>

\* CacheInstance::new: the pid's four bytes follow the first two; the four of
\* the status are read whatever its switch says, so 11 bytes must be there.
\* Mutant: most significant byte first.
InstanceBig(b) ==
  [pattern |-> b[1], sandboxed |-> b[2], pid |-> FromLe(<<b[6], b[5], b[4], b[3]>>),
   status |-> IF b[7] = 1 THEN FromLe(SubSeq(b, 8, 11)) ELSE NoCode]

Instance(b) ==
  [pattern |-> b[1], sandboxed |-> b[2], pid |-> FromLe(SubSeq(b, 3, 6)),
   status |-> IF b[7] = 1 THEN FromLe(SubSeq(b, 8, 11)) ELSE NoCode]

\* CacheInstance::export: the pattern must have its byte.
Readable(s) ==
  /\ s \in dirs /\ s \in DOMAIN cache
  /\ Len(cache[s].bytes) = 11
  /\ cache[s].bytes[1] \in Range(PatternByte) /\ cache[s].bytes[2] \in {0, 1}

Import(s) ==
  /\ list.at = "listing" /\ s \in list.left
  /\ list' = IF Readable(s)
             THEN [list EXCEPT !.at = "print", !.got = [of |-> s, by |-> cache[s].by, is |-> Instance(cache[s].bytes)]]
             ELSE [list EXCEPT !.at = "failed"]
  /\ UNCHANGED <<cfg, instVars, fsVars, proc>>

\* The third field of /proc/PID/stat, split at every space.
StatField(p, s) ==
  IF proc[p].of = s /\ cfg[s].spaced THEN {"name)"}
  ELSE IF proc[p].is = "zombie" THEN {"Z"} ELSE {"S", "I", "D", "R", "T"}

Classified(letter) ==
  CASE letter \in {"Z", "X"} -> "Dead"
    [] letter \in {"S", "I", "D", "R"} -> "Up"
    [] OTHER -> "Unknown"

Statuses(s, c) ==
  IF c.pattern # PatternByte["Standard"]
  THEN {IF c.status = NoCode THEN "Failed" ELSE IF c.status > 0 THEN "Failed with code" ELSE "Finished"}
  ELSE IF c.pid \notin Pids \/ (c.pid \in Pids /\ proc[c.pid] = Free) THEN {"Dead"}
  ELSE {Classified(l) : l \in StatField(c.pid, s)}

PrintRow ==
  /\ list.at = "print"
  /\ LET s == list.got.of
         c == list.got.is IN
     \E st \in Statuses(s, c) :
       list' = [list EXCEPT !.at = "printed", !.left = @ \ {s},
                            !.row = [status |-> st, pid |-> c.pid, sandboxed |-> c.sandboxed = 1]]
  /\ UNCHANGED <<cfg, instVars, fsVars, proc>>

\* The next entry, or the end; ktctl is run again.
Continue ==
  /\ list.at \in {"printed", "failed"}
  /\ list' = IF list.at = "printed" /\ list.left # {}
             THEN [list EXCEPT !.at = "listing", !.got = << >>, !.row = << >>] ELSE Idle
  /\ UNCHANGED <<cfg, instVars, fsVars, proc>>

----------------------------------------------------------------------------
(* The processes: they end, are reaped, and their pids are used again.     *)

ProcessEnds(p) ==
  /\ proc[p].is = "running"
  /\ proc' = [proc EXCEPT ![p] = IF @.of = Stranger THEN Free ELSE [@ EXCEPT !.is = "zombie"]]
  /\ UNCHANGED <<cfg, instVars, fsVars, list>>

Reap(p) ==
  /\ proc[p].is = "zombie"
  /\ proc' = [proc EXCEPT ![p] = Free]
  /\ UNCHANGED <<cfg, instVars, fsVars, list>>

Reuse(p) ==
  /\ proc[p] = Free
  /\ proc' = [proc EXCEPT ![p] = [of |-> Stranger, is |-> "running"]]
  /\ UNCHANGED <<cfg, instVars, fsVars, list>>

Step(i) ==
  \/ Sanity(i) \/ MakeRoot(i) \/ MakeDir(i) \/ MakeDirFails(i)
  \/ UpInner(i) \/ CreateCache(i) \/ WriteCache(i) \/ WriteFails(i)
  \/ PowerOff(i) \/ RemoveDir(i) \/ RemoveRoot(i) \/ Exit(i) \/ Crash(i)
  \/ \E k \in Sockets : Bind(i, k) \/ RemoveSocket(i, k)
  \/ \E s \in Svc : EmptyDir(i, s)

Next ==
  \/ \E i \in Instances : Step(i)
  \/ Gate \/ OpenDir \/ PrintRow \/ Continue \/ \E s \in Svc : Import(s)
  \/ \E p \in Pids : ProcessEnds(p) \/ Reap(p) \/ Reuse(p)

Spec == Init /\ [][Next]_vars

----------------------------------------------------------------------------
(* Properties.                                                             *)

\* The types of the variables; a cache file is empty or has its 11 bytes.
TypeOK ==
  /\ cfg \in [Svc -> Config]
  /\ pc \in [Instances -> Ended \cup Starting \cup Serving \cup {"dirs", "emergency"}]
  /\ cur \in [Instances -> Svc]
  /\ off \in [Instances -> {"no", "removing", "removed", "failed"}]
  /\ emptied \in [Instances -> Svc \cup {0}]
  /\ bound \in [Instances -> SUBSET Sockets]
  /\ root \in Instances \cup {Nobody}
  /\ dirs \subseteq Svc /\ DOMAIN cache \subseteq Svc
  /\ \A s \in DOMAIN cache : cache[s].by \in Instances /\ Len(cache[s].bytes) \in {0, 11}
  /\ sock \in [Sockets -> Instances \cup {Nobody}]
  /\ \A p \in Pids : proc[p].is \in {"free", "running", "zombie"}
  /\ list.at \in {"idle", "gated", "listing", "print", "printed", "failed"}

\* /run/kickit marks one running instance: whatever races with whatever, each
\* live instance that got past setupRunFs is the one that made it, and a root
\* whose maker is gone was left by a crash; only between removing it and its
\* exit(0) does an instance run without its mark (sanity, setupRunFs, poweroff).
MarkedByOwner ==
  /\ \A i \in Instances : Live(i) /\ pc[i] # "emergency" => root = i \/ off[i] = "removed"
  /\ root # Nobody => Live(root) \/ pc[root] = "crashed"

\* /run/kickit goes with all that lies below it, so that the next one starts
\* empty; and what lies below it is the marked instance's, but for the files and
\* sockets of instances that have removed a root of their own: such a one, which
\* has not exited yet, can still put them into the next one's directories.
ContentIsOwners ==
  /\ root = Nobody => dirs = {} /\ DOMAIN cache = {} /\ \A k \in Sockets : sock[k] = Nobody
  /\ \A s \in DOMAIN cache : cache[s].by = root \/ off[cache[s].by] = "removed"
  /\ \A k \in Sockets : sock[k] \in {root, Nobody} \/ off[sock[k]] = "removed"

\* While the instance that answered ktctl has its mark and no power-off has been
\* asked of it, a listing starts with every service of the target, and it fails
\* only as long as main has not written every cache file, be it that it is still
\* starting them or that an emergency stopped it.
Undisturbed == list.by # Nobody /\ list.by = root /\ off[root] = "no"
ListingIsWhole == [][
  Undisturbed =>
    /\ list.at = "gated" /\ list'.at = "listing" => list'.left = Svc
    /\ list'.at = "failed" /\ list.at # "failed" => pc[root] # "up"
  ]_vars

\* A printed row says what the init knew and the kernel knows: the pid of the
\* spawn (0 if there was none), the exit code's verdict, "Up" only for a pid that
\* runs and is the service's, or was taken over after it; "Dead" only for a pid
\* that does not run.  "Sandboxed" is shown for no service that was started.
RowsTrue == [][
  list.at = "print" /\ list'.at = "printed" /\ pc[list.got.by] # "exited" =>
    LET s == list.got.of
        h == handle[list.got.by][s]
        r == list'.row
        runs == h.pid # NoPid /\ proc[h.pid].is = "running" IN
    /\ r.pid = h.pid
    /\ cfg[s].pattern = "Standard" =>
         /\ r.status = "Up" => runs /\ (proc[h.pid].of = s => ~cfg[s].spaced)
         /\ r.status = "Dead" => ~runs
         /\ r.status \in {"Up", "Dead", "Unknown"}
    /\ cfg[s].pattern = "RunOnce" =>
         r.status = IF h.code = NoCode THEN "Failed"
                    ELSE IF h.code = 0 THEN "Finished" ELSE "Failed with code"
    /\ r.sandboxed => cfg[s].sandbox /\ h.pid = NoPid /\ h.code = NoCode
  ]_vars
=============================================================================
