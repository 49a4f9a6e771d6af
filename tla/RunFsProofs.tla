---------------------------- MODULE RunFsProofs ----------------------------
(***************************************************************************)
(* For any number of instances that start, power off and crash side by     *)
(* side, /run/kickit marks one of them and holds its files; and what ktctl *)
(* lists of them.                                                          *)
(***************************************************************************)
EXTENDS RunFs, SequenceTheorems, TLAPS

\* What an instance was that has nothing in /run/kickit but, in "dirs", the
\* directories.
Early == Starting \cup {"dirs", "emergency", "refused"}

\* The types the argument needs.
RunFsTypes ==
  /\ pc \in [Instances -> Ended \cup Starting \cup Serving \cup {"dirs", "emergency"}]
  /\ off \in [Instances -> {"no", "removing", "removed", "failed"}]
  /\ root \in Instances \cup {Nobody}
  /\ sock \in [Sockets -> Instances \cup {Nobody}]
  /\ \A s \in DOMAIN cache : cache[s].by \in Instances

\* An early instance has bound no socket and is not powering off; one that has
\* removed the mark has none; a cache file lies in a directory.
Auxiliary ==
  /\ \A i \in Instances : pc[i] \in Early => off[i] = "no" /\ \A k \in Sockets : sock[k] # i
  /\ \A i \in Instances : off[i] = "removed" => root # i
  /\ DOMAIN cache \subseteq dirs

RunFsInv == RunFsTypes /\ Auxiliary /\ MarkedByOwner /\ ContentIsOwners

USE DEF Live, Ended, Starting, Serving, Early, RunFsTypes, Auxiliary, MarkedByOwner, ContentIsOwners

\* Nothing exists in the first state.
LEMMA RunFsInit == Init => RunFsInv
  BY InstanceAssumption DEF Init, RunFsInv

\* A stutter, ktctl's steps and those of the processes leave the files alone.
LEMMA RunFsOther ==
  RunFsInv /\ UNCHANGED <<instVars, fsVars>> => RunFsInv'
  BY DEF RunFsInv, instVars, fsVars

\* The start of an instance: only the one that makes the mark goes on.
LEMMA RunFsStart ==
  ASSUME RunFsInv, NEW i \in Instances, Sanity(i) \/ MakeRoot(i) \/ MakeDir(i) \/ MakeDirFails(i)
  PROVE  RunFsInv'
<1>1. CASE Sanity(i)
  BY <1>1, InstanceAssumption DEF RunFsInv, Sanity, Goto, fsVars
<1>2. CASE MakeRoot(i)
  <2>1. CASE root = Nobody
    BY <1>2, <2>1, InstanceAssumption DEF RunFsInv, MakeRoot, Goto
  <2>2. CASE root # Nobody
    BY <1>2, <2>2, InstanceAssumption DEF RunFsInv, MakeRoot, Goto
  <2> QED BY <2>1, <2>2
<1>3. CASE MakeDir(i)
  BY <1>3, InstanceAssumption DEF RunFsInv, MakeDir, Goto
<1>4. CASE MakeDirFails(i)
  BY <1>4, InstanceAssumption DEF RunFsInv, MakeDirFails, Goto, fsVars
<1> QED BY <1>1, <1>2, <1>3, <1>4

\* The service loop and the sockets: what is made is the marked instance's, or
\* that of one that is about to exit.
LEMMA RunFsServe ==
  ASSUME RunFsInv, NEW i \in Instances,
         \/ UpInner(i) \/ CreateCache(i) \/ WriteCache(i) \/ WriteFails(i)
         \/ \E k \in Sockets : Bind(i, k)
  PROVE  RunFsInv'
<1>1. CASE UpInner(i)
  <2>1. \E l \in {"create", "stalled"} : pc' = [pc EXCEPT ![i] = l]
    BY <1>1 DEF UpInner, Goto
  <2> QED BY <1>1, <2>1, InstanceAssumption DEF RunFsInv, UpInner
<1>2. CASE CreateCache(i)
  <2>1. CASE cur[i] \in dirs /\ cur[i] \notin DOMAIN cache
    <3>1. /\ DOMAIN cache' = DOMAIN cache \cup {cur[i]}
          /\ \A s \in DOMAIN cache' : cache'[s].by = IF s \in DOMAIN cache THEN cache[s].by ELSE i
      BY <1>2, <2>1 DEF CreateCache
    <3>2. pc[i] = "create" /\ pc' = [pc EXCEPT ![i] = "write"] /\ UNCHANGED <<off, root, dirs, sock>>
      BY <1>2, <2>1 DEF CreateCache, Goto
    <3> QED BY <2>1, <3>1, <3>2, InstanceAssumption DEF RunFsInv
  <2>2. CASE ~(cur[i] \in dirs /\ cur[i] \notin DOMAIN cache)
    BY <1>2, <2>2, InstanceAssumption DEF RunFsInv, CreateCache, Goto
  <2> QED BY <2>1, <2>2
<1>3. CASE WriteCache(i)
  <2>1. \E l \in {"stalled", "up", "exec"} : pc' = [pc EXCEPT ![i] = l]
    BY <1>3 DEF WriteCache, Goto
  <2>2. DOMAIN cache' = DOMAIN cache /\ \A s \in DOMAIN cache : cache'[s].by = cache[s].by
    BY <1>3 DEF WriteCache
  <2>3. pc[i] = "write" /\ UNCHANGED <<off, root, dirs, sock>>
    BY <1>3 DEF WriteCache
  <2> QED BY <2>1, <2>2, <2>3, InstanceAssumption DEF RunFsInv
<1>4. CASE WriteFails(i)
  BY <1>4, InstanceAssumption DEF RunFsInv, WriteFails, Goto, fsVars
<1>5. ASSUME NEW k \in Sockets, Bind(i, k) PROVE RunFsInv'
  BY <1>5, InstanceAssumption DEF RunFsInv, Bind
<1> QED BY <1>1, <1>2, <1>3, <1>4, <1>5

\* The removal: the mark goes last, from a directory that has nothing left.
LEMMA RunFsRemove ==
  ASSUME RunFsInv, NEW i \in Instances,
         \/ PowerOff(i) \/ RemoveDir(i) \/ RemoveRoot(i)
         \/ \E k \in Sockets : RemoveSocket(i, k)
         \/ \E s \in Svc : EmptyDir(i, s)
  PROVE  RunFsInv'
<1>1. CASE PowerOff(i)
  <2>1. \E l \in {"removing", "failed"} : off' = [off EXCEPT ![i] = l]
    BY <1>1 DEF PowerOff
  <2> QED BY <1>1, <2>1, InstanceAssumption, SocketAssumption DEF RunFsInv, PowerOff, fsVars
<1>2. CASE RemoveDir(i)
  BY <1>2, InstanceAssumption DEF RunFsInv, RemoveDir, Removing
<1>3. ASSUME NEW k \in Sockets, RemoveSocket(i, k) PROVE RunFsInv'
  BY <1>3, InstanceAssumption DEF RunFsInv, RemoveSocket, Removing, instVars
<1>4. CASE RemoveRoot(i)
  <2>1. root = i
    BY <1>4 DEF RunFsInv, RemoveRoot, Removing
  <2>2. CASE \A k \in Sockets : sock[k] = Nobody
    <3>1. /\ root' = Nobody /\ off' = [off EXCEPT ![i] = "removed"]
          /\ UNCHANGED <<pc, dirs, cache, sock>> /\ pc[i] \notin Early
      BY <1>4, <2>2 DEF RunFsInv, RemoveRoot, Removing
    <3>2. dirs' = {} /\ DOMAIN cache' = {} /\ \A k \in Sockets : sock'[k] = Nobody
      BY <1>4, <2>2, <3>1 DEF RunFsInv, RemoveRoot
    <3>3. RunFsTypes' /\ Auxiliary'
      BY <3>1, <3>2, InstanceAssumption DEF RunFsInv
    <3>4. MarkedByOwner'
      BY <2>1, <3>1, InstanceAssumption DEF RunFsInv
    <3>5. ContentIsOwners'
      BY <3>1, <3>2
    <3> QED BY <3>3, <3>4, <3>5 DEF RunFsInv
  <2>3. CASE ~\A k \in Sockets : sock[k] = Nobody
    BY <1>4, <2>1, <2>3, InstanceAssumption DEF RunFsInv, RemoveRoot, Removing
  <2> QED BY <2>2, <2>3
<1>5. ASSUME NEW s \in Svc, EmptyDir(i, s) PROVE RunFsInv'
  <2>1. DOMAIN cache' = DOMAIN cache \ {s} /\ \A u \in DOMAIN cache' : cache'[u] = cache[u]
    BY <1>5 DEF EmptyDir, Restrict
  <2>2. UNCHANGED <<pc, off, root, dirs, sock>>
    BY <1>5 DEF EmptyDir
  <2>3. root = i
    BY <1>5 DEF RunFsInv, EmptyDir, Removing
  <2>4. \A u \in DOMAIN cache' : u \in DOMAIN cache /\ cache'[u].by = cache[u].by
    BY <2>1
  <2> QED BY <2>2, <2>3, <2>4, InstanceAssumption DEF RunFsInv
<1> QED BY <1>1, <1>2, <1>3, <1>4, <1>5

\* The ways an instance ends.
LEMMA RunFsEnd ==
  ASSUME RunFsInv, NEW i \in Instances, Exit(i) \/ Crash(i)
  PROVE  RunFsInv'
<1>1. CASE Exit(i)
  BY <1>1, InstanceAssumption DEF RunFsInv, Exit, Goto, fsVars
<1>2. CASE Crash(i)
  BY <1>2, InstanceAssumption DEF RunFsInv, Crash, Goto, fsVars
<1> QED BY <1>1, <1>2

\* The invariant holds in every reachable state.
THEOREM RunFsInvariance == Spec => []RunFsInv
<1>1. Init => RunFsInv
  BY RunFsInit
<1>2. RunFsInv /\ [Next]_vars => RunFsInv'
  <2> SUFFICES ASSUME RunFsInv, [Next]_vars PROVE RunFsInv'
    OBVIOUS
  <2>1. ASSUME NEW i \in Instances, Step(i) PROVE RunFsInv'
    <3>1. CASE Sanity(i) \/ MakeRoot(i) \/ MakeDir(i) \/ MakeDirFails(i)
      BY <3>1, RunFsStart
    <3>2. CASE \/ UpInner(i) \/ CreateCache(i) \/ WriteCache(i) \/ WriteFails(i)
               \/ \E k \in Sockets : Bind(i, k)
      BY <3>2, RunFsServe
    <3>3. CASE \/ PowerOff(i) \/ RemoveDir(i) \/ RemoveRoot(i)
               \/ \E k \in Sockets : RemoveSocket(i, k)
               \/ \E s \in Svc : EmptyDir(i, s)
      BY <3>3, RunFsRemove
    <3>4. CASE Exit(i) \/ Crash(i)
      BY <3>4, RunFsEnd
    <3> QED BY <2>1, <3>1, <3>2, <3>3, <3>4 DEF Step
  <2>2. CASE \/ Gate \/ OpenDir \/ PrintRow \/ Continue \/ \E s \in Svc : Import(s)
             \/ \E p \in Pids : ProcessEnds(p) \/ Reap(p) \/ Reuse(p)
    <3>1. UNCHANGED <<instVars, fsVars>>
      BY <2>2 DEF Gate, OpenDir, PrintRow, Continue, Import, ProcessEnds, Reap, Reuse
    <3> QED BY <3>1, RunFsOther
  <2>3. CASE UNCHANGED vars
    BY <2>3, RunFsOther DEF vars
  <2> QED BY <2>1, <2>2, <2>3 DEF Next
<1> QED BY <1>1, <1>2, PTL DEF Spec

\* /run/kickit is the mark of one instance, whatever races with whatever.
THEOREM RootMarksOne == Spec => []MarkedByOwner
<1>1. RunFsInv => MarkedByOwner
  BY DEF RunFsInv
<1> QED BY <1>1, RunFsInvariance, PTL

\* It goes with all that lies below it; and that is that instance's, but for the
\* files and sockets of one that has removed a root of its own and not exited.
THEOREM FilesAreOwners == Spec => []ContentIsOwners
<1>1. RunFsInv => ContentIsOwners
  BY DEF RunFsInv
<1> QED BY <1>1, RunFsInvariance, PTL

----------------------------------------------------------------------------
(* What ktctl lists.  For any number of services: a listing of a running   *)
(* init has all of them, and fails at none once main is through.  While    *)
(* nobody asks the marked instance to power off, its directories and cache *)
(* files only become more.                                                 *)

\* The types this needs; a listing is a record.
ListTypes ==
  /\ cfg \in [Svc -> Config]
  /\ cur \in [Instances -> Svc]
  /\ dirs \subseteq Svc
  /\ list = [at |-> list.at, by |-> list.by, left |-> list.left, got |-> list.got, row |-> list.row]
  /\ \A i \in Instances : pc[i] \in Starting => cur[i] = 1

Undoing(i) == root # i \/ off[i] # "no"

\* The directories and the cache files that an instance has made so far.
DirsMade(i) ==
  /\ pc[i] = "dirs" => 1..(cur[i] - 1) \subseteq dirs
  /\ pc[i] \in Serving \/ (\E k \in Sockets : sock[k] = i) => dirs = Svc
Own(i, s) == s \in DOMAIN cache /\ cache[s].by = i
FilesMade(i) ==
  /\ pc[i] \in {"exec", "create", "write"} => \A s \in 1..(cur[i] - 1) : Own(i, s) /\ Readable(s)
  /\ pc[i] = "write" => Own(i, cur[i])
  /\ pc[i] = "up" => \A s \in Svc : Own(i, s) /\ Readable(s)

\* The instance a listing goes by had bound io.Core, and has it still.
Gated ==
  /\ \A i \in Instances : list.by = i => pc[i] \notin Early
  /\ Undisturbed => sock["Core"] = root

ListInv ==
  /\ ListTypes /\ Gated
  /\ \A i \in Instances : Undoing(i) \/ (DirsMade(i) /\ FilesMade(i))

\* What is joined to a sequence leaves its elements where they are.
LEMMA Joined ==
  \A S : \A a, b \in Seq(S) :
    /\ a \o b \in Seq(S) /\ Len(a \o b) = Len(a) + Len(b)
    /\ \A k \in 1..Len(a) : (a \o b)[k] = a[k]
<1> SUFFICES ASSUME NEW S, NEW a \in Seq(S), NEW b \in Seq(S)
    PROVE  /\ a \o b \in Seq(S) /\ Len(a \o b) = Len(a) + Len(b)
           /\ \A k \in 1..Len(a) : (a \o b)[k] = a[k]
  OBVIOUS
<1>1. a \o b \in Seq(S) /\ Len(a \o b) = Len(a) + Len(b)
      /\ \A k \in 1..(Len(a) + Len(b)) : (a \o b)[k] = IF k <= Len(a) THEN a[k] ELSE b[k - Len(a)]
  BY ConcatProperties
<1>2. Len(a) \in Nat /\ Len(b) \in Nat
  OBVIOUS
<1> QED BY <1>1, <1>2

\* An integer is written in four bytes ...
LEMMA FourBytes ==
  ASSUME NEW S, NEW n, \A k \in 1..4 : Le(n)[k] \in S
  PROVE  Le(n) \in Seq(S) /\ Len(Le(n)) = 4
<1>1. Len(Le(n)) = 4 /\ Le(n) = <<Le(n)[1], Le(n)[2], Le(n)[3], Le(n)[4]>>
  BY DEF Le
<1> DEFINE le == Le(n)
<1> HIDE DEF le
<1>2. Len(le) = 4 /\ le = <<le[1], le[2], le[3], le[4]>> /\ \A k \in 1..4 : le[k] \in S
  BY <1>1 DEF le
<1>3. le[1] \in S /\ le[2] \in S /\ le[3] \in S /\ le[4] \in S
  BY <1>2
<1>4. <<le[1], le[2], le[3], le[4]>> \in Seq(S)
  BY <1>3
<1> QED BY <1>2, <1>4 DEF le

\* ... and read back from them.
LEMMA FromLeOfLe ==
  ASSUME NEW n \in Nat, n <= PidMax
  PROVE  FromLe(Le(n)) = n
<1> DEFINE q == n \div 256
           r == n \div 65536
           t == n \div 16777216
<1>1. n % 256 \in Nat /\ q \in Nat /\ n = 256 * q + (n % 256)
  BY SMT
<1>2. r = q \div 256
  BY SMT
<1>3. q = 256 * r + (q % 256) /\ r \in Nat /\ q % 256 \in Nat
  BY <1>1, <1>2, SMT
<1>4. t = r \div 256
  BY SMT
<1>5. r = 256 * t + (r % 256) /\ t \in Nat /\ r % 256 \in Nat
  BY <1>3, <1>4, SMT
<1>6. t % 256 = t
  BY SMT DEF PidMax
<1>7. FromLe(Le(n)) = (n % 256) + 256 * (q % 256) + 65536 * (r % 256) + 16777216 * t
  BY <1>6 DEF FromLe, Le
<1> HIDE DEF q, r, t
<1> QED BY <1>1, <1>3, <1>5, <1>7, SMT

\* A cache file that is written whole can be read: 11 bytes, the first two of
\* which are what CacheInstance::export takes.
LEMMA DataIsWhole ==
  ASSUME ListTypes, NEW s \in Svc, NEW h
  PROVE  /\ Len(AsData(s, h)) = 11
         /\ AsData(s, h)[1] \in Range(PatternByte)
         /\ AsData(s, h)[2] \in {0, 1}
<1> DEFINE two == <<PatternByte[cfg[s].pattern], IF h.sandbox THEN 1 ELSE 0>>
           zero == <<0>>
           one == <<1>>
           pid == Le(h.pid)
           null == Le(0)
           status == Le(h.code)
           code == IF h.code = NoCode THEN zero \o null ELSE one \o status
           S == {0, 1} \cup {two[1]} \cup {pid[k] : k \in 1..4}
                \cup {null[k] : k \in 1..4} \cup {status[k] : k \in 1..4}
<1>1. AsData(s, h) = (two \o pid) \o code
  BY DEF AsData
<1>2. two \in Seq(S) /\ Len(two) = 2 /\ two[1] = PatternByte[cfg[s].pattern] /\ two[2] \in {0, 1}
  OBVIOUS
<1>3. zero \in Seq(S) /\ one \in Seq(S) /\ Len(zero) = 1 /\ Len(one) = 1
  OBVIOUS
<1>4. /\ \A k \in 1..4 : pid[k] \in S
      /\ \A k \in 1..4 : null[k] \in S
      /\ \A k \in 1..4 : status[k] \in S
  OBVIOUS
<1> HIDE DEF two, zero, one, S
<1>5. pid \in Seq(S) /\ Len(pid) = 4 /\ null \in Seq(S) /\ Len(null) = 4
      /\ status \in Seq(S) /\ Len(status) = 4
  BY <1>4, FourBytes
<1> HIDE DEF pid, null, status
<1>6. two \o pid \in Seq(S) /\ Len(two \o pid) = 6 /\ \A k \in 1..2 : (two \o pid)[k] = two[k]
  <2>1. /\ two \o pid \in Seq(S) /\ Len(two \o pid) = Len(two) + Len(pid)
        /\ \A k \in 1..Len(two) : (two \o pid)[k] = two[k]
    BY <1>2, <1>5, Joined
  <2> QED BY <1>2, <1>5, <2>1
<1>7. code \in Seq(S) /\ Len(code) = 5
  <2>1. zero \o null \in Seq(S) /\ Len(zero \o null) = Len(zero) + Len(null)
    BY <1>3, <1>5, Joined
  <2>2. one \o status \in Seq(S) /\ Len(one \o status) = Len(one) + Len(status)
    BY <1>3, <1>5, Joined
  <2> QED BY <1>3, <1>5, <2>1, <2>2
<1> HIDE DEF code
<1>8. Len((two \o pid) \o code) = 11 /\ \A k \in 1..6 : ((two \o pid) \o code)[k] = (two \o pid)[k]
  <2>1. /\ Len((two \o pid) \o code) = Len(two \o pid) + Len(code)
        /\ \A k \in 1..Len(two \o pid) : ((two \o pid) \o code)[k] = (two \o pid)[k]
    BY <1>6, <1>7, Joined
  <2> QED BY <1>6, <1>7, <2>1
<1>9. PatternByte[cfg[s].pattern] \in Range(PatternByte)
  BY DEF ListTypes, Config, PatternByte, Range
<1> QED BY <1>1, <1>2, <1>6, <1>8, <1>9

\* An instance that a step of another leaves what it has.
LEMMA Unharmed ==
  ASSUME ListInv, NEW j \in Instances,
         pc'[j] = pc[j], cur'[j] = cur[j], cur[j] \in Svc,
         root' = j /\ off'[j] = "no" => root = j /\ off[j] = "no",
         \A k \in Sockets : sock'[k] = j => sock[k] = j,
         root = j /\ off[j] = "no" =>
           /\ dirs \subseteq dirs' /\ dirs' \subseteq Svc
           /\ \A s \in Svc : Own(j, s) => Own(j, s)' /\ (Readable(s) => Readable(s)')
  PROVE  Undoing(j)' \/ (DirsMade(j)' /\ FilesMade(j)')
<1> SUFFICES ASSUME ~Undoing(j)' PROVE DirsMade(j)' /\ FilesMade(j)'
  OBVIOUS
<1>1. root = j /\ off[j] = "no"
  BY DEF Undoing
<1>2. DirsMade(j) /\ FilesMade(j)
  BY <1>1 DEF ListInv, Undoing
<1>3. 1..(cur[j] - 1) \subseteq Svc
  BY CountAssumption DEF Svc
<1> QED BY <1>1, <1>2, <1>3 DEF DirsMade, FilesMade

\* A live instance that has not removed the mark is the one that made it; one
\* that has not come to its directories has not.
LEMMA Marks ==
  ASSUME RunFsInv, NEW i \in Instances
  PROVE  /\ pc[i] \in Serving \cup {"dirs"} => root = i \/ off[i] = "removed"
         /\ pc[i] \in Starting => root # i
         /\ pc[i] \in Early => off[i] = "no" /\ \A k \in Sockets : sock[k] # i
         /\ Removing(i) => root = i /\ off[i] = "removing"
         /\ off[i] = "removed" => root # i
  BY InstanceAssumption DEF RunFsInv, RunFsTypes, Auxiliary, MarkedByOwner, Early, Starting,
       Ended, Serving, Live, Removing

\* The start of an instance.
LEMMA ListStart ==
  ASSUME RunFsInv, ListInv, NEW i \in Instances,
         Sanity(i) \/ MakeRoot(i) \/ MakeDir(i) \/ MakeDirFails(i)
  PROVE  ListInv'
<1> USE DEF Starting, Early, Serving
<1>1. /\ cfg' = cfg /\ list' = list /\ off' = off /\ sock' = sock
      /\ pc[i] \in Early /\ pc' = [pc EXCEPT ![i] = pc'[i]]
      /\ \A j \in Instances \ {i} : pc'[j] = pc[j] /\ cur'[j] = cur[j]
      /\ DOMAIN cache' = DOMAIN cache /\ cache' = cache
  BY DEF Sanity, MakeRoot, MakeDir, MakeDirFails, Goto, fsVars, RunFsInv, RunFsTypes, ListInv, ListTypes
<1>2. list.by # i
  BY <1>1 DEF ListInv, Gated
<1>3. root' = root \/ root' = i
  BY DEF Sanity, MakeRoot, MakeDir, MakeDirFails, fsVars
<1>4. Gated'
  BY <1>1, <1>2, <1>3 DEF ListInv, Gated, Undisturbed
<1>5. (\A k \in Sockets : sock[k] # i) /\ off[i] = "no"
  BY <1>1, Marks
<1>6. CASE Sanity(i)
  <2>1. UNCHANGED <<cur, fsVars>> /\ pc[i] \in Starting /\ root # i /\ pc'[i] \in {"mkdir", "refused"}
    BY <1>6, Marks DEF Sanity, Goto, RunFsInv, RunFsTypes
  <2>2. ListTypes'
    BY <1>1, <2>1 DEF ListInv, ListTypes, fsVars
  <2>3. ASSUME NEW j \in Instances \ {i} PROVE Undoing(j)' \/ (DirsMade(j)' /\ FilesMade(j)')
    BY <1>1, <2>1, Unharmed DEF ListInv, ListTypes, fsVars, Own, Readable
  <2> QED BY <1>4, <2>1, <2>2, <2>3 DEF ListInv, Undoing, fsVars
<1>7. CASE MakeRoot(i)
  <2>1. UNCHANGED <<cur, dirs>> /\ cur[i] = 1 /\ root # i
    BY <1>7, Marks DEF MakeRoot, ListInv, ListTypes
  <2>2. pc'[i] \in {"dirs", "emergency"}
    BY <1>7 DEF MakeRoot, Goto, RunFsInv, RunFsTypes
  <2>3. ListTypes'
    BY <1>1, <2>1, <2>2 DEF ListInv, ListTypes
  <2>4. ASSUME NEW j \in Instances \ {i} PROVE Undoing(j)' \/ (DirsMade(j)' /\ FilesMade(j)')
    BY <1>1, <1>3, <2>1, Unharmed DEF ListInv, ListTypes, Own, Readable
  <2>5. DirsMade(i)' /\ FilesMade(i)'
    BY <1>1, <1>5, <2>1, <2>2 DEF DirsMade, FilesMade
  <2> QED BY <1>4, <2>3, <2>4, <2>5 DEF ListInv
<1>8. CASE MakeDir(i)
  <2>1. root = i /\ root' = root /\ pc[i] = "dirs" /\ dirs' = dirs \cup {cur[i]}
    BY <1>5, <1>8, Marks DEF MakeDir
  <2>2. cur[i] \in Svc /\ dirs \subseteq Svc /\ 1..(cur[i] - 1) \subseteq dirs
    BY <1>5, <2>1 DEF ListInv, ListTypes, DirsMade, Undoing
  <2>3. CASE cur[i] < NumServices
    <3>1. pc' = pc /\ cur' = [cur EXCEPT ![i] = @ + 1]
      BY <1>8, <2>3 DEF MakeDir
    <3>2. cur'[i] = cur[i] + 1 /\ cur' \in [Instances -> Svc]
      BY <2>2, <2>3, <3>1, CountAssumption DEF ListInv, ListTypes, Svc
    <3>3. ListTypes'
      BY <1>1, <2>1, <2>2, <3>1, <3>2 DEF ListInv, ListTypes
    <3>4. 1..(cur'[i] - 1) \subseteq dirs'
      BY <2>1, <2>2, <3>2, CountAssumption DEF Svc
    <3>5. DirsMade(i)' /\ FilesMade(i)'
      BY <1>1, <1>5, <2>1, <3>1, <3>4 DEF DirsMade, FilesMade
    <3> QED BY <1>4, <2>1, <3>3, <3>5 DEF ListInv, Undoing
  <2>4. CASE ~(cur[i] < NumServices)
    <3>1. pc'[i] = "exec" /\ cur' = [cur EXCEPT ![i] = 1]
      BY <1>8, <2>4 DEF MakeDir, Goto, RunFsInv, RunFsTypes
    <3>2. cur'[i] = 1 /\ cur' \in [Instances -> Svc]
      BY <3>1, CountAssumption DEF ListInv, ListTypes, Svc
    <3>3. dirs' = Svc
      <4>1. cur[i] = NumServices
        BY <2>2, <2>4, CountAssumption DEF Svc
      <4>2. \A s \in Svc : s \in 1..(cur[i] - 1) \/ s = cur[i]
        BY <4>1, CountAssumption DEF Svc
      <4> QED BY <2>1, <2>2, <4>2
    <3>4. ListTypes'
      BY <1>1, <3>1, <3>2, <3>3 DEF ListInv, ListTypes
    <3>5. DirsMade(i)' /\ FilesMade(i)'
      BY <1>1, <1>5, <3>1, <3>2, <3>3 DEF DirsMade, FilesMade
    <3> QED BY <1>4, <2>1, <3>4, <3>5 DEF ListInv, Undoing
  <2> QED BY <2>3, <2>4
<1>9. CASE MakeDirFails(i)
  <2>1. UNCHANGED <<cur, fsVars>> /\ pc[i] = "dirs" /\ root = i /\ pc'[i] = "emergency"
    BY <1>5, <1>9, Marks DEF MakeDirFails, Goto, RunFsInv, RunFsTypes
  <2>2. ListTypes'
    BY <1>1, <2>1 DEF ListInv, ListTypes, fsVars
  <2>3. DirsMade(i)' /\ FilesMade(i)'
    BY <1>1, <1>5, <2>1 DEF DirsMade, FilesMade
  <2> QED BY <1>4, <2>1, <2>2, <2>3 DEF ListInv, Undoing, fsVars
<1> QED BY <1>6, <1>7, <1>8, <1>9

\* The service loop: a file that is made is whole before the next one is come to.
LEMMA ListServe ==
  ASSUME RunFsInv, ListInv, NEW i \in Instances,
         \/ UpInner(i) \/ CreateCache(i) \/ WriteCache(i) \/ WriteFails(i)
         \/ \E k \in Sockets : Bind(i, k)
  PROVE  ListInv'
<1> USE DEF Starting, Early, Serving
<1>1. /\ UNCHANGED <<cfg, list, off, root, dirs>>
      /\ pc[i] \in Serving /\ pc'[i] \in Serving /\ pc' = [pc EXCEPT ![i] = pc'[i]]
      /\ \A j \in Instances \ {i} : pc'[j] = pc[j] /\ cur'[j] = cur[j]
  BY DEF UpInner, CreateCache, WriteCache, WriteFails, Bind, Goto, fsVars, RunFsInv, RunFsTypes,
       ListInv, ListTypes
<1>2. cur[i] \in Svc /\ (~Undoing(i) => dirs = Svc /\ FilesMade(i))
  BY <1>1 DEF ListInv, ListTypes, DirsMade
<1>3. /\ Undoing(i)' <=> Undoing(i)
      /\ \A j \in Instances : root' = j /\ off'[j] = "no" => root = j /\ off[j] = "no"
  BY <1>1 DEF Undoing
<1>4. ASSUME sock' = sock PROVE Gated'
  BY <1>1, <1>4 DEF ListInv, Gated, Undisturbed
<1>5. ASSUME cur' = cur PROVE ListTypes'
  BY <1>1, <1>5 DEF ListInv, ListTypes
<1>6. ~Undoing(i) => DirsMade(i)'
  BY <1>1, <1>2 DEF DirsMade
<1>7. ASSUME UNCHANGED <<cache, sock>>, NEW j \in Instances \ {i}
      PROVE  Undoing(j)' \/ (DirsMade(j)' /\ FilesMade(j)')
  BY <1>1, <1>3, <1>7, Unharmed DEF ListInv, ListTypes, Own, Readable
<1>8. CASE UpInner(i)
  <2>1. UNCHANGED <<cur, cache, sock>> /\ pc[i] = "exec" /\ pc'[i] \in {"create", "stalled"}
    BY <1>8 DEF UpInner, Goto, RunFsInv, RunFsTypes
  <2>2. ~Undoing(i) => FilesMade(i)'
    BY <1>1, <1>2, <2>1 DEF FilesMade, Own, Readable
  <2> QED BY <1>3, <1>4, <1>5, <1>6, <1>7, <2>1, <2>2 DEF ListInv
<1>9. CASE WriteFails(i)
  <2>1. UNCHANGED <<cur, cache, sock>> /\ pc'[i] = "stalled"
    BY <1>9 DEF WriteFails, Goto, fsVars, RunFsInv, RunFsTypes
  <2>2. FilesMade(i)'
    BY <2>1 DEF FilesMade
  <2> QED BY <1>3, <1>4, <1>5, <1>6, <1>7, <2>1, <2>2 DEF ListInv
<1>10. ASSUME NEW k \in Sockets, Bind(i, k) PROVE ListInv'
  <2>1. UNCHANGED <<pc, cur, cache>> /\ sock[k] = Nobody /\ root # Nobody /\ sock' = [sock EXCEPT ![k] = i]
    BY <1>10 DEF Bind
  <2>0. \A u \in Sockets : sock'[u] = IF u = k THEN i ELSE sock[u]
    BY <2>1 DEF RunFsInv, RunFsTypes
  <2>2. Gated'
    BY <1>1, <2>0, <2>1, SocketAssumption DEF ListInv, Gated, Undisturbed
  <2>3. ASSUME NEW j \in Instances \ {i} PROVE Undoing(j)' \/ (DirsMade(j)' /\ FilesMade(j)')
    BY <1>1, <1>3, <2>0, <2>1, Unharmed DEF ListInv, ListTypes, Own, Readable
  <2>4. ~Undoing(i) => FilesMade(i)'
    BY <1>1, <1>2, <2>1 DEF FilesMade, Own, Readable
  <2> QED BY <1>3, <1>5, <1>6, <2>1, <2>2, <2>3, <2>4 DEF ListInv
<1>11. CASE CreateCache(i)
  <2>1. UNCHANGED <<cur, sock>> /\ pc[i] = "create" /\ pc'[i] \in {"write", "stalled"}
    BY <1>11 DEF CreateCache, Goto, RunFsInv, RunFsTypes
  <2>2. /\ \A u \in DOMAIN cache : u \in DOMAIN cache' /\ cache'[u] = cache[u]
        /\ pc'[i] = "write" => Own(i, cur[i])'
    <3>1. CASE cur[i] \in dirs /\ cur[i] \notin DOMAIN cache
      BY <2>1, <3>1, <1>11 DEF CreateCache, Own
    <3>2. CASE ~(cur[i] \in dirs /\ cur[i] \notin DOMAIN cache)
      <4>1. cache' = cache /\ pc'[i] = "stalled"
        BY <3>2, <1>11 DEF CreateCache, Goto, RunFsInv, RunFsTypes
      <4> QED BY <4>1
    <3> QED BY <3>1, <3>2
  <2>3. \A j \in Instances, u \in Svc : Own(j, u) => Own(j, u)' /\ (Readable(u) => Readable(u)')
    BY <1>1, <2>2 DEF Own, Readable
  <2>4. ASSUME NEW j \in Instances \ {i} PROVE Undoing(j)' \/ (DirsMade(j)' /\ FilesMade(j)')
    BY <1>1, <1>3, <2>1, <2>3, Unharmed DEF ListInv, ListTypes
  <2>5. ~Undoing(i) => FilesMade(i)'
    <3>1. 1..(cur[i] - 1) \subseteq Svc
      BY <1>2, CountAssumption DEF Svc
    <3> QED BY <1>2, <2>1, <2>2, <2>3, <3>1 DEF FilesMade
  <2> QED BY <1>3, <1>4, <1>5, <1>6, <2>1, <2>4, <2>5 DEF ListInv
<1>12. CASE WriteCache(i)
  <2>1. sock' = sock /\ pc[i] = "write" /\ pc'[i] \in {"stalled", "up", "exec"}
    BY <1>12 DEF WriteCache, Goto, RunFsInv, RunFsTypes
  <2>2. /\ DOMAIN cache' = DOMAIN cache
        /\ \A u \in DOMAIN cache : cache'[u].by = cache[u].by /\ (u # cur[i] => cache'[u] = cache[u])
        /\ \A u \in DOMAIN cache : cache[u].by # i => cache'[u] = cache[u]
        /\ Own(i, cur[i]) => cache'[cur[i]].bytes = AsData(cur[i], handle[i][cur[i]])
    BY <1>12 DEF WriteCache, Own
  <2>0. PICK s \in Svc : s = cur[i]
    BY <1>2
  <2>3. Own(i, s) /\ s \in dirs => Readable(s)'
    <3>1. /\ Len(AsData(s, handle[i][s])) = 11
          /\ AsData(s, handle[i][s])[1] \in Range(PatternByte)
          /\ AsData(s, handle[i][s])[2] \in {0, 1}
      BY DataIsWhole DEF ListInv
    <3> QED BY <1>1, <2>0, <2>2, <3>1 DEF Readable, Own
  <2>4. \A u \in Svc : u # s /\ Own(i, u) => Own(i, u)' /\ (Readable(u) => Readable(u)')
    BY <1>1, <2>0, <2>2 DEF Own, Readable
  <2>5. ASSUME NEW j \in Instances \ {i} PROVE Undoing(j)' \/ (DirsMade(j)' /\ FilesMade(j)')
    <3>1. \A u \in Svc : Own(j, u) => Own(j, u)' /\ (Readable(u) => Readable(u)')
      BY <1>1, <2>2 DEF Own, Readable
    <3> QED BY <1>1, <1>3, <2>1, <3>1, Unharmed DEF ListInv, ListTypes
  <2>6. ASSUME ~Undoing(i) PROVE \A u \in 1..s : Own(i, u)' /\ Readable(u)'
    <3>1. /\ \A u \in 1..(s - 1) : Own(i, u) /\ Readable(u)
          /\ Own(i, s) /\ s \in dirs
      BY <1>2, <2>0, <2>1, <2>6 DEF FilesMade
    <3>2. Own(i, s)'
      BY <2>0, <2>2, <3>1 DEF Own
    <3>3. \A u \in 1..s : u \in Svc /\ (u \in 1..(s - 1) \/ u = s)
      BY CountAssumption DEF Svc
    <3>4. \A u \in 1..(s - 1) : u # s /\ u \in Svc
      BY CountAssumption DEF Svc
    <3> QED BY <2>3, <2>4, <3>1, <3>2, <3>3, <3>4
  <2>7. CASE pc'[i] = "exec"
    <3>1. cur' = [cur EXCEPT ![i] = @ + 1] /\ cur[i] # NumServices
      BY <1>12, <2>7 DEF WriteCache, Goto, RunFsInv, RunFsTypes
    <3>2. cur'[i] = cur[i] + 1 /\ cur' \in [Instances -> Svc]
      BY <1>2, <3>1, CountAssumption DEF ListInv, ListTypes, Svc
    <3>3. ListTypes'
      BY <1>1, <3>2 DEF ListInv, ListTypes
    <3>4. cur'[i] - 1 = cur[i]
      BY <1>2, <3>2 DEF Svc
    <3>5. ~Undoing(i) => FilesMade(i)'
      BY <2>0, <2>6, <2>7, <3>4 DEF FilesMade
    <3> QED BY <1>3, <1>4, <1>6, <2>1, <2>5, <3>3, <3>5 DEF ListInv
  <2>8. CASE pc'[i] # "exec"
    <3>1. cur' = cur /\ (pc'[i] = "up" => cur[i] = NumServices)
      BY <1>12, <2>8 DEF WriteCache, Goto, RunFsInv, RunFsTypes
    <3>2. ~Undoing(i) => FilesMade(i)'
      BY <2>0, <2>1, <2>6, <2>8, <3>1 DEF FilesMade, Svc
    <3> QED BY <1>3, <1>4, <1>5, <1>6, <2>1, <2>5, <3>1, <3>2 DEF ListInv
  <2> QED BY <2>7, <2>8
<1> QED BY <1>8, <1>9, <1>10, <1>11, <1>12

\* The removal, of an instance that has been asked to power off.
LEMMA ListRemove ==
  ASSUME RunFsInv, ListInv, NEW i \in Instances,
         \/ PowerOff(i) \/ RemoveDir(i) \/ RemoveRoot(i)
         \/ \E k \in Sockets : RemoveSocket(i, k)
         \/ \E s \in Svc : EmptyDir(i, s)
  PROVE  ListInv'
<1>1. UNCHANGED <<cfg, pc, cur, list>> /\ dirs' \subseteq dirs /\ root' \in {root, Nobody}
  BY DEF PowerOff, RemoveDir, RemoveSocket, RemoveRoot, EmptyDir, fsVars, instVars
<1>2. ListTypes'
  BY <1>1 DEF ListInv, ListTypes
<1>3. CASE PowerOff(i)
  <2>1. UNCHANGED fsVars /\ off'[i] # "no" /\ \A j \in Instances \ {i} : off'[j] = off[j]
    BY <1>3 DEF PowerOff, RunFsInv, RunFsTypes
  <2>2. Gated'
    BY <1>1, <2>1 DEF ListInv, Gated, Undisturbed, fsVars, RunFsInv, RunFsTypes
  <2>3. ASSUME NEW j \in Instances \ {i} PROVE Undoing(j)' \/ (DirsMade(j)' /\ FilesMade(j)')
    BY <1>1, <2>1, Unharmed DEF ListInv, ListTypes, Own, Readable, fsVars
  <2>4. Undoing(i)'
    BY <2>1 DEF Undoing
  <2> QED BY <1>2, <2>2, <2>3, <2>4 DEF ListInv
<1>4. CASE ~PowerOff(i)
  <2>1. Removing(i)
    BY <1>4 DEF RemoveDir, RemoveSocket, RemoveRoot, EmptyDir
  <2>2. root = i /\ off[i] = "removing"
    BY <2>1, Marks
  <2>0. off' = off \/ \E l \in {"failed", "removed"} : off' = [off EXCEPT ![i] = l]
    BY <1>4 DEF RemoveDir, RemoveSocket, RemoveRoot, EmptyDir, instVars
  <2>3. off'[i] # "no"
    BY <2>0, <2>2 DEF RunFsInv, RunFsTypes
  <2>4. \A j \in Instances : Undoing(j)'
    BY <1>1, <2>2, <2>3, InstanceAssumption DEF Undoing
  <2>5. Gated'
    BY <1>1, <2>2, <2>3 DEF ListInv, Gated, Undisturbed
  <2> QED BY <1>2, <2>4, <2>5 DEF ListInv
<1> QED BY <1>3, <1>4

\* The ways an instance ends.
LEMMA ListEnd ==
  ASSUME RunFsInv, ListInv, NEW i \in Instances, Exit(i) \/ Crash(i)
  PROVE  ListInv'
<1> USE DEF Starting, Early, Serving, Ended
<1>1. UNCHANGED <<cfg, off, root, dirs, cache, sock, list>>
  BY DEF Exit, Crash, fsVars
<1>2. /\ pc'[i] \in {"exited", "crashed"} /\ \A j \in Instances \ {i} : pc'[j] = pc[j]
      /\ cur' = [cur EXCEPT ![i] = 1] /\ cur \in [Instances -> Svc]
  BY DEF Exit, Crash, Goto, RunFsInv, RunFsTypes, ListInv, ListTypes
<1>3. ListTypes'
  <2>1. 1 \in Svc
    BY CountAssumption DEF Svc
  <2>2. cur' \in [Instances -> Svc] /\ \A j \in Instances : pc'[j] \in Starting => cur'[j] = 1
    BY <1>2, <2>1 DEF ListInv, ListTypes
  <2> QED BY <1>1, <2>2 DEF ListInv, ListTypes
<1>4. Gated'
  <2>1. \A j \in Instances : list'.by = j => pc'[j] \notin Early
    BY <1>1, <1>2 DEF ListInv, Gated
  <2> QED BY <1>1, <2>1 DEF ListInv, Gated, Undisturbed
<1>5. ASSUME NEW j \in Instances \ {i} PROVE Undoing(j)' \/ (DirsMade(j)' /\ FilesMade(j)')
  <2>1. pc'[j] = pc[j] /\ cur'[j] = cur[j] /\ cur[j] \in Svc
    BY <1>2
  <2> QED BY <1>1, <2>1, Unharmed DEF ListInv, ListTypes, Own, Readable
<1>6. Undoing(i)' \/ (DirsMade(i)' /\ FilesMade(i)')
  BY <1>1, <1>2 DEF ListInv, Undoing, DirsMade, FilesMade
<1> QED BY <1>3, <1>4, <1>5, <1>6 DEF ListInv

\* ktctl, the processes, and a stutter.
LEMMA ListOther ==
  ASSUME RunFsInv, ListInv,
         \/ Gate \/ OpenDir \/ PrintRow \/ Continue \/ \E s \in Svc : Import(s)
         \/ \E p \in Pids : ProcessEnds(p) \/ Reap(p) \/ Reuse(p)
         \/ UNCHANGED vars
  PROVE  ListInv'
<1>1. UNCHANGED <<cfg, pc, cur, off, root, dirs, cache, sock>>
  BY DEF Gate, OpenDir, PrintRow, Continue, Import, ProcessEnds, Reap, Reuse, vars, instVars, fsVars
<1>2. list = [at |-> list.at, by |-> list.by, left |-> list.left, got |-> list.got, row |-> list.row]
  BY DEF ListInv, ListTypes
<1>3. /\ list' = [at |-> list'.at, by |-> list'.by, left |-> list'.left, got |-> list'.got, row |-> list'.row]
      /\ (list'.by \in {list.by, Nobody} \/ (list'.by = sock["Core"] /\ sock["Core"] # Nobody))
  <2>1. CASE Gate
    BY <1>2, <2>1 DEF Gate
  <2>2. CASE OpenDir
    BY <1>2, <2>2 DEF OpenDir
  <2>3. CASE PrintRow
    BY <1>2, <2>3 DEF PrintRow
  <2>4. CASE Continue
    BY <1>2, <2>4 DEF Continue, Idle
  <2>5. CASE \E s \in Svc : Import(s)
    BY <1>2, <2>5 DEF Import
  <2>6. CASE UNCHANGED vars \/ \E p \in Pids : ProcessEnds(p) \/ Reap(p) \/ Reuse(p)
    BY <1>2, <2>6 DEF ProcessEnds, Reap, Reuse, vars
  <2> QED BY <2>1, <2>2, <2>3, <2>4, <2>5, <2>6
<1>4. ListTypes'
  BY <1>1, <1>3 DEF ListInv, ListTypes
<1>5. Gated'
  <2>1. sock["Core"] # Nobody => sock["Core"] \in Instances /\ pc[sock["Core"]] \notin Early
    BY Marks, SocketAssumption DEF RunFsInv, RunFsTypes
  <2> QED BY <1>1, <1>3, <2>1, InstanceAssumption DEF ListInv, Gated, Undisturbed
<1>6. ASSUME NEW j \in Instances PROVE Undoing(j)' \/ (DirsMade(j)' /\ FilesMade(j)')
  BY <1>1, Unharmed DEF ListInv, ListTypes, Own, Readable
<1> QED BY <1>4, <1>5, <1>6 DEF ListInv

----------------------------------------------------------------------------
\* A listing goes wrong only if what it opens or imports is not whole.
LEMMA ListingSteps ==
  ASSUME ListInv, [Next]_vars
  PROVE  /\ list.at = "gated" /\ list'.at = "listing" => list'.left = dirs
         /\ list'.at = "failed" /\ list.at # "failed" =>
              dirs = {} \/ \E s \in Svc : ~Readable(s)
<1>1. list = [at |-> list.at, by |-> list.by, left |-> list.left, got |-> list.got, row |-> list.row]
  BY DEF ListInv, ListTypes
<1>2. CASE OpenDir
  BY <1>1, <1>2 DEF OpenDir
<1>3. ASSUME NEW s \in Svc, Import(s) PROVE list.at = "listing" /\ (Readable(s) => list'.at = "print")
  BY <1>1, <1>3 DEF Import
<1>4. CASE Gate
  BY <1>1, <1>4 DEF Gate
<1>5. CASE PrintRow
  BY <1>1, <1>5 DEF PrintRow
<1>6. CASE Continue
  BY <1>1, <1>6 DEF Continue, Idle
<1>7. CASE ~(OpenDir \/ Gate \/ PrintRow \/ Continue \/ \E s \in Svc : Import(s))
  <2>1. CASE \E i \in Instances : Step(i)
    <3>1. list' = list
      BY <2>1 DEF Step, Sanity, MakeRoot, MakeDir, MakeDirFails, UpInner, CreateCache, WriteCache,
           WriteFails, PowerOff, RemoveDir, RemoveRoot, Exit, Crash, Bind, RemoveSocket, EmptyDir
    <3> QED BY <3>1
  <2>2. CASE UNCHANGED vars \/ \E p \in Pids : ProcessEnds(p) \/ Reap(p) \/ Reuse(p)
    BY <2>2 DEF ProcessEnds, Reap, Reuse, vars
  <2> QED BY <1>7, <2>1, <2>2 DEF Next
<1> QED BY <1>2, <1>3, <1>4, <1>5, <1>6, <1>7

\* Nothing has been made in the first state.
LEMMA ListInit == Init => ListInv
<1> SUFFICES ASSUME Init PROVE ListInv
  OBVIOUS
<1>1. ListTypes
  BY CountAssumption, ConfigAssumption DEF Init, ListTypes, Svc, Idle
<1> QED BY <1>1, InstanceAssumption DEF Init, ListInv, Gated, Undisturbed, Undoing, Idle

\* What the marked instance has made stays, for every target, until a power-off.
THEOREM ListInvariance == Spec => []ListInv
<1>1. ASSUME RunFsInv, ListInv, [Next]_vars PROVE ListInv'
  <2>1. ASSUME NEW i \in Instances, Step(i) PROVE ListInv'
    BY <1>1, <2>1, ListStart, ListServe, ListRemove, ListEnd DEF Step
  <2>2. CASE ~\E i \in Instances : Step(i)
    BY <1>1, <2>2, ListOther DEF Next
  <2> QED BY <2>1, <2>2
<1> QED BY ListInit, <1>1, RunFsInvariance, PTL DEF Spec

\* A listing of an init that is not asked to power off starts with every service
\* of the target, and fails only while not all the cache files are written.
THEOREM ListingsAreWhole == Spec => ListingIsWhole
<1>1. ASSUME RunFsInv, ListInv, [Next]_vars, Undisturbed
      PROVE  /\ list.at = "gated" /\ list'.at = "listing" => list'.left = Svc
             /\ list'.at = "failed" /\ list.at # "failed" => pc[root] # "up"
  <2>1. root \in Instances
    BY <1>1 DEF RunFsInv, RunFsTypes, Undisturbed
  <2>0. sock["Core"] = root /\ DirsMade(root) /\ FilesMade(root)
    BY <1>1, <2>1 DEF ListInv, Gated, Undisturbed, Undoing
  <2>2. dirs = Svc /\ (pc[root] = "up" => \A s \in Svc : Readable(s))
    BY <2>0, SocketAssumption DEF DirsMade, FilesMade
  <2>3. 1 \in Svc
    BY CountAssumption DEF Svc
  <2> QED BY <1>1, <2>2, <2>3, ListingSteps
<1> QED BY <1>1, ListInvariance, RunFsInvariance, PTL DEF Spec, ListingIsWhole

----------------------------------------------------------------------------
(* What a row says.  A cache file has what its instance knows of a service  *)
(* it is past, and so has what ktctl has read of it.                        *)

\* An instance is past a service when it will not start it again.
Past(i, s) ==
  /\ i \in Instances /\ s \in Svc
  /\ pc[i] \notin Starting \cup {"dirs"}
  /\ pc[i] \in {"exec", "create"} => s < cur[i]
  /\ pc[i] = "write" => s <= cur[i]

\* What an instance knows of a service; it has its sandbox profile until args().
Handles == [pid : Pids \cup {NoPid}, code : {NoCode, 0, 3}, sandbox : BOOLEAN]
Processes == {Free} \cup [of : Svc \cup {Stranger}, is : {"running", "zombie"}]
HandleTypes ==
  /\ handle \in [Instances -> [Svc -> Handles]]
  /\ \A i \in Instances : \A s \in Svc :
       handle[i][s].sandbox => cfg[s].sandbox /\ handle[i][s].pid = NoPid /\ handle[i][s].code = NoCode
  /\ proc \in [Pids -> Processes]
  /\ emptied \in [Instances -> Svc \cup {0}] /\ bound \in [Instances -> SUBSET Sockets]
  /\ list.at \in {"idle", "gated", "listing", "print", "printed", "failed"}

Written ==
  \A s \in DOMAIN cache :
    /\ cache[s] = [by |-> cache[s].by, bytes |-> cache[s].bytes]
    /\ Past(cache[s].by, s)
    /\ Len(cache[s].bytes) \in {0, 11}
    /\ cache[s].bytes # << >> /\ pc[cache[s].by] # "exited" =>
         cache[s].bytes = AsData(s, handle[cache[s].by][s])

Read ==
  list.at = "print" =>
    /\ Past(list.got.by, list.got.of)
    /\ pc[list.got.by] # "exited" =>
         list.got.is = Instance(AsData(list.got.of, handle[list.got.by][list.got.of]))

RowInv == HandleTypes /\ Written /\ Read

\* What is joined: a part of m elements, and one of n.
Joins(a, b, m, n) ==
  /\ Len(a \o b) = m + n
  /\ \A k \in 1..m : (a \o b)[k] = a[k]
  /\ \A k \in 1..n : (a \o b)[m + k] = b[k]

\* Joining keeps the elements and their order.
LEMMA JoinedParts ==
  \A S : \A a, b \in Seq(S) : a \o b \in Seq(S) /\ Joins(a, b, Len(a), Len(b))
<1> SUFFICES ASSUME NEW S, NEW a \in Seq(S), NEW b \in Seq(S)
    PROVE  a \o b \in Seq(S) /\ Joins(a, b, Len(a), Len(b))
  OBVIOUS
<1> DEFINE m == Len(a)
           n == Len(b)
<1>1. /\ a \o b \in Seq(S) /\ Len(a \o b) = m + n
      /\ \A k \in 1..(m + n) : (a \o b)[k] = IF k <= m THEN a[k] ELSE b[k - m]
  BY ConcatProperties
<1>2. m \in Nat /\ n \in Nat
  OBVIOUS
<1>3. ASSUME NEW k \in 1..n PROVE (a \o b)[m + k] = b[k]
  <2>1. m + k \in 1..(m + n) /\ ~(m + k <= m) /\ m + k - m = k
    BY <1>2
  <2> QED BY <1>1, <2>1
<1> QED BY <1>1, <1>2, <1>3 DEF Joins

\* The bytes of a cache file.
LEMMA DataBytes ==
  ASSUME NEW s, cfg[s].pattern \in {"Standard", "RunOnce"}, NEW h, h.pid \in Nat, h.code \in {NoCode} \cup Nat
  PROVE  LET b == AsData(s, h) IN
         /\ b \in Seq(Nat) /\ Len(b) = 11
         /\ b[1] = PatternByte[cfg[s].pattern] /\ b[2] = (IF h.sandbox THEN 1 ELSE 0)
         /\ \A k \in 1..4 : b[2 + k] = Le(h.pid)[k]
         /\ b[7] = (IF h.code = NoCode THEN 0 ELSE 1)
         /\ h.code # NoCode => \A k \in 1..4 : b[7 + k] = Le(h.code)[k]
<1> DEFINE two == <<PatternByte[cfg[s].pattern], IF h.sandbox THEN 1 ELSE 0>>
           flag == <<IF h.code = NoCode THEN 0 ELSE 1>>
           c == IF h.code = NoCode THEN 0 ELSE h.code
           pid == Le(h.pid)
           status == Le(c)
           code == flag \o status
           front == two \o pid
           b == front \o code
<1>1. AsData(s, h) = b
  BY DEF AsData
<1>2. c \in Nat /\ (h.code # NoCode => c = h.code)
  BY DEF NoCode
<1>3. two \in Seq(Nat) /\ Len(two) = 2 /\ two[1] = PatternByte[cfg[s].pattern] /\ two[2] = (IF h.sandbox THEN 1 ELSE 0)
  BY DEF PatternByte
<1>4. flag \in Seq(Nat) /\ Len(flag) = 1 /\ flag[1] = (IF h.code = NoCode THEN 0 ELSE 1)
  OBVIOUS
<1>5. ASSUME NEW n \in Nat PROVE \A k \in 1..4 : Le(n)[k] \in Nat
  <2>1. n % 256 \in Nat /\ (n \div 256) % 256 \in Nat /\ (n \div 65536) % 256 \in Nat /\ (n \div 16777216) % 256 \in Nat
    BY SMT
  <2> DEFINE l == Le(n)
  <2>2. /\ l[1] = n % 256 /\ l[2] = (n \div 256) % 256
        /\ l[3] = (n \div 65536) % 256 /\ l[4] = (n \div 16777216) % 256
    BY SMT DEF Le
  <2> HIDE DEF l
  <2>3. l[1] \in Nat /\ l[2] \in Nat /\ l[3] \in Nat /\ l[4] \in Nat
    BY <2>1, <2>2
  <2>4. \A k \in 1..4 : l[k] \in Nat
    BY ONLY <2>3
  <2> QED BY <2>4, Zenon DEF l
<1>6. pid \in Seq(Nat) /\ Len(pid) = 4
  BY <1>5, FourBytes
<1>7. status \in Seq(Nat) /\ Len(status) = 4
  BY <1>2, <1>5, FourBytes
<1> HIDE DEF two, flag, c, pid, status
<1>8. /\ front \in Seq(Nat) /\ Len(front) = 6 /\ front[1] = two[1] /\ front[2] = two[2]
      /\ \A k \in 1..4 : front[2 + k] = pid[k]
  <2>1. two \o pid \in Seq(Nat) /\ Joins(two, pid, Len(two), Len(pid))
    BY <1>3, <1>6, JoinedParts
  <2>2. Joins(two, pid, 2, 4)
    BY <2>1, <1>3, <1>6
  <2>3. /\ Len(front) = 2 + 4
        /\ \A k \in 1..2 : front[k] = two[k]
        /\ \A k \in 1..4 : front[2 + k] = pid[k]
    BY <2>2, Zenon DEF Joins
  <2>4. front \in Seq(Nat)
    BY <2>1
  <2> HIDE DEF front
  <2> QED BY ONLY <2>3, <2>4
<1>9. /\ code \in Seq(Nat) /\ Len(code) = 5 /\ code[1] = flag[1]
      /\ \A k \in 1..4 : code[1 + k] = status[k]
  <2>1. flag \o status \in Seq(Nat) /\ Joins(flag, status, Len(flag), Len(status))
    BY <1>4, <1>7, JoinedParts
  <2>2. Joins(flag, status, 1, 4)
    BY <2>1, <1>4, <1>7
  <2>3. /\ Len(code) = 1 + 4
        /\ \A k \in 1..1 : code[k] = flag[k]
        /\ \A k \in 1..4 : code[1 + k] = status[k]
    BY <2>2, Zenon DEF Joins
  <2>4. code \in Seq(Nat)
    BY <2>1
  <2> HIDE DEF code
  <2> QED BY ONLY <2>3, <2>4
<1> HIDE DEF front, code
<1>10. /\ b \in Seq(Nat) /\ Len(b) = 11 /\ \A k \in 1..6 : b[k] = front[k]
       /\ \A k \in 1..5 : b[6 + k] = code[k]
  <2>1. front \o code \in Seq(Nat) /\ Joins(front, code, Len(front), Len(code))
    BY <1>8, <1>9, JoinedParts
  <2>2. Joins(front, code, 6, 5)
    BY <2>1, <1>8, <1>9
  <2>3. /\ Len(b) = 6 + 5
        /\ \A k \in 1..6 : b[k] = front[k]
        /\ \A k \in 1..5 : b[6 + k] = code[k]
    BY <2>2, Zenon DEF Joins
  <2>4. b \in Seq(Nat)
    BY <2>1
  <2> HIDE DEF b
  <2> QED BY ONLY <2>3, <2>4
<1> HIDE DEF b
<1>11. b[1] = two[1] /\ b[2] = two[2] /\ \A k \in 1..4 : b[2 + k] = pid[k]
  <2>1. \A k \in 1..4 : 2 + k \in 1..6
    OBVIOUS
  <2> QED BY <1>8, <1>10, <2>1
<1>12. b[7] = flag[1] /\ \A k \in 1..4 : b[7 + k] = status[k]
  <2>1. \A k \in 1..4 : 1 + k \in 1..5 /\ 6 + (1 + k) = 7 + k
    OBVIOUS
  <2>2. 6 + 1 = 7
    OBVIOUS
  <2> QED BY <1>9, <1>10, <2>1, <2>2
<1>13. h.code # NoCode => \A k \in 1..4 : b[7 + k] = Le(h.code)[k]
  BY <1>2, <1>12 DEF status
<1>14. \A k \in 1..4 : b[2 + k] = Le(h.pid)[k]
  BY <1>11 DEF pid
<1> QED BY <1>1, <1>3, <1>4, <1>10, <1>11, <1>12, <1>13, <1>14, Zenon

\* ktctl reads what was written.
LEMMA DataIsRead ==
  ASSUME NEW s, cfg[s].pattern \in {"Standard", "RunOnce"}, NEW h,
         h.pid \in Nat, h.pid <= PidMax, h.code \in {NoCode, 0, 3}
  PROVE  Instance(AsData(s, h)) = [pattern |-> PatternByte[cfg[s].pattern],
                                   sandboxed |-> IF h.sandbox THEN 1 ELSE 0,
                                   pid |-> h.pid, status |-> h.code]
<1> DEFINE b == AsData(s, h)
           p == SubSeq(b, 3, 6)
           c == SubSeq(b, 8, 11)
<1>1. h.code \in {NoCode} \cup Nat
  OBVIOUS
<1>2. /\ b \in Seq(Nat) /\ Len(b) = 11
      /\ b[1] = PatternByte[cfg[s].pattern] /\ b[2] = (IF h.sandbox THEN 1 ELSE 0)
      /\ \A k \in 1..4 : b[2 + k] = Le(h.pid)[k]
      /\ b[7] = (IF h.code = NoCode THEN 0 ELSE 1)
      /\ h.code # NoCode => \A k \in 1..4 : b[7 + k] = Le(h.code)[k]
  BY <1>1, DataBytes
<1> HIDE DEF b
<1>3. /\ \A k \in 1..4 : p[k] = b[2 + k]
      /\ \A k \in 1..4 : c[k] = b[7 + k]
  <2>1. \A k \in 1..4 : p[k] = b[3 + k - 1] /\ c[k] = b[8 + k - 1]
    BY <1>2, SubSeqProperties
  <2>2. \A k \in 1..4 : 3 + k - 1 = 2 + k /\ 8 + k - 1 = 7 + k
    OBVIOUS
  <2> QED BY <2>1, <2>2
<1> HIDE DEF p, c
<1>4. \A x, y : (\A k \in 1..4 : x[k] = y[k]) => FromLe(x) = FromLe(y)
  <2> SUFFICES ASSUME NEW x, NEW y, \A k \in 1..4 : x[k] = y[k] PROVE FromLe(x) = FromLe(y)
    OBVIOUS
  <2>1. x[1] = y[1] /\ x[2] = y[2] /\ x[3] = y[3] /\ x[4] = y[4]
    OBVIOUS
  <2> QED BY <2>1, SMT DEF FromLe
<1>5. FromLe(p) = h.pid
  <2>1. FromLe(p) = FromLe(Le(h.pid))
    BY <1>2, <1>3, <1>4
  <2> QED BY <2>1, FromLeOfLe
<1>6. h.code # NoCode => FromLe(c) = h.code
  <2> SUFFICES ASSUME h.code # NoCode PROVE FromLe(c) = h.code
    OBVIOUS
  <2>1. FromLe(c) = FromLe(Le(h.code))
    BY <1>2, <1>3, <1>4
  <2>2. h.code \in Nat /\ h.code <= PidMax
    BY SMT DEF PidMax
  <2> QED BY <2>1, <2>2, FromLeOfLe
<1>7. (IF b[7] = 1 THEN FromLe(c) ELSE NoCode) = h.code
  BY <1>2, <1>6
<1>8. Instance(b) = [pattern |-> b[1], sandboxed |-> b[2], pid |-> FromLe(p),
                     status |-> IF b[7] = 1 THEN FromLe(c) ELSE NoCode]
  BY DEF Instance, p, c
<1> QED BY <1>2, <1>5, <1>7, <1>8 DEF b

\* What an instance's step does to what is kept here.
Touches(i) ==
  /\ cfg' = cfg /\ list' = list
  /\ \A j \in Instances : j # i => pc'[j] = pc[j] /\ cur'[j] = cur[j] /\ handle'[j] = handle[j]

\* An instance's step is its own.
LEMMA StepTouches ==
  ASSUME RunFsInv, ListTypes, HandleTypes, NEW i \in Instances, Step(i)
  PROVE  Touches(i)
<1> USE DEF Touches, RunFsInv, ListTypes, HandleTypes
<1>1. CASE Sanity(i) \/ MakeRoot(i) \/ MakeDir(i) \/ MakeDirFails(i)
  BY <1>1 DEF Sanity, MakeRoot, MakeDir, MakeDirFails, Goto
<1>2. CASE UpInner(i)
  <2>1. \E l : pc' = [pc EXCEPT ![i] = l]
    BY <1>2 DEF UpInner, Goto
  <2>2. \E h : handle' = [handle EXCEPT ![i][cur[i]] = h]
    BY <1>2 DEF UpInner
  <2>3. cfg' = cfg /\ list' = list /\ cur' = cur
    BY <1>2 DEF UpInner
  <2> QED BY <2>1, <2>2, <2>3
<1>3. CASE CreateCache(i) \/ WriteCache(i) \/ WriteFails(i) \/ \E k \in Sockets : Bind(i, k)
  BY <1>3 DEF CreateCache, WriteCache, WriteFails, Bind, Goto
<1>4. CASE \/ PowerOff(i) \/ RemoveDir(i) \/ RemoveRoot(i)
           \/ \E k \in Sockets : RemoveSocket(i, k)
           \/ \E s \in Svc : EmptyDir(i, s)
  BY <1>4 DEF PowerOff, RemoveDir, RemoveSocket, RemoveRoot, EmptyDir, instVars
<1>5. CASE Exit(i) \/ Crash(i)
  BY <1>5 DEF Exit, Crash, Goto
<1> QED BY <1>1, <1>2, <1>3, <1>4, <1>5 DEF Step

\* A service that an instance is past stays so, and what the instance knows of
\* it stays as it is until the instance ends by itself.
LEMMA PastStays ==
  ASSUME RunFsInv, ListTypes, HandleTypes, NEW i \in Instances, Step(i), NEW j, NEW s, Past(j, s)
  PROVE  /\ Past(j, s)'
         /\ pc'[j] # "exited" => pc[j] # "exited" /\ handle'[j][s] = handle[j][s]
<1> USE DEF Past
<1>1. CASE j # i
  BY <1>1, StepTouches DEF Touches
<1>2. CASE j = i
  <2> USE <1>2 DEF RunFsInv, ListTypes, HandleTypes
  <2>0. cur[i] \in Nat /\ s \in Nat
    BY DEF Svc
  <2>1. CASE Sanity(i) \/ MakeRoot(i) \/ MakeDir(i) \/ MakeDirFails(i)
    BY <2>1 DEF Sanity, MakeRoot, MakeDir, MakeDirFails
  <2>2. CASE UpInner(i)
    <3>1. pc[i] = "exec" /\ cur' = cur /\ \E l \in {"create", "stalled"} : pc' = [pc EXCEPT ![i] = l]
      BY <2>2 DEF UpInner, Goto
    <3>2. \E h : handle' = [handle EXCEPT ![i][cur[i]] = h]
      BY <2>2 DEF UpInner
    <3>3. s # cur[i]
      BY <2>0, <3>1
    <3>4. handle'[i][s] = handle[i][s]
      BY <3>2, <3>3
    <3> QED BY <2>0, <3>1, <3>4
  <2>3. CASE CreateCache(i)
    BY <2>0, <2>3 DEF CreateCache, Goto
  <2>4. CASE WriteCache(i)
    <3>1. pc[i] = "write" /\ handle' = handle /\ s <= cur[i]
      BY <2>4 DEF WriteCache
    <3>2. \/ cur' = cur /\ \E l \in {"stalled", "up"} : pc' = [pc EXCEPT ![i] = l]
          \/ cur' = [cur EXCEPT ![i] = cur[i] + 1] /\ pc' = [pc EXCEPT ![i] = "exec"]
      BY <2>4 DEF WriteCache, Goto
    <3> QED BY <2>0, <3>1, <3>2
  <2>5. CASE WriteFails(i) \/ \E k \in Sockets : Bind(i, k)
    BY <2>5 DEF WriteFails, Bind, Goto
  <2>6. CASE \/ PowerOff(i) \/ RemoveDir(i) \/ RemoveRoot(i)
             \/ \E k \in Sockets : RemoveSocket(i, k)
             \/ \E u \in Svc : EmptyDir(i, u)
    BY <2>6 DEF PowerOff, RemoveDir, RemoveSocket, RemoveRoot, EmptyDir, instVars
  <2>7. CASE Exit(i) \/ Crash(i)
    BY <2>7 DEF Exit, Crash, Goto
  <2> QED BY <2>1, <2>2, <2>3, <2>4, <2>5, <2>6, <2>7 DEF Step
<1> QED BY <1>1, <1>2

\* A cache file that a step leaves alone says what it said.
EntryTrue(s) ==
  /\ cache[s] = [by |-> cache[s].by, bytes |-> cache[s].bytes]
  /\ Past(cache[s].by, s)
  /\ Len(cache[s].bytes) \in {0, 11}
  /\ cache[s].bytes # << >> /\ pc[cache[s].by] # "exited" =>
       cache[s].bytes = AsData(s, handle[cache[s].by][s])

\* Such a file keeps saying what its instance knows, whatever an instance does.
LEMMA EntryStays ==
  ASSUME RunFsInv, ListTypes, HandleTypes, NEW i \in Instances, Step(i),
         NEW s, EntryTrue(s), cache'[s] = cache[s]
  PROVE  EntryTrue(s)'
<1>1. /\ Past(cache[s].by, s)'
      /\ pc'[cache[s].by] # "exited" =>
           pc[cache[s].by] # "exited" /\ handle'[cache[s].by][s] = handle[cache[s].by][s]
  BY PastStays DEF EntryTrue
<1>2. cfg' = cfg
  BY StepTouches DEF Touches
<1>3. \A h : AsData(s, h)' = AsData(s, h)
  BY <1>2 DEF AsData
<1> QED BY <1>1, <1>2, <1>3 DEF EntryTrue, AsData

\* Each cache file has nothing yet, or what the instance that made it knows.
LEMMA WrittenStays ==
  ASSUME RunFsInv, ListTypes, HandleTypes, Written, NEW i \in Instances, Step(i)
  PROVE  Written'
<1>0. \A s \in DOMAIN cache : EntryTrue(s)
  BY DEF Written, EntryTrue
<1>1. ASSUME \A s \in DOMAIN cache' : s \in DOMAIN cache /\ cache'[s] = cache[s]
      PROVE  Written'
  <2>1. \A s \in DOMAIN cache' : EntryTrue(s)'
    BY <1>0, <1>1, EntryStays
  <2> QED BY <2>1 DEF Written, EntryTrue
<1>2. CASE CreateCache(i)
  <2>1. CASE cur[i] \in dirs /\ cur[i] \notin DOMAIN cache
    <3> PICK s \in Svc : s = cur[i]
      BY DEF ListTypes
    <3>1. /\ DOMAIN cache' = DOMAIN cache \cup {s}
          /\ \A u \in DOMAIN cache : cache'[u] = cache[u]
          /\ cache'[s] = [by |-> i, bytes |-> << >>]
          /\ pc' = [pc EXCEPT ![i] = "write"] /\ cur' = cur
      BY <1>2, <2>1 DEF CreateCache, Goto
    <3>2. \A u \in DOMAIN cache : EntryTrue(u)'
      BY <1>0, <3>1, EntryStays
    <3>3. Past(i, s)'
      BY <3>1 DEF Past, RunFsInv, ListTypes, Svc
    <3>4. EntryTrue(s)'
      BY <3>1, <3>3 DEF EntryTrue
    <3> QED BY <3>1, <3>2, <3>4 DEF Written, EntryTrue
  <2>2. CASE ~(cur[i] \in dirs /\ cur[i] \notin DOMAIN cache)
    BY <1>1, <1>2, <2>2 DEF CreateCache
  <2> QED BY <2>1, <2>2
<1>3. CASE WriteCache(i)
  <2>1. CASE cur[i] \in DOMAIN cache /\ cache[cur[i]].by = i
    <3> PICK s \in Svc : s = cur[i]
      BY DEF ListTypes
    <3> PICK h : h = handle[i][s]
      OBVIOUS
    <3> PICK data : data = AsData(s, h)
      OBVIOUS
    <3>1. cache' = [cache EXCEPT ![s].bytes = data] /\ pc[i] = "write" /\ handle' = handle
      BY <1>3, <2>1 DEF WriteCache
    <3>2. Past(i, s) /\ s \in Svc
      BY <3>1 DEF Past, RunFsInv, ListTypes, Svc
    <3>3. Past(i, s)'
      BY <3>2, PastStays
    <3>4. data = AsData(s, handle[i][s])'
      BY <1>3, <3>1 DEF WriteCache, AsData
    <3>5. Len(data) = 11
      BY <3>2, DataIsWhole
    <3>6. cache[s] = [by |-> i, bytes |-> cache[s].bytes]
      BY <2>1 DEF Written
    <3>7. /\ DOMAIN cache' = DOMAIN cache
          /\ \A u \in DOMAIN cache : u # s => cache'[u] = cache[u]
      BY <3>1
    <3>8. cache'[s] = [by |-> i, bytes |-> data]
      BY <2>1, <3>1, <3>6
    <3>9. cache'[s].by = i /\ cache'[s].bytes = data
      BY <3>8
    <3>10. EntryTrue(s)'
      BY <3>3, <3>4, <3>5, <3>8, <3>9 DEF EntryTrue, AsData
    <3>11. \A u \in DOMAIN cache : u # s => EntryTrue(u)'
      BY <1>0, <3>7, EntryStays
    <3> QED BY <3>7, <3>10, <3>11 DEF Written, EntryTrue
  <2>2. CASE ~(cur[i] \in DOMAIN cache /\ cache[cur[i]].by = i)
    BY <1>1, <1>3, <2>2 DEF WriteCache
  <2> QED BY <2>1, <2>2
<1>4. ASSUME NEW s \in Svc, EmptyDir(i, s) PROVE Written'
  <2>1. DOMAIN cache' = DOMAIN cache \ {s} /\ \A u \in DOMAIN cache' : cache'[u] = cache[u]
    BY <1>4 DEF EmptyDir, Restrict
  <2> QED BY <1>1, <2>1
<1>5. CASE cache' = cache
  BY <1>1, <1>5
<1>6. ASSUME ~CreateCache(i), ~WriteCache(i), ~\E s \in Svc : EmptyDir(i, s)
      PROVE  cache' = cache
  BY <1>6 DEF Step, Sanity, MakeRoot, MakeDir, MakeDirFails, UpInner, WriteFails, PowerOff, RemoveDir,
              RemoveRoot, Exit, Crash, Bind, RemoveSocket, fsVars
<1> QED BY <1>2, <1>3, <1>4, <1>5, <1>6

\* What ktctl has read of an instance stays true.
LEMMA ReadStays ==
  ASSUME RunFsInv, ListTypes, HandleTypes, Read, NEW i \in Instances, Step(i)
  PROVE  Read'
<1> SUFFICES ASSUME list.at = "print" PROVE Read'
  BY StepTouches DEF Read, Touches
<1>1. list' = list /\ cfg' = cfg
  BY StepTouches DEF Touches
<1> PICK j : j = list.got.by
  OBVIOUS
<1> PICK s : s = list.got.of
  OBVIOUS
<1>2. Past(j, s) /\ (pc[j] # "exited" => list.got.is = Instance(AsData(s, handle[j][s])))
  BY DEF Read
<1>3. /\ Past(j, s)'
      /\ pc'[j] # "exited" => pc[j] # "exited" /\ handle'[j][s] = handle[j][s]
  BY <1>2, PastStays
<1>4. pc'[j] # "exited" => list.got.is = Instance(AsData(s, handle'[j][s]))
  BY <1>2, <1>3
<1>5. AsData(s, handle[j][s])' = AsData(s, handle'[j][s])
  BY <1>1 DEF AsData
<1>6. pc'[j] # "exited" => list.got.is = Instance(AsData(s, handle[j][s])')
  BY <1>4, <1>5
<1>7. list'.at = "print" /\ list'.got.by = j /\ list'.got.of = s /\ list'.got.is = list.got.is
  BY <1>1
<1> QED BY <1>3, <1>6, <1>7 DEF Read

\* Whatever up_inner comes to, the Service structure says no more than it did.
LEMMA OutcomesKnown ==
  ASSUME ListTypes, NEW s \in Svc, NEW r \in {Unprepared(s)} \cup Outcomes(s)
  PROVE  /\ r.pid \in Pids \cup {NoPid} /\ r.code \in {NoCode, 0, 3} /\ r.sandbox \in BOOLEAN
         /\ r.sandbox => cfg[s].sandbox /\ r.pid = NoPid /\ r.code = NoCode
<1>1. CASE r = Unprepared(s)
  BY <1>1 DEF Unprepared, ListTypes, Config
<1> DEFINE free == {q \in Pids : proc[q] = Free}
           oks == IF cfg[s].logger \/ cfg[s].sandbox THEN BOOLEAN ELSE {TRUE}
           spawned == {[pid |-> p, code |-> NoCode, sandbox |-> FALSE, ok |-> o] : p \in free, o \in oks}
           run == {o \in [pid : {NoPid}, code : {0, 3, NoCode}, sandbox : {FALSE}, ok : BOOLEAN] :
                    IF o.code = 0 THEN o.ok \/ cfg[s].logger ELSE ~o.ok}
<1>2. Outcomes(s) = Failed(s) \cup IF cfg[s].pattern = "Standard" THEN spawned ELSE run
  BY DEF Outcomes
<1> HIDE DEF spawned, run
<1>3. r \in {Unprepared(s)} \cup Failed(s) \cup spawned \cup run
  BY <1>2
<1>4. CASE r \in Failed(s)
  <2>1. r = [pid |-> NoPid, code |-> NoCode, sandbox |-> FALSE, ok |-> FALSE]
    BY <1>4 DEF Failed
  <2> QED BY <2>1
<1>5. CASE r \in spawned
  <2> HIDE DEF oks, free
  <2>1. PICK p \in free, o \in oks : r = [pid |-> p, code |-> NoCode, sandbox |-> FALSE, ok |-> o]
    BY <1>5 DEF spawned
  <2> QED BY <2>1 DEF free
<1>6. CASE r \in run
  <2>1. r \in [pid : {NoPid}, code : {0, 3, NoCode}, sandbox : {FALSE}, ok : BOOLEAN]
    BY <1>6 DEF run
  <2> QED BY <2>1
<1> QED BY <1>1, <1>3, <1>4, <1>5, <1>6

\* The types of what an instance knows.
LEMMA TypesStay ==
  ASSUME RunFsInv, ListTypes, HandleTypes, NEW i \in Instances, Step(i)
  PROVE  HandleTypes'
<1>0. list' = list /\ cfg' = cfg
  BY StepTouches DEF Touches
<1>1. CASE UpInner(i)
  <2> PICK s \in Svc : s = cur[i]
    BY DEF ListTypes
  <2>1. PICK o \in {Unprepared(s)} \cup Outcomes(s) :
          /\ handle' = [handle EXCEPT ![i][s] = [pid |-> o.pid, code |-> o.code, sandbox |-> o.sandbox]]
          /\ proc' = IF o.pid = NoPid THEN proc ELSE [proc EXCEPT ![o.pid] = [of |-> s, is |-> "running"]]
    BY <1>1 DEF UpInner
  <2>2. /\ o.pid \in Pids \cup {NoPid} /\ o.code \in {NoCode, 0, 3} /\ o.sandbox \in BOOLEAN
        /\ o.sandbox => cfg[s].sandbox /\ o.pid = NoPid /\ o.code = NoCode
    BY OutcomesKnown
  <2> DEFINE h == [pid |-> o.pid, code |-> o.code, sandbox |-> o.sandbox]
  <2>3. h \in Handles /\ (h.sandbox => cfg[s].sandbox /\ h.pid = NoPid /\ h.code = NoCode)
    BY <2>2 DEF Handles
  <2>4. handle' = [handle EXCEPT ![i][s] = h]
    BY <2>1
  <2> HIDE DEF h
  <2>5. handle' \in [Instances -> [Svc -> Handles]]
    BY <2>3, <2>4 DEF HandleTypes
  <2>6. \A j \in Instances : \A u \in Svc : handle'[j][u] = IF j = i /\ u = s THEN h ELSE handle[j][u]
    BY <2>4 DEF HandleTypes
  <2>7. \A j \in Instances : \A u \in Svc :
          handle'[j][u].sandbox => cfg[u].sandbox /\ handle'[j][u].pid = NoPid /\ handle'[j][u].code = NoCode
    BY <2>3, <2>6 DEF HandleTypes
  <2>8. proc' \in [Pids -> Processes]
    BY <2>1, <2>2 DEF HandleTypes, Processes
  <2>9. emptied' = emptied /\ bound' = bound
    BY <1>1 DEF UpInner
  <2> QED BY <1>0, <2>5, <2>7, <2>8, <2>9 DEF HandleTypes
<1>2. CASE Exit(i)
  <2>1. /\ handle' = [handle EXCEPT ![i] = [s \in Svc |-> Unstarted]]
        /\ bound' = [bound EXCEPT ![i] = {}] /\ emptied' = emptied /\ proc' = proc
    BY <1>2 DEF Exit
  <2>2. Unstarted \in Handles /\ ~Unstarted.sandbox
    BY DEF Unstarted, Handles
  <2> QED BY <1>0, <2>1, <2>2 DEF HandleTypes
<1>3. ASSUME NEW s \in Svc, EmptyDir(i, s) PROVE HandleTypes'
  BY <1>0, <1>3 DEF EmptyDir, HandleTypes
<1>4. CASE ~UpInner(i) /\ ~Exit(i) /\ ~\E s \in Svc : EmptyDir(i, s)
  <2>1. handle' = handle /\ proc' = proc
    BY <1>4 DEF Step, Sanity, MakeRoot, MakeDir, MakeDirFails, CreateCache, WriteCache, WriteFails,
                PowerOff, RemoveDir, RemoveRoot, Crash, Bind, RemoveSocket, instVars
  <2>2. /\ emptied' = emptied \/ emptied' = [emptied EXCEPT ![i] = 0]
        /\ bound' = bound \/ \E k \in Sockets : bound' = [bound EXCEPT ![i] = @ \cup {k}]
    BY <1>4 DEF Step, Sanity, MakeRoot, MakeDir, MakeDirFails, CreateCache, WriteCache, WriteFails,
                PowerOff, RemoveDir, RemoveRoot, Crash, Bind, RemoveSocket, instVars
  <2>3. emptied' \in [Instances -> Svc \cup {0}] /\ bound' \in [Instances -> SUBSET Sockets]
    BY <2>2 DEF HandleTypes
  <2> QED BY <1>0, <2>1, <2>3 DEF HandleTypes
<1> QED BY <1>1, <1>2, <1>3, <1>4

\* Neither ktctl nor the processes change what an instance has written, and what
\* is imported is what it wrote.
LEMMA RowOther ==
  ASSUME RunFsInv, ListTypes, RowInv,
         \/ Gate \/ OpenDir \/ PrintRow \/ Continue \/ \E s \in Svc : Import(s)
         \/ \E p \in Pids : ProcessEnds(p) \/ Reap(p) \/ Reuse(p)
         \/ UNCHANGED vars
  PROVE  RowInv'
<1> USE DEF instVars, fsVars
<1>1. UNCHANGED <<cfg, pc, cur, handle, bound, emptied, cache>>
  BY DEF Gate, OpenDir, PrintRow, Continue, Import, ProcessEnds, Reap, Reuse, vars
<1>2. \A i, s : Past(i, s)' <=> Past(i, s)
  BY <1>1 DEF Past
<1>3. \A s, h : AsData(s, h)' = AsData(s, h)
  BY <1>1 DEF AsData
<1>4. Written'
  BY <1>1, <1>2, <1>3 DEF RowInv, Written
<1>5. list = [at |-> list.at, by |-> list.by, left |-> list.left, got |-> list.got, row |-> list.row]
  BY DEF ListTypes
<1>6. proc' \in [Pids -> Processes]
  <2>1. CASE \E p \in Pids : ProcessEnds(p)
    <3>1. PICK p \in Pids : ProcessEnds(p)
      BY <2>1
    <3>2. proc[p] \in [of : Svc \cup {Stranger}, is : {"running", "zombie"}]
      BY <3>1 DEF RowInv, HandleTypes, Processes, ProcessEnds, Free
    <3>3. [proc[p] EXCEPT !.is = "zombie"] \in Processes
      BY <3>2 DEF Processes
    <3> QED BY <3>1, <3>3 DEF RowInv, HandleTypes, Processes, ProcessEnds
  <2>2. CASE \E p \in Pids : Reap(p) \/ Reuse(p)
    BY <2>2 DEF RowInv, HandleTypes, Processes, Reap, Reuse
  <2>3. CASE proc' = proc
    BY <2>3 DEF RowInv, HandleTypes
  <2> QED BY <2>1, <2>2, <2>3 DEF Gate, OpenDir, PrintRow, Continue, Import, vars
<1>7. /\ list'.at \in {"idle", "gated", "listing", "print", "printed", "failed"}
      /\ Read'
  <2>1. CASE list' = list
    BY <1>1, <1>2, <1>3, <2>1 DEF RowInv, HandleTypes, Read
  <2>2. CASE Gate \/ OpenDir
    BY <1>5, <2>2 DEF Gate, OpenDir, Read
  <2>3. CASE PrintRow
    BY <1>5, <2>3 DEF PrintRow, Read
  <2>4. CASE Continue
    BY <1>5, <2>4 DEF Continue, Read, Idle
  <2>5. ASSUME NEW s \in Svc, Import(s)
        PROVE  list'.at \in {"print", "failed"} /\ Read'
    <3>1. CASE Readable(s)
      <4>1. /\ list'.at = "print"
            /\ list'.got = [of |-> s, by |-> cache[s].by, is |-> Instance(cache[s].bytes)]
        BY <1>5, <2>5, <3>1 DEF Import
      <4>2. s \in DOMAIN cache /\ Len(cache[s].bytes) = 11
        BY <3>1 DEF Readable
      <4>3. cache[s].bytes # << >>
        <5>1. cache[s].bytes = << >> => Len(cache[s].bytes) = 0
          BY EmptySeq
        <5>2. Len(cache[s].bytes) # 0
          BY <4>2
        <5> QED BY <5>1, <5>2
      <4>4. /\ Past(cache[s].by, s)
            /\ pc[cache[s].by] # "exited" => cache[s].bytes = AsData(s, handle[cache[s].by][s])
        BY <4>2, <4>3 DEF RowInv, Written
      <4> PICK j : j = cache[s].by
        OBVIOUS
      <4>5. list'.got.of = s /\ list'.got.by = j /\ list'.got.is = Instance(cache[s].bytes)
        BY <4>1
      <4>6. pc[j] # "exited" => list'.got.is = Instance(AsData(s, handle[j][s])')
        <5>1. AsData(s, handle[j][s])' = AsData(s, handle[j][s])
          BY <1>1 DEF AsData
        <5> QED BY <4>4, <4>5, <5>1
      <4>7. Past(j, s)'
        BY <1>2, <4>4
      <4> QED BY <1>1, <4>1, <4>5, <4>6, <4>7 DEF Read
    <3>2. CASE ~Readable(s)
      BY <1>5, <2>5, <3>2 DEF Import, Read
    <3> QED BY <3>1, <3>2
  <2> QED BY <2>1, <2>2, <2>3, <2>4, <2>5 DEF ProcessEnds, Reap, Reuse, vars
<1> QED BY <1>1, <1>4, <1>6, <1>7 DEF RowInv, HandleTypes

\* The first state.
LEMMA RowInit == Init => RowInv
<1> SUFFICES ASSUME Init PROVE RowInv
  OBVIOUS
<1>1. Unstarted \in Handles /\ ~Unstarted.sandbox
  BY DEF Unstarted, Handles
<1>2. HandleTypes
  BY <1>1 DEF Init, HandleTypes, Processes, Idle
<1>3. DOMAIN cache = {} /\ list.at = "idle"
  BY DEF Init, Idle
<1> QED BY <1>2, <1>3 DEF RowInv, Written, Read

\* What is written and read is what the instance knows, in every reachable state.
THEOREM RowInvariance == Spec => []RowInv
<1>1. ASSUME RunFsInv, ListInv, RowInv, [Next]_vars PROVE RowInv'
  <2>1. ASSUME NEW i \in Instances, Step(i) PROVE RowInv'
    BY <1>1, <2>1, TypesStay, WrittenStays, ReadStays DEF RowInv, ListInv
  <2>2. CASE ~\E i \in Instances : Step(i)
    BY <1>1, <2>2, RowOther DEF Next, ListInv
  <2> QED BY <2>1, <2>2
<1> QED BY RowInit, <1>1, RunFsInvariance, ListInvariance, PTL DEF Spec

\* The types of the variables, for every target and any number of instances.
THEOREM RunFsTypesHold == Spec => []TypeOK
<1>1. RunFsInv /\ ListInv /\ RowInv => TypeOK
  <2> SUFFICES ASSUME RunFsInv, ListInv, RowInv PROVE TypeOK
    OBVIOUS
  <2>1. \A p \in Pids : proc[p].is \in {"free", "running", "zombie"}
    BY DEF RowInv, HandleTypes, Processes, Free
  <2> QED BY <2>1 DEF TypeOK, RunFsInv, ListInv, ListTypes, RowInv, HandleTypes, Written
<1> QED BY <1>1, RunFsInvariance, ListInvariance, RowInvariance, PTL

\* Only PrintRow prints.
LEMMA OnlyPrintRowPrints ==
  ASSUME ListTypes, [Next]_vars, list.at = "print", list'.at = "printed"
  PROVE  PrintRow
<1>1. list = [at |-> list.at, by |-> list.by, left |-> list.left, got |-> list.got, row |-> list.row]
  BY DEF ListTypes
<1>2. ~Gate /\ ~OpenDir /\ ~Continue /\ ~\E s \in Svc : Import(s)
  BY DEF Gate, OpenDir, Continue, Import
<1>3. CASE \E i \in Instances : Step(i)
  <2>1. list' = list
    BY <1>3 DEF Step, Sanity, MakeRoot, MakeDir, MakeDirFails, UpInner, CreateCache, WriteCache,
         WriteFails, PowerOff, RemoveDir, RemoveRoot, Exit, Crash, Bind, RemoveSocket, EmptyDir
  <2> QED BY <2>1
<1>4. CASE UNCHANGED vars \/ \E p \in Pids : ProcessEnds(p) \/ Reap(p) \/ Reuse(p)
  BY <1>4 DEF ProcessEnds, Reap, Reuse, vars
<1> QED BY <1>2, <1>3, <1>4 DEF Next

\* The status of a Standard service, from /proc.
LEMMA StandardStatus ==
  ASSUME HandleTypes, NEW s \in Svc, NEW c, NEW st, st \in Statuses(s, c),
         c.pattern = PatternByte["Standard"], c.pid \in Pids \cup {NoPid}
  PROVE  LET runs == c.pid # NoPid /\ proc[c.pid].is = "running" IN
         /\ st = "Up" => runs /\ (proc[c.pid].of = s => ~cfg[s].spaced)
         /\ st = "Dead" => ~runs
         /\ st \in {"Up", "Dead", "Unknown"}
<1> DEFINE p == c.pid
<1>1. NoPid \notin Pids
  BY PidAssumption DEF NoPid
<1>2. CASE p \notin Pids \/ (p \in Pids /\ proc[p] = Free)
  <2>1. st = "Dead"
    BY <1>2 DEF Statuses
  <2>2. p = NoPid \/ proc[p].is = "free"
    BY <1>2 DEF Free
  <2> QED BY <2>1, <2>2
<1>3. CASE ~(p \notin Pids \/ (p \in Pids /\ proc[p] = Free))
  <2>1. p \in Pids /\ p # NoPid /\ proc[p].is \in {"running", "zombie"}
    BY <1>1, <1>3 DEF HandleTypes, Processes
  <2>2. PICK l \in StatField(p, s) : st = Classified(l)
    BY <1>3 DEF Statuses
  <2>3. CASE proc[p].of = s /\ cfg[s].spaced
    <3>1. l = "name)"
      BY <2>2, <2>3 DEF StatField
    <3> QED BY <2>1, <2>2, <2>3, <3>1 DEF Classified
  <2>4. CASE ~(proc[p].of = s /\ cfg[s].spaced) /\ proc[p].is = "zombie"
    <3>1. l = "Z"
      BY <2>2, <2>4 DEF StatField
    <3> QED BY <2>1, <2>2, <2>4, <3>1 DEF Classified
  <2>5. CASE ~(proc[p].of = s /\ cfg[s].spaced) /\ proc[p].is = "running"
    <3>1. l \in {"S", "I", "D", "R", "T"}
      BY <2>2, <2>5 DEF StatField
    <3> QED BY <2>1, <2>2, <2>5, <3>1 DEF Classified
  <2> QED BY <2>1, <2>3, <2>4, <2>5
<1> QED BY <1>2, <1>3

\* A printed row is what the instance knows of the service, and what the kernel
\* knows of the process behind its pid.
THEOREM RowsSayWhatIsKnown == Spec => RowsTrue
<1>1. ASSUME RunFsInv, ListInv, RowInv, [Next]_vars,
             list.at = "print", list'.at = "printed", pc[list.got.by] # "exited"
      PROVE  LET s == list.got.of
                 h == handle[list.got.by][s]
                 r == list'.row
                 runs == h.pid # NoPid /\ proc[h.pid].is = "running" IN
             /\ r.pid = h.pid
             /\ cfg[s].pattern = "Standard" =>
                  /\ r.status = "Up" => runs /\ (proc[h.pid].of = s => ~cfg[s].spaced)
                  /\ r.status = "Dead" => ~runs
                  /\ r.status \in {"Up", "Dead", "Unknown"}
             /\ cfg[s].pattern = "RunOnce" =>
                  r.status = IF h.code = NoCode THEN "Failed"
                             ELSE IF h.code = 0 THEN "Finished" ELSE "Failed with code"
             /\ r.sandboxed => cfg[s].sandbox /\ h.pid = NoPid /\ h.code = NoCode
  <2> DEFINE s == list.got.of
             h == handle[list.got.by][s]
             c == list.got.is
  <2>1. s \in Svc /\ list.got.by \in Instances /\ c = Instance(AsData(s, h))
    BY <1>1 DEF RowInv, Read, Past
  <2>2. h \in Handles /\ (h.sandbox => cfg[s].sandbox /\ h.pid = NoPid /\ h.code = NoCode)
    BY <1>1, <2>1 DEF RowInv, HandleTypes
  <2>3. cfg[s].pattern \in {"Standard", "RunOnce"}
    BY <1>1, <2>1 DEF ListInv, ListTypes, Config
  <2>4. h.pid \in Pids \cup {NoPid} /\ h.code \in {NoCode, 0, 3} /\ h.sandbox \in BOOLEAN
    BY <2>2 DEF Handles
  <2>5. h.pid \in Nat /\ h.pid <= PidMax
    BY <2>4, PidAssumption, SMT DEF NoPid, PidMax
  <2> HIDE DEF h
  <2>6. c = [pattern |-> PatternByte[cfg[s].pattern], sandboxed |-> IF h.sandbox THEN 1 ELSE 0,
             pid |-> h.pid, status |-> h.code]
    BY <2>1, <2>3, <2>4, <2>5, DataIsRead
  <2>7. /\ c.pattern = PatternByte[cfg[s].pattern] /\ c.pid = h.pid /\ c.status = h.code
        /\ c.sandboxed = 1 => h.sandbox
    BY <2>6
  <2> HIDE DEF c
  <2>8. PICK st \in Statuses(s, c) :
          list'.row = [status |-> st, pid |-> c.pid, sandboxed |-> c.sandboxed = 1]
    <3>1. PrintRow
      BY <1>1, OnlyPrintRowPrints DEF ListInv
    <3>2. PICK st \in Statuses(s, c) :
            list' = [list EXCEPT !.at = "printed", !.left = @ \ {s},
                                 !.row = [status |-> st, pid |-> c.pid, sandboxed |-> c.sandboxed = 1]]
      BY <3>1 DEF PrintRow, c
    <3>3. list = [at |-> list.at, by |-> list.by, left |-> list.left, got |-> list.got, row |-> list.row]
      BY <1>1 DEF ListInv, ListTypes
    <3> QED BY <3>2, <3>3
  <2> HIDE DEF s
  <2>9. list'.row.status = st /\ list'.row.pid = c.pid /\ (list'.row.sandboxed => c.sandboxed = 1)
    <3> DEFINE shown == c.sandboxed = 1
               row == [status |-> st, pid |-> c.pid, sandboxed |-> shown]
    <3>1. list'.row = row
      BY <2>8
    <3> HIDE DEF shown
    <3>2. row.status = st /\ row.pid = c.pid /\ row.sandboxed = shown
      OBVIOUS
    <3> HIDE DEF row
    <3>3. list'.row.sandboxed = shown
      BY <3>1, <3>2
    <3> QED BY <3>1, <3>2, <3>3, Zenon DEF shown
  <2>10. CASE cfg[s].pattern = "Standard"
    <3>1. c.pattern = PatternByte["Standard"] /\ c.pid \in Pids \cup {NoPid}
      BY <2>4, <2>7, <2>10
    <3>2. /\ st = "Up" => (h.pid # NoPid /\ proc[h.pid].is = "running") /\ (proc[h.pid].of = s => ~cfg[s].spaced)
          /\ st = "Dead" => ~(h.pid # NoPid /\ proc[h.pid].is = "running")
          /\ st \in {"Up", "Dead", "Unknown"}
      <4>1. /\ st = "Up" => (c.pid # NoPid /\ proc[c.pid].is = "running") /\ (proc[c.pid].of = s => ~cfg[s].spaced)
            /\ st = "Dead" => ~(c.pid # NoPid /\ proc[c.pid].is = "running")
            /\ st \in {"Up", "Dead", "Unknown"}
        BY <1>1, <2>1, <2>8, <3>1, StandardStatus, Zenon DEF RowInv
      <4>2. c.pid = h.pid
        BY <2>7
      <4> QED BY <4>1, <4>2, Zenon
    <3> QED BY <2>2, <2>7, <2>9, <2>10, <3>2 DEF s, h
  <2>11. CASE cfg[s].pattern = "RunOnce"
    <3>1. c.pattern # PatternByte["Standard"]
      BY <2>7, <2>11 DEF PatternByte
    <3>2. st = IF c.status = NoCode THEN "Failed" ELSE IF c.status > 0 THEN "Failed with code" ELSE "Finished"
      BY <2>8, <3>1 DEF Statuses
    <3>3. st = IF h.code = NoCode THEN "Failed" ELSE IF h.code = 0 THEN "Finished" ELSE "Failed with code"
      <4>1. c.status = h.code /\ h.code \in {-1, 0, 3}
        BY <2>4, <2>7 DEF NoCode
      <4>2. h.code # -1 /\ h.code # 0 => h.code > 0
        BY <4>1
      <4>3. h.code = 0 => ~(h.code > 0)
        OBVIOUS
      <4> QED BY <3>2, <4>1, <4>2, <4>3, Zenon DEF NoCode
    <3>4. cfg[s].pattern # "Standard"
      BY <2>11
    <3>5. list'.row.pid = h.pid /\ list'.row.status = st
      BY <2>7, <2>9
    <3>6. list'.row.sandboxed => cfg[s].sandbox /\ h.pid = NoPid /\ h.code = NoCode
      BY <2>2, <2>7, <2>9
    <3> QED BY <3>3, <3>4, <3>5, <3>6, Zenon DEF s, h
  <2> QED BY <2>3, <2>10, <2>11
<1> QED BY <1>1, RunFsInvariance, ListInvariance, RowInvariance, PTL DEF Spec, RowsTrue
=============================================================================
