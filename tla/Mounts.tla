------------------------------- MODULE Mounts -------------------------------
(***************************************************************************)
(* The file systems of the machine from start to power-off: main() mounts  *)
(* the system's own and those of /etc/fstab, services mount what they      *)
(* like, and poweroff() takes down whatever /proc/mounts lists.            *)
(*                                                                         *)
(*   tables     MountEntry::parse, MountTable, DeviceMap::resolve and Uuid *)
(*              (init/mount.rs)                                            *)
(*   start      mountSystemFilesystems and main (init/kickit.rs)           *)
(*   power-off  the second half of poweroff (init/power.rs)                *)
(***************************************************************************)
EXTENDS MountTree

CONSTANTS Fstabs,     \* the contents /etc/fstab may have, as sequences of lines
          Links,      \* the symlinks of /dev/disk, as <<directory, name>>
          Others,     \* where services mount something
          MaxOthers   \* how often they do

\* A line is a comment, blank, or has so many fields; the first names a source.
Source == [lookup : STRING, id : Seq(STRING)]
Line == [kind : {"comment", "empty"}]
          \cup [kind : {"entry"}, fields : Nat, src : Source, dest : Path, opts : Seq(STRING)]

ASSUME FstabAssumption == Fstabs \subseteq Seq(Line)
\* The names that main() and poweroff() write themselves.
ASSUME NameAssumption ==
  {"proc", "sys", "dev", "run", "tmp", "pts", "fs", "cgroup", "kickit"} \subseteq Name
ASSUME OthersAssumption == Others \subseteq Path /\ MaxOthers \in Nat

VARIABLES
  pid1,      \* kickit is the init, and not beside another one
  fstab,     \* the lines of /etc/fstab
  pc,        \* where main, then poweroff, is
  todo,      \* entries still to mount or unmount
  mounts,    \* the mount table
  table,     \* the mount points poweroff() read from /proc/mounts
  others     \* number of mounts by services so far

vars == <<pid1, fstab, pc, todo, mounts, table, others>>

Root == << >>

----------------------------------------------------------------------------
(* Lines and entries.  A source is "none" or "auto", a path, or a lookup   *)
(* with an identifier, a UUID being the sequence of its sections.          *)

Bit(o) == CASE o = "ro" -> 1 [] o = "nosuid" -> 2 [] o = "nodev" -> 4 [] o = "noexec" -> 8
            [] o = "remount" -> 32 [] o = "bind" -> 4096 [] o = "private" -> 262144
            [] OTHER -> 0
FlagNames == {"ro", "nosuid", "nodev", "noexec", "remount", "bind", "private"}
HasBit(f, b) == (f \div b) % 2 = 1

\* Mutant: the root file system gets no remount flag of its own.
FlagsPlain(e) == FoldLeft(LAMBDA sum, o : sum + Bit(o), 0, e.opts)

\* The bits of the first n options, added up.
Sum(opts) == LET sum[n \in 0..Len(opts)] == IF n = 0 THEN 0 ELSE sum[n - 1] + Bit(opts[n])
             IN  sum[Len(opts)]

FlagsOf(e) == Sum(e.opts) + (IF e.dest = Root THEN Bit("remount") ELSE 0)

\* Uuid::as_string: every section, the last one too, is followed by a dash.
AsString(id) == FoldLeft(LAMBDA out, section : out \o <<section, "-">>, << >>, id)
\* How a UUID is written everywhere else.
Canonical(id) == Front(AsString(id))

Dir == [UUID |-> "by-uuid", PARTUUID |-> "by-partuuid",
        LABEL |-> "by-label", PARTLABEL |-> "by-partlabel"]
ByUuid(src) == src.lookup \in {"UUID", "PARTUUID"}

\* The link resolve() looks for, upper and lower case being one here.
Pattern(src) == <<Dir[src.lookup], IF ByUuid(src) THEN AsString(src.id) ELSE src.id>>

\* A lookup must be known, a UUID have five sections, and the device be there.
SourceFound(src) ==
  src.lookup \in {"none", "path"} \/
    (/\ src.lookup \in DOMAIN Dir
     /\ ByUuid(src) => Len(src.id) = 5
     /\ Pattern(src) \in Links)

\* parse() takes a line of six fields whose source is found.
Parses(line) == line.fields = 6 /\ SourceFound(line.src)

Ignored(line) == line.kind \in {"comment", "empty"}

Entries(lines) == Only(lines, {l \in Line : ~Ignored(l)})

----------------------------------------------------------------------------
Init ==
  /\ pid1 \in BOOLEAN
  /\ fstab \in Fstabs
  /\ pc = IF pid1 THEN "system" ELSE "up"
  /\ todo = << >>
  /\ mounts = IF pid1 THEN << Root >>
              ELSE << Root, <<"proc">>, <<"sys">>, <<"dev">>, <<"run">> >>
  /\ table = << >>
  /\ others = 0

Goto(l) == pc' = l

\* mountSystemFilesystems: five file systems, and the root is remounted.
MountSystem ==
  /\ pc = "system"
  /\ mounts' = mounts \o << <<"proc">>, <<"sys">>, <<"dev">>, <<"run">>, <<"tmp">> >>
  /\ Goto("fstab")
  /\ UNCHANGED <<pid1, fstab, todo, table, others>>

\* fstab(): every line is parsed before anything is mounted.
ReadFstab ==
  /\ pc = "fstab"
  /\ \A n \in 1..Len(Entries(fstab)) : Parses(Entries(fstab)[n])
  /\ todo' = Entries(fstab)
  /\ Goto("mount")
  /\ UNCHANGED <<pid1, fstab, mounts, table, others>>

BadFstab ==
  /\ pc = "fstab"
  /\ \E n \in 1..Len(Entries(fstab)) : ~Parses(Entries(fstab)[n])
  /\ Goto("fatal")
  /\ UNCHANGED <<pid1, fstab, todo, mounts, table, others>>

\* mount(2) by its flags, in the order the kernel looks at them: a remount, a bind,
\* a change of the propagation (unbindable, private, slave, shared), a move, or
\* else a new file system.  What mounts anew is a bind or the last of these.
Propagation == {131072, 262144, 524288, 1048576}
MoveBit == 8192
NewMount(f) ==
  /\ ~HasBit(f, Bit("remount"))
  /\ HasBit(f, Bit("bind")) \/ \A b \in Propagation : ~HasBit(f, b)
Moves(f) == NewMount(f) /\ ~HasBit(f, Bit("bind")) /\ HasBit(f, MoveBit)

\* A source that is no mount point cannot be moved: MountFails.
MountEntry ==
  /\ pc = "mount"
  /\ todo # << >>
  /\ ~Moves(FlagsOf(Head(todo)))
  /\ mounts' = IF NewMount(FlagsOf(Head(todo)))
               THEN Append(mounts, Head(todo).dest) ELSE mounts
  /\ todo' = Tail(todo)
  /\ UNCHANGED <<pid1, fstab, pc, table, others>>

\* Any mount may fail, and is fatal: what was mounted stays.
MountFails ==
  /\ pc = "system" \/ (pc = "mount" /\ todo # << >>)
  /\ Goto("fatal")
  /\ UNCHANGED <<pid1, fstab, todo, mounts, table, others>>

Mounted ==
  /\ pc = "mount"
  /\ todo = << >>
  /\ Goto("up")
  /\ UNCHANGED <<pid1, fstab, todo, mounts, table, others>>

\* A service, or the sandbox of one, mounts something.
ServiceMounts ==
  /\ pc = "up"
  /\ others < MaxOthers
  /\ \E p \in Others : mounts' = Append(mounts, p)
  /\ others' = others + 1
  /\ UNCHANGED <<pid1, fstab, pc, todo, table>>

----------------------------------------------------------------------------
(* poweroff().                                                             *)

\* mounttab(): the table is read once; one line that does not parse is an error.
ReadMounts ==
  /\ pc = "up"
  /\ table' = mounts
  /\ todo' = mounts
  /\ Goto("sweep")
  /\ UNCHANGED <<pid1, fstab, mounts, others>>

ReadMountsFails ==
  /\ pc = "up"
  /\ Goto("failed")
  /\ UNCHANGED <<pid1, fstab, todo, mounts, table, others>>

Special == { <<"dev">>, <<"dev", "pts">>, <<"proc">>, <<"sys">>,
             <<"sys", "fs", "cgroup">>, <<"run">> }
RunKickit == <<"run", "kickit">>
Foreign == {p \in Path : ~IsPrefix(RunKickit, p)}

\* Mutants: the two exceptions, each forgotten.
SkipAnyone(p) == p \in Special
SkipForeign(p) == ~pid1 /\ p \in Foreign

Skip(p) == (~pid1 /\ p \in Foreign) \/ p \in Special

\* Mutant: the entries are taken from the end.
NextEntryBack == todo' = Front(todo) /\ UNCHANGED <<pid1, fstab, pc, table, others>>

NextEntry == todo' = Tail(todo) /\ UNCHANGED <<pid1, fstab, pc, table, others>>

SkipEntry ==
  /\ pc = "sweep" /\ todo # << >>
  /\ Skip(Head(todo))
  /\ UNCHANGED mounts
  /\ NextEntry

\* Unmounting the root of the namespace makes it read-only.
UnmountEntry ==
  /\ pc = "sweep" /\ todo # << >>
  /\ ~Skip(Head(todo))
  /\ \E i \in Reached(mounts, Head(todo)) :
       IF Head(todo) = Root THEN UNCHANGED mounts
       ELSE /\ ~HasMountsOn(mounts, i)
            /\ mounts' = RemoveAt(mounts, i)
  /\ NextEntry

\* Mutant: a busy file system is left alone.
WarnOnly ==
  /\ pc = "sweep" /\ todo # << >>
  /\ ~Skip(Head(todo))
  /\ UNCHANGED mounts
  /\ NextEntry

\* The first try fails, for a mount on it or for a process that uses it; then it
\* is detached lazily with all that is on it, if it is still a mount point.
UnmountLazily ==
  /\ pc = "sweep" /\ todo # << >>
  /\ ~Skip(Head(todo))
  /\ mounts' = IF Reached(mounts, Head(todo)) = {} THEN mounts
               ELSE Detached(mounts, CHOOSE i \in Reached(mounts, Head(todo)) : TRUE)
  /\ NextEntry

Swept ==
  /\ pc = "sweep" /\ todo = << >>
  /\ Goto("swept")
  /\ UNCHANGED <<pid1, fstab, todo, mounts, table, others>>

Next ==
  \/ MountSystem \/ ReadFstab \/ BadFstab \/ MountEntry \/ MountFails \/ Mounted
  \/ ServiceMounts \/ ReadMounts \/ ReadMountsFails
  \/ SkipEntry \/ UnmountEntry \/ UnmountLazily \/ Swept

Spec == Init /\ [][Next]_vars

----------------------------------------------------------------------------
(* Properties.                                                             *)

\* The types of the variables; a walk over a list has its end still to do.
TypeOK ==
  /\ pid1 \in BOOLEAN
  /\ fstab \in Fstabs
  /\ pc \in {"system", "fstab", "mount", "up", "fatal", "failed", "sweep", "swept"}
  /\ pc = "mount" => IsSuffix(todo, Entries(fstab))
  /\ pc = "sweep" => IsSuffix(todo, table)
  /\ others \in 0..MaxOthers

\* A flag is given twice, in the options or by the root's own remount flag.
RepeatsFlag(line) ==
  \/ \E i, j \in 1..Len(line.opts) :
       i # j /\ line.opts[i] = line.opts[j] /\ line.opts[i] \in FlagNames
  \/ line.dest = Root /\ \E i \in 1..Len(line.opts) : line.opts[i] = "remount"

\* The root file system is there already, so that an entry of fstab for it never
\* mounts a second one over it, as long as no flag is repeated (the flags are
\* added up, and a repeated one carries into the next bit); a service may.
RootMountedOnce ==
  pid1 /\ Root \notin Others /\ (\A n \in 1..Len(Entries(fstab)) : ~RepeatsFlag(Entries(fstab)[n])) =>
    \A i \in 2..Len(mounts) : mounts[i] # Root

\* No mount of the table was below a later one when it was read.
NoneHidden == NoneHiddenIn(table)

\* Nothing but the root and the special file systems themselves has one on it.
SpecialFree ==
  \A p \in Range(table) : p \in Special \cup {Root} \/ \A q \in Special : ~IsPrefix(p, q)

\* When poweroff() of the init is through with the table, nothing but the special
\* file systems and the root is mounted, nested and busy ones included, provided
\* that each could be reached by its path.
SweepDetaches ==
  pc = "swept" /\ pid1 /\ NoneHidden =>
    \A i \in 1..Len(mounts) : mounts[i] \in Special \cup {Root}

\* The special file systems stay where they are throughout, unless the root itself
\* was busy and went with all that is on it, or something hid them already, or one
\* of them lies on an ordinary mount (/sys/fs/cgroup on /sys/fs), which a lazy
\* unmount takes away with it.
SpecialStay ==
  pc \in {"sweep", "swept"} /\ mounts # << >> /\ NoneHidden /\ SpecialFree =>
    Only(mounts, Special) = Only(table, Special)

\* Beside another init, poweroff() touches no mount outside of /run/kickit, not
\* even by detaching what one of its own mounts lies under.
ForeignMountsStay ==
  pc \in {"sweep", "swept"} /\ ~pid1 =>
    Only(mounts, Foreign) = Only(table, Foreign)

----------------------------------------------------------------------------
(* What documentation says and the code does not do.                       *)

\* An entry is found by the UUID of a device that is there ("as its traditionally
\* shown", Uuid::as_string; "all possible patterns", DeviceMap::resolve).
UuidIsFound ==
  pc = "fatal" /\ todo = << >> /\ mounts # << Root >> =>
    \E n \in 1..Len(Entries(fstab)) :
      LET line == Entries(fstab)[n]
      IN  ~Parses(line) /\
            ~(ByUuid(line.src) /\ <<Dir[line.src.lookup], Canonical(line.src.id)>> \in Links)
=============================================================================
