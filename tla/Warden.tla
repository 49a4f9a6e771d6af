------------------------------- MODULE Warden -------------------------------
(***************************************************************************)
(* A sandboxed service: kickit lays out the container and starts warden,   *)
(* which unshares namespaces, mounts what the profile imports, changes its *)
(* root, runs the service, waits for it and takes the mounts down again.   *)
(*                                                                         *)
(*   container   Sandbox::setup, cli_args (init/service/sandbox.rs)        *)
(*   warden      spawn_here, cleanup, main (init/warden.rs)                *)
(*   signal      Service::down (init/service/mod.rs), which knows only the *)
(*               process id of warden                                      *)
(*                                                                         *)
(* Paths and the kernel's mount table are those of MountTree.              *)
(***************************************************************************)
EXTENDS MountTree

CONSTANTS Imports,   \* the import lists a profile may hold
          Namespaces \* the namespaces it may have flags for: NewMount, NewPid, ...

\* One import: a path, what the host has there, and whether it is written
\* without a leading slash.
Import == [path : Path, kind : {"file", "dir", "missing"}, relative : BOOLEAN]

ASSUME ImportAssumption == Imports \subseteq Seq(Import)
\* The names of warden's own mounts.
ASSUME NameAssumption ==
  {"usr", "lib", "ld", "sys", "proc", "dev", "tmp", "run", "dbus"} \subseteq Name

VARIABLES
  profile,    \* the sandbox options, and whether the host has a /run/dbus
  pc,         \* where kickit, then warden, is
  todo,       \* what is left to mount, then to unmount
  mounts,     \* mount points in the container, in the order they were mounted
  unshared,   \* the namespaces warden has of its own, others are the host's
  rooted,     \* warden's root is the container
  service,    \* the process of the service
  stuck       \* an unmount failed for a reason outside the mount table

vars == <<profile, pc, todo, mounts, unshared, rooted, service, stuck>>

Profile == [import : Imports, sys : BOOLEAN, dbus : BOOLEAN,
            hostDbus : BOOLEAN, flags : SUBSET Namespaces]

Pcs == {"setup", "unshare", "create", "mount", "chroot", "spawn", "wait", "cleanup",
        "refused",   \* kickit gave up before warden was started
        "fatal",     \* spawn_here() failed, warden exited
        "ended",     \* cleanup() returned
        "killed"}    \* SIGQUIT
Alive == pc \notin {"setup", "refused", "fatal", "ended", "killed"}

Entry(p) == [path |-> p, relative |-> FALSE]
\* DYNAMIC_LD has no leading slash.
Linker == [path |-> <<"usr", "lib", "ld">>, relative |-> TRUE]

\* cli_args sorts the imports into --bind-file and --bind-dir.
Binds(kind) ==
  LET of == Only(profile.import, {i \in Import : i.kind = kind})
  IN  [n \in 1..Len(of) |-> [path |-> of[n].path, relative |-> of[n].relative]]

SystemMounts == << Entry(<<"sys">>), Entry(<<"proc">>), Entry(<<"dev">>),
                   Entry(<<"tmp">>), Entry(<<"run">>) >>
Dbus == << Entry(<<"run", "dbus">>) >>

\* Mutant: the dbus directory is bound before /run is mounted over it.
MountDbusFirst ==
  << Linker >> \o Binds("file") \o Binds("dir")
    \o (IF profile.sys
        THEN (IF profile.dbus /\ profile.hostDbus THEN Dbus ELSE << >>) \o SystemMounts
        ELSE << >>)

\* What spawn_here() mounts, in its order.
MountList ==
  << Linker >> \o Binds("file") \o Binds("dir")
    \o (IF profile.sys
        THEN SystemMounts \o (IF profile.dbus /\ profile.hostDbus THEN Dbus ELSE << >>)
        ELSE << >>)

\* Mutant: the list starts with the system mounts.
UnmountRunFirst ==
  (IF profile.sys
   THEN << Entry(<<"run">>), Entry(<<"tmp">>), Entry(<<"sys">>),
           Entry(<<"proc">>), Entry(<<"dev">>) >> ELSE << >>)
    \o (IF profile.dbus THEN Dbus ELSE << >>)
    \o Binds("file") \o Binds("dir") \o << Linker >>

\* What cleanup() unmounts, in its order.
UnmountList ==
  (IF profile.dbus THEN Dbus ELSE << >>)
    \o (IF profile.sys
        THEN << Entry(<<"run">>), Entry(<<"tmp">>), Entry(<<"sys">>),
                Entry(<<"proc">>), Entry(<<"dev">>) >> ELSE << >>)
    \o Binds("file") \o Binds("dir") \o << Linker >>

----------------------------------------------------------------------------
\* umount(): a relative path starts at the working directory, which chroot()
\* left outside of the container.
CanUnmount(e) ==
  ~e.relative /\ \E i \in Reached(mounts, e.path) : ~HasMountsOn(mounts, i)

----------------------------------------------------------------------------
Init ==
  /\ profile \in Profile
  /\ pc = "setup"
  /\ todo = << >> /\ mounts = << >>
  /\ unshared = {} /\ rooted = FALSE
  /\ service = "none"
  /\ stuck = FALSE

Goto(l) == pc' = l

\* setup() makes the container's directories, cli_args the command line; the
\* init's own working directory is the container from here on.
SetUp ==
  /\ pc = "setup"
  /\ \A n \in 1..Len(profile.import) : profile.import[n].kind # "missing"
  /\ Goto("unshare")
  /\ UNCHANGED <<profile, todo, mounts, unshared, rooted, service, stuck>>

\* The container exists already, a directory cannot be made, or an import is
\* missing.
SetUpFails ==
  /\ pc = "setup"
  /\ Goto("refused")
  /\ UNCHANGED <<profile, todo, mounts, unshared, rooted, service, stuck>>

\* The flags of the profile, or-ed; without any nothing is unshared.
Unshare ==
  /\ pc = "unshare"
  /\ unshared' = profile.flags
  /\ Goto("create")
  /\ UNCHANGED <<profile, todo, mounts, rooted, service, stuck>>

\* The files and directories to mount on: create_new() wants each file new.
Create ==
  /\ pc = "create"
  /\ LET files == << Linker >> \o Binds("file")
     IN  \A i, j \in 1..Len(files) : i # j => files[i].path # files[j].path
  /\ todo' = MountList
  /\ Goto("mount")
  /\ UNCHANGED <<profile, mounts, unshared, rooted, service, stuck>>

\* Mutant: the mounted entry is not taken off the list.
MountAgain ==
  /\ pc = "mount"
  /\ todo # << >>
  /\ mounts' = Append(mounts, Head(todo).path)
  /\ UNCHANGED <<profile, pc, todo, unshared, rooted, service, stuck>>

MountNext ==
  /\ pc = "mount"
  /\ todo # << >>
  /\ mounts' = Append(mounts, Head(todo).path)
  /\ todo' = Tail(todo)
  /\ UNCHANGED <<profile, pc, unshared, rooted, service, stuck>>

\* Mutant: the root changes before everything is mounted.
ChrootEarly ==
  /\ pc = "mount"
  /\ Len(todo) <= 1
  /\ rooted' = TRUE
  /\ Goto("spawn")
  /\ UNCHANGED <<profile, todo, mounts, unshared, service, stuck>>

Chroot ==
  /\ pc = "mount"
  /\ todo = << >>
  /\ rooted' = TRUE
  /\ Goto("spawn")
  /\ UNCHANGED <<profile, todo, mounts, unshared, service, stuck>>

Spawn ==
  /\ pc = "spawn"
  /\ service' = "running"
  /\ Goto("wait")
  /\ UNCHANGED <<profile, todo, mounts, unshared, rooted, stuck>>

\* Any call of spawn_here() may fail: warden exits at once.
SpawnFails ==
  /\ pc \in {"unshare", "create", "mount", "spawn"}
  /\ Goto("fatal")
  /\ UNCHANGED <<profile, todo, mounts, unshared, rooted, service, stuck>>

\* child.wait() returns, whatever the status.
Wait ==
  /\ pc = "wait"
  /\ service = "exited"
  /\ todo' = UnmountList
  /\ Goto("cleanup")
  /\ UNCHANGED <<profile, mounts, unshared, rooted, service, stuck>>

UnmountNext ==
  /\ pc = "cleanup"
  /\ todo # << >>
  /\ CanUnmount(Head(todo))
  /\ \E i \in Reached(mounts, Head(todo).path) : mounts' = RemoveAt(mounts, i)
  /\ todo' = Tail(todo)
  /\ UNCHANGED <<profile, pc, unshared, rooted, service, stuck>>

\* Forcing fails like the first try did, and `?` leaves the rest mounted.  The
\* linker comes last and always fails, so the loop never runs to its end.
UnmountFails ==
  /\ pc = "cleanup"
  /\ todo # << >>
  /\ ~CanUnmount(Head(todo))
  /\ Goto("ended")
  /\ UNCHANGED <<profile, todo, mounts, unshared, rooted, service, stuck>>

\* A process the service left behind keeps the mount busy.
UnmountBusy ==
  /\ pc = "cleanup"
  /\ todo # << >>
  /\ CanUnmount(Head(todo))
  /\ stuck' = TRUE
  /\ Goto("ended")
  /\ UNCHANGED <<profile, todo, mounts, unshared, rooted, service>>

\* down() of the init: SIGQUIT, which warden neither handles nor passes on.
Quit ==
  /\ Alive
  /\ Goto("killed")
  /\ UNCHANGED <<profile, todo, mounts, unshared, rooted, service, stuck>>

ServiceExits ==
  /\ service = "running"
  /\ service' = "exited"
  /\ UNCHANGED <<profile, pc, todo, mounts, unshared, rooted, stuck>>

Next ==
  \/ SetUp \/ SetUpFails \/ Unshare \/ Create \/ MountNext \/ Chroot \/ Spawn
  \/ SpawnFails \/ Wait \/ UnmountNext \/ UnmountFails \/ UnmountBusy
  \/ Quit \/ ServiceExits

Spec == Init /\ [][Next]_vars

----------------------------------------------------------------------------
(* Properties.                                                             *)

\* The types of the variables; every entry is mounted once at most.
TypeOK ==
  /\ profile \in Profile
  /\ pc \in Pcs
  /\ Range(mounts) \subseteq {e.path : e \in Range(MountList)}
  /\ Len(mounts) <= Len(MountList)
  /\ Range(todo) \subseteq Range(MountList) \cup Range(UnmountList)
  /\ unshared \subseteq Namespaces /\ rooted \in BOOLEAN /\ stuck \in BOOLEAN
  /\ service \in {"none", "running", "exited"}

\* The service never runs outside a finished container: below the new root, with
\* every mount of the profile made, and in those namespaces of its own that the
\* profile asks for (none, if it lists no flag), even after warden itself was
\* killed (the order of the steps of spawn_here).
ServiceIsContained ==
  service = "running" =>
    unshared = profile.flags /\ rooted /\ mounts = [n \in 1..Len(MountList) |-> MountList[n].path]

DbusBound == profile.sys /\ profile.dbus /\ profile.hostDbus

\* No two of the profile's mounts lie at or below one another; only the bus lies
\* on /run.
Separate ==
  LET paths == [n \in 1..Len(MountList) |-> MountList[n].path]
  IN  \A i, j \in 1..Len(paths) :
        i # j /\ IsPrefix(paths[j], paths[i]) =>
          DbusBound /\ paths[i] = <<"run", "dbus">> /\ paths[j] = <<"run">>

\* As long as the imports are separate, the service can reach each of them and
\* every system mount: nothing is mounted over it later.
ImportsReachable ==
  service = "running" /\ Separate =>
    \A n \in 1..Len(MountList) : Reached(mounts, MountList[n].path) # {}

\* cleanup() of a profile whose mounts are separate, whose imports are absolute
\* and whose dbus option found something to link takes every mount down but the
\* dynamic linker's, whose relative path it looks up outside the container.
CleanupLeavesLinker ==
  /\ pc = "ended" /\ ~stuck
  /\ Separate
  /\ \A n \in 1..Len(profile.import) : ~profile.import[n].relative
  /\ profile.dbus => profile.sys /\ profile.hostDbus
  => mounts = << Linker.path >>

----------------------------------------------------------------------------
(* What documentation says and the code does not do.                       *)

\* Service::down is to "gracefully kill a service": a sandboxed service does not
\* go on as before once its process, warden, has got the signal.
KillReachesService == pc = "killed" => service # "running"
=============================================================================
