---------------------------- MODULE WardenProofs ----------------------------
(***************************************************************************)
(* The sandbox for every set of import lists: the service runs only inside *)
(* its finished container, what is mounted there stays in reach, and what  *)
(* cleanup() leaves behind.                                                *)
(***************************************************************************)
EXTENDS Warden, SelectionProofs

Entries == [path : Path, relative : BOOLEAN]
Paths(list) == [n \in 1..Len(list) |-> list[n].path]

\* What the profile imports, in the order it is mounted.
Bound == Binds("file") \o Binds("dir")
System == IF profile.sys THEN SystemMounts ELSE << >>
Bus == IF DbusBound THEN Dbus ELSE << >>

\* Each path is at itself.
LEMMA PrefixReflexive == ASSUME NEW p \in Path PROVE IsPrefix(p, p)
BY DEF Path, IsPrefix

----------------------------------------------------------------------------
(* The lists of what is mounted and unmounted.                             *)

\* A list of five.
LEMMA FiveEntries ==
  ASSUME NEW T, NEW a \in T, NEW b \in T, NEW c \in T, NEW d \in T, NEW e \in T
  PROVE  << a, b, c, d, e >> \in Seq(T) /\ Len(<< a, b, c, d, e >>) = 5
OBVIOUS

\* The fixed mounts of the code.
LEMMA StaticEntries ==
  /\ Linker \in Entries
  /\ SystemMounts \in Seq(Entries) /\ Len(SystemMounts) = 5
  /\ Dbus \in Seq(Entries) /\ Len(Dbus) = 1
<1>1. ASSUME NEW p \in Name PROVE Entry(<<p>>) \in Entries
  BY DEF Entry, Entries, Path
<1>2. <<"usr", "lib", "ld">> \in Path /\ <<"run", "dbus">> \in Path
  BY NameAssumption DEF Path
<1>3. Linker \in Entries
  BY <1>2 DEF Linker, Entries
<1>4. Entry(<<"run", "dbus">>) \in Entries
  BY <1>2 DEF Entry, Entries
<1>5. Dbus \in Seq(Entries) /\ Len(Dbus) = 1
  BY <1>4 DEF Dbus
<1>6. /\ Entry(<<"sys">>) \in Entries /\ Entry(<<"proc">>) \in Entries
      /\ Entry(<<"dev">>) \in Entries /\ Entry(<<"tmp">>) \in Entries
      /\ Entry(<<"run">>) \in Entries
  BY <1>1, NameAssumption
<1>7. SystemMounts \in Seq(Entries) /\ Len(SystemMounts) = 5
  BY <1>6, FiveEntries DEF SystemMounts
<1> QED BY <1>3, <1>5, <1>7

\* A profile's imports are a list of imports.
LEMMA ImportsType == ASSUME profile \in Profile PROVE profile.import \in Seq(Import)
BY ImportAssumption DEF Profile

\* The imports of one kind are a list of mounts, absolute if the imports are.
LEMMA BindsType ==
  ASSUME profile \in Profile, NEW kind
  PROVE  /\ Binds(kind) \in Seq(Entries)
         /\ (\A n \in 1..Len(profile.import) : ~profile.import[n].relative)
              => \A n \in 1..Len(Binds(kind)) : ~Binds(kind)[n].relative
<1> DEFINE S == {i \in Import : i.kind = kind}
           of == Only(profile.import, S)
<1>1. profile.import \in Seq(Import)
  BY ImportsType
<1>2. of \in Seq(Import)
  BY <1>1, OnlyType
<1>3. Range(of) = Range(profile.import) \cap S
  BY <1>1, OnlyRange
<1>4. Binds(kind) = [n \in 1..Len(of) |-> [path |-> of[n].path, relative |-> of[n].relative]]
  BY DEF Binds
<1> HIDE DEF of
<1>5. ASSUME NEW n \in 1..Len(of)
      PROVE  [path |-> of[n].path, relative |-> of[n].relative] \in Entries
  <2>1. of[n] \in Import
    BY <1>2
  <2> QED BY <2>1 DEF Import, Entries
<1>6. Binds(kind) \in [1..Len(of) -> Entries] /\ Len(of) \in Nat
  BY <1>2, <1>4, <1>5
<1>7. Binds(kind) \in Seq(Entries) /\ Len(Binds(kind)) = Len(of)
  BY <1>6
<1>8. ASSUME \A n \in 1..Len(profile.import) : ~profile.import[n].relative,
             NEW n \in 1..Len(of)
      PROVE  ~of[n].relative
  <2>1. of[n] \in Range(of)
    BY <1>2 DEF Range
  <2>2. PICK k \in DOMAIN profile.import : profile.import[k] = of[n]
    BY <1>3, <2>1 DEF Range
  <2>3. k \in 1..Len(profile.import)
    BY <1>1
  <2> QED BY <1>8, <2>2, <2>3
<1> QED BY <1>4, <1>7, <1>8

\* What is mounted: the linker, the imports, the system and the bus.
LEMMA Lists ==
  ASSUME profile \in Profile
  PROVE  /\ Bound \in Seq(Entries)
         /\ MountList \in Seq(Entries) /\ MountList = (<< Linker >> \o Bound) \o (System \o Bus)
         /\ UnmountList \in Seq(Entries)
<1>1. Binds("file") \in Seq(Entries) /\ Binds("dir") \in Seq(Entries)
  BY BindsType
<1> DEFINE f == Binds("file")
           d == Binds("dir")
<1> HIDE DEF f, d
<1>2. f \in Seq(Entries) /\ d \in Seq(Entries)
  BY <1>1 DEF f, d
<1>3. << Linker >> \in Seq(Entries) /\ << >> \in Seq(Entries)
  BY StaticEntries
<1>4. System \in Seq(Entries) /\ Bus \in Seq(Entries)
  BY <1>3, StaticEntries DEF System, Bus
<1>5. f \o d \in Seq(Entries)
  BY <1>2
<1>6. MountList = << Linker >> \o f \o d \o (System \o Bus)
  <2>1. CASE profile.sys
    BY <2>1 DEF MountList, System, Bus, DbusBound, f, d
  <2>2. CASE ~profile.sys
    <3>1. << >> \o << >> = << >>
      OBVIOUS
    <3> QED BY <2>2, <3>1 DEF MountList, System, Bus, DbusBound, f, d
  <2> QED BY <2>1, <2>2
<1>7. << Linker >> \o f \o d = << Linker >> \o (f \o d)
  BY <1>2, <1>3, ConcatAssociative
<1>8. MountList \in Seq(Entries) /\ MountList = (<< Linker >> \o Bound) \o (System \o Bus)
  <2>1. << Linker >> \o (f \o d) \in Seq(Entries)
    BY <1>3, <1>5
  <2>2. System \o Bus \in Seq(Entries)
    BY <1>4
  <2>3. MountList = (<< Linker >> \o (f \o d)) \o (System \o Bus)
    BY <1>6, <1>7
  <2>4. (<< Linker >> \o (f \o d)) \o (System \o Bus) \in Seq(Entries)
    BY <2>1, <2>2
  <2> QED BY <2>3, <2>4 DEF Bound, f, d
<1>9. UnmountList \in Seq(Entries)
  <2> DEFINE us == << Entry(<<"run">>), Entry(<<"tmp">>), Entry(<<"sys">>),
                      Entry(<<"proc">>), Entry(<<"dev">>) >>
             A == IF profile.dbus THEN Dbus ELSE << >>
             C == IF profile.sys THEN us ELSE << >>
  <2>1. us \in Seq(Entries)
    <3>1. ASSUME NEW p \in Name PROVE Entry(<<p>>) \in Entries
      BY DEF Entry, Entries, Path
    <3>2. /\ Entry(<<"sys">>) \in Entries /\ Entry(<<"proc">>) \in Entries
          /\ Entry(<<"dev">>) \in Entries /\ Entry(<<"tmp">>) \in Entries
          /\ Entry(<<"run">>) \in Entries
      BY <3>1, NameAssumption
    <3> QED BY <3>2, FiveEntries
  <2>2. A \in Seq(Entries) /\ C \in Seq(Entries)
    BY <1>3, <2>1, StaticEntries
  <2>3. UnmountList = A \o C \o f \o d \o << Linker >>
    BY DEF UnmountList, f, d
  <2> HIDE DEF A, C
  <2>4. A \o C \in Seq(Entries)
    BY <2>2
  <2>5. A \o C \o f \in Seq(Entries)
    BY <1>2, <2>4
  <2>6. A \o C \o f \o d \in Seq(Entries)
    BY <1>2, <2>5
  <2> QED BY <1>3, <2>3, <2>6
<1> QED BY <1>5, <1>8, <1>9 DEF Bound, f, d

\* The bus is mounted last.
LEMMA BusIsLast ==
  ASSUME profile \in Profile, DbusBound
  PROVE  Len(MountList) \in Nat \ {0} /\ MountList[Len(MountList)].path = <<"run", "dbus">>
<1> DEFINE a == << Linker >> \o Bound
           z == System \o Bus
<1>1. Bound \in Seq(Entries) /\ << Linker >> \in Seq(Entries)
  BY Lists, StaticEntries
<1>2. a \in Seq(Entries)
  BY <1>1
<1>3. /\ System \in Seq(Entries) /\ Len(System) = 5
      /\ Bus \in Seq(Entries) /\ Len(Bus) = 1 /\ Bus[1] = Entry(<<"run", "dbus">>)
  BY StaticEntries DEF System, Bus, Dbus, DbusBound
<1>4. z \in Seq(Entries) /\ Len(z) = 6 /\ z[6] = Bus[1]
  <2>1. z = System \o Bus /\ System \in Seq(Entries) /\ Bus \in Seq(Entries)
    BY <1>3
  <2> HIDE DEF z
  <2>2. /\ z \in Seq(Entries) /\ Len(z) = Len(System) + Len(Bus)
        /\ \A k \in 1..Len(Bus) : z[Len(System) + k] = Bus[k]
    BY <2>1, ConcatAt
  <2> QED BY <1>3, <2>2
<1>5. MountList = a \o z
  BY Lists
<1> HIDE DEF a, z
<1>6. /\ Len(MountList) = Len(a) + Len(z)
      /\ \A k \in 1..Len(z) : MountList[Len(a) + k] = z[k]
  <2>1. a \in Seq(Entries) /\ z \in Seq(Entries) /\ MountList = a \o z
    BY <1>2, <1>4, <1>5
  <2> QED BY <2>1, ConcatAt
<1>7. Len(a) \in Nat
  BY <1>2
<1> QED BY <1>3, <1>4, <1>6, <1>7 DEF Entry

\* Among separate mounts none but the bus, the last, lies at or below another.
LEMMA SeparatePaths ==
  ASSUME profile \in Profile, Separate,
         NEW i \in 1..Len(MountList), NEW j \in 1..Len(MountList),
         i # j, ~(DbusBound /\ i = Len(MountList))
  PROVE  ~IsPrefix(MountList[j].path, MountList[i].path)
<1> DEFINE n == Len(MountList)
<1>1. /\ MountList \in Seq(Entries) /\ n \in Nat
      /\ \A k \in 1..n : MountList[k].path \in Path
  <2>1. MountList \in Seq(Entries)
    BY Lists
  <2>2. \A k \in 1..n : MountList[k] \in Entries
    BY <2>1
  <2> QED BY <2>1, <2>2 DEF Entries
<1>2. ASSUME NEW a \in 1..n, NEW b \in 1..n, a # b, IsPrefix(MountList[b].path, MountList[a].path)
      PROVE  DbusBound /\ MountList[a].path = <<"run", "dbus">> /\ MountList[b].path = <<"run">>
  <2> DEFINE paths == [k \in 1..n |-> MountList[k].path]
  <2>1. Len(paths) = n /\ \A k \in 1..n : paths[k] = MountList[k].path
    BY <1>1
  <2>2. \A c, d \in 1..Len(paths) : c # d /\ IsPrefix(paths[d], paths[c]) =>
          DbusBound /\ paths[c] = <<"run", "dbus">> /\ paths[d] = <<"run">>
    BY DEF Separate
  <2> HIDE DEF paths
  <2> QED BY <1>2, <2>1, <2>2
<1>3. SUFFICES ASSUME IsPrefix(MountList[j].path, MountList[i].path) PROVE FALSE
  OBVIOUS
<1>4. DbusBound /\ MountList[i].path = <<"run", "dbus">>
  BY <1>2, <1>3
<1>5. n \in 1..n /\ i # n /\ MountList[n].path = <<"run", "dbus">>
  BY <1>4, BusIsLast
<1>6. IsPrefix(MountList[n].path, MountList[i].path)
  BY <1>1, <1>4, <1>5, PrefixReflexive
<1>7. MountList[n].path = <<"run">>
  BY <1>2, <1>5, <1>6
<1>8. <<"run", "dbus">> # <<"run">>
  OBVIOUS
<1> QED BY <1>5, <1>7, <1>8

----------------------------------------------------------------------------
(* The container is finished before the service starts.                    *)

\* The paths of a list of mounts, one by one ...
LEMMA PathsType ==
  ASSUME NEW list \in Seq(Entries)
  PROVE  /\ Paths(list) \in Seq(Path) /\ Len(Paths(list)) = Len(list)
         /\ \A n \in 1..Len(list) : Paths(list)[n] = list[n].path
         /\ Range(Paths(list)) = {e.path : e \in Range(list)}
<1>1. \A n \in 1..Len(list) : list[n] \in Entries
  OBVIOUS
<1>2. \A n \in 1..Len(list) : list[n].path \in Path
  BY <1>1 DEF Entries
<1>3. Paths(list) \in [1..Len(list) -> Path] /\ Len(list) \in Nat
  BY <1>2 DEF Paths
<1>4. Paths(list) \in Seq(Path) /\ Len(Paths(list)) = Len(list)
  BY <1>3
<1>5. \A n \in 1..Len(list) : Paths(list)[n] = list[n].path
  BY DEF Paths
<1>6. DOMAIN Paths(list) = 1..Len(list) /\ DOMAIN list = 1..Len(list)
  BY <1>3
<1>7. Range(Paths(list)) = {e.path : e \in Range(list)}
  BY <1>5, <1>6 DEF Range
<1> QED BY <1>4, <1>5, <1>7

\* ... and from its head on.
LEMMA PathsTail ==
  ASSUME NEW list \in Seq(Entries), list # << >>
  PROVE  Paths(list) = << Head(list).path >> \o Paths(Tail(list))
<1>1. Tail(list) \in Seq(Entries) /\ Len(Tail(list)) = Len(list) - 1
        /\ \A n \in 1..(Len(list) - 1) : Tail(list)[n] = list[n + 1]
  BY HeadTailProperties
<1>2. Head(list) \in Entries /\ Head(list) = list[1] /\ Len(list) \in Nat \ {0}
  OBVIOUS
<1>3. Head(list).path \in Path
  BY <1>2 DEF Entries
<1> DEFINE a == << Head(list).path >>
           b == Paths(Tail(list))
           c == Paths(list)
<1>4. a \in Seq(Path) /\ Len(a) = 1 /\ a[1] = Head(list).path
  BY <1>3
<1>5. b \in Seq(Path) /\ Len(b) = Len(list) - 1 /\ \A n \in 1..(Len(list) - 1) : b[n] = list[n + 1].path
  BY <1>1, PathsType
<1>6. c \in Seq(Path) /\ Len(c) = Len(list) /\ \A n \in 1..Len(list) : c[n] = list[n].path
  BY PathsType
<1> HIDE DEF a, b, c
<1>7. /\ a \o b \in Seq(Path) /\ Len(a \o b) = Len(a) + Len(b)
      /\ \A n \in 1..(Len(a) + Len(b)) : (a \o b)[n] = IF n <= Len(a) THEN a[n] ELSE b[n - Len(a)]
  BY <1>4, <1>5, ConcatProperties
<1>8. ASSUME NEW n \in 1..Len(list) PROVE (a \o b)[n] = c[n]
  <2>1. CASE n = 1
    BY <1>2, <1>4, <1>5, <1>6, <1>7, <2>1
  <2>2. CASE n # 1
    <3>1. n - 1 \in 1..(Len(list) - 1) /\ (n - 1) + 1 = n
      BY <1>2, <2>2
    <3>2. (a \o b)[n] = b[n - 1]
      BY <1>4, <1>5, <1>7, <2>2
    <3> QED BY <1>5, <1>6, <3>1, <3>2
  <2> QED BY <2>1, <2>2
<1>9. Len(a \o b) = Len(c)
  BY <1>2, <1>4, <1>5, <1>6, <1>7
<1>10. a \o b = c
  BY <1>6, <1>7, <1>8, <1>9, SeqEqual
<1> QED BY <1>10 DEF a, b, c

Laid == unshared = profile.flags /\ rooted /\ mounts = Paths(MountList)

Before == {"setup", "unshare", "create", "refused"}

\* The types of the variables; while the mounts are made, those made and those
\* to come are the profile's; the service is there from its spawn on, and ends
\* before the cleanup.
Contained ==
  /\ profile \in Profile
  /\ pc \in Pcs
  /\ mounts \in Seq(Path) /\ todo \in Seq(Entries)
  /\ unshared \subseteq Namespaces /\ rooted \in BOOLEAN /\ stuck \in BOOLEAN
  /\ service \in {"none", "running", "exited"}
  /\ pc \in Before => mounts = << >> /\ todo = << >>
  /\ pc \in Before \cup {"mount", "spawn", "fatal"} => service = "none"
  /\ pc \in {"create", "mount"} => unshared = profile.flags
  /\ pc = "mount" => mounts \o Paths(todo) = Paths(MountList)
  /\ pc \in {"spawn", "wait"} \/ service = "running" => Laid
  /\ pc = "wait" => service # "none"
  /\ pc \in {"cleanup", "ended"} => service = "exited"

\* Every mount is one of the profile's, and so is what is left to do.
Bounded ==
  /\ Range(mounts) \subseteq {e.path : e \in Range(MountList)}
  /\ Len(mounts) <= Len(MountList)
  /\ Range(todo) \subseteq Range(MountList) \cup Range(UnmountList)

\* The lists are the profile's.
LEMMA ListsStay ==
  ASSUME profile' = profile
  PROVE  /\ MountList' = MountList /\ UnmountList' = UnmountList
         /\ Separate' = Separate /\ DbusBound' = DbusBound
<1>1. \A k : Binds(k)' = Binds(k)
  BY DEF Binds
<1>2. MountList' = MountList
  BY <1>1 DEF MountList
<1>3. UnmountList' = UnmountList
  BY <1>1 DEF UnmountList
<1>4. DbusBound' = DbusBound
  BY DEF DbusBound
<1> QED BY <1>2, <1>3, <1>4 DEF Separate

\* Nothing runs and nothing is mounted in the first state.
LEMMA ContainedInit == Init => Contained /\ Bounded
<1> SUFFICES ASSUME Init PROVE Contained /\ Bounded
  OBVIOUS
<1>1. Contained
  BY EmptySeq DEF Init, Contained, Pcs, Before, Laid
<1>2. MountList \in Seq(Entries)
  BY Lists DEF Init
<1>3. Bounded
  BY <1>2 DEF Init, Bounded, Range
<1> QED BY <1>1, <1>3

\* Each step of the set-up is at its place in the list, and the spawn comes last.
LEMMA ContainedNext == Contained /\ [Next]_vars => Contained'
<1> SUFFICES ASSUME Contained, [Next]_vars PROVE Contained'
  OBVIOUS
<1> USE DEF Goto
<1>0. profile' = profile
  BY DEF Next, vars, SetUp, SetUpFails, Unshare, Create, MountNext, Chroot, Spawn, SpawnFails,
         Wait, UnmountNext, UnmountFails, UnmountBusy, Quit, ServiceExits
<1>1. Paths(MountList)' = Paths(MountList)
  BY <1>0, ListsStay
<1>2. MountList \in Seq(Entries) /\ UnmountList \in Seq(Entries)
  BY Lists DEF Contained
<1>3. CASE SetUp \/ SetUpFails \/ Unshare
  <2>1. profile.flags \in SUBSET Namespaces
    BY DEF Contained, Profile
  <2> QED BY <1>0, <1>1, <1>3, <2>1 DEF SetUp, SetUpFails, Unshare, Contained, Pcs, Before, Laid
<1>4. CASE Create
  <2>1. mounts = << >> /\ << >> \o Paths(MountList) = Paths(MountList)
    BY <1>2, <1>4, PathsType, ConcatEmptySeq DEF Create, Contained, Before
  <2> QED BY <1>1, <1>2, <1>4, <2>1 DEF Create, Contained, Pcs, Before, Laid
<1>5. CASE MountNext
  <2> DEFINE h == Head(todo)
  <2>1. pc = "mount" /\ todo \in Seq(Entries) /\ todo # << >> /\ mounts \in Seq(Path)
    BY <1>5 DEF MountNext, Contained
  <2>2. h \in Entries /\ Tail(todo) \in Seq(Entries)
    BY <2>1
  <2>3. h.path \in Path /\ <<h.path>> \in Seq(Path)
    BY <2>2 DEF Entries
  <2>4. Paths(todo) = << h.path >> \o Paths(Tail(todo))
    BY <2>1, PathsTail
  <2>5. mounts' = mounts \o << h.path >> /\ mounts' \in Seq(Path)
    BY <1>5, <2>1, <2>3, AppendIsConcat DEF MountNext
  <2>6. Paths(Tail(todo)) \in Seq(Path)
    BY <2>2, PathsType
  <2>7. (mounts \o << h.path >>) \o Paths(Tail(todo)) = mounts \o (<< h.path >> \o Paths(Tail(todo)))
    BY <2>1, <2>3, <2>6, ConcatAssociative
  <2>8. mounts' \o Paths(todo') = mounts \o Paths(todo)
    BY <1>5, <2>4, <2>5, <2>7 DEF MountNext
  <2>9. mounts' \o Paths(todo') = Paths(MountList)
    BY <2>1, <2>8 DEF Contained
  <2> QED BY <1>1, <1>5, <2>1, <2>2, <2>5, <2>9 DEF MountNext, Contained, Pcs, Before, Laid
<1>6. CASE Chroot
  <2>1. Paths(<< >>) = << >>
    <3>1. << >> \in Seq(Entries) /\ Len(<< >>) = 0
      OBVIOUS
    <3>2. Paths(<< >>) \in Seq(Path) /\ Len(Paths(<< >>)) = 0
      BY <3>1, PathsType
    <3> QED BY <3>2
  <2>2. mounts = Paths(MountList)
    BY <1>6, <2>1, ConcatEmptySeq DEF Chroot, Contained
  <2> QED BY <1>1, <1>6, <2>2 DEF Chroot, Contained, Pcs, Before, Laid
<1>7. CASE Spawn \/ SpawnFails
  BY <1>1, <1>7 DEF Spawn, SpawnFails, Contained, Pcs, Before, Laid
<1>8. CASE Wait
  BY <1>1, <1>2, <1>8 DEF Wait, Contained, Pcs, Before, Laid
<1>9. CASE UnmountNext
  <2>1. PICK i \in Reached(mounts, Head(todo).path) : mounts' = RemoveAt(mounts, i)
    BY <1>9 DEF UnmountNext
  <2>2. mounts' \in Seq(Path)
    BY <2>1, RemoveAtProperties DEF Reached, Contained
  <2> QED BY <1>1, <1>9, <2>2 DEF UnmountNext, Contained, Pcs, Before, Laid
<1>10. CASE UnmountFails \/ UnmountBusy
  BY <1>1, <1>10 DEF UnmountFails, UnmountBusy, Contained, Pcs, Before, Laid
<1>11. CASE Quit
  BY <1>1, <1>11 DEF Quit, Alive, Contained, Pcs, Before, Laid
<1>12. CASE ServiceExits
  BY <1>1, <1>12 DEF ServiceExits, Contained, Pcs, Before, Laid
<1>13. CASE UNCHANGED vars
  BY <1>1, <1>13 DEF vars, Contained, Pcs, Before, Laid
<1> QED BY <1>3, <1>4, <1>5, <1>6, <1>7, <1>8, <1>9, <1>10, <1>11, <1>12, <1>13 DEF Next

\* Nothing but the profile's mounts is ever mounted, and no more of them.
LEMMA BoundedNext == Contained /\ Bounded /\ [Next]_vars => Bounded'
<1> SUFFICES ASSUME Contained, Bounded, [Next]_vars PROVE Bounded'
  OBVIOUS
<1>0. profile' = profile
  BY DEF Next, vars, SetUp, SetUpFails, Unshare, Create, MountNext, Chroot, Spawn, SpawnFails,
         Wait, UnmountNext, UnmountFails, UnmountBusy, Quit, ServiceExits
<1>1. MountList' = MountList /\ UnmountList' = UnmountList
  BY <1>0, ListsStay
<1>2. MountList \in Seq(Entries) /\ UnmountList \in Seq(Entries)
  BY Lists DEF Contained
<1>3. CASE UNCHANGED <<mounts, todo>>
  BY <1>1, <1>3 DEF Bounded
<1>4. CASE UNCHANGED mounts /\ todo' \in {MountList, UnmountList}
  BY <1>1, <1>4 DEF Bounded
<1>5. ASSUME todo # << >>, todo' = Tail(todo) PROVE Range(todo') \subseteq Range(todo)
  <2>1. todo \in Seq(Entries)
    BY DEF Contained
  <2> QED BY <1>5, <2>1, RangeOfTail
<1>6. CASE MountNext
  <2>1. mounts' \o Paths(todo') = Paths(MountList)
    <3>1. Contained'
      BY ContainedNext
    <3> QED BY <1>1, <1>6, <3>1 DEF MountNext, Contained
  <2>2. mounts' \in Seq(Path) /\ todo' \in Seq(Entries)
    BY ContainedNext DEF Contained
  <2>3. Paths(todo') \in Seq(Path)
    BY <2>2, PathsType
  <2>4. Range(mounts') \subseteq Range(Paths(MountList))
    BY <2>1, <2>2, <2>3, RangeOfFront
  <2>5. Len(mounts') <= Len(Paths(MountList))
    <3>1. Len(mounts' \o Paths(todo')) = Len(mounts') + Len(Paths(todo'))
      BY <2>2, <2>3, ConcatProperties
    <3>2. Len(mounts') \in Nat /\ Len(Paths(todo')) \in Nat
      BY <2>2, <2>3
    <3> QED BY <2>1, <3>1, <3>2
  <2>6. Range(Paths(MountList)) = {e.path : e \in Range(MountList)} /\ Len(Paths(MountList)) = Len(MountList)
    BY <1>2, PathsType
  <2> QED BY <1>1, <1>5, <1>6, <2>4, <2>5, <2>6 DEF MountNext, Bounded
<1>7. CASE UnmountNext
  <2>1. PICK i \in Reached(mounts, Head(todo).path) : mounts' = RemoveAt(mounts, i)
    BY <1>7 DEF UnmountNext
  <2>2. mounts \in Seq(Path) /\ i \in 1..Len(mounts)
    BY <2>1 DEF Reached, Contained
  <2>3. mounts' \in Seq(Path) /\ Len(mounts') = Len(mounts) - 1
          /\ \A k \in 1..(Len(mounts) - 1) : mounts'[k] = IF k < i THEN mounts[k] ELSE mounts[k + 1]
    BY <2>1, <2>2, RemoveAtProperties
  <2>4. \A k \in 1..Len(mounts') : \E j \in 1..Len(mounts) : mounts'[k] = mounts[j]
    BY <2>2, <2>3
  <2>5. Range(mounts') \subseteq Range(mounts)
    BY <2>2, <2>3, <2>4, RangeOfPart
  <2>6. Len(mounts') <= Len(MountList)
    BY <1>2, <2>2, <2>3 DEF Bounded
  <2> QED BY <1>1, <1>5, <1>7, <2>5, <2>6 DEF UnmountNext, Bounded
<1> QED
  BY <1>3, <1>4, <1>6, <1>7
  DEF Next, vars, SetUp, SetUpFails, Unshare, Create, Chroot, Spawn, SpawnFails,
      Wait, UnmountFails, UnmountBusy, Quit, ServiceExits

\* Both hold in every reachable state.
LEMMA AlwaysContained == Spec => [](Contained /\ Bounded)
BY ContainedInit, ContainedNext, BoundedNext, PTL DEF Spec

\* TypeOK: the types of the variables, and no mount but the profile's.
THEOREM WardenTypes == Spec => []TypeOK
<1>1. Contained /\ Bounded => TypeOK
  BY DEF Contained, Bounded, TypeOK
<1> QED BY <1>1, AlwaysContained, PTL

\* ServiceIsContained: while the service runs its container is finished, also
\* after warden was killed.
THEOREM Containment == Spec => []ServiceIsContained
<1>1. Contained => ServiceIsContained
  BY DEF Contained, Laid, Paths, ServiceIsContained
<1> QED BY <1>1, AlwaysContained, PTL

\* ImportsReachable: what spawn_here() mounts is in the service's reach when no
\* two of the profile's mounts lie at or below one another.
THEOREM Reachability == Spec => []ImportsReachable
<1>1. Contained => ImportsReachable
  <2> SUFFICES ASSUME Contained, service = "running", Separate, NEW n \in 1..Len(MountList)
               PROVE  Reached(mounts, MountList[n].path) # {}
    BY DEF ImportsReachable
  <2>1. MountList \in Seq(Entries)
    BY Lists DEF Contained
  <2>2. /\ mounts = Paths(MountList) /\ Len(mounts) = Len(MountList)
        /\ \A k \in 1..Len(MountList) : mounts[k] = MountList[k].path
    BY <2>1, PathsType DEF Contained, Laid
  <2>3. ASSUME NEW i \in 1..Len(mounts), NEW j \in 1..Len(mounts),
               i # j, ~(DbusBound /\ i = Len(mounts))
        PROVE  ~IsPrefix(mounts[j], mounts[i])
    BY <2>2, <2>3, SeparatePaths DEF Contained
  <2>4. ASSUME NEW j \in (n + 1)..Len(mounts) PROVE ~IsPrefix(mounts[j], MountList[n].path)
    <3>1. n # Len(mounts) /\ j # n /\ j \in 1..Len(mounts)
      BY <2>1, <2>2
    <3> QED BY <2>2, <2>3, <3>1
  <2>5. n \in Reached(mounts, MountList[n].path)
    BY <2>2, <2>4 DEF Reached
  <2> QED BY <2>5
<1> QED BY <1>1, AlwaysContained, PTL

----------------------------------------------------------------------------
(* What cleanup() leaves.  When every import is absolute and the dbus      *)
(* option found something to link, it goes over the mounts in another      *)
(* order, each of them once.                                               *)

Tidy ==
  /\ Separate
  /\ \A n \in 1..Len(profile.import) : ~profile.import[n].relative
  /\ profile.dbus => profile.sys /\ profile.hostDbus

Unsystem == << Entry(<<"run">>), Entry(<<"tmp">>), Entry(<<"sys">>),
               Entry(<<"proc">>), Entry(<<"dev">>) >>
Busses == IF profile.dbus THEN Dbus ELSE << >>
Systems == IF profile.sys THEN Unsystem ELSE << >>
Shift == IF profile.sys THEN 5 ELSE 0
Bussed == IF profile.dbus THEN 1 ELSE 0

\* The place of each mount in the order of spawn_here().
LEMMA MountAt ==
  ASSUME profile \in Profile, Tidy
  PROVE  /\ Len(Bound) \in Nat
         /\ Len(MountList) = 1 + Len(Bound) + Shift + Bussed
         /\ MountList[1] = Linker
         /\ \A k \in 1..Len(Bound) : MountList[1 + k] = Bound[k]
         /\ profile.sys => \A k \in 1..5 : MountList[1 + Len(Bound) + k] = SystemMounts[k]
         /\ profile.dbus => MountList[1 + Len(Bound) + 6] = Dbus[1]
<1> DEFINE l == << Linker >>
           a == l \o Bound
           z == System \o Bus
<1>1. Bound \in Seq(Entries) /\ MountList = a \o z
  BY Lists
<1>2. l \in Seq(Entries) /\ Len(l) = 1 /\ l[1] = Linker
  BY StaticEntries
<1>20. a = l \o Bound /\ z = System \o Bus
  OBVIOUS
<1> HIDE DEF l, a, z
<1>30. /\ a \in Seq(Entries) /\ Len(a) = Len(l) + Len(Bound)
       /\ \A k \in 1..Len(l) : a[k] = l[k]
       /\ \A k \in 1..Len(Bound) : a[Len(l) + k] = Bound[k]
  <2>1. Bound \in Seq(Entries) /\ l \in Seq(Entries) /\ a = l \o Bound
    BY <1>1, <1>2, <1>20
  <2> QED BY <2>1, ConcatAt
<1>3. /\ a \in Seq(Entries) /\ Len(a) = 1 + Len(Bound) /\ a[1] = Linker
      /\ \A k \in 1..Len(Bound) : a[1 + k] = Bound[k]
  BY <1>2, <1>30
<1>4. System \in Seq(Entries) /\ Len(System) = Shift
  <2>1. CASE profile.sys
    BY <2>1, StaticEntries DEF System, Shift
  <2>2. CASE ~profile.sys
    BY <2>2 DEF System, Shift
  <2> QED BY <2>1, <2>2
<1>5. Bus \in Seq(Entries) /\ Len(Bus) = Bussed
  <2>1. CASE profile.dbus
    <3>1. DbusBound
      BY <2>1 DEF Tidy, DbusBound
    <3> QED BY <2>1, <3>1, StaticEntries DEF Bus, Bussed
  <2>2. CASE ~profile.dbus
    <3>1. ~DbusBound
      BY <2>2 DEF DbusBound
    <3> QED BY <2>2, <3>1 DEF Bus, Bussed
  <2> QED BY <2>1, <2>2
<1>60. /\ z \in Seq(Entries) /\ Len(z) = Len(System) + Len(Bus)
       /\ \A k \in 1..Len(System) : z[k] = System[k]
       /\ \A k \in 1..Len(Bus) : z[Len(System) + k] = Bus[k]
  <2>1. System \in Seq(Entries) /\ Bus \in Seq(Entries) /\ z = System \o Bus
    BY <1>4, <1>5, <1>20
  <2> QED BY <2>1, ConcatAt
<1>6. /\ z \in Seq(Entries) /\ Len(z) = Shift + Bussed
      /\ \A k \in 1..Len(System) : z[k] = System[k]
      /\ \A k \in 1..Len(Bus) : z[Len(System) + k] = Bus[k]
  BY <1>4, <1>5, <1>60
<1>7. /\ Len(MountList) = Len(a) + Len(z)
      /\ \A k \in 1..Len(a) : MountList[k] = a[k]
      /\ \A k \in 1..Len(z) : MountList[Len(a) + k] = z[k]
  <2>1. a \in Seq(Entries) /\ z \in Seq(Entries) /\ MountList = a \o z
    BY <1>1, <1>3, <1>6
  <2> QED BY <2>1, ConcatAt
<1>8. Len(Bound) \in Nat
  BY <1>1
<1>9. MountList[1] = Linker /\ \A k \in 1..Len(Bound) : MountList[1 + k] = Bound[k]
  BY <1>3, <1>7, <1>8
<1>10. ASSUME profile.sys, NEW k \in 1..5 PROVE MountList[1 + Len(Bound) + k] = SystemMounts[k]
  <2>1. System = SystemMounts /\ Len(System) = 5 /\ k \in 1..Len(z)
    BY <1>4, <1>6, <1>10 DEF System, Shift, Bussed
  <2> QED BY <1>3, <1>6, <1>7, <2>1
<1>11. ASSUME profile.dbus PROVE MountList[1 + Len(Bound) + 6] = Dbus[1]
  <2>1. Bus = Dbus /\ Len(Bus) = 1 /\ Len(System) = 5 /\ 6 \in 1..Len(z)
    BY <1>4, <1>5, <1>6, <1>11 DEF Bus, Bussed, Shift, Tidy, DbusBound
  <2>2. z[6] = Dbus[1]
    BY <1>6, <2>1
  <2> QED BY <1>3, <1>7, <2>1, <2>2
<1>12. Len(MountList) = 1 + Len(Bound) + Shift + Bussed
  BY <1>3, <1>6, <1>7, <1>8 DEF Shift, Bussed
<1> QED BY <1>8, <1>9, <1>10, <1>11, <1>12

\* The place of each mount in the order of cleanup().
LEMMA UnmountAt ==
  ASSUME profile \in Profile
  PROVE  /\ Len(UnmountList) = Bussed + Shift + Len(Bound) + 1
         /\ profile.dbus => UnmountList[1] = Dbus[1]
         /\ profile.sys => \A k \in 1..5 : UnmountList[Bussed + k] = Unsystem[k]
         /\ \A k \in 1..Len(Bound) : UnmountList[Bussed + Shift + k] = Bound[k]
         /\ UnmountList[Bussed + Shift + Len(Bound) + 1] = Linker
<1> DEFINE A == Busses
           C == Systems
           f == Binds("file")
           d == Binds("dir")
<1> HIDE DEF f, d
<1>1. f \in Seq(Entries) /\ d \in Seq(Entries) /\ << >> \in Seq(Entries) /\ Len(<< >>) = 0
  BY BindsType DEF f, d
<1>2. Bound \in Seq(Entries) /\ Bound = f \o d /\ Len(Bound) \in Nat
  BY Lists DEF Bound, f, d
<1>3. A \in Seq(Entries) /\ Len(A) = Bussed
  <2>1. CASE profile.dbus
    BY <2>1, StaticEntries DEF Bussed, Busses
  <2>2. CASE ~profile.dbus
    BY <1>1, <2>2 DEF Bussed, Busses
  <2> QED BY <2>1, <2>2
<1>4. Unsystem \in Seq(Entries) /\ Len(Unsystem) = 5
  <2>1. ASSUME NEW p \in Name PROVE Entry(<<p>>) \in Entries
    BY DEF Entry, Entries, Path
  <2>2. /\ Entry(<<"sys">>) \in Entries /\ Entry(<<"proc">>) \in Entries
        /\ Entry(<<"dev">>) \in Entries /\ Entry(<<"tmp">>) \in Entries
        /\ Entry(<<"run">>) \in Entries
    BY <2>1, NameAssumption
  <2> QED BY <2>2, FiveEntries DEF Unsystem
<1>5. C \in Seq(Entries) /\ Len(C) = Shift
  <2>1. CASE profile.sys
    BY <1>4, <2>1 DEF Shift, Systems
  <2>2. CASE ~profile.sys
    BY <1>1, <2>2 DEF Shift, Systems
  <2> QED BY <2>1, <2>2
<1>6. << Linker >> \in Seq(Entries) /\ Len(<< Linker >>) = 1 /\ << Linker >>[1] = Linker
  BY StaticEntries
<1>7. UnmountList = A \o C \o f \o d \o << Linker >>
  BY DEF UnmountList, Unsystem, Busses, Systems, f, d
<1> HIDE DEF A, C
<1> DEFINE g == A \o C
<1>90. UnmountList = g \o f \o d \o << Linker >> /\ g = A \o C
  BY <1>7
<1> HIDE DEF g
<1>80. /\ g \in Seq(Entries) /\ Len(g) = Len(A) + Len(C)
       /\ \A k \in 1..Len(A) : g[k] = A[k]
       /\ \A k \in 1..Len(C) : g[Len(A) + k] = C[k]
  <2>1. A \in Seq(Entries) /\ C \in Seq(Entries) /\ g = A \o C
    BY <1>3, <1>5, <1>90
  <2> QED BY <2>1, ConcatAt
<1>8. /\ g \in Seq(Entries) /\ Len(g) = Bussed + Shift
      /\ \A k \in 1..Len(A) : g[k] = A[k]
      /\ \A k \in 1..Len(C) : g[Len(A) + k] = C[k]
  BY <1>3, <1>5, <1>80
<1>9. (g \o f) \o d = g \o (f \o d)
  BY <1>1, <1>8, ConcatAssociative
<1> DEFINE h == g \o Bound
<1>10. UnmountList = h \o << Linker >> /\ h = g \o Bound
  BY <1>2, <1>9, <1>90
<1> HIDE DEF h
<1>11. /\ h \in Seq(Entries) /\ Len(h) = Len(g) + Len(Bound)
       /\ \A k \in 1..Len(g) : h[k] = g[k]
       /\ \A k \in 1..Len(Bound) : h[Len(g) + k] = Bound[k]
  <2>1. g \in Seq(Entries) /\ Bound \in Seq(Entries) /\ h = g \o Bound
    BY <1>2, <1>8, <1>10
  <2> QED BY <2>1, ConcatAt
<1> DEFINE l == << Linker >>
<1>12. /\ Len(UnmountList) = Len(h) + 1
       /\ \A k \in 1..Len(h) : UnmountList[k] = h[k]
       /\ UnmountList[Len(h) + 1] = Linker
  <2>1. h \in Seq(Entries) /\ l \in Seq(Entries) /\ UnmountList = h \o l
    BY <1>6, <1>10, <1>11
  <2>2. Len(l) = 1 /\ l[1] = Linker
    BY <1>6
  <2> HIDE DEF l
  <2>3. /\ Len(UnmountList) = Len(h) + Len(l)
        /\ \A k \in 1..Len(h) : UnmountList[k] = h[k]
        /\ \A k \in 1..Len(l) : UnmountList[Len(h) + k] = l[k]
    BY <2>1, ConcatAt
  <2> QED BY <2>2, <2>3
<1>13. Len(A) \in Nat /\ Len(C) \in Nat /\ Len(g) = Len(A) + Len(C)
  BY <1>3, <1>5, <1>8
<1>14. ASSUME profile.dbus PROVE UnmountList[1] = Dbus[1]
  <2>1. A = Dbus /\ Len(A) = 1
    BY <1>3, <1>14 DEF A, Busses, Bussed
  <2> QED BY <1>2, <1>8, <1>11, <1>12, <1>13, <2>1
<1>15. ASSUME profile.sys, NEW k \in 1..5 PROVE UnmountList[Bussed + k] = Unsystem[k]
  <2>1. C = Unsystem /\ Len(C) = 5
    BY <1>4, <1>15 DEF C, Systems
  <2>2. g[Len(A) + k] = Unsystem[k]
    BY <1>8, <2>1
  <2>3. Len(A) + k \in 1..Len(g) /\ Len(A) + k \in 1..Len(h)
    BY <1>2, <1>11, <1>13, <2>1
  <2> QED BY <1>3, <1>11, <1>12, <2>2, <2>3
<1>16. ASSUME NEW k \in 1..Len(Bound) PROVE UnmountList[Bussed + Shift + k] = Bound[k]
  <2>1. Len(g) + k \in 1..Len(h)
    BY <1>2, <1>11, <1>13
  <2> QED BY <1>8, <1>11, <1>12, <2>1
<1>17. Len(UnmountList) = Bussed + Shift + Len(Bound) + 1
       /\ UnmountList[Bussed + Shift + Len(Bound) + 1] = Linker
  BY <1>8, <1>11, <1>12
<1> QED BY <1>14, <1>15, <1>16, <1>17

\* Where the list of mounts has what cleanup() unmounts at place i.
MountedAt(i) ==
  LET n == Len(Bound)
      k == i - Bussed
  IN  IF i <= Bussed THEN n + 7
      ELSE IF k <= Shift THEN 1 + n + (IF k = 1 THEN 5 ELSE IF k = 2 THEN 4 ELSE k - 2)
      ELSE IF k <= Shift + n THEN 1 + (k - Shift)
      ELSE 1

\* And the place at which it unmounts the mount at place j of that list.
UnmountedAt(j) ==
  LET n == Len(Bound)
      k == j - 1 - n
  IN  IF j = 1 THEN Bussed + Shift + n + 1
      ELSE IF k <= 0 THEN Bussed + Shift + (j - 1)
      ELSE IF k = 6 THEN 1
      ELSE Bussed + (IF k = 5 THEN 1 ELSE IF k = 4 THEN 2 ELSE k + 2)

\* cleanup() has the system's mounts in another order.
LEMMA Unsystems ==
  /\ Unsystem[1] = SystemMounts[5] /\ Unsystem[2] = SystemMounts[4]
  /\ Unsystem[3] = SystemMounts[1] /\ Unsystem[4] = SystemMounts[2]
  /\ Unsystem[5] = SystemMounts[3]
BY DEF Unsystem, SystemMounts

\* cleanup() goes over the mounts of spawn_here(), each once.
LEMMA Reordered ==
  ASSUME profile \in Profile, Tidy
  PROVE  /\ Len(UnmountList) = Len(MountList)
         /\ \A i \in 1..Len(UnmountList) :
              /\ MountedAt(i) \in 1..Len(MountList)
              /\ UnmountList[i] = MountList[MountedAt(i)]
              /\ UnmountedAt(MountedAt(i)) = i
         /\ \A j \in 1..Len(MountList) :
              UnmountedAt(j) \in 1..Len(UnmountList) /\ MountedAt(UnmountedAt(j)) = j
<1> DEFINE n == Len(Bound)
           L == Len(MountList)
<1>1. n \in Nat /\ L = 1 + n + Shift + Bussed /\ Len(UnmountList) = L
  BY MountAt, UnmountAt DEF Shift, Bussed
<1>2. (Shift = 5 /\ profile.sys) \/ (Shift = 0 /\ ~profile.sys)
  BY DEF Shift
<1>3. (Bussed = 1 /\ profile.dbus /\ Shift = 5) \/ (Bussed = 0 /\ ~profile.dbus)
  BY DEF Bussed, Shift, Tidy
<1> HIDE DEF n, L
<1>4. ASSUME NEW i \in 1..L
      PROVE  MountedAt(i) \in 1..L /\ UnmountedAt(MountedAt(i)) = i
  <2> DEFINE k == i - Bussed
  <2>1. CASE i <= Bussed
    <3>1. i = 1 /\ MountedAt(i) = n + 7 /\ L = n + 7
      BY <1>1, <1>3, <2>1 DEF MountedAt, n
    <3>2. UnmountedAt(n + 7) = 1
      BY <1>1 DEF UnmountedAt, n
    <3> QED BY <1>1, <3>1, <3>2
  <2>2. CASE ~(i <= Bussed) /\ k <= Shift
    <3> DEFINE q == IF k = 1 THEN 5 ELSE IF k = 2 THEN 4 ELSE k - 2
    <3>1. k \in 1..5 /\ Shift = 5 /\ q \in 1..5
      BY <1>2, <1>3, <2>2
    <3>2. MountedAt(i) = 1 + n + q
      BY <2>2 DEF MountedAt, n
    <3>3. i = Bussed + (IF q = 5 THEN 1 ELSE IF q = 4 THEN 2 ELSE q + 2)
      BY <1>3, <3>1
    <3> HIDE DEF q, k
    <3>4. UnmountedAt(1 + n + q) = Bussed + (IF q = 5 THEN 1 ELSE IF q = 4 THEN 2 ELSE q + 2)
      BY <1>1, <3>1 DEF UnmountedAt, n
    <3>5. 1 + n + q \in 1..L
      BY <1>1, <1>3, <3>1
    <3> QED BY <3>2, <3>3, <3>4, <3>5
  <2>3. CASE ~(i <= Bussed) /\ ~(k <= Shift) /\ k <= Shift + n
    <3>1. MountedAt(i) = 1 + (k - Shift)
      BY <2>3 DEF MountedAt, n
    <3>2. k - Shift \in 1..n /\ i = Bussed + Shift + (k - Shift)
      BY <1>1, <1>2, <1>3, <2>3
    <3> DEFINE q == k - Shift
    <3> HIDE DEF q
    <3>3. UnmountedAt(1 + q) = Bussed + Shift + q
      BY <1>1, <1>2, <1>3, <3>2 DEF UnmountedAt, n, q
    <3>4. 1 + q \in 1..L
      BY <1>1, <1>2, <1>3, <3>2 DEF q
    <3> QED BY <3>1, <3>2, <3>3, <3>4 DEF q
  <2>4. CASE ~(i <= Bussed) /\ ~(k <= Shift) /\ ~(k <= Shift + n)
    <3>1. MountedAt(i) = 1 /\ i = Bussed + Shift + n + 1
      BY <1>1, <1>2, <1>3, <2>4 DEF MountedAt, n
    <3>2. UnmountedAt(1) = Bussed + Shift + n + 1
      BY DEF UnmountedAt, n
    <3> QED BY <1>1, <1>2, <1>3, <3>1, <3>2
  <2> QED BY <2>1, <2>2, <2>3, <2>4
<1>5. ASSUME NEW j \in 1..L
      PROVE  UnmountedAt(j) \in 1..L /\ MountedAt(UnmountedAt(j)) = j
  <2> DEFINE k == j - 1 - n
  <2>1. CASE j = 1
    <3>1. UnmountedAt(j) = Bussed + Shift + n + 1
      BY <2>1 DEF UnmountedAt, n
    <3>2. MountedAt(Bussed + Shift + n + 1) = 1
      BY <1>1, <1>2, <1>3 DEF MountedAt, n
    <3> QED BY <1>1, <1>2, <1>3, <2>1, <3>1, <3>2
  <2>2. CASE j # 1 /\ k <= 0
    <3> DEFINE q == j - 1
    <3>1. UnmountedAt(j) = Bussed + Shift + q /\ q \in 1..n /\ j = q + 1
      BY <1>1, <2>2 DEF UnmountedAt, n
    <3> HIDE DEF q
    <3>2. MountedAt(Bussed + Shift + q) = 1 + q
      BY <1>1, <1>2, <1>3, <3>1 DEF MountedAt, n
    <3>3. Bussed + Shift + q \in 1..L
      BY <1>1, <1>2, <1>3, <3>1
    <3> QED BY <1>1, <3>1, <3>2, <3>3
  <2>3. CASE j # 1 /\ ~(k <= 0) /\ k = 6
    <3>1. UnmountedAt(j) = 1 /\ j = n + 7 /\ Bussed = 1
      BY <1>1, <1>2, <1>3, <2>3 DEF UnmountedAt, n
    <3>2. MountedAt(1) = n + 7
      BY <3>1 DEF MountedAt, n
    <3> QED BY <1>1, <3>1, <3>2
  <2>4. CASE j # 1 /\ ~(k <= 0) /\ k # 6
    <3> DEFINE q == IF k = 5 THEN 1 ELSE IF k = 4 THEN 2 ELSE k + 2
    <3>1. k \in 1..5 /\ q \in 1..5 /\ Shift = 5
      BY <1>1, <1>2, <1>3, <2>4
    <3>2. UnmountedAt(j) = Bussed + q
      BY <2>4 DEF UnmountedAt, n
    <3>3. j = 1 + n + (IF q = 1 THEN 5 ELSE IF q = 2 THEN 4 ELSE q - 2)
      BY <1>1, <3>1
    <3> HIDE DEF q, k
    <3>4. MountedAt(Bussed + q) = 1 + n + (IF q = 1 THEN 5 ELSE IF q = 2 THEN 4 ELSE q - 2)
      BY <1>1, <1>3, <3>1 DEF MountedAt, n
    <3>5. Bussed + q \in 1..L
      BY <1>1, <1>3, <3>1
    <3> QED BY <3>2, <3>3, <3>4, <3>5
  <2> QED BY <2>1, <2>2, <2>3, <2>4
<1>6. ASSUME NEW i \in 1..L PROVE UnmountList[i] = MountList[MountedAt(i)]
  <2>1. CASE i <= Bussed
    <3>1. i = 1 /\ profile.dbus /\ MountedAt(i) = 1 + n + 6
      BY <1>1, <1>3, <2>1 DEF MountedAt, n
    <3> QED BY <3>1, MountAt, UnmountAt DEF n
  <2>2. CASE ~(i <= Bussed) /\ i - Bussed <= Shift
    <3> DEFINE k == i - Bussed
               q == IF k = 1 THEN 5 ELSE IF k = 2 THEN 4 ELSE k - 2
    <3>1. profile.sys /\ k \in 1..5 /\ i = Bussed + k
      BY <1>2, <1>3, <2>2
    <3>2. MountedAt(i) = 1 + n + q /\ q \in 1..5
      BY <1>1, <1>2, <1>3, <2>2 DEF MountedAt, n
    <3> HIDE DEF k
    <3>3. UnmountList[i] = Unsystem[k]
      BY <3>1, UnmountAt
    <3>4. MountList[MountedAt(i)] = SystemMounts[q]
      BY <3>1, <3>2, MountAt DEF n
    <3>5. Unsystem[k] = SystemMounts[q]
      BY <3>1, Unsystems
    <3> QED BY <3>3, <3>4, <3>5
  <2>3. CASE ~(i <= Bussed) /\ ~(i - Bussed <= Shift) /\ i - Bussed <= Shift + n
    <3> DEFINE k == i - Bussed - Shift
    <3>1. k \in 1..n /\ i = Bussed + Shift + k
      BY <1>1, <1>2, <1>3, <2>3
    <3>2. MountedAt(i) = 1 + k
      BY <1>1, <1>2, <1>3, <2>3 DEF MountedAt, n
    <3> HIDE DEF k
    <3>3. UnmountList[i] = Bound[k]
      BY <3>1, UnmountAt DEF n
    <3>4. MountList[MountedAt(i)] = Bound[k]
      BY <3>1, <3>2, MountAt DEF n
    <3> QED BY <3>3, <3>4
  <2>4. CASE ~(i <= Bussed) /\ ~(i - Bussed <= Shift) /\ ~(i - Bussed <= Shift + n)
    <3>1. i = Bussed + Shift + n + 1 /\ MountedAt(i) = 1
      BY <1>1, <1>2, <1>3, <2>4 DEF MountedAt, n
    <3> QED BY <3>1, MountAt, UnmountAt DEF n
  <2> QED BY <2>1, <2>2, <2>3, <2>4
<1> QED BY <1>1, <1>4, <1>5, <1>6 DEF L

\* The paths of the mounts differ, and none but the bus's lies below another's.
LEMMA PathsApart ==
  ASSUME profile \in Profile, Tidy
  PROVE  /\ \A i, j \in 1..Len(MountList) :
              i # j /\ ~(profile.dbus /\ i = Len(MountList))
                => ~IsPrefix(MountList[j].path, MountList[i].path)
         /\ \A i, j \in 1..Len(MountList) : i # j => MountList[i].path # MountList[j].path
<1>1. MountList \in Seq(Entries)
  BY Lists
<1>2. ASSUME NEW i \in 1..Len(MountList), NEW j \in 1..Len(MountList),
             i # j, ~(profile.dbus /\ i = Len(MountList))
      PROVE  ~IsPrefix(MountList[j].path, MountList[i].path)
  BY <1>2, SeparatePaths DEF Tidy, DbusBound
<1>3. ASSUME NEW i \in 1..Len(MountList), NEW j \in 1..Len(MountList), i # j
      PROVE  MountList[i].path # MountList[j].path
  <2>1. MountList[i] \in Entries /\ MountList[j] \in Entries
    BY <1>1
  <2>2. /\ IsPrefix(MountList[i].path, MountList[i].path)
        /\ IsPrefix(MountList[j].path, MountList[j].path)
    BY <2>1, PrefixReflexive DEF Entries
  <2>3. CASE i # Len(MountList)
    BY <1>2, <1>3, <2>2, <2>3
  <2>4. CASE j # Len(MountList)
    BY <1>2, <1>3, <2>2, <2>4
  <2> QED BY <1>3, <2>3, <2>4
<1> QED BY <1>2, <1>3

\* Nothing but the linker is looked up by a relative path.
LEMMA Absolute ==
  ASSUME profile \in Profile, Tidy, NEW i \in 1..(Len(UnmountList) - 1)
  PROVE  ~UnmountList[i].relative
<1> DEFINE j == MountedAt(i)
<1>1. UnmountList \in Seq(Entries) /\ Bound \in Seq(Entries) /\ Len(UnmountList) \in Nat
  BY Lists
<1>2. /\ i \in 1..Len(UnmountList) /\ UnmountList[i] = MountList[j]
      /\ j \in 1..Len(MountList) /\ UnmountedAt(j) = i
  BY <1>1, Reordered
<1>3. j # 1
  BY <1>2, UnmountAt DEF UnmountedAt
<1> HIDE DEF j
<1>4. CASE j <= 1 + Len(Bound)
  <2>1. j - 1 \in 1..Len(Bound) /\ MountList[j] = Bound[j - 1]
    <3>1. j - 1 \in 1..Len(Bound) /\ 1 + (j - 1) = j
      BY <1>1, <1>2, <1>3, <1>4
    <3> QED BY <3>1, MountAt
  <2> DEFINE f == Binds("file")
             d == Binds("dir")
             k == j - 1
  <2>2. f \in Seq(Entries) /\ d \in Seq(Entries) /\ Bound = f \o d
    BY BindsType DEF Bound
  <2>3. (\A n \in 1..Len(f) : ~f[n].relative) /\ (\A n \in 1..Len(d) : ~d[n].relative)
    BY BindsType DEF Tidy
  <2> HIDE DEF f, d, k
  <2>4. /\ Len(Bound) = Len(f) + Len(d)
        /\ \A n \in 1..Len(f) : Bound[n] = f[n]
        /\ \A n \in 1..Len(d) : Bound[Len(f) + n] = d[n]
    BY <2>2, ConcatAt
  <2>5. k \in 1..Len(Bound) /\ UnmountList[i] = Bound[k]
    BY <1>2, <2>1 DEF k
  <2>6. CASE k <= Len(f)
    BY <2>2, <2>3, <2>4, <2>5, <2>6
  <2>7. CASE ~(k <= Len(f))
    <3>1. Len(f) \in Nat /\ Len(d) \in Nat
      BY <2>2
    <3>2. k - Len(f) \in 1..Len(d) /\ Len(f) + (k - Len(f)) = k
      BY <2>4, <2>5, <2>7, <3>1
    <3> QED BY <2>3, <2>4, <2>5, <3>2
  <2> QED BY <2>6, <2>7
<1>5. CASE ~(j <= 1 + Len(Bound))
  <2> DEFINE k == j - 1 - Len(Bound)
  <2>1. k \in Int /\ k > 0 /\ k <= Shift + Bussed /\ j = 1 + Len(Bound) + k /\ Len(Bound) \in Nat
    BY <1>2, <1>5, MountAt DEF Shift, Bussed
  <2> HIDE DEF k
  <2>2. CASE k <= Shift
    <3>1. profile.sys /\ k \in 1..5
      BY <2>1, <2>2 DEF Shift
    <3>2. MountList[j] = SystemMounts[k]
      BY <2>1, <3>1, MountAt
    <3>3. ~SystemMounts[k].relative
      BY <3>1 DEF SystemMounts, Entry
    <3> QED BY <1>2, <3>2, <3>3
  <2>3. CASE ~(k <= Shift)
    <3>1. profile.dbus /\ k = 6
      BY <2>1, <2>3 DEF Shift, Bussed, Tidy
    <3>2. MountList[j] = Dbus[1]
      BY <2>1, <3>1, MountAt
    <3> QED BY <1>2, <3>2 DEF Dbus, Entry
  <2> QED BY <2>2, <2>3
<1> QED BY <1>4, <1>5

\* What is left to unmount is what is still mounted, each of it once; it is the
\* rest of the list, and nothing lies on another but the bus, which goes first.
LeftMounted ==
  /\ Len(todo) \in 1..Len(UnmountList)
  /\ \A n \in 1..Len(todo) : todo[n] = UnmountList[Len(UnmountList) - Len(todo) + n]
  /\ \A n \in 1..Len(todo) : \E i \in 1..Len(mounts) : mounts[i] = todo[n].path
  /\ \A i \in 1..Len(mounts) : \E n \in 1..Len(todo) : mounts[i] = todo[n].path
  /\ \A i, j \in 1..Len(mounts) : i # j => mounts[i] # mounts[j]
  /\ \A i, j \in 1..Len(mounts) :
       i # j /\ ~(profile.dbus /\ Len(todo) = Len(UnmountList) /\ i = Len(mounts))
         => ~IsPrefix(mounts[j], mounts[i])
  /\ profile.dbus /\ Len(todo) = Len(UnmountList) => mounts[Len(mounts)] = todo[1].path

Cleaning ==
  /\ pc = "cleanup" /\ Tidy => LeftMounted
  /\ pc = "ended" /\ ~stuck /\ Tidy => mounts = << Linker.path >>

\* The two lists are equally long, and no path is in one twice.
LEMMA ListLengths ==
  ASSUME profile \in Profile, Tidy
  PROVE  /\ Len(UnmountList) \in Nat \ {0} /\ Len(MountList) = Len(UnmountList)
         /\ UnmountList[Len(UnmountList)] = Linker
         /\ \A a, b \in 1..Len(UnmountList) : a # b => UnmountList[a].path # UnmountList[b].path
<1>1. UnmountList \in Seq(Entries) /\ Len(Bound) \in Nat /\ Len(MountList) = Len(UnmountList)
  BY Lists, MountAt, Reordered
<1>2. Len(UnmountList) = Bussed + Shift + Len(Bound) + 1 /\ UnmountList[Len(UnmountList)] = Linker
  BY UnmountAt
<1>3. Len(UnmountList) \in Nat \ {0}
  BY <1>1, <1>2 DEF Shift, Bussed
<1>4. ASSUME NEW a \in 1..Len(UnmountList), NEW b \in 1..Len(UnmountList), a # b
      PROVE  UnmountList[a].path # UnmountList[b].path
  <2>1. MountedAt(a) # MountedAt(b)
    BY <1>4, Reordered
  <2>2. MountedAt(a) \in 1..Len(MountList) /\ MountedAt(b) \in 1..Len(MountList)
          /\ UnmountList[a] = MountList[MountedAt(a)] /\ UnmountList[b] = MountList[MountedAt(b)]
    BY Reordered
  <2> QED BY <2>1, <2>2, PathsApart
<1> QED BY <1>1, <1>2, <1>3, <1>4

\* When the service has ended, everything is still mounted ...
LEMMA CleaningStarts ==
  ASSUME Contained, Tidy, Wait
  PROVE  LeftMounted'
<1> DEFINE L == Len(MountList)
<1>1. profile \in Profile /\ profile' = profile /\ mounts' = mounts /\ todo' = UnmountList
        /\ mounts = Paths(MountList)
  BY DEF Wait, Contained, Laid
<1>2. MountList \in Seq(Entries) /\ UnmountList \in Seq(Entries) /\ UnmountList' = UnmountList
  BY <1>1, Lists, ListsStay
<1>3. Len(mounts) = L /\ \A i \in 1..L : mounts[i] = MountList[i].path
  BY <1>1, <1>2, PathsType
<1>4. L \in Nat \ {0} /\ Len(UnmountList) = L
  BY <1>1, ListLengths
<1>5. \A n \in 1..L : UnmountList[n] = UnmountList[L - L + n]
  BY <1>4
<1>6. ASSUME NEW n \in 1..L PROVE \E i \in 1..L : mounts[i] = UnmountList[n].path
  <2>1. MountedAt(n) \in 1..L /\ UnmountList[n] = MountList[MountedAt(n)]
    BY <1>1, <1>4, Reordered
  <2> QED BY <1>3, <2>1
<1>7. \A i \in 1..L : \E n \in 1..L : mounts[i] = UnmountList[n].path
  BY <1>1, <1>3, <1>4, Reordered
<1>8. \A i, j \in 1..L : i # j => mounts[i] # mounts[j]
  BY <1>1, <1>3, PathsApart
<1>9. \A i, j \in 1..L : i # j /\ ~(profile.dbus /\ i = L) => ~IsPrefix(mounts[j], mounts[i])
  BY <1>1, <1>3, PathsApart
<1>10. ASSUME profile.dbus PROVE mounts[L] = UnmountList[1].path
  <2>1. UnmountList[1] = Dbus[1]
    BY <1>1, <1>10, UnmountAt
  <2>2. profile.sys
    BY <1>10 DEF Tidy
  <2>3. L = 1 + Len(Bound) + 6 /\ MountList[1 + Len(Bound) + 6] = Dbus[1]
    BY <1>1, <1>10, <2>2, MountAt DEF Shift, Bussed
  <2> QED BY <1>3, <1>4, <2>1, <2>3
<1> HIDE DEF L
<1> QED BY <1>1, <1>2, <1>3, <1>4, <1>5, <1>6, <1>7, <1>8, <1>9, <1>10 DEF LeftMounted

\* ... each unmount takes what it names, and only that ...
LEMMA CleaningGoesOn ==
  ASSUME Contained, Tidy, LeftMounted, UnmountNext
  PROVE  LeftMounted'
<1> DEFINE L == Len(UnmountList)
           l == Len(todo)
           m == Len(mounts)
<1>1. profile \in Profile /\ profile' = profile /\ todo' = Tail(todo) /\ todo # << >>
        /\ todo \in Seq(Entries) /\ mounts \in Seq(Path)
  BY DEF UnmountNext, Contained
<1>2. UnmountList' = UnmountList
  BY <1>1, ListsStay
<1>3. PICK i \in 1..m : mounts[i] = todo[1].path /\ mounts' = RemoveAt(mounts, i)
  BY <1>1 DEF UnmountNext, Reached
<1>4. /\ L \in Nat \ {0} /\ l \in 1..L /\ m \in Nat
      /\ \A n \in 1..l : todo[n] = UnmountList[L - l + n]
  BY <1>1, ListLengths DEF LeftMounted
<1>5. l # 1
  <2>1. ~todo[1].relative
    BY <1>1 DEF UnmountNext, CanUnmount
  <2>2. UnmountList[L].relative
    BY <1>1, ListLengths DEF Linker
  <2>3. l = 1 => todo[1] = UnmountList[L]
    BY <1>4
  <2> QED BY <2>1, <2>2, <2>3
<1>6. Len(todo') = l - 1 /\ \A n \in 1..(l - 1) : todo'[n] = todo[n + 1]
  BY <1>1, HeadTailProperties
<1>7. Len(mounts') = m - 1 /\ \A k \in 1..(m - 1) : mounts'[k] = IF k < i THEN mounts[k] ELSE mounts[k + 1]
  BY <1>1, <1>3, RemoveAtProperties
<1>8. \A n \in 2..l : todo[n].path # todo[1].path
  <2>1. ASSUME NEW n \in 2..l PROVE todo[n].path # todo[1].path
    <3>1. L - l + n \in 1..L /\ L - l + 1 \in 1..L /\ L - l + n # L - l + 1
      BY <1>4
    <3>2. n \in 1..l /\ 1 \in 1..l
      BY <1>4
    <3>3. UnmountList[L - l + n].path # UnmountList[L - l + 1].path
      BY <1>1, <3>1, ListLengths
    <3> QED BY <1>4, <3>2, <3>3
  <2> QED BY <2>1
<1>9. /\ \A n \in 1..l : \E k \in 1..m : mounts[k] = todo[n].path
      /\ \A k \in 1..m : \E n \in 1..l : mounts[k] = todo[n].path
      /\ \A a, b \in 1..m : a # b => mounts[a] # mounts[b]
      /\ \A a, b \in 1..m : a # b /\ ~(profile.dbus /\ l = L /\ a = m) => ~IsPrefix(mounts[b], mounts[a])
      /\ profile.dbus /\ l = L => mounts[m] = todo[1].path
  BY DEF LeftMounted
<1> HIDE DEF L, l, m
<1>10. \A n \in 1..(l - 1) : todo'[n] = UnmountList[L - (l - 1) + n]
  <2>1. ASSUME NEW n \in 1..(l - 1) PROVE todo'[n] = UnmountList[L - (l - 1) + n]
    <3>1. n + 1 \in 1..l /\ L - l + (n + 1) = L - (l - 1) + n
      BY <1>4
    <3>2. todo[n + 1] = UnmountList[L - l + (n + 1)]
      BY <1>4, <3>1
    <3> QED BY <1>6, <3>1, <3>2
  <2> QED BY <2>1
<1>11. ASSUME NEW n \in 1..(l - 1) PROVE \E k \in 1..(m - 1) : mounts'[k] = todo'[n].path
  <2>1. n + 1 \in 1..l /\ n + 1 \in 2..l /\ todo'[n] = todo[n + 1]
    BY <1>4, <1>6
  <2>2. PICK k \in 1..m : mounts[k] = todo[n + 1].path
    BY <1>9, <2>1
  <2>3. k # i
    BY <1>3, <1>8, <2>1, <2>2
  <2>4. CASE k < i
    <3>1. k \in 1..(m - 1) /\ mounts'[k] = mounts[k]
      BY <1>4, <1>7, <2>4
    <3> QED BY <2>1, <2>2, <3>1
  <2>5. CASE k > i
    <3>1. k - 1 \in 1..(m - 1) /\ ~(k - 1 < i) /\ (k - 1) + 1 = k
      BY <1>4, <2>5
    <3>2. mounts'[k - 1] = mounts[k]
      BY <1>7, <3>1
    <3> QED BY <2>1, <2>2, <3>1, <3>2
  <2> QED BY <2>3, <2>4, <2>5
<1> DEFINE At(k) == IF k < i THEN k ELSE k + 1
<1>12. \A k \in 1..(m - 1) : At(k) \in 1..m /\ At(k) # i /\ mounts'[k] = mounts[At(k)]
  BY <1>4, <1>7
<1>13. \A a, b \in 1..(m - 1) : a # b => At(a) # At(b)
  BY <1>4
<1>14. \A k \in 1..(m - 1) : At(k) = m => i # m
  BY <1>12
<1> HIDE DEF At
<1>15. ASSUME NEW k \in 1..(m - 1) PROVE \E n \in 1..(l - 1) : mounts'[k] = todo'[n].path
  <2>1. PICK n \in 1..l : mounts[At(k)] = todo[n].path
    BY <1>9, <1>12
  <2>2. n # 1
    BY <1>3, <1>9, <1>12, <2>1
  <2>3. n - 1 \in 1..(l - 1) /\ (n - 1) + 1 = n
    BY <1>4, <2>2
  <2>4. todo'[n - 1] = todo[n]
    BY <1>6, <2>3
  <2> QED BY <1>12, <2>1, <2>3, <2>4
<1>16. \A a, b \in 1..(m - 1) : a # b => mounts'[a] # mounts'[b]
  BY <1>9, <1>12, <1>13
<1>17. profile.dbus /\ l = L => i = m
  BY <1>3, <1>4, <1>9
<1>18. ASSUME NEW a \in 1..(m - 1), NEW b \in 1..(m - 1), a # b
       PROVE  ~IsPrefix(mounts'[b], mounts'[a])
  <2>1. At(a) \in 1..m /\ At(b) \in 1..m /\ At(a) # At(b)
    BY <1>12, <1>13, <1>18
  <2>2. ~(profile.dbus /\ l = L /\ At(a) = m)
    BY <1>14, <1>17
  <2>3. ~IsPrefix(mounts[At(b)], mounts[At(a)])
    BY <1>9, <2>1, <2>2
  <2> QED BY <1>12, <2>3
<1>19. l - 1 \in 1..L /\ l - 1 # L
  BY <1>4, <1>5
<1>20. L' = L /\ l' = l - 1 /\ m' = m - 1
  BY <1>2, <1>6, <1>7 DEF L, l, m
<1>21. Len(UnmountList') = L /\ Len(todo') = l - 1 /\ Len(mounts') = m - 1
  BY <1>2, <1>6, <1>7 DEF L
<1>22. Len(todo') \in 1..Len(UnmountList') /\ Len(todo') # Len(UnmountList')
  BY <1>19, <1>21
<1>23. \A n \in 1..Len(todo') : todo'[n] = UnmountList'[Len(UnmountList') - Len(todo') + n]
  BY <1>2, <1>10, <1>21
<1>24. /\ \A n \in 1..Len(todo') : \E k \in 1..Len(mounts') : mounts'[k] = todo'[n].path
       /\ \A k \in 1..Len(mounts') : \E n \in 1..Len(todo') : mounts'[k] = todo'[n].path
  BY <1>11, <1>15, <1>21
<1>25. \A a, b \in 1..Len(mounts') :
         a # b => mounts'[a] # mounts'[b] /\ ~IsPrefix(mounts'[b], mounts'[a])
  BY <1>16, <1>18, <1>21
<1> QED BY <1>22, <1>23, <1>24, <1>25 DEF LeftMounted

\* ... until the linker's fails, the last.
LEMMA CleaningEnds ==
  ASSUME Contained, Tidy, LeftMounted, UnmountFails
  PROVE  mounts = << Linker.path >>
<1> DEFINE L == Len(UnmountList)
           l == Len(todo)
           m == Len(mounts)
<1>1. profile \in Profile /\ todo # << >> /\ ~CanUnmount(todo[1])
        /\ todo \in Seq(Entries) /\ mounts \in Seq(Path)
  BY DEF UnmountFails, Contained
<1>2. /\ L \in Nat \ {0} /\ l \in 1..L /\ m \in Nat
      /\ \A n \in 1..l : todo[n] = UnmountList[L - l + n]
      /\ UnmountList[L] = Linker
  BY <1>1, ListLengths DEF LeftMounted
<1>3. /\ \A n \in 1..l : \E k \in 1..m : mounts[k] = todo[n].path
      /\ \A k \in 1..m : \E n \in 1..l : mounts[k] = todo[n].path
      /\ \A a, b \in 1..m : a # b => mounts[a] # mounts[b]
      /\ \A a, b \in 1..m : a # b /\ ~(profile.dbus /\ l = L /\ a = m) => ~IsPrefix(mounts[b], mounts[a])
      /\ profile.dbus /\ l = L => mounts[m] = todo[1].path
  BY DEF LeftMounted
<1> HIDE DEF L, l, m
<1>4. CASE l # 1
  <2>1. ~todo[1].relative
    <3>1. 1 \in 1..l /\ L - l + 1 \in 1..(L - 1)
      BY <1>2, <1>4
    <3>2. ~UnmountList[L - l + 1].relative
      BY <1>1, <3>1, Absolute DEF L
    <3> QED BY <1>2, <3>1, <3>2
  <2>2. PICK i \in 1..m : mounts[i] = todo[1].path
    BY <1>2, <1>3
  <2>3. profile.dbus /\ l = L => i = m
    BY <1>2, <1>3, <2>2
  <2>4. ASSUME NEW j \in (i + 1)..m PROVE ~IsPrefix(mounts[j], mounts[i]) /\ ~IsPrefix(mounts[i], mounts[j])
    <3>1. j \in 1..m /\ i # j /\ i # m
      BY <1>2
    <3>2. ~(profile.dbus /\ l = L)
      BY <2>3, <3>1
    <3> QED BY <1>3, <3>1, <3>2
  <2>5. i \in Reached(mounts, todo[1].path) /\ ~HasMountsOn(mounts, i)
    BY <2>2, <2>4 DEF Reached, HasMountsOn, Below, m
  <2> QED BY <1>1, <2>1, <2>5 DEF CanUnmount
<1>5. CASE l = 1
  <2>1. todo[1] = Linker
    BY <1>2, <1>5
  <2>2. \A k \in 1..m : mounts[k] = Linker.path
    BY <1>3, <1>5, <2>1
  <2>3. m # 0
    BY <1>3, <1>5
  <2>4. m = 1
    <3>1. CASE m > 1
      <4>1. 1 \in 1..m /\ 2 \in 1..m
        BY <1>2, <3>1
      <4> QED BY <1>3, <2>2, <4>1
    <3> QED BY <1>2, <2>3, <3>1
  <2> QED BY <1>1, <2>2, <2>4 DEF m
<1> QED BY <1>4, <1>5

\* So it goes at every step.
LEMMA CleaningNext == Contained /\ Cleaning /\ [Next]_vars => Cleaning'
<1> SUFFICES ASSUME Contained, Cleaning, [Next]_vars PROVE Cleaning'
  OBVIOUS
<1> USE DEF Goto
<1>1. profile' = profile
  BY DEF Next, vars, SetUp, SetUpFails, Unshare, Create, MountNext, Chroot, Spawn, SpawnFails,
         Wait, UnmountNext, UnmountFails, UnmountBusy, Quit, ServiceExits
<1>2. Tidy' = Tidy
  BY <1>1, ListsStay DEF Tidy
<1>3. ASSUME UNCHANGED <<todo, mounts>> PROVE LeftMounted => LeftMounted'
  <2>1. UnmountList' = UnmountList
    BY <1>1, ListsStay
  <2> QED BY <1>1, <1>3, <2>1 DEF LeftMounted
<1>4. CASE SetUp \/ SetUpFails \/ Unshare \/ Create \/ MountNext \/ Chroot \/ Spawn \/ SpawnFails
  BY <1>4 DEF Cleaning, SetUp, SetUpFails, Unshare, Create, MountNext, Chroot, Spawn, SpawnFails
<1>5. CASE Wait
  BY <1>2, <1>5, CleaningStarts DEF Cleaning, Wait
<1>6. CASE UnmountNext
  BY <1>2, <1>6, CleaningGoesOn DEF Cleaning, UnmountNext
<1>7. CASE UnmountFails
  BY <1>2, <1>7, CleaningEnds DEF Cleaning, UnmountFails
<1>8. CASE UnmountBusy \/ Quit
  BY <1>8 DEF Cleaning, UnmountBusy, Quit
<1>9. CASE ServiceExits \/ UNCHANGED vars
  BY <1>2, <1>3, <1>9 DEF Cleaning, ServiceExits, vars
<1> QED BY <1>4, <1>5, <1>6, <1>7, <1>8, <1>9 DEF Next

\* CleanupLeavesLinker: cleanup() of a tidy profile takes down every mount but
\* the dynamic linker's.
THEOREM CleanupIsComplete == Spec => []CleanupLeavesLinker
<1>1. Init => Cleaning
  BY DEF Init, Cleaning
<1>2. Contained /\ Cleaning => CleanupLeavesLinker
  BY DEF Cleaning, Tidy, CleanupLeavesLinker
<1> QED BY <1>1, <1>2, AlwaysContained, CleaningNext, PTL DEF Spec
=============================================================================
