---------------------------- MODULE MountsProofs ----------------------------
(***************************************************************************)
(* The mount table from start to power-off, for every /etc/fstab and       *)
(* whatever services mount: the root is mounted once, the sweep leaves     *)
(* nothing behind, and it takes nothing that is not its own.               *)
(***************************************************************************)
EXTENDS Mounts, SelectionProofs

\* A suffix, element by element.
LEMMA SuffixAt ==
  ASSUME NEW T, NEW s \in Seq(T), NEW t \in Seq(T)
  PROVE  IsSuffix(s, t) <=> /\ Len(s) <= Len(t)
                            /\ \A n \in 1..Len(s) : s[n] = t[Len(t) - Len(s) + n]
<1> DEFINE r == Reverse(s)
           q == Reverse(t)
           l == Len(s)
           m == Len(t)
<1>1. /\ r \in Seq(T) /\ Len(r) = l /\ \A k \in 1..l : r[k] = s[l - k + 1]
      /\ q \in Seq(T) /\ Len(q) = m /\ \A k \in 1..m : q[k] = t[m - k + 1]
      /\ l \in Nat /\ m \in Nat
  BY DEF Reverse
<1>2. IsSuffix(s, t) <=> l <= m /\ SubSeq(r, 1, l) = SubSeq(q, 1, l)
  BY <1>1 DEF IsSuffix, IsPrefix
<1> HIDE DEF r, q, l, m
<1>3. SUFFICES ASSUME l <= m
               PROVE  SubSeq(r, 1, l) = SubSeq(q, 1, l) <=> \A n \in 1..l : s[n] = t[m - l + n]
  BY <1>2 DEF l, m
<1> DEFINE u == SubSeq(r, 1, l)
           v == SubSeq(q, 1, l)
<1>4. u \in Seq(T) /\ Len(u) = l /\ \A k \in 1..l : u[k] = r[k]
  BY <1>1, SubSeqProperties
<1>5. v \in Seq(T) /\ Len(v) = l /\ \A k \in 1..l : v[k] = q[k]
  BY <1>1, <1>3, SubSeqProperties
<1> HIDE DEF u, v
<1>6. u = v <=> \A k \in 1..l : u[k] = v[k]
  BY <1>4, <1>5, SeqEqual
<1>7. \A k \in 1..l : k \in 1..m /\ u[k] = s[l - k + 1] /\ v[k] = t[m - k + 1]
  BY <1>1, <1>3, <1>4, <1>5
<1>8. ASSUME \A k \in 1..l : u[k] = v[k], NEW n \in 1..l PROVE s[n] = t[m - l + n]
  <2>1. l - n + 1 \in 1..l /\ l - (l - n + 1) + 1 = n /\ m - (l - n + 1) + 1 = m - l + n
    BY <1>1
  <2> QED BY <1>7, <1>8, <2>1
<1>9. ASSUME \A n \in 1..l : s[n] = t[m - l + n], NEW k \in 1..l PROVE u[k] = v[k]
  <2>1. l - k + 1 \in 1..l /\ m - l + (l - k + 1) = m - k + 1
    BY <1>1
  <2> QED BY <1>7, <1>9, <2>1
<1> QED BY <1>6, <1>8, <1>9 DEF u, v

\* A walk begins with the whole list ...
LEMMA SuffixOfItself == ASSUME NEW T, NEW s \in Seq(T) PROVE IsSuffix(s, s)
<1>1. Len(s) <= Len(s) /\ \A n \in 1..Len(s) : s[n] = s[Len(s) - Len(s) + n]
  OBVIOUS
<1> QED BY <1>1, SuffixAt

\* ... and goes on with its end.
LEMMA SuffixOfTail ==
  ASSUME NEW T, NEW s \in Seq(T), NEW t \in Seq(T), s # << >>, IsSuffix(s, t)
  PROVE  Tail(s) \in Seq(T) /\ IsSuffix(Tail(s), t)
<1> DEFINE u == Tail(s)
<1>1. Len(s) \in Nat \ {0} /\ Len(t) \in Nat
  OBVIOUS
<1>2. u \in Seq(T) /\ Len(u) = Len(s) - 1 /\ \A n \in 1..(Len(s) - 1) : u[n] = s[n + 1]
  BY HeadTailProperties
<1>3. Len(s) <= Len(t) /\ \A n \in 1..Len(s) : s[n] = t[Len(t) - Len(s) + n]
  BY SuffixAt
<1> HIDE DEF u
<1>4. ASSUME NEW n \in 1..Len(u) PROVE u[n] = t[Len(t) - Len(u) + n]
  <2>1. n + 1 \in 1..Len(s) /\ Len(t) - Len(s) + (n + 1) = Len(t) - Len(u) + n
    BY <1>1, <1>2
  <2> QED BY <1>2, <1>3, <2>1
<1>5. Len(u) <= Len(t)
  BY <1>1, <1>2, <1>3
<1>6. IsSuffix(u, t)
  BY <1>2, <1>4, <1>5, SuffixAt
<1> QED BY <1>2, <1>6 DEF u

----------------------------------------------------------------------------
(* The types of the variables.                                             *)

FsEntry == [kind : {"entry"}, fields : Nat, src : Source, dest : Path, opts : Seq(STRING)]

\* fstab has entries, each with a destination that is a path.
LEMMA EntriesType ==
  ASSUME fstab \in Fstabs
  PROVE  Entries(fstab) \in Seq(FsEntry)
<1> DEFINE S == {l \in Line : ~Ignored(l)}
<1>1. fstab \in Seq(Line)
  BY FstabAssumption
<1>2. Entries(fstab) \in Seq(Line \cap S)
  <2>1. Only(fstab, S) \in Seq(Line \cap S)
    <3> HIDE DEF S
    <3> QED BY <1>1, OnlyType
  <2> QED BY <2>1 DEF Entries
<1>3. Line \cap S \subseteq FsEntry
  BY DEF Line, Ignored, FsEntry
<1> HIDE DEF S
<1> QED BY ONLY <1>2, <1>3, SeqMonotonic

\* The fixed paths of the code.
LEMMA SystemPaths ==
  /\ Special \subseteq Path /\ RunKickit \in Path /\ Root \in Path
  /\ << <<"proc">>, <<"sys">>, <<"dev">>, <<"run">>, <<"tmp">> >> \in Seq(Path)
  /\ << Root, <<"proc">>, <<"sys">>, <<"dev">>, <<"run">> >> \in Seq(Path)
<1>1. ASSUME NEW a \in Name PROVE <<a>> \in Path
  BY DEF Path
<1>2. ASSUME NEW a \in Name, NEW b \in Name PROVE <<a, b>> \in Path
  BY DEF Path
<1>3. ASSUME NEW a \in Name, NEW b \in Name, NEW c \in Name PROVE <<a, b, c>> \in Path
  BY DEF Path
<1>4. /\ "proc" \in Name /\ "sys" \in Name /\ "dev" \in Name /\ "run" \in Name /\ "tmp" \in Name
      /\ "pts" \in Name /\ "fs" \in Name /\ "cgroup" \in Name /\ "kickit" \in Name
  BY NameAssumption
<1>5. Root \in Path
  BY DEF Root, Path
<1>6. <<"proc">> \in Path /\ <<"sys">> \in Path /\ <<"dev">> \in Path /\ <<"run">> \in Path /\ <<"tmp">> \in Path
  BY <1>1, <1>4
<1>7. <<"dev", "pts">> \in Path /\ <<"run", "kickit">> \in Path /\ <<"sys", "fs", "cgroup">> \in Path
  BY <1>2, <1>3, <1>4
<1>8. Special \subseteq Path /\ RunKickit \in Path
  BY <1>6, <1>7 DEF Special, RunKickit
<1>9. ASSUME NEW a \in Path, NEW b \in Path, NEW c \in Path, NEW d \in Path, NEW e \in Path
      PROVE  << a, b, c, d, e >> \in Seq(Path)
  OBVIOUS
<1> QED BY <1>5, <1>6, <1>8, <1>9

Pcs == {"system", "fstab", "mount", "up", "fatal", "failed", "sweep", "swept"}

\* The types of the variables; what is left to mount or unmount is the rest of
\* the list that was read.
Typed ==
  /\ pid1 \in BOOLEAN /\ fstab \in Fstabs /\ pc \in Pcs
  /\ mounts \in Seq(Path) /\ table \in Seq(Path)
  /\ pc = "mount" => todo \in Seq(FsEntry) /\ IsSuffix(todo, Entries(fstab))
  /\ pc = "sweep" => todo \in Seq(Path) /\ IsSuffix(todo, table)
  /\ others \in 0..MaxOthers

\* A lazy unmount leaves a list of paths.
LEMMA DetachedType ==
  ASSUME NEW m \in Seq(Path), NEW i \in 1..Len(m)
  PROVE  Detached(m, i) \in Seq(Path)
<1> DEFINE a == SubSeq(m, 1, i - 1)
           b == SubSeq(m, i + 1, Len(m))
           N == {p \in Path : ~IsPrefix(m[i], p)}
<1>1. a \in Seq(Path) /\ b \in Seq(Path)
  BY BeforeAndAfter
<1>2. Detached(m, i) = a \o Only(b, N)
  BY DEF Detached
<1> HIDE DEF a, b, N
<1>3. Only(b, N) \in Seq(Path)
  BY <1>1, OnlyType
<1> QED BY <1>1, <1>2, <1>3

\* The types hold at first ...
LEMMA TypedInit == Init => Typed
BY SystemPaths, OthersAssumption DEF Init, Typed, Pcs

\* ... after every step ...
LEMMA TypedNext == Typed /\ [Next]_vars => Typed'
<1> SUFFICES ASSUME Typed, [Next]_vars PROVE Typed'
  OBVIOUS
<1> USE DEF Goto
<1>1. CASE MountSystem
  BY <1>1, SystemPaths, ConcatProperties DEF MountSystem, Typed, Pcs
<1>2. CASE ReadFstab
  <2>1. Entries(fstab) \in Seq(FsEntry)
    BY EntriesType DEF Typed
  <2>2. IsSuffix(Entries(fstab), Entries(fstab))
    BY <2>1, SuffixOfItself
  <2> QED BY <1>2, <2>1, <2>2 DEF ReadFstab, Typed, Pcs
<1>3. CASE BadFstab \/ MountFails \/ Mounted \/ ReadMountsFails \/ Swept
  BY <1>3 DEF BadFstab, MountFails, Mounted, ReadMountsFails, Swept, Typed, Pcs
<1>4. CASE MountEntry
  <2>1. todo \in Seq(FsEntry) /\ todo # << >> /\ IsSuffix(todo, Entries(fstab))
          /\ Entries(fstab) \in Seq(FsEntry)
    BY <1>4, EntriesType DEF MountEntry, Typed
  <2>2. Head(todo) \in FsEntry
    BY <2>1
  <2>3. mounts' \in Seq(Path)
    BY <1>4, <2>2 DEF MountEntry, Typed, FsEntry
  <2>4. Tail(todo) \in Seq(FsEntry) /\ IsSuffix(Tail(todo), Entries(fstab))
    BY <2>1, SuffixOfTail
  <2> QED BY <1>4, <2>3, <2>4 DEF MountEntry, Typed, Pcs
<1>5. CASE ServiceMounts
  <2>1. mounts' \in Seq(Path)
    BY <1>5, OthersAssumption DEF ServiceMounts, Typed
  <2>2. others' \in 0..MaxOthers
    BY <1>5, OthersAssumption DEF ServiceMounts, Typed
  <2> QED BY <1>5, <2>1, <2>2 DEF ServiceMounts, Typed, Pcs
<1>6. CASE ReadMounts
  <2>1. IsSuffix(mounts, mounts)
    BY SuffixOfItself DEF Typed
  <2> QED BY <1>6, <2>1 DEF ReadMounts, Typed, Pcs
<1>7. ASSUME pc = "sweep", todo # << >>, NextEntry, mounts' \in Seq(Path) PROVE Typed'
  <2>1. Tail(todo) \in Seq(Path) /\ IsSuffix(Tail(todo), table)
    BY <1>7, SuffixOfTail DEF Typed
  <2> QED BY <1>7, <2>1 DEF NextEntry, Typed, Pcs
<1>8. CASE SkipEntry
  BY <1>7, <1>8 DEF SkipEntry, Typed
<1>9. CASE UnmountEntry
  <2>1. mounts' \in Seq(Path)
    BY <1>9, RemoveAtProperties DEF UnmountEntry, Reached, Typed
  <2> QED BY <1>7, <1>9, <2>1 DEF UnmountEntry
<1>10. CASE UnmountLazily
  <2>1. mounts' \in Seq(Path)
    BY <1>10, DetachedType DEF UnmountLazily, Reached, Typed
  <2> QED BY <1>7, <1>10, <2>1 DEF UnmountLazily
<1>11. CASE UNCHANGED vars
  BY <1>11 DEF vars, Typed
<1> QED BY <1>1, <1>2, <1>3, <1>4, <1>5, <1>6, <1>8, <1>9, <1>10, <1>11 DEF Next

\* ... and so always.
LEMMA AlwaysTyped == Spec => []Typed
BY TypedInit, TypedNext, PTL DEF Spec

\* TypeOK: the types of the variables; a walk over fstab, and over the table at
\* power-off, has the end of its list still to do.
THEOREM MountsTypes == Spec => []TypeOK
<1>1. Typed => TypeOK
  BY DEF Typed, TypeOK, Pcs
<1> QED BY <1>1, AlwaysTyped, PTL

----------------------------------------------------------------------------
(* What is taken from the table and what stays there.                      *)

\* A path at or above another, component by component.
LEMMA PrefixAt ==
  ASSUME NEW p \in Path, NEW q \in Path
  PROVE  IsPrefix(p, q) <=> Len(p) <= Len(q) /\ \A k \in 1..Len(p) : p[k] = q[k]
<1> DEFINE l == Len(p)
           u == SubSeq(p, 1, l)
           v == SubSeq(q, 1, l)
<1>1. p \in Seq(Name) /\ q \in Seq(Name) /\ l \in Nat /\ Len(q) \in Nat
  BY DEF Path
<1>2. u \in Seq(Name) /\ Len(u) = l /\ \A k \in 1..l : u[k] = p[k]
  BY <1>1, SubSeqProperties
<1>3. ASSUME l <= Len(q) PROVE u = v <=> \A k \in 1..l : p[k] = q[k]
  <2>1. v \in Seq(Name) /\ Len(v) = l /\ \A k \in 1..l : v[k] = q[k]
    BY <1>1, <1>3, SubSeqProperties
  <2> HIDE DEF u, v
  <2>2. u = v <=> \A k \in 1..l : u[k] = v[k]
    BY <1>2, <2>1, SeqEqual
  <2> QED BY <1>2, <2>1, <2>2
<1> QED BY <1>3 DEF IsPrefix

\* Each path is at itself,
LEMMA PrefixReflexive == ASSUME NEW p \in Path PROVE IsPrefix(p, p)
BY PrefixAt DEF Path

\* what is above a path is above all below it,
LEMMA PrefixTransitive ==
  ASSUME NEW p \in Path, NEW q \in Path, NEW r \in Path, IsPrefix(p, q), IsPrefix(q, r)
  PROVE  IsPrefix(p, r)
<1>1. Len(p) \in Nat /\ Len(q) \in Nat /\ Len(r) \in Nat
  BY DEF Path
<1>2. Len(p) <= Len(q) /\ \A k \in 1..Len(p) : p[k] = q[k]
  BY PrefixAt
<1>3. Len(q) <= Len(r) /\ \A k \in 1..Len(q) : q[k] = r[k]
  BY PrefixAt
<1>4. Len(p) <= Len(r) /\ \A k \in 1..Len(p) : p[k] = r[k]
  BY <1>1, <1>2, <1>3
<1> QED BY <1>4, PrefixAt

\* and the root is above everything.
LEMMA RootIsPrefix == ASSUME NEW p \in Path PROVE IsPrefix(Root, p)
<1>1. Root \in Path /\ Len(Root) = 0 /\ Len(p) \in Nat
  BY DEF Root, Path
<1> QED BY <1>1, PrefixAt

\* Table t is a part of table m, in m's order, without mount i of it.
PartWithout(t, m, i) ==
  /\ \A k \in 1..Len(t) : \E a \in 1..Len(m) : a # i /\ t[k] = m[a]
  /\ \A k \in 1..Len(t) : \A l \in (k + 1)..Len(t) :
       \E a \in 1..Len(m) : \E b \in (a + 1)..Len(m) : t[k] = m[a] /\ t[l] = m[b]

\* An unmount takes one mount and keeps the order of the rest ...
LEMMA RemovedPart ==
  ASSUME NEW m \in Seq(Path), NEW i \in 1..Len(m)
  PROVE  RemoveAt(m, i) \in Seq(Path) /\ PartWithout(RemoveAt(m, i), m, i)
<1> DEFINE t == RemoveAt(m, i)
           At(k) == IF k < i THEN k ELSE k + 1
<1>1. /\ t \in Seq(Path) /\ Len(t) = Len(m) - 1 /\ Len(m) \in Nat
      /\ \A k \in 1..(Len(m) - 1) : t[k] = IF k < i THEN m[k] ELSE m[k + 1]
  BY RemoveAtProperties
<1> HIDE DEF t
<1>2. \A k \in 1..Len(t) : At(k) \in 1..Len(m) /\ At(k) # i /\ t[k] = m[At(k)]
  BY <1>1
<1>3. \A k \in 1..Len(t) : \A l \in (k + 1)..Len(t) : At(l) \in (At(k) + 1)..Len(m) /\ l \in 1..Len(t)
  BY <1>1
<1> HIDE DEF At
<1>4. PartWithout(t, m, i)
  BY <1>2, <1>3 DEF PartWithout
<1> QED BY <1>1, <1>4 DEF t

\* ... and so does a lazy one, which takes those below along: with each that
\* stays, those before it that stay keep their order.
LEMMA DetachedPart ==
  ASSUME NEW m \in Seq(Path), NEW i \in 1..Len(m)
  PROVE  PartWithout(Detached(m, i), m, i)
<1> DEFINE a == SubSeq(m, 1, i - 1)
           b == SubSeq(m, i + 1, Len(m))
           N == {p \in Path : ~IsPrefix(m[i], p)}
           o == Only(b, N)
           t == a \o o
           n == Len(m)
<1>1. /\ a \in Seq(Path) /\ Len(a) = i - 1 /\ \A k \in 1..(i - 1) : a[k] = m[k]
      /\ b \in Seq(Path) /\ Len(b) = n - i /\ \A k \in 1..(n - i) : b[k] = m[i + k]
      /\ n \in Nat
  BY BeforeAndAfter
<1>2. Detached(m, i) = t
  BY DEF Detached
<1> HIDE DEF a, b, N
<1>3. o \in Seq(Path)
  BY <1>1, OnlyType
<1>4. \A k \in 1..Len(o) : \A l \in (k + 1)..Len(o) :
        \E x \in 1..Len(b) : \E y \in (x + 1)..Len(b) : b[x] = o[k] /\ b[y] = o[l]
  <2>1. b \in Seq(Path)
    BY <1>1
  <2>2. ASSUME NEW k \in 1..Len(Only(b, N)), NEW l \in (k + 1)..Len(Only(b, N))
        PROVE  \E x \in 1..Len(b) : \E y \in (x + 1)..Len(b) :
                 b[x] = Only(b, N)[k] /\ b[y] = Only(b, N)[l]
    BY <2>1, OnlyOrder
  <2> QED BY <2>2
<1>5. \A k \in 1..Len(o) : \E x \in 1..Len(b) : o[k] = b[x]
  <2>1. Range(o) = Range(b) \cap N
    BY <1>1, OnlyRange
  <2> HIDE DEF o
  <2>2. \A k \in 1..Len(o) : o[k] \in Range(o)
    BY <1>3 DEF Range
  <2>3. \A p \in Range(b) : \E x \in 1..Len(b) : p = b[x]
    BY <1>1 DEF Range
  <2> QED BY <2>1, <2>2, <2>3
<1> HIDE DEF o
<1>6. /\ t \in Seq(Path) /\ Len(t) = Len(a) + Len(o)
      /\ \A k \in 1..Len(a) : t[k] = a[k]
      /\ \A k \in 1..Len(o) : t[Len(a) + k] = o[k]
  <2>1. a \in Seq(Path) /\ o \in Seq(Path) /\ t = a \o o
    BY <1>1, <1>3
  <2> HIDE DEF t
  <2> QED BY ONLY <2>1, ConcatAt
<1> HIDE DEF t, n
<1>7. Len(o) \in Nat
  BY <1>3
<1>8. ASSUME NEW k \in 1..Len(t)
      PROVE  \/ k < i /\ t[k] = m[k]
             \/ k >= i /\ k - i + 1 \in 1..Len(o) /\ t[k] = o[k - i + 1]
  <2>1. CASE k < i
    BY <1>1, <1>6, <2>1
  <2>2. CASE k >= i
    <3>1. k - i + 1 \in 1..Len(o) /\ Len(a) + (k - i + 1) = k
      BY <1>1, <1>6, <1>7, <2>2
    <3> QED BY <1>6, <2>2, <3>1
  <2> QED BY <2>1, <2>2
<1>9. ASSUME NEW k \in 1..Len(o) PROVE \E x \in (i + 1)..n : o[k] = m[x]
  <2>1. PICK x \in 1..Len(b) : o[k] = b[x]
    BY <1>5
  <2>2. i + x \in (i + 1)..n /\ b[x] = m[i + x]
    BY <1>1, <2>1
  <2> QED BY <2>1, <2>2
<1>10. ASSUME NEW k \in 1..Len(t) PROVE \E x \in 1..n : x # i /\ t[k] = m[x]
  <2>1. CASE k < i /\ t[k] = m[k]
    <3>1. k \in 1..n /\ k # i
      BY <1>1, <2>1 DEF n
    <3> QED BY <2>1, <3>1
  <2>2. CASE k >= i /\ k - i + 1 \in 1..Len(o) /\ t[k] = o[k - i + 1]
    <3>1. PICK x \in (i + 1)..n : o[k - i + 1] = m[x]
      BY <1>9, <2>2
    <3>2. x \in 1..n /\ x # i
      BY <1>1
    <3> QED BY <2>2, <3>1, <3>2
  <2> QED BY <1>8, <2>1, <2>2
<1>11. ASSUME NEW k \in 1..Len(t), NEW l \in (k + 1)..Len(t)
       PROVE  \E x \in 1..n : \E y \in (x + 1)..n : t[k] = m[x] /\ t[l] = m[y]
  <2>0. l \in 1..Len(t) /\ k < l /\ n \in Nat
    BY <1>1
  <2>1. CASE l < i
    <3>1. k < i
      BY <2>0, <2>1
    <3>2. t[k] = m[k] /\ t[l] = m[l]
      BY <1>8, <2>0, <2>1, <3>1
    <3>3. k \in 1..n /\ l \in (k + 1)..n
      BY <2>0, <2>1, <3>1 DEF n
    <3> QED BY <3>2, <3>3
  <2>2. CASE l >= i /\ k < i
    <3>1. t[k] = m[k] /\ l - i + 1 \in 1..Len(o) /\ t[l] = o[l - i + 1]
      BY <1>8, <2>0, <2>2
    <3>2. PICK y \in (i + 1)..n : o[l - i + 1] = m[y]
      BY <1>9, <3>1
    <3>3. k \in 1..n /\ y \in (k + 1)..n
      BY <2>0, <2>2 DEF n
    <3> QED BY <3>1, <3>2, <3>3
  <2>3. CASE k >= i
    <3>1. l >= i
      BY <2>0, <2>3
    <3>2. /\ k - i + 1 \in 1..Len(o) /\ t[k] = o[k - i + 1]
          /\ l - i + 1 \in 1..Len(o) /\ t[l] = o[l - i + 1]
      BY <1>8, <2>0, <2>3, <3>1
    <3>3. l - i + 1 \in ((k - i + 1) + 1)..Len(o)
      BY <2>0, <3>2
    <3>4. PICK x \in 1..Len(b) : \E y \in (x + 1)..Len(b) : b[x] = o[k - i + 1] /\ b[y] = o[l - i + 1]
      BY <1>4, <3>2, <3>3
    <3>5. PICK y \in (x + 1)..Len(b) : b[x] = o[k - i + 1] /\ b[y] = o[l - i + 1]
      BY <3>4
    <3>6. /\ i + x \in 1..n /\ i + y \in ((i + x) + 1)..n
          /\ b[x] = m[i + x] /\ b[y] = m[i + y]
      BY <1>1
    <3> QED BY <3>2, <3>5, <3>6
  <2> QED BY <2>0, <2>1, <2>2, <2>3
<1> QED BY <1>2, <1>10, <1>11 DEF PartWithout, n

\* A part of a table hides nothing when the table does not.
LEMMA PartHidesNone ==
  ASSUME NEW t, NEW m, NEW i, PartWithout(t, m, i), NoneHiddenIn(m)
  PROVE  NoneHiddenIn(t)
BY DEF PartWithout, NoneHiddenIn

\* A mount that is not selected may go, with all that is on it, if nothing that is
\* selected is on it.
LEMMA RemovedOnly ==
  ASSUME NEW m \in Seq(Path), NEW i \in 1..Len(m), NEW S, m[i] \notin S
  PROVE  Only(RemoveAt(m, i), S) = Only(m, S)
<1> DEFINE a == SubSeq(m, 1, i - 1)
           b == SubSeq(m, i + 1, Len(m))
<1>1. a \in Seq(Path) /\ b \in Seq(Path)
  BY BeforeAndAfter
<1>2. Only(a, S) \o Only(b, S) = Only(m, S)
  BY OnlyWithout
<1>3. RemoveAt(m, i) = a \o b
  BY DEF RemoveAt
<1> HIDE DEF a, b
<1>4. Only(a \o b, S) = Only(a, S) \o Only(b, S)
  BY <1>1, OnlyConcat
<1> QED BY <1>2, <1>3, <1>4

\* A lazy unmount takes nothing of a set that has no path below the mount.
LEMMA DetachedOnly ==
  ASSUME NEW m \in Seq(Path), NEW i \in 1..Len(m), NEW S, m[i] \notin S,
         \A p \in Path \cap S : ~IsPrefix(m[i], p)
  PROVE  Only(Detached(m, i), S) = Only(m, S)
<1> DEFINE a == SubSeq(m, 1, i - 1)
           b == SubSeq(m, i + 1, Len(m))
           N == {p \in Path : ~IsPrefix(m[i], p)}
           o == Only(b, N)
<1>1. a \in Seq(Path) /\ b \in Seq(Path)
  BY BeforeAndAfter
<1>2. Only(a, S) \o Only(b, S) = Only(m, S)
  BY OnlyWithout
<1>3. Detached(m, i) = a \o o
  BY DEF Detached
<1>4. Path \cap (N \cap S) = Path \cap S
  OBVIOUS
<1> HIDE DEF a, b, N
<1>5. o \in Seq(Path)
  BY <1>1, OnlyType
<1>6. Only(o, S) = Only(b, N \cap S)
  BY <1>1, OnlyTwice
<1>7. Only(b, N \cap S) = Only(b, S)
  BY <1>1, <1>4, OnlySame
<1> HIDE DEF o
<1>8. Only(a \o o, S) = Only(a, S) \o Only(o, S)
  BY <1>1, <1>5, OnlyConcat
<1> QED BY <1>2, <1>3, <1>6, <1>7, <1>8

----------------------------------------------------------------------------
(* The sweep at power-off.                                                 *)

\* What is mounted was there when the table was read, and is hidden no more than
\* then; what is neither special nor the root is still to be unmounted; and what
\* the walk skips is left as it was.
Sweeping ==
  pc \in {"sweep", "swept"} =>
    /\ \A i \in 1..Len(mounts) : mounts[i] \in Range(table)
    /\ NoneHidden => NoneHiddenIn(mounts)
    /\ pid1 /\ NoneHidden =>
         \A i \in 1..Len(mounts) :
           mounts[i] \in Special \cup {Root} \/ (pc = "sweep" /\ mounts[i] \in Range(todo))
    /\ NoneHidden /\ SpecialFree /\ mounts # << >> => Only(mounts, Special) = Only(table, Special)
    /\ ~pid1 => Only(mounts, Foreign) = Only(table, Foreign)

\* The table that is read is the mounts there are.
LEMMA SweepBegins ==
  ASSUME Typed, ReadMounts
  PROVE  Sweeping'
<1>1. mounts' = mounts /\ table' = mounts /\ todo' = mounts /\ pc' = "sweep" /\ pid1' = pid1
  BY DEF ReadMounts, Goto
<1>2. \A i \in 1..Len(mounts) : mounts[i] \in Range(mounts)
  BY DEF Typed, Range
<1> QED BY <1>1, <1>2 DEF Sweeping, NoneHidden

\* Detaching the root leaves nothing.
LEMMA DetachedRoot ==
  ASSUME NEW m \in Seq(Path), 1 \in 1..Len(m), m[1] = Root
  PROVE  Detached(m, 1) = << >>
<1> DEFINE a == SubSeq(m, 1, 0)
           b == SubSeq(m, 2, Len(m))
           N == {p \in Path : ~IsPrefix(m[1], p)}
           o == Only(b, N)
<1>1. a = << >>
  BY SubSeqEmpty
<1>2. b \in Seq(Path)
  BY SubSeqProperties
<1>3. Detached(m, 1) = a \o o
  BY DEF Detached
<1>4. N = {}
  BY RootIsPrefix
<1> HIDE DEF a, b, N
<1>5. o \in Seq(Path \cap N)
  BY <1>2, OnlyType
<1> HIDE DEF o
<1>6. o = << >>
  <2>1. o \in Seq({})
    BY <1>4, <1>5
  <2>2. Len(o) = 0
    <3>1. Len(o) \in Nat
      BY <2>1
    <3>2. CASE Len(o) > 0
      <4>1. 1 \in 1..Len(o)
        BY <3>1, <3>2
      <4>2. o[1] \in {}
        BY <2>1, <4>1, ElementOfSeq
      <4> QED BY <4>2
    <3> QED BY <3>1, <3>2
  <2> QED BY <2>1, <2>2
<1> QED BY <1>1, <1>3, <1>6

\* An entry that is unmounted, lazily or not: the mounts that are left are those
\* still to come, the special ones and the root.
LEMMA SweepTakes ==
  ASSUME Typed, Sweeping, pc = "sweep", todo # << >>, NextEntry, ~Skip(Head(todo)),
         NEW i \in 1..Len(mounts), mounts[i] = Head(todo),
         \/ mounts' = RemoveAt(mounts, i) /\ Head(todo) # Root
         \/ mounts' = Detached(mounts, i)
  PROVE  Sweeping'
<1> DEFINE h == Head(todo)
<1>1. /\ pc' = pc /\ table' = table /\ pid1' = pid1 /\ todo' = Tail(todo)
      /\ mounts \in Seq(Path) /\ table \in Seq(Path) /\ todo \in Seq(Path)
  BY DEF NextEntry, Typed
<1>2. h \in Path /\ h = todo[1] /\ mounts[i] = h
  BY <1>1
<1>3. h \notin Special /\ (~pid1 => IsPrefix(RunKickit, h))
  BY <1>2 DEF Skip, Foreign
<1>4. mounts' \in Seq(Path) /\ PartWithout(mounts', mounts, i)
  BY <1>1, RemovedPart, DetachedPart, DetachedType
<1> HIDE DEF h
<1>5. \A k \in 1..Len(mounts') : \E a \in 1..Len(mounts) : a # i /\ mounts'[k] = mounts[a]
  BY <1>4 DEF PartWithout
<1>6. \A k \in 1..Len(mounts') : mounts'[k] \in Range(table')
  BY <1>1, <1>5 DEF Sweeping
<1>7. NoneHidden => NoneHiddenIn(mounts) /\ NoneHiddenIn(mounts')
  BY <1>4, PartHidesNone DEF Sweeping
<1>8. NoneHidden' = NoneHidden /\ SpecialFree' = SpecialFree
  BY <1>1 DEF NoneHidden, SpecialFree
<1>9. ASSUME pid1, NoneHidden, NEW k \in 1..Len(mounts')
      PROVE  mounts'[k] \in Special \cup {Root} \/ mounts'[k] \in Range(todo')
  <2>1. PICK a \in 1..Len(mounts) : a # i /\ mounts'[k] = mounts[a]
    BY <1>5
  <2>2. mounts[a] # h
    <3>1. IsPrefix(h, h)
      BY <1>2, PrefixReflexive
    <3>2. a < i => ~IsPrefix(mounts[i], mounts[a])
      BY <1>1, <1>7, <1>9 DEF NoneHiddenIn
    <3>3. a > i => ~IsPrefix(mounts[a], mounts[i])
      BY <1>1, <1>7, <1>9 DEF NoneHiddenIn
    <3>4. a < i \/ a > i
      BY <2>1
    <3> QED BY <1>2, <3>1, <3>2, <3>3, <3>4
  <2>3. mounts[a] \in Special \cup {Root} \/ mounts[a] \in Range(todo)
    BY <1>9 DEF Sweeping
  <2>4. ASSUME mounts[a] \in Range(todo) PROVE mounts[a] \in Range(Tail(todo))
    <3>1. DOMAIN todo = 1..Len(todo) /\ Len(todo) \in Nat
      BY <1>1
    <3>2. PICK n \in 1..Len(todo) : mounts[a] = todo[n]
      BY <2>4, <3>1 DEF Range
    <3>3. n # 1
      BY <1>2, <2>2, <3>2
    <3>4. Tail(todo) \in Seq(Path) /\ Len(Tail(todo)) = Len(todo) - 1
            /\ \A j \in 1..Len(Tail(todo)) : Tail(todo)[j] = todo[j + 1]
      BY <1>1, HeadTailProperties
    <3>5. n - 1 \in 1..Len(Tail(todo)) /\ Tail(todo)[n - 1] = todo[n]
      BY <3>1, <3>2, <3>3, <3>4
    <3>6. DOMAIN Tail(todo) = 1..Len(Tail(todo))
      BY <3>4
    <3> QED BY <3>2, <3>5, <3>6 DEF Range
  <2> QED BY <1>1, <2>1, <2>3, <2>4
<1>10. ASSUME NEW S, h \notin S, \A p \in Path \cap S : ~IsPrefix(h, p)
       PROVE  Only(mounts', S) = Only(mounts, S)
  BY <1>1, <1>2, <1>10, RemovedOnly, DetachedOnly
<1>11. ASSUME NoneHidden, SpecialFree, mounts' # << >> PROVE Only(mounts', Special) = Only(table', Special)
  <2>1. mounts # << >>
    BY <1>1
  <2>2. Only(mounts, Special) = Only(table, Special)
    BY <1>11, <2>1 DEF Sweeping
  <2>3. CASE h # Root
    <3>1. h \in Range(table)
      BY <1>2 DEF Sweeping
    <3>2. \A q \in Special : ~IsPrefix(h, q)
      BY <1>3, <1>11, <2>3, <3>1 DEF SpecialFree
    <3> QED BY <1>1, <1>3, <1>10, <2>2, <3>2
  <2>4. CASE h = Root
    <3>1. NoneHiddenIn(mounts) /\ 1 \in 1..Len(mounts) /\ mounts[1] \in Path
      BY <1>1, <1>7, <1>11
    <3>2. i = 1
      <4>1. IsPrefix(mounts[i], mounts[1])
        BY <1>2, <2>4, <3>1, RootIsPrefix
      <4>2. i # 1 => i \in 2..Len(mounts)
        OBVIOUS
      <4> QED BY <3>1, <4>1, <4>2 DEF NoneHiddenIn
    <3>3. mounts' = Detached(mounts, i)
      BY <2>4 DEF h
    <3>4. mounts' = << >>
      BY <1>1, <1>2, <2>4, <3>1, <3>2, <3>3, DetachedRoot
    <3> QED BY <1>11, <3>4
  <2> QED BY <2>3, <2>4
<1>12. ASSUME ~pid1 PROVE Only(mounts', Foreign) = Only(table', Foreign)
  <2>1. IsPrefix(RunKickit, h)
    BY <1>3, <1>12
  <2>2. \A p \in Path \cap Foreign : ~IsPrefix(h, p)
    BY <1>2, <2>1, SystemPaths, PrefixTransitive DEF Foreign
  <2>3. h \notin Foreign
    BY <2>1 DEF Foreign
  <2>4. Only(mounts', Foreign) = Only(mounts, Foreign)
    BY <1>10, <2>2, <2>3
  <2> QED BY <1>1, <1>12, <2>4 DEF Sweeping
<1> QED BY <1>1, <1>6, <1>7, <1>8, <1>9, <1>11, <1>12 DEF Sweeping

\* The head is not mounted, is skipped, or is the root, which is made read-only.
LEMMA SweepLeaves ==
  ASSUME Typed, Sweeping, pc = "sweep", todo # << >>, NextEntry, mounts' = mounts,
         \/ Head(todo) \in Special \cup {Root}
         \/ ~pid1
         \/ Reached(mounts, Head(todo)) = {}
  PROVE  Sweeping'
<1>1. /\ pc' = pc /\ table' = table /\ pid1' = pid1 /\ todo' = Tail(todo)
      /\ mounts \in Seq(Path) /\ todo \in Seq(Path)
  BY DEF NextEntry, Typed
<1>2. NoneHidden' = NoneHidden /\ SpecialFree' = SpecialFree
  BY <1>1 DEF NoneHidden, SpecialFree
<1>3. ASSUME pid1, NoneHidden, NEW k \in 1..Len(mounts)
      PROVE  mounts[k] \in Special \cup {Root} \/ mounts[k] \in Range(todo')
  <2>1. mounts[k] \in Special \cup {Root} \/ mounts[k] \in Range(todo)
    BY <1>3 DEF Sweeping
  <2>2. CASE mounts[k] = Head(todo)
    <3>1. NoneHiddenIn(mounts)
      BY <1>3 DEF Sweeping
    <3>2. \A j \in (k + 1)..Len(mounts) : ~IsPrefix(mounts[j], mounts[k])
      BY <3>1 DEF NoneHiddenIn
    <3>3. k \in Reached(mounts, Head(todo))
      BY <2>2, <3>2 DEF Reached
    <3> QED BY <1>3, <2>2, <3>3
  <2>3. ASSUME mounts[k] # Head(todo), mounts[k] \in Range(todo) PROVE mounts[k] \in Range(Tail(todo))
    <3>1. DOMAIN todo = 1..Len(todo) /\ Len(todo) \in Nat /\ Head(todo) = todo[1]
      BY <1>1
    <3>2. PICK n \in 1..Len(todo) : mounts[k] = todo[n]
      BY <2>3, <3>1 DEF Range
    <3>3. n # 1
      BY <2>3, <3>1, <3>2
    <3>4. Tail(todo) \in Seq(Path) /\ Len(Tail(todo)) = Len(todo) - 1
            /\ \A j \in 1..Len(Tail(todo)) : Tail(todo)[j] = todo[j + 1]
      BY <1>1, HeadTailProperties
    <3>5. n - 1 \in 1..Len(Tail(todo)) /\ Tail(todo)[n - 1] = todo[n]
      BY <3>1, <3>2, <3>3, <3>4
    <3>6. DOMAIN Tail(todo) = 1..Len(Tail(todo))
      BY <3>4
    <3> QED BY <3>2, <3>5, <3>6 DEF Range
  <2> QED BY <1>1, <2>1, <2>2, <2>3
<1> QED BY <1>1, <1>2, <1>3 DEF Sweeping

\* What is known of the sweep is kept by every step ...
LEMMA SweepingNext == Typed /\ Sweeping /\ [Next]_vars => Sweeping'
<1> SUFFICES ASSUME Typed, Sweeping, [Next]_vars PROVE Sweeping'
  OBVIOUS
<1> USE DEF Goto
<1>1. CASE MountSystem \/ ReadFstab \/ BadFstab \/ MountEntry \/ MountFails \/ Mounted
             \/ ServiceMounts \/ ReadMountsFails
  BY <1>1 DEF Sweeping, MountSystem, ReadFstab, BadFstab, MountEntry, MountFails, Mounted,
              ServiceMounts, ReadMountsFails
<1>2. CASE ReadMounts
  BY <1>2, SweepBegins
<1>3. CASE SkipEntry
  BY <1>3, SweepLeaves DEF SkipEntry, Skip
<1>4. CASE UnmountEntry
  <2>1. PICK i \in Reached(mounts, Head(todo)) :
          IF Head(todo) = Root THEN UNCHANGED mounts ELSE mounts' = RemoveAt(mounts, i)
    BY <1>4 DEF UnmountEntry
  <2>2. CASE Head(todo) = Root
    BY <1>4, <2>1, <2>2, SweepLeaves DEF UnmountEntry
  <2>3. CASE Head(todo) # Root
    BY <1>4, <2>1, <2>3, SweepTakes DEF UnmountEntry, Reached
  <2> QED BY <2>2, <2>3
<1>5. CASE UnmountLazily
  <2>1. CASE Reached(mounts, Head(todo)) = {}
    BY <1>5, <2>1, SweepLeaves DEF UnmountLazily
  <2>2. CASE Reached(mounts, Head(todo)) # {}
    <3> DEFINE i == CHOOSE i \in Reached(mounts, Head(todo)) : TRUE
    <3>1. i \in Reached(mounts, Head(todo))
      BY <2>2
    <3>2. mounts' = Detached(mounts, i)
      BY <1>5, <2>2 DEF UnmountLazily
    <3> HIDE DEF i
    <3> QED BY <1>5, <3>1, <3>2, SweepTakes DEF UnmountLazily, Reached
  <2> QED BY <2>1, <2>2
<1>6. CASE Swept
  BY <1>6 DEF Sweeping, Swept, NoneHidden, SpecialFree, Typed, Range
<1>7. CASE UNCHANGED vars
  BY <1>7 DEF Sweeping, vars, NoneHidden, SpecialFree
<1> QED BY <1>1, <1>2, <1>3, <1>4, <1>5, <1>6, <1>7 DEF Next

\* ... and so always holds.
LEMMA AlwaysSweeping == Spec => []Sweeping
<1>1. Init => Sweeping
  BY DEF Init, Sweeping
<1> QED BY <1>1, AlwaysTyped, SweepingNext, PTL DEF Spec

\* SweepDetaches: after the sweep of the init nothing but the special file systems
\* and the root is mounted, when no mount hid another.
THEOREM SweepIsComplete == Spec => []SweepDetaches
<1>1. Sweeping => SweepDetaches
  BY DEF Sweeping, SweepDetaches
<1> QED BY <1>1, AlwaysSweeping, PTL

\* SpecialStay: the special file systems stay mounted in their order.
THEOREM SpecialStayMounted == Spec => []SpecialStay
<1>1. Sweeping => SpecialStay
  BY DEF Sweeping, SpecialStay
<1> QED BY <1>1, AlwaysSweeping, PTL

\* ForeignMountsStay: beside another init nothing outside of /run/kickit is unmounted.
THEOREM ForeignStayMounted == Spec => []ForeignMountsStay
<1>1. Sweeping => ForeignMountsStay
  BY DEF Sweeping, ForeignMountsStay
<1> QED BY <1>1, AlwaysSweeping, PTL

----------------------------------------------------------------------------
(* The root file system and its entry in /etc/fstab.                       *)

\* Whether o is among the first n options, and the bits of those that are.
Seen(s, n, o) == IF \E k \in 1..n : s[k] = o THEN 1 ELSE 0
Bits(s, n) ==
  Seen(s, n, "ro") + 2 * Seen(s, n, "nosuid") + 4 * Seen(s, n, "nodev")
    + 8 * Seen(s, n, "noexec") + 4096 * Seen(s, n, "bind") + 262144 * Seen(s, n, "private")

\* Every flag at most once, and no remount.
FlagsOnce(s) ==
  /\ \A i, j \in 1..Len(s) : i # j /\ s[i] = s[j] => s[i] \notin FlagNames
  /\ \A i \in 1..Len(s) : s[i] # "remount"

\* The bits of the options that are flags.
LEMMA BitsOfFlags ==
  /\ Bit("ro") = 1 /\ Bit("nosuid") = 2 /\ Bit("nodev") = 4 /\ Bit("noexec") = 8
  /\ Bit("remount") = 32 /\ Bit("bind") = 4096 /\ Bit("private") = 262144
  /\ \A o : o \notin FlagNames => Bit(o) = 0
BY DEF Bit, FlagNames

\* One option more adds its bit, which was not there yet.
LEMMA BitsStep ==
  ASSUME NEW s \in Seq(STRING), FlagsOnce(s), NEW n \in 1..Len(s)
  PROVE  Bits(s, n) = Bits(s, n - 1) + Bit(s[n])
<1>1. \A o : Seen(s, n, o) \in {0, 1} /\ Seen(s, n - 1, o) \in {0, 1}
  BY DEF Seen
<1>2. ASSUME NEW o, s[n] # o PROVE Seen(s, n, o) = Seen(s, n - 1, o)
  <2>1. (\E k \in 1..n : s[k] = o) <=> (\E k \in 1..(n - 1) : s[k] = o)
    BY <1>2
  <2> QED BY <2>1 DEF Seen
<1>3. ASSUME s[n] \in FlagNames PROVE Seen(s, n, s[n]) = 1 /\ Seen(s, n - 1, s[n]) = 0
  <2>1. \A k \in 1..(n - 1) : k \in 1..Len(s) /\ k # n
    OBVIOUS
  <2>2. ~\E k \in 1..(n - 1) : s[k] = s[n]
    BY <1>3, <2>1 DEF FlagsOnce
  <2> QED BY <2>2 DEF Seen
<1>4. s[n] # "remount"
  BY DEF FlagsOnce
<1> DEFINE o == s[n]
           New(f) == Seen(s, n, f)
           Old(f) == Seen(s, n - 1, f)
<1>5. \A f : f # o => New(f) = Old(f)
  BY <1>2
<1>6. o \in FlagNames => New(o) = 1 /\ Old(o) = 0
  BY <1>3
<1>7. \A f : New(f) \in {0, 1} /\ Old(f) \in {0, 1}
  BY <1>1
<1>8. /\ Bits(s, n) = New("ro") + 2 * New("nosuid") + 4 * New("nodev") + 8 * New("noexec")
                        + 4096 * New("bind") + 262144 * New("private")
      /\ Bits(s, n - 1) = Old("ro") + 2 * Old("nosuid") + 4 * Old("nodev") + 8 * Old("noexec")
                            + 4096 * Old("bind") + 262144 * Old("private")
  BY DEF Bits
<1>9. o # "remount"
  BY <1>4
<1> HIDE DEF o, New, Old
<1> DEFINE One(f) == IF o = f THEN 1 ELSE 0
<1>10. \A f : Old(f) \in Int /\ One(f) \in Int
  BY <1>7
<1>11. /\ New("ro") = Old("ro") + One("ro") /\ New("nosuid") = Old("nosuid") + One("nosuid")
       /\ New("nodev") = Old("nodev") + One("nodev") /\ New("noexec") = Old("noexec") + One("noexec")
       /\ New("bind") = Old("bind") + One("bind") /\ New("private") = Old("private") + One("private")
  BY <1>5, <1>6, <1>7 DEF FlagNames
<1>12. Bit(o) = One("ro") + 2 * One("nosuid") + 4 * One("nodev") + 8 * One("noexec")
                  + 4096 * One("bind") + 262144 * One("private")
  BY <1>9, BitsOfFlags, SMT DEF FlagNames
<1> HIDE DEF One
<1>13. Bits(s, n) = Bits(s, n - 1) + Bit(o)
  <2> DEFINE a == Old("ro")
             b == Old("nosuid")
             c == Old("nodev")
             d == Old("noexec")
             e == Old("bind")
             f == Old("private")
             u == One("ro")
             v == One("nosuid")
             w == One("nodev")
             x == One("noexec")
             y == One("bind")
             z == One("private")
  <2>1. /\ a \in Int /\ b \in Int /\ c \in Int /\ d \in Int /\ e \in Int /\ f \in Int
        /\ u \in Int /\ v \in Int /\ w \in Int /\ x \in Int /\ y \in Int /\ z \in Int
    BY <1>10
  <2>2. Bits(s, n) = (a + u) + 2 * (b + v) + 4 * (c + w) + 8 * (d + x) + 4096 * (e + y) + 262144 * (f + z)
    BY <1>8, <1>11, SMT
  <2>3. /\ Bits(s, n - 1) = a + 2 * b + 4 * c + 8 * d + 4096 * e + 262144 * f
        /\ Bit(o) = u + 2 * v + 4 * w + 8 * x + 4096 * y + 262144 * z
    BY <1>8, <1>12, SMT
  <2> HIDE DEF a, b, c, d, e, f, u, v, w, x, y, z
  <2> QED BY ONLY <2>1, <2>2, <2>3, SMT
<1> QED BY <1>13 DEF o

\* The sum over the options is the set of their bits: induction.
LEMMA SumIsBits ==
  ASSUME NEW s \in Seq(STRING), FlagsOnce(s)
  PROVE  Sum(s) = Bits(s, Len(s))
<1> DEFINE P(g) == g = [n \in 0..Len(s) |-> IF n = 0 THEN 0 ELSE g[n - 1] + Bit(s[n])]
           f == [n \in 0..Len(s) |-> Bits(s, n)]
           sum == CHOOSE g : P(g)
<1>1. P(f)
  <2>1. f[0] = 0
    BY DEF Bits, Seen
  <2>2. ASSUME NEW n \in 0..Len(s) PROVE f[n] = IF n = 0 THEN 0 ELSE f[n - 1] + Bit(s[n])
    <3>1. CASE n = 0
      BY <2>1, <3>1
    <3>2. CASE n # 0
      <4>1. n \in 1..Len(s) /\ n - 1 \in 0..Len(s)
        BY <3>2
      <4>2. Bits(s, n) = Bits(s, n - 1) + Bit(s[n])
        BY <4>1, BitsStep
      <4>3. f[n] = Bits(s, n) /\ f[n - 1] = Bits(s, n - 1)
        BY <4>1
      <4> HIDE DEF f
      <4> QED BY <3>2, <4>2, <4>3
    <3> QED BY <3>1, <3>2
  <2>3. f = [n \in 0..Len(s) |-> f[n]]
    OBVIOUS
  <2> HIDE DEF f
  <2> QED BY <2>2, <2>3
<1>2. P(sum)
  <2> HIDE DEF P, f
  <2> QED BY <1>1
<1>3. Sum(s) = sum[Len(s)]
  BY DEF Sum
<1>4. f[Len(s)] = Bits(s, Len(s))
  OBVIOUS
<1> DEFINE B == {m \in Nat : m <= Len(s) => sum[m] = f[m]}
<1> HIDE DEF sum, f
<1>5. 0 \in B
  BY <1>1, <1>2
<1>6. ASSUME NEW m \in Nat, m \in B PROVE m + 1 \in B
  <2>1. SUFFICES ASSUME m + 1 <= Len(s) PROVE sum[m + 1] = f[m + 1]
    OBVIOUS
  <2>2. sum[m] = f[m] /\ m + 1 \in 0..Len(s) /\ m + 1 # 0 /\ (m + 1) - 1 = m
    BY <1>6, <2>1
  <2>3. sum[m + 1] = sum[(m + 1) - 1] + Bit(s[m + 1])
    BY <1>2, <2>2
  <2>4. f[m + 1] = f[(m + 1) - 1] + Bit(s[m + 1])
    BY <1>1, <2>2
  <2> QED BY <2>2, <2>3, <2>4
<1>7. Len(s) \in B
  <2>1. Nat \subseteq B
    <3> HIDE DEF B
    <3> QED BY <1>5, <1>6, SetInduction
  <2> QED BY <2>1
<1> QED BY <1>3, <1>4, <1>7

\* Without a flag given twice, an entry for the root remounts it.
LEMMA RootIsRemounted ==
  ASSUME NEW e \in FsEntry, e.dest = Root, ~RepeatsFlag(e)
  PROVE  HasBit(FlagsOf(e), 32)
<1> DEFINE s == e.opts
           low == Seen(s, Len(s), "ro") + 2 * Seen(s, Len(s), "nosuid")
                    + 4 * Seen(s, Len(s), "nodev") + 8 * Seen(s, Len(s), "noexec")
           bind == Seen(s, Len(s), "bind")
           private == Seen(s, Len(s), "private")
<1>1. s \in Seq(STRING)
  BY DEF FsEntry
<1>2. FlagsOnce(s)
  BY DEF RepeatsFlag, FlagsOnce
<1>3. Sum(s) = low + 4096 * bind + 262144 * private
  BY <1>1, <1>2, SumIsBits DEF Bits
<1>4. FlagsOf(e) = Sum(s) + 32
  BY BitsOfFlags DEF FlagsOf
<1>5. low \in 0..15 /\ bind \in {0, 1} /\ private \in {0, 1}
  BY DEF Seen
<1> HIDE DEF low, bind, private, s
<1>6. FlagsOf(e) = 32 * (1 + 128 * bind + 8192 * private) + low
  BY <1>3, <1>4, <1>5
<1>7. FlagsOf(e) \div 32 = 1 + 128 * bind + 8192 * private
  BY <1>5, <1>6
<1>8. (1 + 128 * bind + 8192 * private) % 2 = 1
  BY <1>5
<1> QED BY <1>7, <1>8 DEF HasBit

\* Nothing that is mounted after the first file system is a root.
RootKept ==
  pid1 /\ Root \notin Others /\ (\A n \in 1..Len(Entries(fstab)) : ~RepeatsFlag(Entries(fstab)[n])) =>
    \A i \in 2..Len(mounts) : mounts[i] # Root

\* Taking mounts away keeps the others' order.
LEMMA PartHasOneRoot ==
  ASSUME NEW t \in Seq(Path), NEW m \in Seq(Path), NEW i, PartWithout(t, m, i),
         \A k \in 2..Len(m) : m[k] # Root
  PROVE  \A k \in 2..Len(t) : t[k] # Root
<1> SUFFICES ASSUME NEW k \in 2..Len(t) PROVE t[k] # Root
  OBVIOUS
<1>1. 1 \in 1..Len(t) /\ k \in (1 + 1)..Len(t)
  OBVIOUS
<1>2. PICK a \in 1..Len(m) : \E b \in (a + 1)..Len(m) : t[1] = m[a] /\ t[k] = m[b]
  BY <1>1 DEF PartWithout
<1>3. PICK b \in (a + 1)..Len(m) : t[k] = m[b]
  BY <1>2
<1>4. b \in 2..Len(m)
  BY <1>2
<1> QED BY <1>3, <1>4

\* No step mounts a second root.
LEMMA RootKeptNext == Typed /\ RootKept /\ [Next]_vars => RootKept'
<1> SUFFICES ASSUME Typed, RootKept, [Next]_vars PROVE RootKept'
  OBVIOUS
<1> DEFINE Given == /\ pid1 /\ Root \notin Others
                    /\ \A n \in 1..Len(Entries(fstab)) : ~RepeatsFlag(Entries(fstab)[n])
<1>1. UNCHANGED <<pid1, fstab>>
  BY DEF Next, MountSystem, ReadFstab, BadFstab, MountEntry, MountFails, Mounted, ServiceMounts,
         ReadMounts, ReadMountsFails, SkipEntry, UnmountEntry, UnmountLazily, Swept, NextEntry, vars
<1>2. mounts \in Seq(Path)
  BY DEF Typed
<1>3. SUFFICES ASSUME Given PROVE \A i \in 2..Len(mounts') : mounts'[i] # Root
  BY <1>1 DEF RootKept
<1>4. \A i \in 2..Len(mounts) : mounts[i] # Root
  BY <1>3 DEF RootKept
<1>5. ASSUME NEW p \in Path, p # Root, mounts' = Append(mounts, p)
      PROVE  \A i \in 2..Len(mounts') : mounts'[i] # Root
  BY <1>2, <1>4, <1>5
<1>6. CASE mounts' = mounts
  BY <1>4, <1>6
<1>7. CASE MountSystem
  <2> DEFINE five == << <<"proc">>, <<"sys">>, <<"dev">>, <<"run">>, <<"tmp">> >>
  <2>1. mounts' = mounts \o five
    BY <1>7 DEF MountSystem
  <2>2. five \in Seq(Path) /\ Len(five) = 5
    BY SystemPaths
  <2>3. \A k \in 1..5 : five[k] # Root
    <3>1. \A k \in 1..5 : Len(five[k]) = 1
      OBVIOUS
    <3> HIDE DEF five
    <3> QED BY <3>1 DEF Root
  <2> HIDE DEF five
  <2>4. /\ Len(mounts') = Len(mounts) + 5
        /\ \A k \in 1..Len(mounts) : mounts'[k] = mounts[k]
        /\ \A k \in 1..5 : mounts'[Len(mounts) + k] = five[k]
    <3>1. mounts \in Seq(Path) /\ five \in Seq(Path) /\ mounts' = mounts \o five
      BY <1>2, <2>1, <2>2
    <3>2. /\ Len(mounts') = Len(mounts) + Len(five)
          /\ \A k \in 1..Len(mounts) : mounts'[k] = mounts[k]
          /\ \A k \in 1..Len(five) : mounts'[Len(mounts) + k] = five[k]
      BY ONLY <3>1, ConcatAt
    <3> QED BY <2>2, <3>2
  <2>5. ASSUME NEW i \in 2..Len(mounts') PROVE mounts'[i] # Root
    <3>1. CASE i <= Len(mounts)
      BY <1>2, <1>4, <2>4, <3>1
    <3>2. CASE i > Len(mounts)
      <4>1. i - Len(mounts) \in 1..5 /\ Len(mounts) + (i - Len(mounts)) = i
        BY <1>2, <2>4, <3>2
      <4> QED BY <2>3, <2>4, <4>1
    <3> QED BY <1>2, <3>1, <3>2
  <2> QED BY <2>5
<1>8. CASE MountEntry
  <2> DEFINE es == Entries(fstab)
             h == Head(todo)
  <2>1. pc = "mount" /\ todo # << >> /\ todo \in Seq(FsEntry) /\ IsSuffix(todo, es) /\ es \in Seq(FsEntry)
    BY <1>8, EntriesType DEF MountEntry, Typed
  <2>2. h \in FsEntry /\ h = todo[1]
    BY <2>1
  <2>3. ~RepeatsFlag(h)
    <3> HIDE DEF es, h
    <3>1. Len(todo) <= Len(es) /\ \A n \in 1..Len(todo) : todo[n] = es[Len(es) - Len(todo) + n]
      BY <2>1, SuffixAt
    <3>2. Len(todo) \in Nat /\ Len(todo) # 0 /\ Len(es) \in Nat
      BY <2>1
    <3>3. 1 \in 1..Len(todo) /\ Len(es) - Len(todo) + 1 \in 1..Len(es)
      BY <3>1, <3>2
    <3> QED BY <1>3, <2>2, <3>1, <3>3 DEF es
  <2>4. HasBit(FlagsOf(h), 32) => mounts' = mounts
    BY <1>8, BitsOfFlags DEF MountEntry, NewMount
  <2>5. mounts' = mounts \/ mounts' = Append(mounts, h.dest)
    BY <1>8 DEF MountEntry
  <2>6. h.dest \in Path
    BY <2>2 DEF FsEntry
  <2> HIDE DEF h
  <2>7. h.dest = Root => HasBit(FlagsOf(h), 32)
    BY <2>2, <2>3, RootIsRemounted
  <2> QED BY <1>5, <1>6, <2>4, <2>5, <2>6, <2>7
<1>9. CASE ServiceMounts
  BY <1>3, <1>5, <1>9, OthersAssumption DEF ServiceMounts
<1>10. ASSUME NEW i \in 1..Len(mounts), mounts' = RemoveAt(mounts, i) \/ mounts' = Detached(mounts, i)
       PROVE  \A k \in 2..Len(mounts') : mounts'[k] # Root
  BY <1>2, <1>4, <1>10, RemovedPart, DetachedPart, DetachedType, PartHasOneRoot
<1>11. CASE UnmountEntry
  BY <1>6, <1>10, <1>11 DEF UnmountEntry, Reached
<1>12. CASE UnmountLazily
  BY <1>6, <1>10, <1>12 DEF UnmountLazily, Reached
<1>13. CASE ReadFstab \/ BadFstab \/ MountFails \/ Mounted \/ ReadMounts \/ ReadMountsFails
              \/ SkipEntry \/ Swept \/ UNCHANGED vars
  BY <1>6, <1>13 DEF ReadFstab, BadFstab, MountFails, Mounted, ReadMounts, ReadMountsFails, SkipEntry, Swept, vars
<1> QED BY <1>7, <1>8, <1>9, <1>11, <1>12, <1>13 DEF Next

\* RootMountedOnce: an entry of fstab for the root remounts it, for any options of
\* which none is given twice.
THEOREM RootStaysAlone == Spec => []RootMountedOnce
<1>1. Init => RootKept
  BY DEF Init, RootKept
<1>2. RootKept => RootMountedOnce
  BY DEF RootKept, RootMountedOnce
<1> QED BY <1>1, <1>2, AlwaysTyped, RootKeptNext, PTL DEF Spec
=============================================================================
