----------------------------- MODULE MountTree -----------------------------
(***************************************************************************)
(* The kernel's mount table, as far as kickit's calls tell its states      *)
(* apart: the mount points of a namespace in the order they were mounted.  *)
(* A path is the sequence of its components, the root is << >>.  What is   *)
(* below a later mount cannot be reached by its path, and a mount with     *)
(* mounts on it is busy.                                                   *)
(***************************************************************************)
EXTENDS Integers, Sequences, SequencesExt, Selection

CONSTANT Name    \* the names of files and directories

Path == Seq(Name)

Below(p, q) == p # q /\ IsPrefix(q, p)

\* The mount that path p leads to, if p is a mount point that can be reached.
Reached(m, p) ==
  {i \in 1..Len(m) :
     m[i] = p /\ \A j \in (i + 1)..Len(m) : ~IsPrefix(m[j], p)}

\* No mount is at or below a later one's mount point.
NoneHiddenIn(m) == \A i \in 1..Len(m) : \A j \in (i + 1)..Len(m) : ~IsPrefix(m[j], m[i])

HasMountsOn(m, i) == \E j \in (i + 1)..Len(m) : Below(m[j], m[i])

\* The table without mount i and everything mounted on it.
Detached(m, i) ==
  SubSeq(m, 1, i - 1) \o Only(SubSeq(m, i + 1, Len(m)),
                              {p \in Path : ~IsPrefix(m[i], p)})
=============================================================================
