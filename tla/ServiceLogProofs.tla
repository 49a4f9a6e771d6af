-------------------------- MODULE ServiceLogProofs --------------------------
(***************************************************************************)
(* For any lines, pipe and frames: the log is what the service said, a     *)
(* reading of it that no rewrite overlapped is whole, and the line that    *)
(* Logger::log relays after it has looked at INIT_STATE is the only one    *)
(* that can land in an emergency shell opened since.                       *)
(***************************************************************************)
EXTENDS ServiceLog, SelectionProofs

\* While the init is okay nothing has intruded, nor has anything when a relay
\* is decided on: the logger looks at the state once for every line.
RelayInv ==
  /\ ok \in BOOLEAN /\ intruded \in {0, 1}
  /\ ok \/ lpc = "relay" => intruded = 0

\* Every step keeps it: only Relay counts, and only LogEntry leads to it.
THEOREM RelayInvariance == Spec => []RelayInv
<1>1. Init => RelayInv
  BY DEF Init, RelayInv
<1>2. ASSUME RelayInv, [Next]_vars PROVE RelayInv'
  <2>1. CASE LogEntry
    <3>1. intruded' = intruded /\ ok' = ok /\ (lpc' = "relay" => ok)
      BY <2>1 DEF LogEntry, Return
    <3> QED BY <1>2, <3>1 DEF RelayInv
  <2>2. CASE Relay
    <3>1. intruded = 0 /\ lpc' = "rewrite" /\ ok' = ok
      BY <1>2, <2>2 DEF Relay, RelayInv
    <3>2. intruded' = IF ok THEN intruded ELSE intruded + 1
      BY <2>2 DEF Relay
    <3> QED BY <1>2, <3>1, <3>2 DEF RelayInv
  <2>3. CASE Log /\ ~LogEntry /\ ~Relay
    <3>1. intruded' = intruded
      BY <2>3 DEF Log, CreateLog, WriteNull, Spawn, Rewrite, Watch, Wait, Drain, Drained
    <3>2. ok' \in BOOLEAN /\ (ok' => ok)
      <4>1. CASE Watch \/ Wait \/ Drain
        BY <1>2, <4>1 DEF Watch, Wait, Drain, Fails, RelayInv
      <4>2. CASE CreateLog \/ WriteNull \/ Spawn \/ Rewrite \/ Drained
        BY <1>2, <4>2 DEF CreateLog, WriteNull, Spawn, Rewrite, Drained, RelayInv
      <4> QED BY <2>3, <4>1, <4>2 DEF Log
    <3>3. lpc' # "relay"
      BY <2>3 DEF Log, CreateLog, WriteNull, Spawn, Rewrite, Watch, Wait, Drain, Drained, Return
    <3> QED BY <1>2, <3>1, <3>2, <3>3 DEF RelayInv
  <2>4. CASE ~Log
    <3>1. CASE Emergency
      BY <1>2, <3>1 DEF Emergency, RelayInv, logVars
    <3>3. CASE Poll
      BY <1>2, <3>3 DEF Poll, RelayInv
    <3>2. CASE ~Emergency /\ ~Poll
      <4>1. UNCHANGED <<ok, lpc, intruded>>
        BY <1>2, <2>4, <3>2 DEF Next, MasterLogKept, StateKept, LeaveHelper, Put, BrokenPipe, Exit, HelperExits,
             OpenLog, ReadCell, CloseLog, Again, Say, vars, logVars
      <4> QED BY <1>2, <4>1 DEF RelayInv
    <3> QED BY <3>1, <3>2, <3>3
  <2> QED BY <2>1, <2>2, <2>3, <2>4
<1> QED BY <1>1, <1>2, PTL DEF Spec

\* However many lines a service writes while an emergency begins, one at most
\* lands on the shell's console.
THEOREM OneLineIntrudes == Spec => []AtMostOneLine
<1>1. RelayInv => AtMostOneLine
  BY DEF RelayInv, AtMostOneLine
<1> QED BY <1>1, RelayInvariance, PTL

----------------------------------------------------------------------------
(* Entries as they are written and printed.                                *)

Own == [init : {FALSE}, line : Line]      \* the service's, as printed
Inits == [init : {TRUE}, line : Line]     \* the init's

\* An entry of the init is shown as one, with its line.
LEMMA MarkIsShown ==
  ASSUME NEW l \in Line
  PROVE  /\ <<INIT_ENTRY>> \o l \in Line
         /\ Shown(<<INIT_ENTRY>> \o l) = [init |-> TRUE, line |-> l]
<1> DEFINE m == <<INIT_ENTRY>>
           b == m \o l
<1>1. m \in Seq(0..255) /\ Len(m) = 1 /\ m[1] = INIT_ENTRY /\ l \in Seq(0..255) /\ Len(l) \in Nat
  BY DEF INIT_ENTRY, Line
<1> HIDE DEF m
<1>2. /\ b \in Seq(0..255) /\ Len(b) = 1 + Len(l) /\ b[1] = m[1]
      /\ \A k \in 1..Len(l) : b[1 + k] = l[k]
  <2>1. /\ b \in Seq(0..255) /\ Len(b) = Len(m) + Len(l)
        /\ \A k \in 1..Len(m) : b[k] = m[k]
        /\ \A k \in 1..Len(l) : b[Len(m) + k] = l[k]
    <3>1. m \in Seq(0..255) /\ l \in Seq(0..255) /\ b = m \o l
      BY <1>1
    <3> HIDE DEF b
    <3> QED BY ONLY <3>1, ConcatAt
  <2> HIDE DEF b
  <2> QED BY <1>1, <2>1
<1> HIDE DEF b
<1>3. b # << >>
  BY <1>1, <1>2
<1>4. IsPrefix(m, b)
  <2> DEFINE u == SubSeq(m, 1, 1)
             v == SubSeq(b, 1, 1)
  <2>1. /\ u \in Seq(0..255) /\ Len(u) = 1 /\ u[1] = m[1]
        /\ v \in Seq(0..255) /\ Len(v) = 1 /\ v[1] = b[1]
    <3>1. 1 \in 1..Len(b) /\ 1 \in 1..Len(m)
      BY <1>1, <1>2
    <3>2. b[1] \in 0..255 /\ m[1] \in 0..255
      BY ONLY <1>1, <1>2, <3>1, ElementOfSeq
    <3> QED BY ONLY <3>2, SubSeqProperties
  <2> HIDE DEF u, v
  <2>2. u = v
    BY <1>2, <2>1, SeqEqual
  <2> QED BY <1>1, <1>2, <2>2 DEF IsPrefix, u, v
<1>5. Tail(b) = l
  <2> DEFINE t == Tail(b)
  <2>1. t \in Seq(0..255) /\ Len(t) = Len(b) - 1 /\ \A i \in 1..Len(t) : t[i] = b[i + 1]
    BY <1>2, <1>3, HeadTailProperties
  <2> HIDE DEF t
  <2>2. Len(t) = Len(l) /\ \A i \in 1..Len(t) : t[i] = l[i]
    BY <1>1, <1>2, <2>1
  <2>3. t = l
    BY <1>1, <2>1, <2>2, SeqEqual
  <2> QED BY <2>3 DEF t
<1> QED BY <1>2, <1>4, <1>5 DEF Shown, b, m, Line

\* No line in UTF-8 begins like an entry of the init.
LEMMA LineIsShown ==
  ASSUME NEW l \in Line, Utf8(l)
  PROVE  Shown(l) = [init |-> FALSE, line |-> l]
<1> DEFINE m == <<INIT_ENTRY>>
<1>1. SUFFICES ASSUME IsPrefix(m, l) PROVE FALSE
  BY DEF Shown
<1>2. Len(m) = 1 /\ m \in Seq(0..255) /\ m[1] = INIT_ENTRY /\ l \in Seq(0..255) /\ Len(l) \in Nat
  BY DEF INIT_ENTRY, Line
<1> HIDE DEF m
<1>3. 1 <= Len(l) /\ SubSeq(m, 1, 1) = SubSeq(l, 1, 1)
  BY <1>1, <1>2 DEF IsPrefix
<1>4. SubSeq(m, 1, 1)[1] = m[1] /\ SubSeq(l, 1, 1)[1] = l[1]
  BY <1>2, <1>3
<1>5. l[1] = INIT_ENTRY /\ 1 \in DOMAIN l
  BY <1>2, <1>3, <1>4
<1>6. Following(l[1])
  BY <1>5 DEF Following, INIT_ENTRY
<1>7. Following(l[1]) => 1 > 1
  BY <1>5 DEF Utf8
<1> QED BY <1>6, <1>7

\* What is shown is the service's or the init's.
LEMMA ShownType == ASSUME NEW b \in Line PROVE Shown(b) \in Own \cup Inits
<1>1. CASE IsPrefix(<<INIT_ENTRY>>, b)
  <2>1. b # << >>
    <3>1. Len(b) \in Nat /\ b \in Seq(0..255) /\ Len(<<INIT_ENTRY>>) = 1
      BY DEF Line
    <3>2. Len(b) >= 1
      BY <1>1, <3>1 DEF IsPrefix
    <3> QED BY <3>1, <3>2
  <2>2. Tail(b) \in Line
    BY <2>1 DEF Line
  <2> QED BY <1>1, <2>2 DEF Shown, Inits
<1>2. CASE ~IsPrefix(<<INIT_ENTRY>>, b)
  BY <1>2 DEF Shown, Own
<1> QED BY <1>1, <1>2

\* A text is printed entry by entry.
LEMMA PrintedType ==
  ASSUME NEW t \in Seq(Line)
  PROVE  /\ Printed(t) \in Seq(Own \cup Inits) /\ Len(Printed(t)) = Len(t)
         /\ \A k \in 1..Len(t) : Printed(t)[k] = Shown(t[k])
<1>1. DOMAIN t = 1..Len(t) /\ Len(t) \in Nat /\ \A k \in 1..Len(t) : t[k] \in Line
  OBVIOUS
<1>2. Printed(t) = [k \in 1..Len(t) |-> Shown(t[k])]
  BY <1>1 DEF Printed
<1>3. \A k \in 1..Len(t) : Shown(t[k]) \in Own \cup Inits
  BY <1>1, ShownType
<1> QED BY <1>1, <1>2, <1>3

\* One more entry is printed behind the others.
LEMMA PrintedAppend ==
  ASSUME NEW t \in Seq(Line), NEW b \in Line
  PROVE  Printed(Append(t, b)) = Append(Printed(t), Shown(b))
<1> DEFINE u == Append(t, b)
           p == Printed(t)
           e == Shown(b)
           v == Append(p, e)
           w == Printed(u)
           E == Own \cup Inits
<1>1. u \in Seq(Line) /\ Len(u) = Len(t) + 1 /\ Len(t) \in Nat
      /\ (\A k \in 1..Len(t) : u[k] = t[k]) /\ u[Len(t) + 1] = b
  OBVIOUS
<1>2. e \in E
  BY ShownType
<1>3. p \in Seq(E) /\ Len(p) = Len(t) /\ \A k \in 1..Len(t) : p[k] = Shown(t[k])
  BY PrintedType
<1> HIDE DEF u
<1>4. w \in Seq(E) /\ Len(w) = Len(u) /\ \A k \in 1..Len(u) : w[k] = Shown(u[k])
  BY <1>1, PrintedType
<1> HIDE DEF p, e, w, E
<1>5. v \in Seq(E) /\ Len(v) = Len(p) + 1 /\ (\A k \in 1..Len(p) : v[k] = p[k]) /\ v[Len(p) + 1] = e
  <2>1. p \in Seq(E)
    BY <1>3
  <2> QED BY ONLY <1>2, <2>1, AppendProperties
<1> HIDE DEF v
<1>6. ASSUME NEW k \in 1..Len(u) PROVE w[k] = v[k]
  <2>1. CASE k <= Len(t)
    BY <1>1, <1>3, <1>4, <1>5, <2>1
  <2>2. CASE k = Len(t) + 1
    BY <1>1, <1>3, <1>4, <1>5, <2>2 DEF e
  <2> QED BY <1>1, <2>1, <2>2
<1>7. w = v
  BY <1>1, <1>3, <1>4, <1>5, <1>6, SeqEqual
<1> QED BY <1>7 DEF u, p, e, v, w

\* The init's entries of a text, and the service's lines.
Marked(t) == Only(Printed(t), Inits)

\* The service's lines in a text are lines.
LEMMA LinesOfType == ASSUME NEW t \in Seq(Line) PROVE LinesOf(t) \in Seq(Line)
<1> DEFINE own == Only(Printed(t), Own)
           E == Own \cup Inits
<1>1. own \in Seq(Own)
  <2>1. Printed(t) \in Seq(E)
    BY PrintedType
  <2>2. own \in Seq(E \cap Own)
    <3> HIDE DEF E
    <3> QED BY <2>1, OnlyType
  <2>3. E \cap Own = Own
    OBVIOUS
  <2> HIDE DEF own, E
  <2> QED BY <2>2, <2>3
<1>2. LinesOf(t) = [k \in DOMAIN own |-> own[k].line]
  BY DEF LinesOf, Own
<1> HIDE DEF own
<1>3. DOMAIN own = 1..Len(own) /\ Len(own) \in Nat
  BY <1>1
<1>4. \A k \in 1..Len(own) : own[k].line \in Line
  <2>1. \A k \in 1..Len(own) : own[k] \in Own
    BY ONLY <1>1, ElementOfSeq
  <2> QED BY <2>1 DEF Own
<1>5. [k \in 1..Len(own) |-> own[k].line] \in Seq(Line)
  <2> DEFINE f == [k \in 1..Len(own) |-> own[k].line]
  <2>1. f \in [1..Len(own) -> Line]
    BY <1>4
  <2> HIDE DEF f
  <2>2. f \in Seq(Line)
    BY <1>3, <2>1, SeqDef
  <2> QED BY <2>2 DEF f
<1> QED BY <1>2, <1>3, <1>5

\* In an empty text there is nothing.
LEMMA TextEmpty == LinesOf(<< >>) = << >> /\ Marked(<< >>) = << >>
<1>1. Printed(<< >>) = << >>
  BY DEF Printed
<1>2. Only(<< >>, Own) = << >> /\ Only(<< >>, Inits) = << >>
  BY OnlyEmpty
<1> DEFINE l == LinesOf(<< >>)
<1> DEFINE own == Only(Printed(<< >>), Own)
<1>3. l = [k \in DOMAIN own |-> own[k].line]
  BY DEF LinesOf, Own
<1>4. l \in Seq(Line)
  <2>1. << >> \in Seq(Line)
    OBVIOUS
  <2> QED BY <2>1, LinesOfType
<1>5. DOMAIN own = 1..0
  BY <1>1, <1>2
<1> HIDE DEF l, own
<1>6. DOMAIN l = 1..0
  BY <1>3, <1>5
<1>7. l = << >>
  BY <1>4, <1>6
<1> QED BY <1>1, <1>2, <1>7 DEF l, Marked

\* A line of the service comes behind its others, an entry of the init adds none.
LEMMA LinesOfAppend ==
  ASSUME NEW t \in Seq(Line), NEW b \in Line
  PROVE  LinesOf(Append(t, b)) = IF Shown(b).init THEN LinesOf(t)
                                 ELSE Append(LinesOf(t), Shown(b).line)
<1> DEFINE own == Only(Printed(t), Own)
           new == Only(Printed(Append(t, b)), Own)
           e == Shown(b)
           E == Own \cup Inits
<1>1. Printed(t) \in Seq(E) /\ e \in E
  BY PrintedType, ShownType
<1>2. Printed(Append(t, b)) = Append(Printed(t), e)
  BY PrintedAppend
<1>3. new = IF e \in Own THEN Append(own, e) ELSE own
  <2> HIDE DEF E, e
  <2> QED BY <1>1, <1>2, OnlyAppend
<1>4. own \in Seq(Own)
  <2>1. own \in Seq(E \cap Own)
    <3> HIDE DEF E
    <3> QED BY <1>1, OnlyType
  <2>2. E \cap Own = Own
    OBVIOUS
  <2> HIDE DEF own, E
  <2> QED BY <2>1, <2>2
<1>5. e \in Own <=> ~e.init
  <2> HIDE DEF e
  <2> QED BY <1>1 DEF Own, Inits
<1>6. LinesOf(t) = [k \in DOMAIN own |-> own[k].line] /\ LinesOf(Append(t, b)) = [k \in DOMAIN new |-> new[k].line]
  BY DEF LinesOf, Own
<1> HIDE DEF own, new, e, E
<1>7. ASSUME e \in Own, NEW l, l = LinesOf(t), NEW l1, l1 = LinesOf(Append(t, b)) PROVE l1 = Append(l, e.line)
  <2>1. /\ DOMAIN own = 1..Len(own) /\ Len(own) \in Nat
        /\ DOMAIN new = 1..(Len(own) + 1)
        /\ (\A k \in 1..Len(own) : new[k] = own[k]) /\ new[Len(own) + 1] = e
    BY <1>3, <1>4, <1>7
  <2>2. l \in Seq(Line) /\ Len(l) = Len(own) /\ \A k \in 1..Len(own) : l[k] = own[k].line
    BY <1>6, <1>7, <2>1, LinesOfType
  <2>3. l1 = [k \in 1..(Len(own) + 1) |-> new[k].line]
    BY <1>6, <1>7, <2>1
  <2>4. e.line \in Line
    BY <1>7 DEF Own
  <2>5. l1 \in Seq(Line) /\ Len(l1) = Len(own) + 1
    <3>1. Append(t, b) \in Seq(Line)
      OBVIOUS
    <3>2. l1 \in Seq(Line)
      BY <1>7, <3>1, LinesOfType
    <3>3. DOMAIN l1 = 1..(Len(own) + 1)
      BY <2>3
    <3> QED BY <2>1, <3>2, <3>3
  <2> DEFINE a == Append(l, e.line)
  <2>6. a \in Seq(Line) /\ Len(a) = Len(own) + 1 /\ (\A k \in 1..Len(own) : a[k] = l[k]) /\ a[Len(own) + 1] = e.line
    BY <2>2, <2>4
  <2> HIDE DEF a
  <2>7. ASSUME NEW k \in 1..(Len(own) + 1) PROVE l1[k] = a[k]
    BY <2>1, <2>2, <2>3, <2>6
  <2>8. l1 = a
    BY <2>1, <2>5, <2>6, <2>7, SeqEqual
  <2> QED BY <2>8 DEF a
<1>8. e \notin Own => LinesOf(Append(t, b)) = LinesOf(t)
  BY <1>3, <1>6
<1> QED BY <1>5, <1>7, <1>8 DEF e

\* An entry of the init comes behind its others, a line adds none.
LEMMA MarkedAppend ==
  ASSUME NEW t \in Seq(Line), NEW b \in Line
  PROVE  Marked(Append(t, b)) = IF Shown(b).init THEN Append(Marked(t), Shown(b)) ELSE Marked(t)
<1> DEFINE e == Shown(b)
           E == Own \cup Inits
<1>1. Printed(t) \in Seq(E) /\ e \in E
  BY PrintedType, ShownType
<1>2. Printed(Append(t, b)) = Append(Printed(t), e)
  BY PrintedAppend
<1>3. e \in Inits <=> e.init
  <2> HIDE DEF e
  <2> QED BY <1>1 DEF Own, Inits
<1> HIDE DEF e, E
<1>4. Only(Append(Printed(t), e), Inits) = IF e \in Inits THEN Append(Only(Printed(t), Inits), e) ELSE Only(Printed(t), Inits)
  BY <1>1, OnlyAppend
<1> QED BY <1>2, <1>3, <1>4 DEF Marked, e

----------------------------------------------------------------------------
(* The lines that are not empty.                                           *)

\* The lines that are not empty are lines.
LEMMA NonEmptyType == ASSUME NEW s \in Seq(Line) PROVE NonEmpty(s) \in Seq(Line)
BY OnlyType DEF NonEmpty

\* Of no line, of an empty one, and of another.
LEMMA NonEmptyOne ==
  /\ NonEmpty(<< >>) = << >>
  /\ NonEmpty(<< << >> >>) = << >>
  /\ \A l \in Line : l # << >> => NonEmpty(<<l>>) = <<l>>
<1>1. NonEmpty(<< >>) = << >>
  BY OnlyEmpty DEF NonEmpty
<1>2. ASSUME NEW l PROVE NonEmpty(<<l>>) = IF l \in Line \ {<< >>} THEN <<l>> ELSE << >>
  BY OnlyOne DEF NonEmpty
<1> QED BY <1>1, <1>2

\* They are found part by part ...
LEMMA NonEmptyConcat ==
  ASSUME NEW s \in Seq(Line), NEW t \in Seq(Line)
  PROVE  NonEmpty(s \o t) = NonEmpty(s) \o NonEmpty(t)
BY OnlyConcat DEF NonEmpty

\* ... when a line is added ...
LEMMA NonEmptyAppend ==
  ASSUME NEW s \in Seq(Line), NEW l \in Line
  PROVE  NonEmpty(Append(s, l)) = NonEmpty(s) \o NonEmpty(<<l>>)
<1>1. Append(s, l) = s \o <<l>> /\ <<l>> \in Seq(Line)
  BY AppendIsConcat
<1> QED BY <1>1, NonEmptyConcat

\* ... and when one is taken.
LEMMA NonEmptyHead ==
  ASSUME NEW s \in Seq(Line), s # << >>
  PROVE  NonEmpty(s) = NonEmpty(<<Head(s)>>) \o NonEmpty(Tail(s))
<1>1. /\ <<Head(s)>> \in Seq(Line) /\ Tail(s) \in Seq(Line)
  OBVIOUS
<1>2. s = <<Head(s)>> \o Tail(s)
  <2>1. Len(s) \in Nat \ {0} /\ s[1] = Head(s)
    OBVIOUS
  <2>2. SubSeq(s, 1, Len(s)) = <<s[1]>> \o SubSeq(s, 2, Len(s))
    BY <2>1, SubSeqRecursiveFirst
  <2> QED BY <2>1, <2>2, SubSeqFull, TailIsSubSeq
<1> DEFINE a == <<Head(s)>>
           b == Tail(s)
<1> HIDE DEF a, b
<1>3. NonEmpty(a \o b) = NonEmpty(a) \o NonEmpty(b)
  BY <1>1, NonEmptyConcat DEF a, b
<1> QED BY <1>2, <1>3 DEF a, b

----------------------------------------------------------------------------
(* The invariant of the log: who is where with which entry, what the file  *)
(* holds of the new frame, whose lines are where, and what ktctl has read. *)

Texts == Seq(Line)                      \* the entries of a log
Cells == [text : Texts, of : Nat, at : Nat]

BeforeSpawn == {"create", "null", "spawn"}
Logging == {"log", "relay", "rewrite"}

\* A Standard service's thread watches, a RunOnce one's waits and drains; the entry
\* in hand is the mark of its start or of its end, or a line in UTF-8.
Control ==
  /\ kind \in {"Standard", "RunOnce"}
  /\ lpc \in BeforeSpawn \cup Logging
               \cup (IF kind = "Standard" THEN {"queued", "watch", "ended"} ELSE {"wait", "drain", "failed", "done"})
  /\ \/ entry \in {Started, Finished}
     \/ entry = ServiceEntry(entry.line) /\ entry.line \in Line /\ Utf8(entry.line)
  /\ lpc \in BeforeSpawn => entry = Started
  /\ lpc \in Logging => entry # (IF kind = "Standard" THEN Finished ELSE Started)

\* Who writes; once RunOnce's end is logged nobody does, and nothing is left.
Writers ==
  /\ said \in Seq(Line) /\ pipe \in Seq(Line) /\ want \in Seq(Line)
  /\ want # << >> => Alive
  /\ lpc \in Logging /\ entry = Finished => pipe = << >> /\ ~Alive
  /\ lpc = "done" => pipe = << >>

\* The file holds a whole frame, or the beginning of the one being written.
Frames ==
  /\ out \in [text : Texts, of : Nat, done : Nat]
  /\ file \in Seq(Cells)
  /\ lpc \notin {"relay", "rewrite"} => out = NoOut
  /\ lpc \in {"relay", "rewrite"} => out.done < out.of
  /\ lpc = "relay" => out.done = 0
  /\ file = << >> <=> lpc \in {"create", "null"}
  /\ file # << >> /\ out.done = 0 => Decodes(file)
  /\ out.done <= Len(file)
  /\ \A k \in 1..out.done : file[k] = Cell(out.text, out.of, k)

\* The init's two marks, and that they are no line of a service.
LEMMA EntryFacts ==
  /\ Started.init /\ Started.line \in Line /\ Started.line # << >>
  /\ Finished.init /\ Finished.line \in Line /\ Finished.line # << >>
  /\ Started = [init |-> TRUE, line |-> Started.line]
  /\ Finished = [init |-> TRUE, line |-> Finished.line]
  /\ Started # Finished
  /\ \A l : /\ ServiceEntry(l).line = l /\ ~ServiceEntry(l).init
            /\ ServiceEntry(l) # Started /\ ServiceEntry(l) # Finished
<1>1. <<83>> \in Line /\ <<70>> \in Line /\ <<83>> # <<70>> /\ <<83>> # << >> /\ <<70>> # << >>
  BY DEF Line
<1> QED BY <1>1 DEF Started, Finished, ServiceEntry

\* Control holds at first ...
LEMMA ControlInit == Init => Control
BY DEF Init, Control, BeforeSpawn, Logging

\* ... and every step of the thread keeps it: log() returns to where it was called.
LEMMA ControlNext == Control /\ Writers /\ [Next]_vars => Control'
<1> SUFFICES ASSUME Control, Writers, [Next]_vars PROVE Control'
  OBVIOUS
<1> USE DEF Control, BeforeSpawn, Logging
<1>1. CASE UNCHANGED <<kind, lpc, entry>>
  BY <1>1
<1>2. CASE CreateLog \/ WriteNull
  BY <1>2 DEF CreateLog, WriteNull
<1>3. CASE Spawn
  BY <1>3, EntryFacts DEF Spawn
<1>4. CASE LogEntry
  <2>1. lpc' \in {"relay", "rewrite", Return} /\ UNCHANGED <<kind, entry>> /\ lpc = "log"
    BY <1>4 DEF LogEntry
  <2> QED BY <2>1 DEF Return
<1>5. CASE Relay
  BY <1>5 DEF Relay
<1>6. CASE Rewrite
  <2>1. lpc' \in {"rewrite", Return} /\ UNCHANGED <<kind, entry>> /\ lpc = "rewrite"
    BY <1>6 DEF Rewrite
  <2> QED BY <2>1 DEF Return
<1>7. CASE Watch \/ Drain
  <2>1. pipe # << >> => \/ lpc' = "log" /\ entry' = ServiceEntry(Head(pipe)) /\ Utf8(Head(pipe))
                        \/ lpc' = (IF lpc = "watch" THEN "ended" ELSE "failed") /\ entry' = entry
    BY <1>7 DEF Watch, Drain
  <2>2. kind' = kind /\ lpc = (IF kind = "Standard" THEN "watch" ELSE "drain") /\ pipe # << >>
    BY <1>7 DEF Watch, Drain
  <2>3. Head(pipe) \in Line
    BY <2>2 DEF Writers
  <2>4. ServiceEntry(Head(pipe)).line = Head(pipe)
    BY EntryFacts
  <2> QED BY <2>1, <2>2, <2>3, <2>4, EntryFacts
<1>8. CASE Poll \/ Wait \/ Drained
  BY <1>8, EntryFacts DEF Poll, Wait, Drained
<1>9. CASE ~Log /\ ~Poll
  BY <1>1, <1>9 DEF Next, LeaveHelper, Put, BrokenPipe, Exit, HelperExits, Emergency,
       MasterLogKept, StateKept, OpenLog, ReadCell, CloseLog, Again, Say, vars, logVars
<1> QED BY <1>2, <1>3, <1>4, <1>5, <1>6, <1>7, <1>8, <1>9 DEF Log

\* Writers holds at first ...
LEMMA WritersInit == Init => Writers
BY DEF Init, Writers, Logging

\* ... and every step keeps it: nobody writes once none is left, and lines() ends then.
LEMMA WritersNext == Control /\ Writers /\ [Next]_vars => Writers'
<1> SUFFICES ASSUME Control, Writers, [Next]_vars PROVE Writers'
  OBVIOUS
<1> USE DEF Writers, Logging, svcVars
<1>1. CASE UNCHANGED <<lpc, entry, svc, helper, want, said, pipe>>
  BY <1>1 DEF Alive
<1>2. ASSUME NEW l \in Lines, Say(l) PROVE Writers'
  BY <1>2, LinesAssumption DEF Say, Alive, logVars
<1>3. CASE Put
  <2>1. want[1] \in Line /\ Alive /\ lpc # "done"
    BY <1>3 DEF Put, Reading
  <2> QED BY <1>3, <2>1 DEF Put, Alive, logVars
<1>4. CASE LeaveHelper \/ BrokenPipe \/ Exit \/ HelperExits
  <2>1. UNCHANGED <<lpc, entry, said, pipe>> /\ (Alive' => Alive)
    BY <1>4 DEF LeaveHelper, BrokenPipe, Exit, HelperExits, Alive, logVars
  <2>2. want' = << >> \/ want' = want
    BY <1>4 DEF LeaveHelper, BrokenPipe, Exit, HelperExits
  <2>3. want' # << >> => Alive'
    BY <1>4 DEF LeaveHelper, BrokenPipe, Exit, HelperExits, Alive
  <2>4. want' \in Seq(Line)
    BY <2>2, EmptySeq, Zenon
  <2> QED BY <2>1, <2>2, <2>3, <2>4, Zenon
<1>5. CASE CreateLog \/ WriteNull
  BY <1>5 DEF CreateLog, WriteNull, Alive
<1>6. CASE Spawn
  <2>1. entry # Finished
    BY <1>6, EntryFacts DEF Spawn, Control, BeforeSpawn
  <2> QED BY <1>6, <2>1 DEF Spawn, Alive
<1>7. ASSUME lpc \in Logging, lpc' \in Logging \cup {Return}, lpc' = "done" => entry # Started /\ entry.init,
             UNCHANGED <<entry, svc, helper, want, said, pipe>>
      PROVE  Writers'
  <2>1. lpc' = "done" => entry = Finished
    BY <1>7, EntryFacts DEF Control
  <2> QED BY <1>7, <2>1 DEF Return, Alive
<1>8. CASE LogEntry
  <2>1. CASE entry.line = << >>
    <3>1. ~entry.init
      BY <2>1, EntryFacts DEF Control
    <3> QED BY <1>7, <1>8, <2>1, <3>1 DEF LogEntry, Return
  <2>2. CASE entry.line # << >>
    <3>1. lpc' \in {"relay", "rewrite"}
      BY <1>8, <2>2 DEF LogEntry
    <3> QED BY <1>7, <1>8, <3>1 DEF LogEntry
  <2> QED BY <2>1, <2>2
<1>9. CASE Relay
  BY <1>7, <1>9 DEF Relay
<1>10. CASE Rewrite
  <2>1. lpc' \in {"rewrite", Return} /\ lpc = "rewrite" /\ UNCHANGED <<entry, svc, helper, want, said, pipe>>
    BY <1>10 DEF Rewrite
  <2>2. lpc' = "done" => entry # Started /\ entry.init
    BY <2>1, EntryFacts DEF Return, Control
  <2> QED BY <1>7, <2>1, <2>2
<1>11. CASE Watch \/ Drain
  <2>1. /\ pipe # << >> /\ pipe' = Tail(pipe) /\ UNCHANGED <<svc, helper, want, said>>
        /\ (lpc' = "log" /\ entry' = ServiceEntry(Head(pipe))) \/ lpc' \in {"ended", "failed"}
    BY <1>11 DEF Watch, Drain
  <2>2. Tail(pipe) \in Seq(Line)
    BY <2>1
  <2> QED BY <2>1, <2>2, EntryFacts DEF Alive
<1>12. CASE Poll \/ Wait \/ Drained
  <2>1. want = << >> \/ Alive
    OBVIOUS
  <2> QED BY <1>12, <2>1 DEF Poll, Wait, Drained, Alive
<1>13. CASE Emergency \/ MasterLogKept \/ StateKept \/ OpenLog \/ ReadCell \/ CloseLog \/ Again \/ UNCHANGED vars
  BY <1>1, <1>13 DEF Emergency, MasterLogKept, StateKept, OpenLog, ReadCell, CloseLog, Again, vars, logVars
<1> QED BY <1>2, <1>3, <1>4, <1>5, <1>6, <1>8, <1>9, <1>10, <1>11, <1>12, <1>13 DEF Next, Log

\* Frames holds at first.
LEMMA FramesInit == Init => Frames
BY DEF Init, Frames, NoOut, Texts

\* The entry in hand is shown as what it is.
LEMMA EntryBytes ==
  ASSUME Control
  PROVE  /\ entry.line \in Line /\ Bytes(entry) \in Line
         /\ Shown(Bytes(entry)) = [init |-> entry.init, line |-> entry.line]
<1>1. entry.line \in Line /\ entry.init \in BOOLEAN /\ (~entry.init => Utf8(entry.line))
  <2>1. CASE entry \in {Started, Finished}
    <3>1. Started.init = TRUE /\ Finished.init = TRUE
      BY DEF Started, Finished
    <3> QED BY <2>1, <3>1, EntryFacts
  <2>2. CASE entry = ServiceEntry(entry.line) /\ entry.line \in Line /\ Utf8(entry.line)
    <3>1. ServiceEntry(entry.line).init = FALSE
      BY DEF ServiceEntry
    <3> QED BY <2>2, <3>1
  <2> QED BY <2>1, <2>2 DEF Control
<1>2. CASE entry.init
  BY <1>1, <1>2, MarkIsShown DEF Bytes
<1>3. CASE ~entry.init
  BY <1>1, <1>3, LineIsShown DEF Bytes
<1> QED BY <1>1, <1>2, <1>3

\* A log file begins with a cell.
LEMMA FirstCell ==
  ASSUME Frames, file # << >>
  PROVE  /\ Len(file) \in Nat \ {0} /\ file[1] \in Cells
         /\ file[1].text \in Texts /\ file[1].of \in Nat
<1>1. file \in Seq(Cells)
  BY DEF Frames
<1>2. Len(file) \in Nat \ {0}
  BY <1>1, EmptySeq
<1>3. file[1] \in Cells
  BY <1>1, <1>2
<1> QED BY <1>2, <1>3 DEF Cells

\* The log's text is one of entries.
LEMMA TextType == ASSUME Frames PROVE Text \in Texts
<1>1. << >> \in Texts
  BY DEF Texts
<1>2. out.text \in Texts
  BY DEF Frames
<1>3. file # << >> => Decoded(file) \in Texts
  BY FirstCell DEF Decoded
<1> QED BY <1>1, <1>2, <1>3 DEF Text

\* A cell of the new frame is written.
LEMMA CellWritten ==
  ASSUME Frames, lpc = "rewrite", Rewrite
  PROVE  /\ file' \in Seq(Cells) /\ file' # << >> /\ out.done + 1 <= Len(file')
         /\ \A k \in 1..(out.done + 1) : file'[k] = Cell(out.text, out.of, k)
<1> DEFINE n == out.done + 1
           c == Cell(out.text, out.of, n)
<1>1. /\ out.text \in Texts /\ out.of \in Nat /\ out.done \in Nat
      /\ file \in Seq(Cells) /\ Len(file) \in Nat /\ out.done <= Len(file)
      /\ \A k \in 1..out.done : file[k] = Cell(out.text, out.of, k)
  BY DEF Frames
<1>2. c \in Cells
  BY <1>1 DEF Cell, Cells
<1>3. file' = IF n <= Len(file) THEN [file EXCEPT ![n] = c] ELSE Append(file, c)
  BY DEF Rewrite
<1>4. n \in Nat \ {0}
  BY <1>1
<1> HIDE DEF c
<1>5. CASE n <= Len(file)
  <2>1. n \in 1..Len(file)
    BY <1>1, <1>4, <1>5
  <2>2. /\ [file EXCEPT ![n] = c] \in Seq(Cells) /\ Len([file EXCEPT ![n] = c]) = Len(file)
        /\ \A j \in 1..Len(file) : [file EXCEPT ![n] = c][j] = IF j = n THEN c ELSE file[j]
    BY ONLY <1>1, <1>2, <2>1, ExceptSeq
  <2>3. file' = [file EXCEPT ![n] = c]
    BY <1>3, <1>5
  <2>4. file' # << >>
    BY <1>1, <2>1, <2>2, <2>3
  <2>5. ASSUME NEW k \in 1..n PROVE file'[k] = Cell(out.text, out.of, k)
    <3>1. k = n \/ k \in 1..out.done
      BY <1>1
    <3>2. k \in 1..Len(file)
      BY <1>1, <2>1
    <3> QED BY <1>1, <2>2, <2>3, <3>1, <3>2 DEF c
  <2> QED BY <1>5, <2>2, <2>3, <2>4, <2>5
<1>6. CASE n > Len(file)
  <2>1. n = Len(file) + 1
    BY <1>1, <1>6
  <2>2. /\ Append(file, c) \in Seq(Cells) /\ Len(Append(file, c)) = Len(file) + 1
        /\ Append(file, c) # << >>
        /\ \A j \in 1..Len(file) : Append(file, c)[j] = file[j]
        /\ Append(file, c)[Len(file) + 1] = c
    BY ONLY <1>1, <1>2, AppendProperties
  <2>3. file' = Append(file, c)
    BY <1>1, <1>3, <1>6
  <2>4. ASSUME NEW k \in 1..n PROVE file'[k] = Cell(out.text, out.of, k)
    <3>1. k = n \/ k \in 1..out.done
      BY <1>1
    <3>2. k = Len(file) + 1 \/ k \in 1..Len(file)
      BY <1>1, <2>1
    <3> QED BY <1>1, <2>1, <2>2, <2>3, <3>1, <3>2 DEF c
  <2> QED BY <2>1, <2>2, <2>3, <2>4
<1> QED BY <1>1, <1>4, <1>5, <1>6

\* With its last cell the new frame is whole, and the file reads as the new text.
LEMMA FrameWritten ==
  ASSUME Frames, lpc = "rewrite", Rewrite, out.done + 1 = out.of
  PROVE  Decodes(file') /\ Decoded(file') = out.text
<1>1. /\ file' \in Seq(Cells) /\ file' # << >> /\ out.done + 1 <= Len(file')
      /\ \A k \in 1..(out.done + 1) : file'[k] = Cell(out.text, out.of, k)
  BY CellWritten
<1>2. out.of \in Nat /\ out.done \in Nat
  BY DEF Frames
<1>3. file'[1] = Cell(out.text, out.of, 1)
  BY <1>1, <1>2
<1>4. file'[1].text = out.text /\ file'[1].of = out.of
  BY <1>3 DEF Cell
<1>5. Len(file') >= file'[1].of
  BY <1>1, <1>4
<1>6. \A k \in 1..file'[1].of : file'[k] = Cell(file'[1].text, file'[1].of, k)
  BY <1>1, <1>4
<1> QED BY <1>1, <1>4, <1>5, <1>6 DEF Decodes, Decoded

\* Every step keeps Frames: what is behind the new frame is not read.
LEMMA FramesNext == Control /\ Frames /\ [Next]_vars => Frames'
<1> SUFFICES ASSUME Control, Frames, [Next]_vars PROVE Frames'
  OBVIOUS
<1> USE DEF svcVars, logVars
<1>1. ASSUME UNCHANGED <<out, file>>, lpc \notin {"create", "null", "relay", "rewrite"},
             lpc' \notin {"create", "null", "relay", "rewrite"}
      PROVE  Frames'
  BY <1>1 DEF Frames, Decodes
<1>2. ASSUME UNCHANGED <<out, file, lpc>> PROVE Frames'
  BY <1>2 DEF Frames, Decodes
<1>3. CASE CreateLog
  BY <1>3 DEF CreateLog, Frames, Decodes
<1>4. CASE WriteNull
  <2> DEFINE c == Cell(<< >>, 1, 1)
  <2>1. lpc = "null" /\ lpc' = "spawn" /\ out' = out /\ file' = <<c>> /\ out = NoOut
    BY <1>4 DEF WriteNull, Frames
  <2>2. c \in Cells /\ c.text = << >> /\ c.of = 1
    BY DEF Cell, Cells, Texts
  <2> HIDE DEF c
  <2>3. file' \in Seq(Cells) /\ file' # << >> /\ Len(file') = 1 /\ file'[1] = c
    BY <2>1, <2>2
  <2>4. Decodes(file')
    <3>1. \A k \in 1..1 : file'[k] = Cell(<< >>, 1, k)
      BY <2>3 DEF c
    <3> QED BY <2>2, <2>3, <3>1 DEF Decodes
  <2>5. NoOut \in [text : Texts, of : Nat, done : Nat] /\ NoOut.done = 0
    BY DEF NoOut, Texts
  <2> QED BY <2>1, <2>3, <2>4, <2>5 DEF Frames
<1>5. CASE Spawn
  BY <1>1, <1>5 DEF Spawn
<1>6. CASE LogEntry
  <2>1. CASE entry.line = << >>
    <3>1. lpc' = Return /\ UNCHANGED <<out, file>> /\ lpc = "log"
      BY <1>6, <2>1 DEF LogEntry
    <3> QED BY <1>1, <3>1 DEF Return
  <2>2. CASE entry.line # << >>
    <3>1. PICK n \in 1..MaxCells :
            /\ out' = [text |-> Append(Decoded(file), Bytes(entry)), of |-> n, done |-> 0]
            /\ lpc' \in {"relay", "rewrite"}
      BY <1>6, <2>2 DEF LogEntry
    <3>2. lpc = "log" /\ file' = file
      BY <1>6 DEF LogEntry
    <3>3. file # << >> /\ out = NoOut
      BY <3>2 DEF Frames
    <3>4. Append(Decoded(file), Bytes(entry)) \in Texts
      BY <3>3, FirstCell, EntryBytes DEF Decoded, Texts
    <3>5. n \in Nat \ {0}
      BY BoundAssumption
    <3>6. out'.done = 0 /\ out'.of = n /\ out' \in [text : Texts, of : Nat, done : Nat]
      BY <3>1, <3>4, <3>5
    <3>7. out.done = 0 /\ Decodes(file) /\ file \in Seq(Cells) /\ Len(file) \in Nat
      BY <3>3 DEF Frames, NoOut
    <3>8. Decodes(file')
      BY <3>2, <3>7
    <3> HIDE DEF Frames
    <3> QED BY <3>1, <3>2, <3>3, <3>5, <3>6, <3>7, <3>8 DEF Frames
  <2> QED BY <2>1, <2>2
<1>7. CASE Relay
  BY <1>7 DEF Relay, Frames, Decodes
<1>8. CASE Rewrite
  <2>1. lpc = "rewrite" /\ out.done < out.of /\ out.done \in Nat /\ out.of \in Nat
         /\ out \in [text : Texts, of : Nat, done : Nat]
    BY <1>8 DEF Rewrite, Frames
  <2>2. /\ file' \in Seq(Cells) /\ file' # << >> /\ out.done + 1 <= Len(file')
        /\ \A k \in 1..(out.done + 1) : file'[k] = Cell(out.text, out.of, k)
    BY <1>8, <2>1, CellWritten
  <2>3. CASE out.done + 1 = out.of
    <3>1. lpc' = Return /\ out' = NoOut
      BY <1>8, <2>3 DEF Rewrite
    <3>2. Decodes(file')
      BY <1>8, <2>1, <2>3, FrameWritten
    <3>3. NoOut \in [text : Texts, of : Nat, done : Nat] /\ NoOut.done = 0
      BY DEF NoOut, Texts
    <3>4. Len(file') \in Nat
      BY <2>2
    <3> QED BY <2>2, <3>1, <3>2, <3>3, <3>4 DEF Frames, Return
  <2>4. CASE out.done + 1 # out.of
    <3>1. lpc' = lpc /\ out' = [out EXCEPT !.done = out.done + 1]
      BY <1>8, <2>4 DEF Rewrite
    <3>2. out'.done = out.done + 1 /\ out'.of = out.of /\ out'.text = out.text
            /\ out' \in [text : Texts, of : Nat, done : Nat]
      BY <2>1, <3>1
    <3>3. out'.done < out'.of /\ out'.done # 0
      BY <2>1, <2>4, <3>2
    <3> QED BY <2>1, <2>2, <3>1, <3>2, <3>3 DEF Frames
  <2> QED BY <2>3, <2>4
<1>9. CASE Poll \/ Watch \/ Wait \/ Drain \/ Drained
  BY <1>1, <1>9 DEF Poll, Watch, Wait, Drain, Drained
<1>10. CASE ~Log /\ ~Poll
  BY <1>2, <1>10 DEF Next, LeaveHelper, Put, BrokenPipe, Exit, HelperExits, Emergency,
       MasterLogKept, StateKept, OpenLog, ReadCell, CloseLog, Again, Say, vars
<1> QED BY <1>3, <1>4, <1>5, <1>6, <1>7, <1>8, <1>9, <1>10 DEF Log

\* What ktctl has read while nothing was rewritten is the beginning of the file, and
\* all of its frame at the end.
Reader ==
  /\ rpc \in {"idle", "reading", "read"}
  /\ fresh /\ rpc # "idle" =>
       /\ out.done = 0
       /\ cells \in Seq(Cells) /\ Len(cells) <= Len(file)
       /\ \A k \in 1..Len(cells) : cells[k] = file[k]
  /\ fresh /\ rpc = "read" /\ file # << >> => Decodes(cells) /\ Decoded(cells) = Decoded(file)

\* A reading that no rewrite overlapped ends with the file's frame.
LEMMA ReadingEnds ==
  ASSUME Frames, Reader, CloseLog, fresh, file # << >>
  PROVE  Decodes(cells) /\ Decoded(cells) = Decoded(file)
<1>1. /\ out.done = 0 /\ cells \in Seq(Cells) /\ Len(cells) \in Nat /\ Len(cells) <= Len(file)
      /\ \A k \in 1..Len(cells) : cells[k] = file[k]
  BY DEF Reader, CloseLog
<1>2. /\ file # << >> /\ Len(file) >= file[1].of
      /\ \A k \in 1..file[1].of : file[k] = Cell(file[1].text, file[1].of, k)
  BY <1>1 DEF Frames, Decodes
<1>3. Len(file) \in Nat \ {0} /\ file[1].of \in Nat
  BY FirstCell
<1>4. Complete \/ Len(cells) = Len(file)
  BY <1>1, <1>3 DEF CloseLog
<1>5. cells # << >> /\ Len(cells) # 0
  <2>1. CASE Complete
    BY <1>1, <2>1, EmptySeq DEF Complete
  <2>2. CASE Len(cells) = Len(file)
    BY <1>1, <1>3, <2>2, EmptySeq
  <2> QED BY <1>4, <2>1, <2>2
<1>6. cells[1] = file[1]
  BY <1>1, <1>5
<1>7. Len(cells) >= cells[1].of
  BY <1>1, <1>2, <1>3, <1>4, <1>6 DEF Complete
<1>8. ASSUME NEW k \in 1..cells[1].of PROVE cells[k] = Cell(cells[1].text, cells[1].of, k)
  <2>1. k \in 1..Len(cells) /\ k \in 1..file[1].of
    BY <1>1, <1>3, <1>6, <1>7
  <2> QED BY <1>1, <1>2, <1>6, <2>1
<1> QED BY <1>5, <1>6, <1>7, <1>8 DEF Decodes, Decoded

\* Every step keeps Reader: a rewrite makes the reading stale.
LEMMA ReaderNext == Control /\ Frames /\ Reader /\ [Next]_vars => Reader'
<1> SUFFICES ASSUME Control, Frames, Reader, [Next]_vars PROVE Reader'
  OBVIOUS
<1> USE DEF svcVars, logVars, ktVars
<1>1. ASSUME UNCHANGED <<rpc, cells, file, fresh>>, out.done = 0 => out'.done = 0 PROVE Reader'
  BY <1>1 DEF Reader, Decodes, Decoded
<1>2. ASSUME UNCHANGED rpc, ~fresh' PROVE Reader'
  BY <1>2 DEF Reader
<1>3. CASE WriteNull \/ Rewrite
  BY <1>2, <1>3 DEF WriteNull, Rewrite
<1>4. CASE LogEntry
  <2>1. UNCHANGED <<rpc, cells, file, fresh>> /\ (out' = out \/ out'.done = 0)
    BY <1>4 DEF LogEntry
  <2> QED BY <1>1, <2>1
<1>5. CASE CreateLog \/ Spawn \/ Relay \/ Poll \/ Watch \/ Wait \/ Drain \/ Drained
  BY <1>1, <1>5 DEF CreateLog, Spawn, Relay, Poll, Watch, Wait, Drain, Drained
<1>6. CASE \/ LeaveHelper \/ Put \/ BrokenPipe \/ Exit \/ HelperExits \/ Emergency \/ UNCHANGED vars
           \/ MasterLogKept \/ StateKept \/ \E l \in Lines : Say(l)
  BY <1>1, <1>6 DEF MasterLogKept, StateKept, LeaveHelper, Put, BrokenPipe, Exit, HelperExits, Emergency, Say, vars
<1>7. CASE OpenLog
  <2>1. rpc' = "reading" /\ cells' = << >> /\ fresh' = (out.done = 0) /\ UNCHANGED <<out, file>>
    BY <1>7 DEF OpenLog
  <2>2. << >> \in Seq(Cells) /\ Len(<< >>) = 0 /\ Len(file) \in Nat
    BY DEF Frames
  <2>3. cells' \in Seq(Cells) /\ Len(cells') = 0 /\ Len(file') \in Nat /\ 1..Len(cells') = {}
    BY <2>1, <2>2
  <2>4. rpc' = "reading" /\ (fresh' => out'.done = 0)
    BY <2>1
  <2> QED BY ONLY <2>3, <2>4 DEF Reader
<1>8. CASE ReadCell
  <2>1. /\ rpc = "reading" /\ rpc' = rpc /\ UNCHANGED <<out, file, fresh>>
        /\ Len(cells) < Len(file) /\ cells' = Append(cells, file[Len(cells) + 1])
    BY <1>8 DEF ReadCell
  <2>2. ASSUME fresh PROVE /\ cells' \in Seq(Cells) /\ Len(cells') <= Len(file)
                           /\ \A k \in 1..Len(cells') : cells'[k] = file[k]
    <3> DEFINE c == file[Len(cells) + 1]
    <3>1. /\ cells \in Seq(Cells) /\ Len(cells) \in Nat
          /\ \A k \in 1..Len(cells) : cells[k] = file[k]
          /\ file \in Seq(Cells) /\ Len(file) \in Nat
      BY <2>1, <2>2 DEF Reader, Frames
    <3>2. c \in Cells
      BY <2>1, <3>1
    <3>3. cells' = Append(cells, c)
      BY <2>1
    <3> HIDE DEF c
    <3>4. /\ cells' \in Seq(Cells) /\ Len(cells') = Len(cells) + 1
          /\ (\A k \in 1..Len(cells) : cells'[k] = cells[k]) /\ cells'[Len(cells) + 1] = c
      BY <3>1, <3>2, <3>3, AppendProperties
    <3> QED BY <2>1, <3>1, <3>4 DEF c
  <2> QED BY <2>1, <2>2 DEF Reader
<1>9. CASE CloseLog
  <2>1. rpc = "reading" /\ rpc' = "read" /\ UNCHANGED <<out, file, fresh, cells>>
    BY <1>9 DEF CloseLog
  <2>2. fresh /\ file # << >> => Decodes(cells) /\ Decoded(cells) = Decoded(file)
    BY <1>9, ReadingEnds
  <2>3. fresh' => /\ out'.done = 0
                  /\ cells' \in Seq(Cells) /\ Len(cells') <= Len(file')
                  /\ \A k \in 1..Len(cells') : cells'[k] = file'[k]
    BY <2>1 DEF Reader
  <2>4. fresh' /\ file' # << >> => Decodes(cells') /\ Decoded(cells') = Decoded(file')
    BY <2>1, <2>2
  <2>5. rpc' = "read"
    BY <2>1
  <2> QED BY <2>3, <2>4, <2>5 DEF Reader
<1>10. CASE Again
  BY <1>10 DEF Again, Reader
<1> QED BY <1>3, <1>4, <1>5, <1>6, <1>7, <1>8, <1>9, <1>10 DEF Next, Log

Logged == LinesOf(Text) \o NonEmpty(InHand)

\* The line that reading ended at, and where it was.
Lost(l) == l \in Line /\ ~Utf8(l) /\ LinesOf(Text) \o (<<l>> \o NonEmpty(pipe)) = NonEmpty(said)

\* The init's own entries that are in the log.
Marks ==
  IF kind = "Standard" THEN IF lpc \in BeforeSpawn \/ (lpc = "log" /\ entry.init) THEN << >> ELSE << Started >>
  ELSE IF lpc = "done" \/ (lpc \in {"relay", "rewrite"} /\ entry.init) THEN << Finished >> ELSE << >>

\* What was said is logged, in hand or in the pipe, but for a line that ended it.
Contents ==
  /\ Reading \/ lpc = "done" => Logged \o NonEmpty(pipe) = NonEmpty(said)
  /\ lpc = "ended" => \E l : Lost(l)
  /\ lpc = "failed" =>
       (svc = "failed" /\ LinesOf(Text) \o NonEmpty(pipe) = NonEmpty(said)) \/ \E l : Lost(l)
  /\ Marked(Text) = Marks

\* The types of the parts.
LEMMA PartTypes ==
  ASSUME Control, Writers, Frames
  PROVE  /\ Text \in Seq(Line) /\ LinesOf(Text) \in Seq(Line)
         /\ InHand \in Seq(Line) /\ NonEmpty(InHand) \in Seq(Line)
         /\ Logged \in Seq(Line) /\ NonEmpty(pipe) \in Seq(Line) /\ NonEmpty(said) \in Seq(Line)
<1>1. Text \in Seq(Line)
  BY TextType DEF Texts
<1>2. LinesOf(Text) \in Seq(Line)
  BY <1>1, LinesOfType
<1>3. InHand \in Seq(Line)
  <2>1. <<entry.line>> \in Seq(Line) /\ << >> \in Seq(Line)
    BY EntryBytes
  <2> QED BY <2>1 DEF InHand
<1>4. NonEmpty(InHand) \in Seq(Line)
  BY <1>3, NonEmptyType
<1>5. Logged \in Seq(Line)
  BY <1>2, <1>4, ConcatProperties DEF Logged
<1>6. NonEmpty(pipe) \in Seq(Line) /\ NonEmpty(said) \in Seq(Line)
  BY NonEmptyType DEF Writers
<1> QED BY <1>1, <1>2, <1>3, <1>4, <1>5, <1>6

\* Contents holds at first.
LEMMA ContentsInit == Init => Contents
<1> SUFFICES ASSUME Init PROVE Contents
  OBVIOUS
<1>1. Text = << >> /\ InHand = << >> /\ lpc = "create" /\ pipe = << >> /\ said = << >>
  BY EntryFacts DEF Init, Text, InHand
<1>2. << >> \o << >> = << >>
  OBVIOUS
<1>3. Logged = << >>
  BY <1>1, <1>2, TextEmpty, NonEmptyOne DEF Logged
<1>4. Marks = << >> /\ Marked(Text) = << >>
  BY <1>1, TextEmpty DEF Init, Marks, BeforeSpawn
<1> QED BY <1>1, <1>2, <1>3, <1>4, NonEmptyOne DEF Contents

\* Steps that leave the log's text, the pipe and what was said as they are.
LEMMA ContentsKept ==
  ASSUME Contents, UNCHANGED <<kind, pipe, said>>, Text' = Text, NonEmpty(InHand)' = NonEmpty(InHand),
         Marks' = Marks,
         (Reading' \/ lpc' = "done") => (Reading \/ lpc = "done"),
         lpc' = "ended" => lpc = "ended",
         lpc' = "failed" => lpc = "failed" /\ (svc = "failed" => svc' = "failed")
  PROVE  Contents'
<1>1. /\ NonEmpty(pipe)' = NonEmpty(pipe) /\ NonEmpty(said)' = NonEmpty(said)
      /\ LinesOf(Text)' = LinesOf(Text) /\ Marked(Text)' = Marked(Text)
  BY DEF NonEmpty, LinesOf, Marked, Printed
<1>2. Logged' = Logged
  BY <1>1 DEF Logged
<1>3. \A l : Lost(l) => Lost(l)'
  BY <1>1 DEF Lost
<1> QED BY <1>1, <1>2, <1>3 DEF Contents

\* The line that is logged goes from the hand into the text.
LEMMA LogEntryKeeps ==
  ASSUME Control, Writers, Frames, Contents, LogEntry
  PROVE  Contents'
<1>1. /\ lpc = "log" /\ UNCHANGED <<kind, entry, file, svc, said, pipe>> /\ file # << >>
      /\ Text = Decoded(file)
  BY DEF LogEntry, Frames, Text, svcVars
<1>2. entry \in {Started, Finished} \/ ~entry.init
  BY EntryFacts DEF Control
<1>3. /\ entry.line \in Line /\ Bytes(entry) \in Line
      /\ Shown(Bytes(entry)) = [init |-> entry.init, line |-> entry.line]
  BY EntryBytes
<1>4. kind = "Standard" \/ kind = "RunOnce"
  BY DEF Control
<1>5. CASE entry.line = << >>
  <2>1. ~entry.init
    BY <1>2, <1>5, EntryFacts
  <2>2. lpc' = Return /\ Return \in {"watch", "drain"} /\ out' = out
    BY <1>1, <1>5, <2>1 DEF LogEntry, Return
  <2>3. InHand = << << >> >> /\ InHand' = << >>
    BY <1>1, <1>5, <2>1, <2>2 DEF InHand
  <2>4. NonEmpty(InHand)' = NonEmpty(InHand)
    BY <2>3, NonEmptyOne
  <2>5. Text' = Text
    BY <1>1, <2>2 DEF Text, Decoded
  <2>6. Marks' = Marks
    BY <1>1, <1>4, <2>1, <2>2 DEF Marks, BeforeSpawn
  <2> QED BY <1>1, <2>2, <2>4, <2>5, <2>6, ContentsKept DEF Reading
<1>6. CASE entry.line # << >>
  <2> DEFINE b == Bytes(entry)
  <2>1. lpc' \in {"relay", "rewrite"} /\ out'.text = Append(Text, b)
    BY <1>1, <1>6 DEF LogEntry
  <2>2. Text' = Append(Text, b)
    BY <2>1 DEF Text
  <2>3. Text \in Seq(Line) /\ LinesOf(Text) \in Seq(Line) /\ NonEmpty(InHand) \in Seq(Line)
    BY PartTypes
  <2> HIDE DEF b
  <2>4. LinesOf(Text)' = IF Shown(b).init THEN LinesOf(Text) ELSE Append(LinesOf(Text), Shown(b).line)
    <3>1. b \in Line
      BY <1>3 DEF b
    <3>2. LinesOf(Append(Text, b)) = IF Shown(b).init THEN LinesOf(Text) ELSE Append(LinesOf(Text), Shown(b).line)
      BY <2>3, <3>1, LinesOfAppend
    <3>3. LinesOf(Text)' = LinesOf(Text')
      BY DEF LinesOf, Printed
    <3> QED BY <2>2, <3>2, <3>3
  <2>5. Marked(Text)' = IF Shown(b).init THEN Append(Marked(Text), Shown(b)) ELSE Marked(Text)
    <3>1. b \in Line
      BY <1>3 DEF b
    <3>2. Marked(Append(Text, b)) = IF Shown(b).init THEN Append(Marked(Text), Shown(b)) ELSE Marked(Text)
      BY <2>3, <3>1, MarkedAppend
    <3>3. Marked(Text)' = Marked(Text')
      BY DEF Marked, Printed
    <3> QED BY <2>2, <3>2, <3>3
  <2>6. Shown(b).init = entry.init /\ Shown(b).line = entry.line /\ Shown(b) = [init |-> entry.init, line |-> entry.line]
    BY <1>3 DEF b
  <2>7. InHand' = << >> /\ NonEmpty(InHand)' = << >>
    BY <2>1, NonEmptyOne DEF InHand
  <2>8. Marked(Text) = Marks /\ Logged \o NonEmpty(pipe) = NonEmpty(said)
    BY <1>1 DEF Contents, Reading
  <2>9. Logged' = LinesOf(Text)' \o << >>
    BY <2>7 DEF Logged
  <2>10. Logged' = Logged /\ Marked(Text)' = Marks'
    <3>1. CASE entry.init
      <4>1. LinesOf(Text)' = LinesOf(Text) /\ InHand = << >>
        BY <2>4, <2>6, <3>1 DEF InHand
      <4>2. Logged = LinesOf(Text) \o << >>
        BY <4>1, NonEmptyOne DEF Logged
      <4>3. entry = (IF kind = "Standard" THEN Started ELSE Finished)
        BY <1>1, <1>2, <3>1 DEF Control, Logging
      <4>4. Shown(b) = entry
        BY <2>6, <3>1, <4>3, EntryFacts
      <4>5. Marks = << >> /\ Marks' = << entry >>
        BY <1>1, <1>4, <2>1, <3>1, <4>3 DEF Marks, BeforeSpawn
      <4>6. Append(<< >>, entry) = << entry >>
        OBVIOUS
      <4> QED BY <2>5, <2>6, <2>8, <2>9, <3>1, <4>1, <4>2, <4>4, <4>5, <4>6
    <3>2. CASE ~entry.init
      <4>1. LinesOf(Text)' = Append(LinesOf(Text), entry.line) /\ InHand = << entry.line >>
        BY <1>1, <2>4, <2>6, <3>2 DEF InHand
      <4>2. NonEmpty(InHand) = << entry.line >>
        BY <1>3, <1>6, <4>1, NonEmptyOne
      <4>3. Logged = LinesOf(Text) \o << entry.line >>
        BY <4>2 DEF Logged
      <4>4. Append(LinesOf(Text), entry.line) = LinesOf(Text) \o << entry.line >>
        BY <1>3, <2>3, AppendIsConcat
      <4>5. (LinesOf(Text) \o << entry.line >>) \o << >> = LinesOf(Text) \o << entry.line >>
        <5>1. LinesOf(Text) \o << entry.line >> \in Seq(Line)
          BY <1>3, <2>3, <4>4
        <5> QED BY <5>1, ConcatEmptySeq
      <4>6. Marks' = Marks
        BY <1>1, <1>4, <2>1, <3>2 DEF Marks, BeforeSpawn
      <4>7. Marked(Text)' = Marked(Text)
        BY <2>5, <2>6, <3>2
      <4> QED BY <2>8, <2>9, <4>1, <4>3, <4>4, <4>5, <4>6, <4>7
    <3> QED BY <3>1, <3>2
  <2>11. NonEmpty(pipe)' = NonEmpty(pipe) /\ NonEmpty(said)' = NonEmpty(said)
    BY <1>1
  <2>12. lpc' # "ended" /\ lpc' # "failed"
    BY <2>1
  <2> QED BY <2>8, <2>10, <2>11, <2>12 DEF Contents
<1> QED BY <1>5, <1>6

\* A line comes out of the pipe, into the hand or to be the last.
LEMMA LineRead ==
  ASSUME Control, Writers, Frames, Contents, Watch \/ Drain
  PROVE  Contents'
<1> DEFINE l == Head(pipe)
           rest == Tail(pipe)
<1>1. /\ lpc = (IF kind = "Standard" THEN "watch" ELSE "drain") /\ pipe # << >> /\ pipe' = rest
      /\ UNCHANGED <<kind, file, out, svc, said>>
      /\ IF Utf8(l) THEN lpc' = "log" /\ entry' = ServiceEntry(l)
                    ELSE lpc' = (IF lpc = "watch" THEN "ended" ELSE "failed") /\ entry' = entry
  BY DEF Watch, Drain, svcVars, Control, BeforeSpawn, Logging
<1>2. l \in Line /\ rest \in Seq(Line) /\ <<l>> \in Seq(Line)
  BY <1>1 DEF Writers
<1>3. NonEmpty(pipe) = NonEmpty(<<l>>) \o NonEmpty(rest)
  BY <1>1, NonEmptyHead DEF Writers
<1> HIDE DEF l, rest
<1>4. NonEmpty(<<l>>) \in Seq(Line) /\ NonEmpty(rest) \in Seq(Line) /\ LinesOf(Text) \in Seq(Line)
  BY <1>2, NonEmptyType, PartTypes
<1>5. Text' = Text /\ LinesOf(Text)' = LinesOf(Text) /\ Marked(Text)' = Marked(Text)
  <2>1. Text' = Text
    BY <1>1 DEF Text, Decoded
  <2> QED BY <2>1 DEF LinesOf, Marked, Printed
<1>6. NonEmpty(pipe)' = NonEmpty(rest) /\ NonEmpty(said)' = NonEmpty(said)
  BY <1>1
<1>7. LinesOf(Text) \o NonEmpty(pipe) = NonEmpty(said)
  <2>1. InHand = << >> /\ Reading
    BY <1>1 DEF InHand, Reading
  <2>2. Logged = LinesOf(Text)
    BY <1>4, <2>1, NonEmptyOne, ConcatEmptySeq DEF Logged
  <2> QED BY <2>1, <2>2 DEF Contents
<1>8. Marks' = Marks /\ Marked(Text) = Marks
  <2>1. Utf8(l) => ~entry'.init
    BY <1>1, EntryFacts
  <2> QED BY <1>1, <2>1 DEF Marks, BeforeSpawn, Contents
<1>9. CASE Utf8(l)
  <2>1. InHand' = <<l>>
    BY <1>1, <1>9, EntryFacts DEF InHand
  <2>2. Logged' = LinesOf(Text) \o NonEmpty(<<l>>)
    BY <1>5, <2>1 DEF Logged
  <2>3. (LinesOf(Text) \o NonEmpty(<<l>>)) \o NonEmpty(rest) = LinesOf(Text) \o (NonEmpty(<<l>>) \o NonEmpty(rest))
    BY <1>4, ConcatAssociative
  <2>4. lpc' # "ended" /\ lpc' # "failed"
    BY <1>1, <1>9
  <2> QED BY <1>3, <1>5, <1>6, <1>7, <1>8, <2>2, <2>3, <2>4 DEF Contents
<1>10. CASE ~Utf8(l)
  <2>1. l # << >>
    BY <1>10 DEF Utf8
  <2>2. NonEmpty(<<l>>) = <<l>>
    BY <1>2, <2>1, NonEmptyOne
  <2>3. (\E x : Lost(x))'
    <3>1. PICK x : x = l
      OBVIOUS
    <3>2. LinesOf(Text)' \o (<<x>> \o NonEmpty(pipe)') = NonEmpty(said)'
      BY <1>3, <1>5, <1>6, <1>7, <2>2, <3>1
    <3>3. Lost(x)'
      BY <1>2, <1>10, <3>1, <3>2 DEF Lost
    <3> QED BY <3>3
  <2>4. ~Reading' /\ lpc' # "done"
    BY <1>1, <1>10 DEF Reading
  <2> QED BY <1>5, <1>8, <2>3, <2>4 DEF Contents
<1> QED BY <1>9, <1>10

\* A line goes into the pipe.
LEMMA LinePut ==
  ASSUME Control, Writers, Frames, Contents, Put
  PROVE  Contents'
<1> DEFINE w == want[1]
<1>1. /\ w \in Line /\ Reading /\ pipe' = Append(pipe, w) /\ said' = Append(said, w)
      /\ UNCHANGED <<kind, lpc, entry, file, out>>
  BY DEF Put, Writers, logVars
<1> HIDE DEF w
<1>2. Text' = Text /\ InHand' = InHand /\ Marks' = Marks
  BY <1>1 DEF Text, Decoded, InHand, Marks
<1>3. Logged' = Logged /\ Marked(Text)' = Marked(Text)
  BY <1>2 DEF Logged, LinesOf, Marked, Printed
<1>4. NonEmpty(pipe)' = NonEmpty(pipe) \o NonEmpty(<<w>>) /\ NonEmpty(said)' = NonEmpty(said) \o NonEmpty(<<w>>)
  <2>1. NonEmpty(Append(pipe, w)) = NonEmpty(pipe) \o NonEmpty(<<w>>)
    BY <1>1, NonEmptyAppend DEF Writers
  <2>2. NonEmpty(Append(said, w)) = NonEmpty(said) \o NonEmpty(<<w>>)
    BY <1>1, NonEmptyAppend DEF Writers
  <2> QED BY <1>1, <2>1, <2>2
<1>5. Logged \in Seq(Line) /\ NonEmpty(pipe) \in Seq(Line) /\ NonEmpty(<<w>>) \in Seq(Line)
  <2>1. <<w>> \in Seq(Line)
    BY <1>1
  <2> QED BY <2>1, PartTypes, NonEmptyType
<1>6. Logged \o (NonEmpty(pipe) \o NonEmpty(<<w>>)) = (Logged \o NonEmpty(pipe)) \o NonEmpty(<<w>>)
  BY <1>5, ConcatAssociative
<1>7. Logged \o NonEmpty(pipe) = NonEmpty(said) /\ Marked(Text) = Marks
  BY <1>1 DEF Contents
<1>8. lpc' # "ended" /\ lpc' # "failed"
  BY <1>1 DEF Reading
<1> QED BY <1>2, <1>3, <1>4, <1>6, <1>7, <1>8 DEF Contents

\* Every step keeps Contents.
LEMMA ContentsNext == Control /\ Writers /\ Frames /\ Contents /\ [Next]_vars => Contents'
<1> SUFFICES ASSUME Control, Writers, Frames, Contents, [Next]_vars PROVE Contents'
  OBVIOUS
<1> USE DEF svcVars, logVars
<1>1. kind = "Standard" \/ kind = "RunOnce"
  BY DEF Control
<1>2. ASSUME UNCHANGED <<kind, pipe, said, svc>>, Text' = Text, InHand' = InHand, Marks' = Marks,
             Reading \/ lpc = "done", lpc' \notin {"ended", "failed"}
      PROVE  Contents'
  BY <1>2, ContentsKept
<1>3. CASE CreateLog
  BY <1>1, <1>2, <1>3 DEF CreateLog, Frames, Text, InHand, Marks, BeforeSpawn, Reading
<1>4. CASE WriteNull
  <2>1. lpc = "null" /\ lpc' = "spawn" /\ file = << >> /\ file' = <<Cell(<< >>, 1, 1)>>
    BY <1>4 DEF WriteNull, Frames
  <2>2. Text = << >>
    BY <2>1 DEF Text
  <2>3. Text' = << >>
    BY <2>1 DEF Text, Decoded, Cell
  <2>4. InHand = << >> /\ InHand' = << >> /\ Reading
    BY <2>1 DEF InHand, Reading
  <2> QED BY <1>1, <1>2, <1>4, <2>1, <2>2, <2>3, <2>4 DEF WriteNull, Marks, BeforeSpawn
<1>5. CASE Spawn
  <2>1. /\ entry = Started /\ lpc = "spawn" /\ UNCHANGED <<kind, pipe, said, entry, out, file>>
        /\ lpc' = IF kind = "Standard" THEN "log" ELSE "wait"
    BY <1>5 DEF Spawn, Control, BeforeSpawn
  <2>2. InHand = << >> /\ InHand' = << >>
    BY <2>1, EntryFacts DEF InHand
  <2>3. Text' = Text
    BY <2>1 DEF Text, Decoded
  <2>4. Marks' = Marks
    BY <1>1, <2>1, EntryFacts DEF Marks, BeforeSpawn
  <2> QED BY <2>1, <2>2, <2>3, <2>4, ContentsKept DEF Reading
<1>6. CASE LogEntry
  BY <1>6, LogEntryKeeps
<1>7. CASE Relay
  BY <1>1, <1>2, <1>7 DEF Relay, Text, InHand, Marks, BeforeSpawn, Reading
<1>8. CASE Rewrite
  <2>1. lpc = "rewrite" /\ UNCHANGED <<kind, entry, pipe, said, svc>>
    BY <1>8 DEF Rewrite
  <2>2. CASE out.done + 1 = out.of
    <3>1. lpc' = Return
      BY <1>8, <2>2 DEF Rewrite
    <3>2. file' # << >> /\ Decoded(file') = out.text
      BY <1>8, <2>1, <2>2, CellWritten, FrameWritten
    <3>3. Text' = Text
      BY <2>1, <3>1, <3>2 DEF Text, Return, Decoded
    <3>4. InHand = << >> /\ InHand' = << >> /\ Reading /\ lpc' \notin {"ended", "failed"}
      BY <2>1, <3>1 DEF InHand, Return, Reading
    <3>5. Marks' = Marks
      BY <1>1, <2>1, <3>1 DEF Marks, Return, BeforeSpawn
    <3> QED BY <1>2, <2>1, <3>3, <3>4, <3>5
  <2>3. CASE out.done + 1 # out.of
    <3>1. lpc' = lpc /\ out'.text = out.text
      BY <1>8, <2>3 DEF Rewrite, Frames
    <3>2. Text' = Text /\ InHand' = InHand /\ Marks' = Marks /\ Reading
      BY <2>1, <3>1 DEF Text, InHand, Marks, Reading
    <3> QED BY <1>2, <2>1, <3>1, <3>2
  <2> QED BY <2>2, <2>3
<1>9. CASE Watch \/ Drain
  BY <1>9, LineRead
<1>10. CASE Wait
  <2>1. /\ lpc = "wait" /\ UNCHANGED <<kind, entry, pipe, said, svc, file, out>>
        /\ ((svc = "exited" /\ lpc' = "drain") \/ (svc = "failed" /\ lpc' = "failed"))
    BY <1>10 DEF Wait
  <2>2. Text' = Text /\ InHand = << >> /\ InHand' = << >> /\ Reading
    BY <2>1 DEF Text, Decoded, InHand, Reading
  <2>3. Marks' = Marks
    BY <1>1, <2>1 DEF Marks, BeforeSpawn
  <2>4. CASE svc = "exited" /\ lpc' = "drain"
    BY <1>2, <2>1, <2>2, <2>3, <2>4
  <2>5. CASE svc = "failed" /\ lpc' = "failed"
    <3>1. LinesOf(Text) \in Seq(Line)
      BY PartTypes
    <3>2. Logged = LinesOf(Text)
      BY <2>2, <3>1, NonEmptyOne, ConcatEmptySeq DEF Logged
    <3>3. LinesOf(Text) \o NonEmpty(pipe) = NonEmpty(said) /\ Marked(Text) = Marks
      BY <2>2, <3>2 DEF Contents
    <3>4. LinesOf(Text)' = LinesOf(Text) /\ Marked(Text)' = Marked(Text)
      BY <2>2 DEF LinesOf, Marked, Printed
    <3>5. NonEmpty(pipe)' = NonEmpty(pipe) /\ NonEmpty(said)' = NonEmpty(said)
      BY <2>1
    <3>6. svc' = "failed" /\ ~Reading' /\ lpc' # "done" /\ lpc' # "ended"
      BY <2>1, <2>5 DEF Reading
    <3> QED BY <2>3, <3>3, <3>4, <3>5, <3>6 DEF Contents
  <2> QED BY <2>1, <2>4, <2>5
<1>11. CASE Drained
  <2>1. lpc = "drain" /\ lpc' = "log" /\ entry' = Finished /\ UNCHANGED <<kind, pipe, said, svc, file, out>>
    BY <1>11 DEF Drained
  <2>2. Text' = Text /\ InHand = << >> /\ InHand' = << >> /\ Reading
    BY <2>1, EntryFacts DEF Text, Decoded, InHand, Reading
  <2>3. Marks' = Marks
    BY <2>1 DEF Marks, BeforeSpawn, Control, Logging
  <2> QED BY <1>2, <2>1, <2>2, <2>3
<1>12. CASE Put
  BY <1>12, LinePut
<1>14. CASE Poll
  BY <1>1, <1>2, <1>14 DEF Poll, Text, Decoded, InHand, Marks, BeforeSpawn, Reading
<1>13. CASE ~Log /\ ~Put /\ ~Poll
  <2>1. UNCHANGED <<kind, lpc, entry, file, out, pipe, said>> /\ (svc = "failed" => svc' = "failed")
    BY <1>13 DEF Next, LeaveHelper, BrokenPipe, Exit, HelperExits, Emergency,
       MasterLogKept, StateKept, OpenLog, ReadCell, CloseLog, Again, Say, vars
  <2>2. Text' = Text /\ InHand' = InHand /\ Marks' = Marks /\ Reading' = Reading
    BY <2>1 DEF Text, Decoded, InHand, Marks, Reading
  <2> QED BY <2>1, <2>2, ContentsKept
<1> QED BY <1>3, <1>4, <1>5, <1>6, <1>7, <1>8, <1>9, <1>10, <1>11, <1>12, <1>13, <1>14 DEF Log

\* Reader holds at first.
LEMMA ReaderInit == Init => Reader
BY DEF Init, Reader

\* The inductive invariant.
LogInv == Control /\ Writers /\ Frames /\ Contents /\ Reader

\* Every step keeps it.
LEMMA LogInvariance == Spec => []LogInv
<1>1. Init => LogInv
  BY ControlInit, WritersInit, FramesInit, ContentsInit, ReaderInit DEF LogInv
<1>2. LogInv /\ [Next]_vars => LogInv'
  BY ControlNext, WritersNext, FramesNext, ContentsNext, ReaderNext DEF LogInv
<1> QED BY <1>1, <1>2, PTL DEF Spec

\* A sequence begins what it is continued to.
LEMMA Beginning ==
  ASSUME NEW S, NEW a \in Seq(S), NEW b \in Seq(S)
  PROVE  /\ IsPrefix(a, a \o b) /\ a \o b \in Seq(S)
         /\ b # << >> => (a \o b)[Len(a) + 1] = b[1]
<1> DEFINE c == a \o b
           l == Len(a)
           u == SubSeq(a, 1, l)
           v == SubSeq(c, 1, l)
<1>1. /\ c \in Seq(S) /\ Len(c) = l + Len(b) /\ l \in Nat /\ Len(b) \in Nat
      /\ (\A k \in 1..l : c[k] = a[k]) /\ \A k \in 1..Len(b) : c[l + k] = b[k]
  <2>1. a \in Seq(S) /\ b \in Seq(S) /\ c = a \o b
    OBVIOUS
  <2> HIDE DEF c
  <2> QED BY <2>1, ConcatAt
<1> HIDE DEF c
<1>2. u = v
  <2>1. u \in Seq(S) /\ Len(u) = l /\ \A k \in 1..l : u[k] = a[k]
    BY <1>1, SubSeqProperties
  <2>2. v \in Seq(S) /\ Len(v) = l /\ \A k \in 1..l : v[k] = c[k]
    BY <1>1, SubSeqProperties
  <2> HIDE DEF u, v
  <2> QED BY <1>1, <2>1, <2>2, SeqEqual
<1>3. IsPrefix(a, c)
  BY <1>1, <1>2 DEF IsPrefix
<1>4. ASSUME b # << >> PROVE c[l + 1] = b[1]
  <2>1. 1 \in 1..Len(b)
    BY <1>1, <1>4, EmptySeq
  <2> QED BY <1>1, <2>1
<1> QED BY <1>1, <1>3, <1>4 DEF c

\* LogIsWhatWasSaid: the log, the line in hand and the pipe together are what the
\* service said, whoever reads and however many cells a frame takes; reading ends
\* early at a line that is no UTF-8 or at a failed exit (Logger::log, watch).
THEOREM LogIsTheService == Spec => []LogIsWhatWasSaid
<1>1. ASSUME LogInv PROVE LogIsWhatWasSaid
  <2> DEFINE all == NonEmpty(said)
             left == NonEmpty(pipe)
  <2>1. Control /\ Writers /\ Frames /\ Contents
    BY <1>1 DEF LogInv
  <2>2. Logged \in Seq(Line) /\ left \in Seq(Line) /\ LinesOf(Text) \in Seq(Line)
    BY <2>1, PartTypes
  <2>3. lpc # "log" => Logged = LinesOf(Text)
    BY <2>2, NonEmptyOne, ConcatEmptySeq DEF Logged, InHand
  <2>4. Reading => Logged \o left = all /\ IsPrefix(Logged, all)
    BY <2>1, <2>2, Beginning DEF Contents
  <2>5. lpc = "done" => Logged = all /\ IsPrefix(Logged, all)
    <3> SUFFICES ASSUME lpc = "done" PROVE Logged = all /\ IsPrefix(Logged, all)
      OBVIOUS
    <3>1. left = << >>
      BY <2>1, NonEmptyOne DEF Writers
    <3>2. Logged \o left = all
      BY <2>1 DEF Contents
    <3> QED BY <2>2, <3>1, <3>2, ConcatEmptySeq, Beginning
  <2>6. ASSUME NEW l, Lost(l), lpc # "log"
        PROVE  IsPrefix(Logged, all) /\ ~Utf8(all[Len(Logged) + 1])
    <3> DEFINE rest == <<l>> \o left
    <3>1. l \in Line /\ ~Utf8(l) /\ Logged \o rest = all
      BY <2>3, <2>6 DEF Lost
    <3>2. <<l>> \in Seq(Line) /\ <<l>> # << >>
      BY <3>1
    <3>3. rest \in Seq(Line) /\ Len(rest) = 1 + Len(left) /\ rest[1] = l
      <4>1. Len(<<l>>) = 1 /\ <<l>>[1] = l
        OBVIOUS
      <4> HIDE DEF left
      <4> QED BY <2>2, <3>2, <4>1, ConcatAt
    <3>4. rest # << >>
      BY <2>2, <3>3
    <3> HIDE DEF rest
    <3>5. all[Len(Logged) + 1] = l
      BY <2>2, <3>1, <3>3, <3>4, Beginning
    <3>6. IsPrefix(Logged, all)
      BY <2>2, <3>1, <3>3, Beginning
    <3> QED BY <3>1, <3>5, <3>6
  <2>7. lpc = "ended" => IsPrefix(Logged, all) /\ ~Utf8(all[Len(Logged) + 1])
    BY <2>1, <2>6 DEF Contents
  <2>8. lpc = "failed" => /\ IsPrefix(Logged, all)
                          /\ svc = "failed" \/ ~Utf8(all[Len(Logged) + 1])
    <3>1. ASSUME lpc = "failed", LinesOf(Text) \o left = all PROVE IsPrefix(Logged, all)
      BY <2>2, <2>3, <3>1, Beginning
    <3> QED BY <2>1, <2>6, <3>1 DEF Contents
  <2>9. Reading \/ lpc \in {"ended", "failed", "done"}
    BY DEF Reading
  <2> HIDE DEF all, left
  <2>10. /\ Reading => Logged \o left = all
         /\ lpc = "done" => Logged = all
         /\ IsPrefix(Logged, all)
         /\ lpc \in {"ended", "failed"} => svc = "failed" \/ ~Utf8(all[Len(Logged) + 1])
    BY <2>4, <2>5, <2>7, <2>8, <2>9
  <2> QED BY <2>10 DEF LogIsWhatWasSaid, Logged, all, left
<1> QED BY <1>1, LogInvariance, PTL

\* ReaderWhole: a reading that no rewrite overlapped is whole, and shows the init's
\* entries and the service's lines apart (CacheInstance::logs, Logger::log).
THEOREM LogsAreReadWhole == Spec => []ReaderWhole
<1>1. ASSUME LogInv PROVE ReaderWhole
  <2> SUFFICES ASSUME rpc = "read", fresh, lpc \in {"queued", "watch", "drain", "wait", "done"}
               PROVE  /\ Decodes(cells)
                      /\ LinesOf(Decoded(cells)) \o NonEmpty(pipe) = NonEmpty(said)
                      /\ Only(Printed(Decoded(cells)), Inits) =
                           IF kind = "Standard" THEN <<Started>> ELSE IF lpc = "done" THEN <<Finished>> ELSE << >>
    BY DEF ReaderWhole, Inits
  <2>1. Control /\ Writers /\ Frames /\ Contents /\ Reader
    BY <1>1 DEF LogInv
  <2>2. file # << >>
    BY <2>1 DEF Frames
  <2>3. Decodes(cells) /\ Decoded(cells) = Text
    BY <2>1, <2>2 DEF Reader, Text
  <2>4. LinesOf(Text) \o NonEmpty(pipe) = NonEmpty(said)
    <3>1. Reading \/ lpc = "done"
      BY DEF Reading
    <3>2. LinesOf(Text) \in Seq(Line)
      BY <2>1, PartTypes
    <3>3. Logged = LinesOf(Text)
      BY <3>2, NonEmptyOne, ConcatEmptySeq DEF Logged, InHand
    <3> QED BY <2>1, <3>1, <3>3 DEF Contents
  <2>5. Marked(Text) = Marks
    BY <2>1 DEF Contents
  <2>6. kind = "Standard" => lpc \in {"queued", "watch"}
    BY <2>1 DEF Control, BeforeSpawn, Logging
  <2>7. Marks = IF kind = "Standard" THEN <<Started>> ELSE IF lpc = "done" THEN <<Finished>> ELSE << >>
    BY <2>6 DEF Marks, BeforeSpawn
  <2> QED BY <2>3, <2>4, <2>5, <2>7 DEF Marked
<1> QED BY <1>1, LogInvariance, PTL
=============================================================================
