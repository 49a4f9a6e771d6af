-------------------------- MODULE SelectionProofs --------------------------
(***************************************************************************)
(* What Only selects, for every sequence and every set.  Induction is that *)
(* of the natural numbers with a set in the place of a predicate, so that  *)
(* the theorem on well-founded relations that it rests on can be used.     *)
(***************************************************************************)
EXTENDS Selection, SequencesExt, SequenceTheorems, WellFoundedInduction, TLAPS

\* Induction over the natural numbers, for a set: its complement would have a
\* least number.
LEMMA SetInduction ==
  ASSUME NEW B, 0 \in B, \A n \in Nat : n \in B => n + 1 \in B
  PROVE  Nat \subseteq B
<1>1. SUFFICES ASSUME Nat \ B # {} PROVE FALSE
  OBVIOUS
<1>2. PICK x \in Nat \ B : \A y \in Nat \ B : <<y, x>> \notin OpToRel(<, Nat)
  BY <1>1, WFMin, NatLessThanWellFounded
<1>3. x \in Nat /\ x # 0 /\ x - 1 \in Nat
  OBVIOUS
<1>4. x - 1 \notin B
  BY <1>3
<1>5. <<x - 1, x>> \in OpToRel(<, Nat)
  BY <1>3, SMT DEF OpToRel
<1> QED BY <1>2, <1>3, <1>4, <1>5

----------------------------------------------------------------------------
(* Sequences and their parts.                                              *)

\* The elements of two sequences put together.
LEMMA ConcatAt ==
  ASSUME NEW T, NEW s \in Seq(T), NEW t \in Seq(T), NEW u, u = s \o t
  PROVE  /\ u \in Seq(T) /\ Len(u) = Len(s) + Len(t)
         /\ \A k \in 1..Len(s) : u[k] = s[k]
         /\ \A k \in 1..Len(t) : u[Len(s) + k] = t[k]
OBVIOUS

\* What RemoveAt leaves.
LEMMA RemoveAtProperties ==
  ASSUME NEW T, NEW s \in Seq(T), NEW i \in 1..Len(s)
  PROVE  /\ RemoveAt(s, i) \in Seq(T)
         /\ Len(RemoveAt(s, i)) = Len(s) - 1
         /\ \A k \in 1..(Len(s) - 1) : RemoveAt(s, i)[k] = IF k < i THEN s[k] ELSE s[k + 1]
<1> DEFINE a == SubSeq(s, 1, i - 1)
           b == SubSeq(s, i + 1, Len(s))
<1>1. a \in Seq(T) /\ Len(a) = i - 1 /\ \A k \in 1..(i - 1) : a[k] = s[k]
  BY SubSeqProperties
<1>2. b \in Seq(T) /\ Len(b) = Len(s) - i /\ \A k \in 1..(Len(s) - i) : b[k] = s[i + k]
  BY SubSeqProperties
<1> HIDE DEF a, b
<1>3. /\ a \o b \in Seq(T)
      /\ Len(a \o b) = Len(a) + Len(b)
      /\ \A k \in 1..(Len(a) + Len(b)) : (a \o b)[k] = IF k <= Len(a) THEN a[k] ELSE b[k - Len(a)]
  BY <1>1, <1>2, ConcatProperties
<1>4. RemoveAt(s, i) = a \o b
  BY DEF RemoveAt, a, b
<1>5. Len(a) + Len(b) = Len(s) - 1
  BY <1>1, <1>2
<1>6. ASSUME NEW k \in 1..(Len(s) - 1)
      PROVE  (a \o b)[k] = IF k < i THEN s[k] ELSE s[k + 1]
  <2>1. CASE k < i
    BY <1>1, <1>3, <1>5, <2>1
  <2>2. CASE ~(k < i)
    <3>1. (a \o b)[k] = b[k - (i - 1)]
      BY <1>1, <1>3, <1>5, <2>2
    <3>2. k - (i - 1) \in 1..(Len(s) - i) /\ i + (k - (i - 1)) = k + 1
      BY <2>2
    <3> QED BY <1>2, <2>2, <3>1, <3>2
  <2> QED BY <2>1, <2>2
<1> QED BY <1>3, <1>4, <1>5, <1>6

\* A sequence made of elements of another.
LEMMA RangeOfPart ==
  ASSUME NEW T, NEW s \in Seq(T), NEW t \in Seq(T),
         \A k \in 1..Len(t) : \E j \in 1..Len(s) : t[k] = s[j]
  PROVE  Range(t) \subseteq Range(s)
<1>1. DOMAIN s = 1..Len(s) /\ DOMAIN t = 1..Len(t)
  OBVIOUS
<1> QED BY <1>1 DEF Range

\* The tail has nothing new ...
LEMMA RangeOfTail ==
  ASSUME NEW T, NEW s \in Seq(T), s # << >>
  PROVE  Range(Tail(s)) \subseteq Range(s)
<1>1. Tail(s) \in Seq(T) /\ Len(Tail(s)) = Len(s) - 1 /\ \A n \in 1..Len(Tail(s)) : Tail(s)[n] = s[n + 1]
  BY HeadTailProperties
<1>2. \A n \in 1..Len(Tail(s)) : n + 1 \in 1..Len(s)
  BY <1>1
<1> QED BY <1>1, <1>2, RangeOfPart

\* ... nor has the first of two parts.
LEMMA RangeOfFront ==
  ASSUME NEW T, NEW s \in Seq(T), NEW t \in Seq(T), NEW u, s \o t = u
  PROVE  Range(s) \subseteq Range(u)
<1>1. Range(s \o t) = Range(s) \cup Range(t)
  BY RangeConcatenation
<1> QED BY <1>1

----------------------------------------------------------------------------
(* Only, as the last of its steps.                                         *)

Steps(s, S, T, n) ==
  {f \in [0..n -> Seq(T)] :
     \A k \in 0..n : f[k] = IF k = 0 THEN << >>
                            ELSE IF s[k] \in S THEN Append(f[k - 1], s[k]) ELSE f[k - 1]}

\* The recursion of Only has a solution, up to every length: induction.
LEMMA StepsExist ==
  ASSUME NEW T, NEW S, NEW s \in Seq(T), NEW n \in 0..Len(s)
  PROVE  Steps(s, S, T, n) # {}
<1> DEFINE B == {m \in Nat : m <= Len(s) => Steps(s, S, T, m) # {}}
<1>1. 0 \in B
  <2>1. [k \in 0..0 |-> << >>] \in Steps(s, S, T, 0)
    BY DEF Steps
  <2> QED BY <2>1
<1>2. ASSUME NEW m \in Nat, m \in B PROVE m + 1 \in B
  <2>1. SUFFICES ASSUME m + 1 <= Len(s) PROVE Steps(s, S, T, m + 1) # {}
    OBVIOUS
  <2>2. PICK f : f \in Steps(s, S, T, m)
    BY <1>2, <2>1
  <2> DEFINE g == [k \in 0..(m + 1) |-> IF k <= m THEN f[k]
                     ELSE IF s[m + 1] \in S THEN Append(f[m], s[m + 1]) ELSE f[m]]
  <2>3. s[m + 1] \in T /\ f[m] \in Seq(T)
    BY <2>1, <2>2 DEF Steps
  <2>4. g \in [0..(m + 1) -> Seq(T)]
    BY <2>2, <2>3 DEF Steps
  <2>5. ASSUME NEW k \in 0..(m + 1)
        PROVE  g[k] = IF k = 0 THEN << >>
                      ELSE IF s[k] \in S THEN Append(g[k - 1], s[k]) ELSE g[k - 1]
    <3>1. CASE k <= m
      <4>1. f[k] = IF k = 0 THEN << >> ELSE IF s[k] \in S THEN Append(f[k - 1], s[k]) ELSE f[k - 1]
        <5>1. k \in 0..m
          BY <3>1
        <5>2. \A j \in 0..m : f[j] = IF j = 0 THEN << >> ELSE IF s[j] \in S THEN Append(f[j - 1], s[j]) ELSE f[j - 1]
          BY <2>2 DEF Steps
        <5> HIDE DEF g
        <5> QED BY <5>1, <5>2
      <4>2. g[k] = f[k] /\ (k # 0 => g[k - 1] = f[k - 1])
        BY <3>1
      <4> HIDE DEF g
      <4> QED BY <4>1, <4>2
    <3>2. CASE k = m + 1
      <4>1. g[m] = f[m] /\ k # 0 /\ k - 1 = m
        BY <3>2
      <4>2. g[k] = IF s[m + 1] \in S THEN Append(f[m], s[m + 1]) ELSE f[m]
        BY <3>2
      <4> HIDE DEF g
      <4> QED BY <3>2, <4>1, <4>2
    <3> QED BY <3>1, <3>2
  <2>6. g \in Steps(s, S, T, m + 1)
    BY <2>4, <2>5 DEF Steps
  <2> QED BY <2>6
<1>3. Nat \subseteq B
  <2> HIDE DEF B
  <2> QED BY <1>1, <1>2, SetInduction
<1> QED BY <1>3

\* Any solution of the recursion ends in Only.
LEMMA OnlyIsLastStep ==
  ASSUME NEW T, NEW S, NEW s \in Seq(T), NEW f \in Steps(s, S, T, Len(s))
  PROVE  Only(s, S) = f[Len(s)]
<1> DEFINE P(g) == g = [n \in 0..Len(s) |->
        IF n = 0 THEN << >>
        ELSE IF s[n] \in S THEN Append(g[n - 1], s[n]) ELSE g[n - 1]]
           sel == CHOOSE g : P(g)
<1>1. P(f)
  BY DEF Steps
<1>2. P(sel)
  <2> HIDE DEF P
  <2> QED BY <1>1
<1>3. Only(s, S) = sel[Len(s)]
  BY DEF Only
<1> DEFINE B == {m \in Nat : m <= Len(s) => sel[m] = f[m]}
<1> HIDE DEF sel
<1>4. 0 \in B
  BY <1>1, <1>2
<1>5. ASSUME NEW m \in Nat, m \in B PROVE m + 1 \in B
  <2>1. SUFFICES ASSUME m + 1 <= Len(s) PROVE sel[m + 1] = f[m + 1]
    OBVIOUS
  <2>2. sel[m] = f[m] /\ m + 1 \in 0..Len(s) /\ m + 1 # 0 /\ (m + 1) - 1 = m
    BY <1>5, <2>1
  <2>3. sel[m + 1] = IF s[m + 1] \in S THEN Append(sel[(m + 1) - 1], s[m + 1]) ELSE sel[(m + 1) - 1]
    BY <1>2, <2>2
  <2>4. f[m + 1] = IF s[m + 1] \in S THEN Append(f[(m + 1) - 1], s[m + 1]) ELSE f[(m + 1) - 1]
    BY <1>1, <2>2
  <2> QED BY <2>2, <2>3, <2>4
<1>6. Len(s) \in B
  <2>1. Nat \subseteq B
    <3> HIDE DEF B
    <3> QED BY <1>4, <1>5, SetInduction
  <2> QED BY <2>1
<1> QED BY <1>3, <1>6

----------------------------------------------------------------------------
(* The equations of Only.                                                  *)

\* Nothing is selected from nothing.
LEMMA OnlyEmpty == ASSUME NEW S PROVE Only(<< >>, S) = << >>
<1> DEFINE s == << >>
<1>1. s \in Seq({}) /\ Len(s) = 0 /\ 0 \in 0..0
  OBVIOUS
<1> HIDE DEF s
<1>2. PICK f : f \in Steps(s, S, {}, Len(s))
  BY <1>1, StepsExist
<1>3. f[0] = << >>
  BY <1>1, <1>2 DEF Steps
<1>4. Only(s, S) = f[Len(s)]
  BY <1>1, <1>2, OnlyIsLastStep
<1> QED BY <1>1, <1>3, <1>4 DEF s

\* One more element is selected, or is not.
LEMMA OnlyAppend ==
  ASSUME NEW T, NEW S, NEW s \in Seq(T), NEW e \in T
  PROVE  /\ Only(s, S) \in Seq(T)
         /\ Only(Append(s, e), S) = IF e \in S THEN Append(Only(s, S), e) ELSE Only(s, S)
<1> DEFINE t == Append(s, e)
           n == Len(s)
<1>1. n \in Nat /\ t \in Seq(T) /\ Len(t) = n + 1 /\ t[n + 1] = e /\ \A k \in 1..n : t[k] = s[k]
  OBVIOUS
<1> HIDE DEF t, n
<1>2. PICK f : f \in Steps(t, S, T, n + 1)
  BY <1>1, StepsExist
<1> DEFINE g == [k \in 0..n |-> f[k]]
<1>3. \A k \in 0..(n + 1) : f[k] = IF k = 0 THEN << >>
                                   ELSE IF t[k] \in S THEN Append(f[k - 1], t[k]) ELSE f[k - 1]
  BY <1>2 DEF Steps
<1>4. g \in Steps(s, S, T, n)
  <2>1. g \in [0..n -> Seq(T)]
    BY <1>1, <1>2 DEF Steps
  <2>2. ASSUME NEW k \in 0..n
        PROVE  g[k] = IF k = 0 THEN << >>
                      ELSE IF s[k] \in S THEN Append(g[k - 1], s[k]) ELSE g[k - 1]
    <3>1. g[k] = f[k] /\ (k # 0 => g[k - 1] = f[k - 1] /\ t[k] = s[k])
      BY <1>1
    <3> HIDE DEF g
    <3> QED BY <1>1, <1>3, <3>1
  <2> QED BY <2>1, <2>2 DEF Steps
<1>5. Only(s, S) = f[n]
  <2>1. Only(s, S) = g[n]
    BY <1>4, OnlyIsLastStep DEF n
  <2> QED BY <1>1, <2>1
<1>6. Only(t, S) = f[n + 1]
  BY <1>1, <1>2, OnlyIsLastStep
<1>7. f[n + 1] = IF e \in S THEN Append(f[n], e) ELSE f[n]
  BY <1>1, <1>3
<1>8. f[n] \in Seq(T)
  BY <1>1, <1>2 DEF Steps
<1> QED BY <1>5, <1>6, <1>7, <1>8 DEF t

----------------------------------------------------------------------------
(* What follows from them, by induction on the sequence.                   *)

\* Induction over sequences, by appending, from induction over their length.
LEMMA SequenceInduction ==
  ASSUME NEW T, NEW B, << >> \in B,
         \A s \in Seq(T), e \in T : s \in B => Append(s, e) \in B
  PROVE  Seq(T) \subseteq B
<1> DEFINE N == {n \in Nat : \A s \in Seq(T) : Len(s) = n => s \in B}
<1>1. 0 \in N
  <2>1. \A s \in Seq(T) : Len(s) = 0 => s = << >>
    OBVIOUS
  <2> QED BY <2>1
<1>2. ASSUME NEW n \in Nat, n \in N PROVE n + 1 \in N
  <2>1. SUFFICES ASSUME NEW s \in Seq(T), Len(s) = n + 1 PROVE s \in B
    OBVIOUS
  <2>2. s # << >>
    BY <2>1
  <2>3. PICK t \in Seq(T), e \in T : s = Append(t, e)
    BY <2>2, SequenceEmptyOrAppend
  <2>4. Len(t) = n
    BY <2>1, <2>3
  <2> QED BY <1>2, <2>3, <2>4
<1>3. Nat \subseteq N
  <2> HIDE DEF N
  <2> QED BY <1>1, <1>2, SetInduction
<1> QED BY <1>3

\* Only what is in the set is selected.
LEMMA OnlyType ==
  ASSUME NEW T, NEW S, NEW s \in Seq(T)
  PROVE  Only(s, S) \in Seq(T \cap S) /\ Only(s, S) \in Seq(T)
<1> DEFINE B == {t \in Seq(T) : Only(t, S) \in Seq(T \cap S)}
<1>1. << >> \in B
  <2>1. << >> \in Seq(T) /\ << >> \in Seq(T \cap S)
    OBVIOUS
  <2> QED BY <2>1, OnlyEmpty
<1>2. ASSUME NEW t \in Seq(T), NEW e \in T, t \in B PROVE Append(t, e) \in B
  <2>1. Append(t, e) \in Seq(T) /\ Only(t, S) \in Seq(T \cap S)
    BY <1>2
  <2>2. CASE e \in S
    <3>1. Append(Only(t, S), e) \in Seq(T \cap S)
      BY <2>1, <2>2
    <3> QED BY <2>1, <2>2, <3>1, OnlyAppend
  <2>3. CASE e \notin S
    BY <2>1, <2>3, OnlyAppend
  <2> QED BY <2>2, <2>3
<1>3. Seq(T) \subseteq B
  <2> HIDE DEF B
  <2> QED BY <1>1, <1>2, SequenceInduction
<1>4. Only(s, S) \in Seq(T \cap S)
  BY <1>3
<1> QED BY <1>4

\* One element more in the range.
LEMMA AppendRange ==
  ASSUME NEW T, NEW s \in Seq(T), NEW e
  PROVE  Range(Append(s, e)) = Range(s) \cup {e}
<1> DEFINE u == Append(s, e)
<1>1. u \in Seq(T \cup {e}) /\ Len(u) = Len(s) + 1 /\ u[Len(s) + 1] = e
        /\ \A k \in 1..Len(s) : u[k] = s[k]
  OBVIOUS
<1>2. DOMAIN u = 1..(Len(s) + 1) /\ DOMAIN s = 1..Len(s)
  OBVIOUS
<1> HIDE DEF u
<1>3. ASSUME NEW x \in Range(u) PROVE x \in Range(s) \cup {e}
  BY <1>1, <1>2 DEF Range
<1>4. ASSUME NEW x \in Range(s) \cup {e} PROVE x \in Range(u)
  <2>1. CASE x = e
    BY <1>1, <1>2, <2>1 DEF Range
  <2>2. CASE x \in Range(s)
    BY <1>1, <1>2, <2>2 DEF Range
  <2> QED BY <1>4, <2>1, <2>2
<1> QED BY <1>3, <1>4 DEF u

\* And all of it is.
LEMMA OnlyRange ==
  ASSUME NEW T, NEW S, NEW s \in Seq(T)
  PROVE  Range(Only(s, S)) = Range(s) \cap S
<1> DEFINE B == {t \in Seq(T) : Range(Only(t, S)) = Range(t) \cap S}
<1>1. << >> \in B
  <2>1. Range(<< >>) = {}
    BY DEF Range
  <2> QED BY <2>1, OnlyEmpty
<1>2. ASSUME NEW t \in Seq(T), NEW e \in T, t \in B PROVE Append(t, e) \in B
  <2>0. Append(t, e) \in Seq(T)
    OBVIOUS
  <2>1. Only(t, S) \in Seq(T)
    BY OnlyType
  <2>2. Range(Append(t, e)) = Range(t) \cup {e}
    BY AppendRange
  <2>3. Range(Append(Only(t, S), e)) = Range(Only(t, S)) \cup {e}
    BY <2>1, AppendRange
  <2>4. Range(Only(t, S)) = Range(t) \cap S
    BY <1>2
  <2>5. CASE e \in S
    <3>1. Only(Append(t, e), S) = Append(Only(t, S), e)
      BY <2>5, OnlyAppend
    <3>2. Range(Only(Append(t, e), S)) = Range(Append(t, e)) \cap S
      BY <2>2, <2>3, <2>4, <2>5, <3>1
    <3> QED BY <2>0, <3>2
  <2>6. CASE e \notin S
    <3>1. Only(Append(t, e), S) = Only(t, S)
      BY <2>6, OnlyAppend
    <3>2. Range(Only(Append(t, e), S)) = Range(Append(t, e)) \cap S
      BY <2>2, <2>4, <2>6, <3>1
    <3> QED BY <2>0, <3>2
  <2> QED BY <2>5, <2>6
<1>3. Seq(T) \subseteq B
  <2> HIDE DEF B
  <2> QED BY <1>1, <1>2, SequenceInduction
<1> QED BY <1>3

\* The parts can be selected from one by one.
LEMMA OnlyConcat ==
  ASSUME NEW T, NEW S, NEW s \in Seq(T), NEW t \in Seq(T)
  PROVE  Only(s \o t, S) = Only(s, S) \o Only(t, S)
<1> DEFINE B == {u \in Seq(T) : Only(s \o u, S) = Only(s, S) \o Only(u, S)}
<1>0. Only(s, S) \in Seq(T)
  BY OnlyType
<1>1. << >> \in B
  <2>1. s \o << >> = s /\ Only(s, S) \o << >> = Only(s, S) /\ << >> \in Seq(T)
    BY <1>0, ConcatEmptySeq
  <2> QED BY <2>1, OnlyEmpty
<1>2. ASSUME NEW u \in Seq(T), NEW e \in T, u \in B PROVE Append(u, e) \in B
  <2>1. Only(u, S) \in Seq(T)
    BY OnlyType
  <2>2. s \o u \in Seq(T) /\ Append(u, e) \in Seq(T)
    BY ConcatProperties
  <2>3. s \o Append(u, e) = Append(s \o u, e)
    OBVIOUS
  <2>4. Only(s, S) \o Append(Only(u, S), e) = Append(Only(s, S) \o Only(u, S), e)
    BY <1>0, <2>1
  <2>5. Only(s \o u, S) = Only(s, S) \o Only(u, S)
    BY <1>2
  <2>6. Only(Append(s \o u, e), S) = IF e \in S THEN Append(Only(s \o u, S), e) ELSE Only(s \o u, S)
    <3> DEFINE v == s \o u
    <3>1. v \in Seq(T)
      BY <2>2
    <3> HIDE DEF v
    <3>2. Only(Append(v, e), S) = IF e \in S THEN Append(Only(v, S), e) ELSE Only(v, S)
      BY <3>1, OnlyAppend
    <3> QED BY <3>2 DEF v
  <2>7. Only(Append(u, e), S) = IF e \in S THEN Append(Only(u, S), e) ELSE Only(u, S)
    BY OnlyAppend
  <2>8. Only(s \o Append(u, e), S) = Only(s, S) \o Only(Append(u, e), S)
    BY <2>3, <2>4, <2>5, <2>6, <2>7
  <2> QED BY <2>2, <2>8
<1>3. Seq(T) \subseteq B
  <2> HIDE DEF B
  <2> QED BY <1>1, <1>2, SequenceInduction
<1> QED BY <1>3

\* What is selected keeps its order.
LEMMA OnlyOrder ==
  ASSUME NEW T, NEW S, NEW s \in Seq(T),
         NEW i \in 1..Len(Only(s, S)), NEW j \in (i + 1)..Len(Only(s, S))
  PROVE  \E a \in 1..Len(s) : \E b \in (a + 1)..Len(s) :
           s[a] = Only(s, S)[i] /\ s[b] = Only(s, S)[j]
<1> DEFINE In(t, x, y) == \E a \in 1..Len(t) : \E b \in (a + 1)..Len(t) : t[a] = x /\ t[b] = y
           B == {t \in Seq(T) : \A k \in 1..Len(Only(t, S)) : \A l \in (k + 1)..Len(Only(t, S)) :
                                  In(t, Only(t, S)[k], Only(t, S)[l])}
<1>1. << >> \in B
  BY OnlyEmpty
<1>2. ASSUME NEW t \in Seq(T), NEW e \in T, t \in B PROVE Append(t, e) \in B
  <2> DEFINE u == Append(t, e)
             o == Only(t, S)
  <2>1. u \in Seq(T) /\ Len(u) = Len(t) + 1 /\ u[Len(t) + 1] = e /\ \A k \in 1..Len(t) : u[k] = t[k]
    OBVIOUS
  <2>2. o \in Seq(T) /\ Only(u, S) = IF e \in S THEN Append(o, e) ELSE o
    BY OnlyAppend
  <2>3. \A k \in 1..Len(o) : \A l \in (k + 1)..Len(o) : In(t, o[k], o[l])
    BY <1>2
  <2>4. \A k \in 1..Len(o) : \E a \in 1..Len(t) : t[a] = o[k]
    <3>1. Range(o) = Range(t) \cap S
      BY OnlyRange
    <3> HIDE DEF o
    <3>2. \A k \in 1..Len(o) : o[k] \in Range(o)
      BY <2>2 DEF Range
    <3>3. \A x \in Range(t) : \E a \in 1..Len(t) : t[a] = x
      BY DEF Range
    <3> QED BY <3>1, <3>2, <3>3
  <2> HIDE DEF u, o
  <2>5. ASSUME NEW x, NEW y, In(t, x, y) PROVE In(u, x, y)
    <3>1. PICK a \in 1..Len(t) : \E b \in (a + 1)..Len(t) : t[a] = x /\ t[b] = y
      BY <2>5
    <3>2. PICK b \in (a + 1)..Len(t) : t[a] = x /\ t[b] = y
      BY <3>1
    <3>3. a \in 1..Len(u) /\ b \in (a + 1)..Len(u) /\ b \in 1..Len(t)
      BY <2>1
    <3>4. u[a] = x /\ u[b] = y
      BY <2>1, <3>2, <3>3
    <3> QED BY <3>3, <3>4
  <2>6. ASSUME NEW k \in 1..Len(Only(u, S)), NEW l \in (k + 1)..Len(Only(u, S))
        PROVE  In(u, Only(u, S)[k], Only(u, S)[l])
    <3>0. Len(Only(u, S)) = IF e \in S THEN Len(o) + 1 ELSE Len(o)
      BY <2>2
    <3>1. CASE l <= Len(o)
      <4>1. k \in 1..Len(o) /\ l \in (k + 1)..Len(o) /\ l \in 1..Len(o)
        BY <2>2, <3>0, <3>1
      <4>2. Only(u, S)[k] = o[k] /\ Only(u, S)[l] = o[l]
        BY <2>2, <4>1
      <4> HIDE DEF In
      <4> QED BY <2>3, <2>5, <4>1, <4>2
    <3>2. CASE ~(l <= Len(o))
      <4>0. Len(o) \in Nat /\ Len(t) \in Nat
        BY <2>2
      <4>1. e \in S /\ l = Len(o) + 1 /\ k \in 1..Len(o)
        BY <3>0, <3>2, <4>0
      <4>2. Only(u, S)[l] = e /\ Only(u, S)[k] = o[k]
        BY <2>2, <4>1
      <4>3. PICK a \in 1..Len(t) : t[a] = o[k]
        BY <2>4, <4>1
      <4>4. u[a] = o[k] /\ a \in 1..Len(u) /\ Len(t) + 1 \in (a + 1)..Len(u)
        BY <2>1, <4>0, <4>3
      <4> QED BY <2>1, <4>2, <4>4
    <3> QED BY <3>1, <3>2
  <2>7. u \in B
    BY <2>1, <2>6
  <2> QED BY <2>7 DEF u
<1>3. Seq(T) \subseteq B
  <2> HIDE DEF B
  <2> QED BY <1>1, <1>2, SequenceInduction
<1> QED BY <1>3

\* Sets that agree on the sequence's elements select the same.
LEMMA OnlySame ==
  ASSUME NEW T, NEW S, NEW R, NEW s \in Seq(T), T \cap S = T \cap R
  PROVE  Only(s, S) = Only(s, R)
<1> DEFINE B == {t \in Seq(T) : Only(t, S) = Only(t, R)}
<1>1. << >> \in B
  BY OnlyEmpty
<1>2. ASSUME NEW t \in Seq(T), NEW e \in T, t \in B PROVE Append(t, e) \in B
  BY <1>2, OnlyAppend
<1>3. Seq(T) \subseteq B
  <2> HIDE DEF B
  <2> QED BY <1>1, <1>2, SequenceInduction
<1> QED BY <1>3

\* Selecting twice selects what is in both sets.
LEMMA OnlyTwice ==
  ASSUME NEW T, NEW S, NEW R, NEW s \in Seq(T)
  PROVE  Only(Only(s, R), S) = Only(s, R \cap S)
<1> DEFINE B == {t \in Seq(T) : Only(Only(t, R), S) = Only(t, R \cap S)}
<1>1. << >> \in B
  BY OnlyEmpty
<1>2. ASSUME NEW t \in Seq(T), NEW e \in T, t \in B PROVE Append(t, e) \in B
  <2>0. Append(t, e) \in Seq(T)
    OBVIOUS
  <2>1. Only(t, R) \in Seq(T)
    BY OnlyType
  <2>2. Only(Only(t, R), S) = Only(t, R \cap S)
    BY <1>2
  <2>3. Only(Append(t, e), R) = IF e \in R THEN Append(Only(t, R), e) ELSE Only(t, R)
    BY OnlyAppend
  <2>4. Only(Append(t, e), R \cap S)
          = IF e \in R \cap S THEN Append(Only(t, R \cap S), e) ELSE Only(t, R \cap S)
    BY OnlyAppend
  <2>5. Only(Append(Only(t, R), e), S)
          = IF e \in S THEN Append(Only(Only(t, R), S), e) ELSE Only(Only(t, R), S)
    BY <2>1, OnlyAppend
  <2>6. Only(Only(Append(t, e), R), S) = Only(Append(t, e), R \cap S)
    <3>1. CASE e \in R
      <4>1. Only(Append(t, e), R) = Append(Only(t, R), e)
        BY <2>3, <3>1
      <4>2. Only(Append(t, e), R \cap S)
              = IF e \in S THEN Append(Only(t, R \cap S), e) ELSE Only(t, R \cap S)
        BY <2>4, <3>1
      <4> QED BY <2>2, <2>5, <4>1, <4>2
    <3>2. CASE e \notin R
      BY <2>2, <2>3, <2>4, <3>2
    <3> QED BY <3>1, <3>2
  <2> QED BY <2>0, <2>6
<1>3. Seq(T) \subseteq B
  <2> HIDE DEF B
  <2> QED BY <1>1, <1>2, SequenceInduction
<1> QED BY <1>3

----------------------------------------------------------------------------
(* A sequence without one of its elements.                                 *)

\* What is before an element of a sequence, and what is after it.
LEMMA BeforeAndAfter ==
  ASSUME NEW T, NEW s \in Seq(T), NEW i \in 1..Len(s)
  PROVE  /\ SubSeq(s, 1, i - 1) \in Seq(T) /\ Len(SubSeq(s, 1, i - 1)) = i - 1
         /\ \A k \in 1..(i - 1) : SubSeq(s, 1, i - 1)[k] = s[k]
         /\ SubSeq(s, i + 1, Len(s)) \in Seq(T) /\ Len(SubSeq(s, i + 1, Len(s))) = Len(s) - i
         /\ \A k \in 1..(Len(s) - i) : SubSeq(s, i + 1, Len(s))[k] = s[i + k]
<1>1. SubSeq(s, 1, i - 1) \in Seq(T) /\ Len(SubSeq(s, 1, i - 1)) = i - 1
        /\ \A k \in 1..(i - 1) : SubSeq(s, 1, i - 1)[k] = s[k]
  BY SubSeqProperties
<1>2. SubSeq(s, i + 1, Len(s)) \in Seq(T) /\ Len(SubSeq(s, i + 1, Len(s))) = Len(s) - i
        /\ \A k \in 1..(Len(s) - i) : SubSeq(s, i + 1, Len(s))[k] = s[i + k]
  BY SubSeqProperties
<1> QED BY <1>1, <1>2

\* A sequence is what is before an element, the element and what is after it.
LEMMA SplitAt ==
  ASSUME NEW T, NEW s \in Seq(T), NEW i \in 1..Len(s)
  PROVE  s = (SubSeq(s, 1, i - 1) \o << s[i] >>) \o SubSeq(s, i + 1, Len(s))
<1> DEFINE a == SubSeq(s, 1, i - 1)
           e == << s[i] >>
           b == SubSeq(s, i + 1, Len(s))
           c == a \o e
           d == c \o b
<1>a. /\ a \in Seq(T) /\ Len(a) = i - 1 /\ \A k \in 1..(i - 1) : a[k] = s[k]
      /\ b \in Seq(T) /\ Len(b) = Len(s) - i /\ \A k \in 1..(Len(s) - i) : b[k] = s[i + k]
  BY BeforeAndAfter
<1>e. e \in Seq(T) /\ Len(e) = 1 /\ e[1] = s[i]
  OBVIOUS
<1> HIDE DEF a, e, b
<1>c. a \in Seq(T) /\ e \in Seq(T) /\ c = a \o e
  BY <1>a, <1>e
<1>1. c \in Seq(T) /\ Len(c) = Len(a) + Len(e) /\ (\A k \in 1..Len(a) : c[k] = a[k])
        /\ \A k \in 1..Len(e) : c[Len(a) + k] = e[k]
  <2> HIDE DEF c
  <2> QED BY ONLY <1>c, ConcatAt
<1> HIDE DEF c
<1>2. d \in Seq(T) /\ Len(d) = Len(c) + Len(b) /\ (\A k \in 1..Len(c) : d[k] = c[k])
        /\ \A k \in 1..Len(b) : d[Len(c) + k] = b[k]
  <2>1. c \in Seq(T) /\ b \in Seq(T) /\ d = c \o b
    BY <1>1, <1>a
  <2> HIDE DEF d
  <2> QED BY ONLY <2>1, ConcatAt
<1> HIDE DEF d
<1>3. Len(c) = i /\ Len(d) = Len(s)
  BY <1>1, <1>2, <1>a, <1>e
<1>4. ASSUME NEW k \in 1..Len(s) PROVE d[k] = s[k]
  <2>1. CASE k < i
    BY <1>1, <1>2, <1>3, <1>a, <2>1
  <2>2. CASE k = i
    <3>1. c[i] = s[i]
      BY <1>1, <1>a, <1>e
    <3> QED BY <1>2, <1>3, <2>2, <3>1
  <2>3. CASE k > i
    <3>1. k - i \in 1..Len(b) /\ i + (k - i) = k
      BY <1>a, <2>3
    <3>2. d[i + (k - i)] = b[k - i] /\ b[k - i] = s[i + (k - i)]
      BY <1>2, <1>3, <1>a, <3>1
    <3> QED BY <3>1, <3>2
  <2> QED BY <2>1, <2>2, <2>3
<1>5. d = s
  BY <1>2, <1>3, <1>4, SeqEqual
<1> QED BY <1>5 DEF a, b, c, d, e

\* A single element.
LEMMA OnlyOne == ASSUME NEW S, NEW e PROVE Only(<< e >>, S) = IF e \in S THEN << e >> ELSE << >>
<1> DEFINE z == << >>
           T == {e}
<1>0. Append(z, e) = << e >> /\ Only(z, S) = z
  BY OnlyEmpty
<1>1. z \in Seq(T) /\ e \in T
  OBVIOUS
<1> HIDE DEF z, T
<1>2. Only(Append(z, e), S) = IF e \in S THEN Append(Only(z, S), e) ELSE Only(z, S)
  BY <1>1, OnlyAppend
<1> QED BY <1>0, <1>2 DEF z

\* Without an element that is not selected, the rest is selected as before.
LEMMA OnlyWithout ==
  ASSUME NEW T, NEW S, NEW s \in Seq(T), NEW i \in 1..Len(s), s[i] \notin S
  PROVE  Only(SubSeq(s, 1, i - 1), S) \o Only(SubSeq(s, i + 1, Len(s)), S) = Only(s, S)
<1> DEFINE a == SubSeq(s, 1, i - 1)
           e == << s[i] >>
           b == SubSeq(s, i + 1, Len(s))
           c == a \o e
<1>1. /\ a \in Seq(T) /\ Len(a) = i - 1 /\ \A k \in 1..(i - 1) : a[k] = s[k]
      /\ b \in Seq(T) /\ Len(b) = Len(s) - i /\ \A k \in 1..(Len(s) - i) : b[k] = s[i + k]
  BY BeforeAndAfter
<1>2. e \in Seq(T) /\ Len(e) = 1 /\ e[1] = s[i]
  OBVIOUS
<1>3. Only(e, S) = << >>
  BY OnlyOne
<1>4. s = c \o b
  BY SplitAt
<1> HIDE DEF a, e, b
<1>5. Only(c, S) = Only(a, S) \o Only(e, S)
  BY <1>1, <1>2, OnlyConcat
<1>6. Only(a, S) \in Seq(T)
  BY <1>1, OnlyType
<1>7. Only(c, S) = Only(a, S)
  BY <1>3, <1>5, <1>6
<1>8. c \in Seq(T)
  BY <1>1, <1>2
<1> HIDE DEF c
<1>9. Only(c \o b, S) = Only(c, S) \o Only(b, S)
  BY <1>1, <1>8, OnlyConcat
<1> QED BY <1>4, <1>7, <1>9 DEF a, b
=============================================================================
