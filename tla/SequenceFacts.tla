--------------------------- MODULE SequenceFacts ---------------------------
(***************************************************************************)
(* Induction over the naturals and over sequences, stated with a set where  *)
(* the library's theorems take an operator, and what follows by it: the     *)
(* values of recursive functions, and the concatenation that FlattenSeq     *)
(* computes.                                                                *)
(***************************************************************************)
EXTENDS Naturals, Sequences, SequencesExt, SequenceTheorems, WellFoundedInduction, TLAPS

\* The pairs of naturals that are in order.
LessThan == {p \in Nat \X Nat : p[1] < p[2]}

\* Every set of naturals that is not empty has a least element.
LEMMA LeastNatural ==
    ASSUME NEW T, T \subseteq Nat, T # {}
    PROVE  \E m \in T : \A k \in T : m <= k
<1>1. IsWellFoundedOn(LessThan, Nat)
  BY NatLessThanWellFounded DEF OpToRel, LessThan
<1>2. PICK m \in T : \A k \in T : ~(<<k, m>> \in LessThan)
  BY <1>1, WFMin
<1>3. ASSUME NEW k \in T PROVE m <= k
  <2>1. ~(k < m)
    BY <1>2 DEF LessThan
  <2> QED BY <2>1
<1> QED BY <1>3

\* Induction over a set of naturals.
LEMMA Induction ==
    ASSUME NEW S, 0 \in S, \A n \in Nat : n \in S => n + 1 \in S
    PROVE  Nat \subseteq S
<1>1. SUFFICES ASSUME NEW n \in Nat, n \notin S PROVE FALSE
  OBVIOUS
<1>2. PICK m \in Nat \ S : \A k \in Nat \ S : m <= k
  <2>1. Nat \ S # {}
    BY <1>1
  <2>2. Nat \ S \subseteq Nat
    OBVIOUS
  <2> QED BY <2>1, <2>2, LeastNatural
<1>3. m # 0
  BY <1>2
<1>4. m - 1 \in Nat /\ m - 1 \in S
  BY <1>2, <1>3
<1> QED
  BY <1>2, <1>4

\* f is the recursive function over 0..n that is a at 0 and step[k, .] at k.
StepOn(n, A) == [(1..n) \X A -> A]
Recurses(f, a, step, n) == f[0] = a /\ \A k \in 1..n : f[k] = step[<<k, f[k - 1]>>]

\* A recursive function over 0..n has its values where the step keeps them.
LEMMA Recursion ==
    ASSUME NEW A, NEW a \in A, NEW n \in Nat, NEW step \in StepOn(n, A)
    PROVE  \E f \in [0..n -> A] : Recurses(f, a, step, n)
<1> USE DEF StepOn, Recurses
<1> DEFINE Turned(f, m) == Recurses(f, a, step, m)
           K == {m \in Nat : m <= n => \E f \in [0..m -> A] : Turned(f, m)}
<1>1. 0 \in K
  <2>1. [k \in 0..0 |-> a] \in [0..0 -> A] /\ Turned([k \in 0..0 |-> a], 0)
    OBVIOUS
  <2> QED
    BY <2>1
<1>2. ASSUME NEW m \in Nat, m \in K PROVE m + 1 \in K
  <2> SUFFICES ASSUME m + 1 <= n PROVE \E f \in [0..m + 1 -> A] : Turned(f, m + 1)
    OBVIOUS
  <2>1. PICK f \in [0..m -> A] : Turned(f, m)
    BY <1>2
  <2> DEFINE g == [k \in 0..m + 1 |-> IF k = m + 1 THEN step[<<m + 1, f[m]>>] ELSE f[k]]
  <2>2. step[<<m + 1, f[m]>>] \in A
    BY m + 1 \in 1..n, f[m] \in A
  <2>3. g \in [0..m + 1 -> A] /\ g[0] = a
    BY <2>1, <2>2
  <2>4. ASSUME NEW k \in 1..m + 1 PROVE g[k] = step[<<k, g[k - 1]>>]
    <3>1. k - 1 \in 0..m /\ g[k - 1] = f[k - 1]
      OBVIOUS
    <3>2. CASE k = m + 1
      <4>1. g[k] = step[<<m + 1, f[m]>>] /\ k - 1 = m
        BY <3>2
      <4> HIDE DEF g
      <4> QED
        BY <3>1, <3>2, <4>1
    <3>3. CASE k # m + 1
      BY <2>1, <3>1, <3>3
    <3> QED
      BY <3>2, <3>3
  <2> QED
    BY <2>3, <2>4
<1> HIDE DEF K
<1>3. Nat \subseteq K
  BY <1>1, <1>2, Induction
<1> QED
  BY <1>3 DEF K

\* Induction over sequences, from their end.
LEMMA SeqInduction ==
    ASSUME NEW S, NEW P, <<>> \in P,
           \A s \in Seq(S), x \in S : s \in P => Append(s, x) \in P
    PROVE  Seq(S) \subseteq P
<1> DEFINE K == {n \in Nat : \A s \in Seq(S) : Len(s) = n => s \in P}
<1>1. 0 \in K
  BY EmptySeq
<1>2. ASSUME NEW n \in Nat, n \in K PROVE n + 1 \in K
  <2> SUFFICES ASSUME NEW s \in Seq(S), Len(s) = n + 1 PROVE s \in P
    OBVIOUS
  <2>1. PICK r \in Seq(S), x \in S : s = Append(r, x)
    <3>1. s # <<>>
      BY EmptySeq
    <3> QED BY <3>1, SequenceEmptyOrAppend
  <2>2. Len(r) = n
    BY <2>1, AppendProperties
  <2> QED BY <1>2, <2>1, <2>2
<1> HIDE DEF K
<1>3. Nat \subseteq K
  BY <1>1, <1>2, Induction
<1> QED
  BY <1>3, LenProperties DEF K

\* Appending to the second part of a concatenation.
LEMMA ConcatAppend ==
    ASSUME NEW S, NEW s \in Seq(S), NEW t \in Seq(S), NEW x \in S
    PROVE  s \o Append(t, x) = Append(s \o t, x) /\ s \o t \in Seq(S)
  OBVIOUS

\* A sequence that has the items of s and then those of t.
LEMMA ConcatIs ==
    ASSUME NEW S, NEW s \in Seq(S), NEW t \in Seq(S), NEW u \in Seq(S),
           Len(u) = Len(s) + Len(t),
           \A i \in 1..Len(s) : u[i] = s[i], \A i \in 1..Len(t) : u[Len(s) + i] = t[i]
    PROVE  u = s \o t
<1>1. s \o t \in Seq(S) /\ Len(s \o t) = Len(u) /\ Len(s) \in Nat /\ Len(t) \in Nat
  OBVIOUS
<1>2. ASSUME NEW i \in 1..Len(u) PROVE u[i] = (s \o t)[i]
  <2>1. CASE i <= Len(s)
    BY <1>1, <2>1
  <2>2. CASE i > Len(s)
    <3>1. i - Len(s) \in 1..Len(t) /\ i = Len(s) + (i - Len(s))
      BY <1>1, <2>2
    <3>2. u[i] = t[i - Len(s)]
      BY <3>1
    <3>3. (s \o t)[i] = t[i - Len(s)]
      BY <1>1, <2>2, <3>1
    <3> QED
      BY <3>2, <3>3
  <2> QED
    BY <1>1, <2>1, <2>2
<1> QED
  BY <1>1, <1>2, SeqEqual

-----------------------------------------------------------------------------
\* Flattens(f, s, n): f is the recursive function of FlattenSeq, and Turns(f, s, n)
\* its values: f[i] is the concatenation of the first i sequences of s.
Flattens(f, s, n) ==
    f = [i \in 1..n |-> IF i = 1 THEN s[i] ELSE f[i - 1] \o s[i]]

Turns(f, s, n) ==
    \A i \in 1..n : f[i] = IF i = 1 THEN s[i] ELSE f[i - 1] \o s[i]

\* What the recursive function is at each place.
LEMMA FlattensAt ==
    ASSUME NEW f, NEW s, NEW n, Flattens(f, s, n)
    PROVE  \A i \in 1..n : f[i] = IF i = 1 THEN s[i] ELSE f[i - 1] \o s[i]
<1> DEFINE e(i) == IF i = 1 THEN s[i] ELSE f[i - 1] \o s[i]
<1>1. f = [i \in 1..n |-> e(i)]
  BY DEF Flattens
<1> HIDE DEF e
<1>2. \A i \in 1..n : f[i] = e(i)
  BY <1>1
<1> QED
  BY <1>2 DEF e

\* There is such a function, of sequences.
LEMMA FlattenExists ==
    ASSUME NEW S, NEW s \in Seq(Seq(S))
    PROVE  \A n \in Nat : n <= Len(s) => \E f \in [1..n -> Seq(S)] : Flattens(f, s, n) /\ Turns(f, s, n)
<1> DEFINE K == {n \in Nat : n <= Len(s) => \E f \in [1..n -> Seq(S)] : Flattens(f, s, n) /\ Turns(f, s, n)}
<1>1. 0 \in K
  <2>1. [i \in 1..0 |-> <<>>] \in [1..0 -> Seq(S)]
    OBVIOUS
  <2>2. Flattens([i \in 1..0 |-> <<>>], s, 0) /\ Turns([i \in 1..0 |-> <<>>], s, 0)
    BY DEF Flattens, Turns
  <2> QED
    BY <2>1, <2>2
<1>2. ASSUME NEW n \in Nat, n \in K PROVE n + 1 \in K
  <2> SUFFICES ASSUME n + 1 <= Len(s)
               PROVE  \E f \in [1..n + 1 -> Seq(S)] : Flattens(f, s, n + 1) /\ Turns(f, s, n + 1)
    OBVIOUS
  <2>1. PICK f \in [1..n -> Seq(S)] : Flattens(f, s, n) /\ Turns(f, s, n)
    BY <1>2
  <2> DEFINE g == [i \in 1..n + 1 |-> IF i = n + 1 THEN IF i = 1 THEN s[i] ELSE f[n] \o s[i]
                                     ELSE f[i]]
  <2>2. g \in [1..n + 1 -> Seq(S)]
    <3>1. s[n + 1] \in Seq(S)
      BY ElementOfSeq
    <3> QED BY <3>1, ConcatProperties
  <2>3. \A i \in 1..n : f[i] = IF i = 1 THEN s[i] ELSE f[i - 1] \o s[i]
    BY <2>1 DEF Turns
  <2>4. \A i \in 1..n + 1 : g[i] = IF i = 1 THEN s[i] ELSE g[i - 1] \o s[i]
    <3> SUFFICES ASSUME NEW i \in 1..n + 1
                 PROVE  g[i] = IF i = 1 THEN s[i] ELSE g[i - 1] \o s[i]
      OBVIOUS
    <3>1. CASE i = n + 1
      <4>1. i # 1 => g[i - 1] = f[n]
        BY <3>1
      <4> QED BY <3>1, <4>1
    <3>2. CASE i # n + 1
      <4>1. i \in 1..n /\ g[i] = f[i] /\ (i # 1 => g[i - 1] = f[i - 1])
        BY <3>2
      <4> QED BY <2>3, <4>1
    <3> QED BY <3>1, <3>2
  <2>5. Flattens(g, s, n + 1) /\ Turns(g, s, n + 1)
    BY <2>2, <2>4 DEF Flattens, Turns
  <2> QED
    BY <2>2, <2>5
<1> HIDE DEF K
<1>3. Nat \subseteq K
  BY <1>1, <1>2, Induction
<1> QED
  BY <1>3 DEF K

\* And only one.
LEMMA FlattenUnique ==
    ASSUME NEW s, NEW n \in Nat, NEW f, NEW g, Flattens(f, s, n), Flattens(g, s, n)
    PROVE  f = g
<1> DEFINE K == {i \in Nat : i \in 1..n => f[i] = g[i]}
<1>1. 0 \in K
  OBVIOUS
<1>2. ASSUME NEW i \in Nat, i \in K PROVE i + 1 \in K
  <2> SUFFICES ASSUME i + 1 \in 1..n PROVE f[i + 1] = g[i + 1]
    OBVIOUS
  <2>1. f[i + 1] = IF i = 0 THEN s[i + 1] ELSE f[i] \o s[i + 1]
    <3>1. f[i + 1] = IF i + 1 = 1 THEN s[i + 1] ELSE f[i + 1 - 1] \o s[i + 1]
      BY FlattensAt
    <3> QED BY <3>1
  <2>2. g[i + 1] = IF i = 0 THEN s[i + 1] ELSE g[i] \o s[i + 1]
    <3>1. g[i + 1] = IF i + 1 = 1 THEN s[i + 1] ELSE g[i + 1 - 1] \o s[i + 1]
      BY FlattensAt
    <3> QED BY <3>1
  <2>3. i # 0 => f[i] = g[i]
    BY <1>2
  <2> QED BY <2>1, <2>2, <2>3
<1> HIDE DEF K
<1>3. Nat \subseteq K
  BY <1>1, <1>2, Induction
<1> QED
  <2>1. \A i \in 1..n : f[i] = g[i]
    BY <1>3 DEF K
  <2>2. f = [i \in 1..n |-> f[i]] /\ g = [i \in 1..n |-> g[i]]
    BY DEF Flattens
  <2> QED BY <2>1, <2>2

\* FlattenSeq is its last value.
LEMMA FlattenIs ==
    ASSUME NEW S, NEW s \in Seq(Seq(S)), NEW f, Flattens(f, s, Len(s)), s # <<>>
    PROVE  FlattenSeq(s) = f[Len(s)]
<1> DEFINE g == CHOOSE g : Flattens(g, s, Len(s))
<1>1. FlattenSeq(s) = g[Len(s)]
  <2>1. Len(s) # 0
    BY EmptySeq
  <2> QED
    BY <2>1 DEF FlattenSeq, Flattens
<1>2. Flattens(g, s, Len(s))
  OBVIOUS
<1> QED
  BY <1>1, <1>2, FlattenUnique, LenProperties

\* A sequence that is added at the end is added to the concatenation.
LEMMA FlattenAppend ==
    ASSUME NEW S, NEW s \in Seq(Seq(S)), NEW x \in Seq(S)
    PROVE  /\ FlattenSeq(s) \in Seq(S)
           /\ FlattenSeq(Append(s, x)) = FlattenSeq(s) \o x
<1> DEFINE n == Len(s)
           t == Append(s, x)
<1>1. n \in Nat /\ Len(t) = n + 1 /\ t[n + 1] = x /\ t \in Seq(Seq(S)) /\ t # <<>>
      /\ \A i \in 1..n : t[i] = s[i]
  BY AppendProperties
<1>2. PICK f \in [1..n + 1 -> Seq(S)] : Flattens(f, t, n + 1) /\ Turns(f, t, n + 1)
  <2>1. n + 1 \in Nat /\ n + 1 <= Len(t)
    BY <1>1
  <2> HIDE DEF n, t
  <2> QED BY <1>1, <2>1, FlattenExists
<1>6. \A i \in 1..n + 1 : f[i] = IF i = 1 THEN t[i] ELSE f[i - 1] \o t[i]
  BY <1>2 DEF Turns
<1>3. FlattenSeq(t) = f[n + 1]
  BY <1>1, <1>2, FlattenIs
<1>4. CASE s = <<>>
  <2>1. n = 0 /\ FlattenSeq(s) = <<>>
    BY <1>4 DEF FlattenSeq
  <2>2. f[n + 1] = x
    BY <1>1, <1>6, <2>1, 1 \in 1..n + 1
  <2> QED
    BY <1>3, <2>1, <2>2, ConcatEmptySeq
<1>5. CASE s # <<>>
  <2> DEFINE g == [i \in 1..n |-> f[i]]
  <2>1. Flattens(g, s, n)
    <3>1. \A i \in 1..n : g[i] = IF i = 1 THEN s[i] ELSE g[i - 1] \o s[i]
      <4> SUFFICES ASSUME NEW i \in 1..n
                   PROVE  g[i] = IF i = 1 THEN s[i] ELSE g[i - 1] \o s[i]
        OBVIOUS
      <4>1. f[i] = IF i = 1 THEN t[i] ELSE f[i - 1] \o t[i]
        BY <1>1, <1>6, i \in 1..n + 1
      <4>2. g[i] = f[i] /\ (i # 1 => g[i - 1] = f[i - 1])
        BY <1>1
      <4> QED BY <1>1, <4>1, <4>2
    <3> QED BY <3>1 DEF Flattens
  <2>2. n # 0
    BY <1>5, EmptySeq
  <2>3. FlattenSeq(s) = g[n]
    BY <1>5, <2>1, FlattenIs
  <2>4. f[n + 1] = f[n] \o x
    <3> DEFINE m == n + 1
    <3>1. m \in 1..n + 1 /\ m # 1 /\ m - 1 = n /\ t[m] = x
      BY <1>1, <2>2
    <3> HIDE DEF m, t
    <3>2. f[m] = f[m - 1] \o t[m]
      BY <1>6, <3>1
    <3> QED BY <3>1, <3>2 DEF m
  <2>5. g[n] = f[n] /\ f[n] \in Seq(S)
    BY <1>1, <1>2, <2>2
  <2> QED
    BY <1>3, <2>3, <2>4, <2>5
<1> QED
  BY <1>4, <1>5

\* The concatenation of two sequences of sequences.
LEMMA FlattenConcat ==
    ASSUME NEW S, NEW s \in Seq(Seq(S)), NEW t \in Seq(Seq(S))
    PROVE  FlattenSeq(s \o t) = FlattenSeq(s) \o FlattenSeq(t)
<1> DEFINE P == {u \in Seq(Seq(S)) : FlattenSeq(s \o u) = FlattenSeq(s) \o FlattenSeq(u)}
<1>1. <<>> \in P
  <2>1. FlattenSeq(<<>>) = <<>>
    BY DEF FlattenSeq
  <2>2. s \o <<>> = s /\ FlattenSeq(s) \o <<>> = FlattenSeq(s)
    BY FlattenAppend, ConcatEmptySeq
  <2> QED BY <2>1, <2>2, EmptySeq
<1>2. ASSUME NEW u \in Seq(Seq(S)), NEW x \in Seq(S), u \in P PROVE Append(u, x) \in P
  <2>1. s \o Append(u, x) = Append(s \o u, x) /\ s \o u \in Seq(Seq(S))
    BY ConcatAppend
  <2>2. FlattenSeq(Append(s \o u, x)) = FlattenSeq(s \o u) \o x
    BY <2>1, FlattenAppend
  <2>3. FlattenSeq(Append(u, x)) = FlattenSeq(u) \o x
    BY FlattenAppend
  <2>4. (FlattenSeq(s) \o FlattenSeq(u)) \o x = FlattenSeq(s) \o (FlattenSeq(u) \o x)
    <3>1. FlattenSeq(s) \in Seq(S) /\ FlattenSeq(u) \in Seq(S)
      BY FlattenAppend
    <3> QED BY <3>1, ConcatAssociative
  <2>5. Append(u, x) \in Seq(Seq(S))
    BY AppendProperties
  <2> QED BY <1>2, <2>1, <2>2, <2>3, <2>4, <2>5
<1> HIDE DEF P
<1>3. Seq(Seq(S)) \subseteq P
  BY <1>1, <1>2, SeqInduction
<1> QED
  BY <1>3 DEF P
=============================================================================
