--------------------------- MODULE ServicesProofs ---------------------------
(***************************************************************************)
(* The services, proved for every value of their constants: first what     *)
(* lists of any length need, then each service alone, and last that each   *)
(* does side by side with the others what it does alone.                   *)
(*                                                                         *)
(* Keep and Total are recursive functions.  What they do to a list of any  *)
(* length is proved from the least length at which it would fail.          *)
(***************************************************************************)
EXTENDS Services, SequenceTheorems, FiniteSetTheorems, WellFoundedInduction, TLAPS

(* Numbers and lists                                                       *)

LEMMA NatWellFounded == IsWellFoundedOn(OpToRel(<, Nat), Nat)
  BY NatLessThanWellFounded

\* A set of numbers that is not empty has a least element.
LEMMA LeastOne ==
  ASSUME NEW T, T \subseteq Nat, T # {}
  PROVE  \E x \in T : \A y \in T : x <= y
<1>1. PICK x \in T : \A y \in T : ~ (<<y, x>> \in OpToRel(<, Nat))
  BY NatWellFounded, WFMin, Zenon
<1>2. \A y \in T : ~ (y < x)
  BY <1>1 DEF OpToRel
<1> QED
  BY <1>2

\* Induction, for a set in place of a property.
LEMMA Induction ==
  ASSUME NEW S, 0 \in S, \A n \in Nat : n \in S => n + 1 \in S
  PROVE  Nat \subseteq S
<1> SUFFICES ASSUME Nat \ S # {} PROVE FALSE
  OBVIOUS
<1>1. PICK n \in Nat \ S : \A m \in Nat \ S : n <= m
  BY LeastOne
<1>2. n - 1 \in Nat
  BY <1>1
<1>3. n - 1 \in S
  BY <1>1, <1>2
<1> QED
  BY <1>1, <1>2, <1>3

\* A function on the first numbers is well defined by its first value and the step
\* from each value to the next, and takes its values where they do.
Steps(f, V, first, N, step) ==
  f \in [0 .. N -> V] /\ f[0] = first /\ \A n \in 1 .. N : f[n] = step[n][f[n - 1]]

LEMMA Stepwise ==
  ASSUME NEW V, NEW first \in V, NEW N \in Nat, NEW step \in [1 .. N -> [V -> V]]
  PROVE  \E f : Steps(f, V, first, N, step)
<1> DEFINE Good(f, m) == f[0] = first /\ \A n \in 1 .. m : f[n] = step[n][f[n - 1]]
           M == {m \in Nat : m <= N => \E f \in [0 .. m -> V] : Good(f, m)}
<1>1. 0 \in M
  <2> DEFINE f == [n \in 0 .. 0 |-> first]
  <2>1. f \in [0 .. 0 -> V] /\ Good(f, 0)
    OBVIOUS
  <2> HIDE DEF f
  <2> QED  BY <2>1
<1>2. ASSUME NEW m \in Nat, m \in M PROVE m + 1 \in M
  <2> SUFFICES ASSUME m + 1 <= N PROVE \E f \in [0 .. m + 1 -> V] : Good(f, m + 1)
    OBVIOUS
  <2>1. PICK f \in [0 .. m -> V] : Good(f, m)
    BY <1>2
  <2> DEFINE g == [n \in 0 .. m + 1 |-> IF n = m + 1 THEN step[m + 1][f[m]] ELSE f[n]]
  <2>2. g \in [0 .. m + 1 -> V]
    <3>1. f[m] \in V /\ m + 1 \in 1 .. N
      BY <2>1
    <3>2. step[m + 1][f[m]] \in V
      BY <3>1
    <3>3. \A n \in 0 .. m + 1 : n # m + 1 => f[n] \in V
      BY <2>1
    <3> QED  BY <3>2, <3>3
  <2>3. (\A n \in 0 .. m : g[n] = f[n]) /\ g[m + 1] = step[m + 1][f[m]]
    OBVIOUS
  <2> HIDE DEF g
  <2>4. ASSUME NEW n \in 1 .. m + 1 PROVE g[n] = step[n][g[n - 1]]
    <3>1. CASE n = m + 1
      <4>1. n - 1 = m /\ g[m] = f[m]
        BY <2>3, <3>1
      <4> QED  BY <2>3, <3>1, <4>1
    <3>2. CASE n # m + 1
      <4>1. n \in 1 .. m /\ n \in 0 .. m /\ n - 1 \in 0 .. m
        BY <3>2
      <4>2. f[n] = step[n][f[n - 1]]
        BY <2>1, <4>1
      <4> QED  BY <2>3, <4>1, <4>2
    <3> QED  BY <3>1, <3>2
  <2>5. g[0] = first
    BY <2>1, <2>3
  <2> QED  BY <2>2, <2>4, <2>5
<1> HIDE DEF M
<1>3. Nat \subseteq M
  BY <1>1, <1>2, Induction
<1> QED
  BY <1>3 DEF M, Steps

\* f[n] is what a comprehension has kept of the first n elements.
Keeping(f, S, s, K) ==
  /\ f \in [0 .. Len(s) -> Seq(S)]
  /\ f[0] = <<>> /\ Keep(s, K) = f[Len(s)]
  /\ \A n \in 1 .. Len(s) : f[n] = IF n \in K THEN Append(f[n - 1], s[n]) ELSE f[n - 1]

LEMMA KeepSteps ==
  ASSUME NEW S, NEW s \in Seq(S), NEW K
  PROVE  \E f : Keeping(f, S, s, K)
<1> DEFINE N == Len(s)
           step == [n \in 1 .. N |-> [l \in Seq(S) |-> IF n \in K THEN Append(l, s[n]) ELSE l]]
           Is(h) == h = [n \in 0 .. N |-> IF n = 0 THEN <<>>
                           ELSE IF n \in K THEN Append(h[n - 1], s[n]) ELSE h[n - 1]]
           f == CHOOSE h : Is(h)
<1>1. N \in Nat /\ <<>> \in Seq(S)
  OBVIOUS
<1>2. \A n \in 1 .. N : s[n] \in S
  OBVIOUS
<1>3. step \in [1 .. N -> [Seq(S) -> Seq(S)]]
  BY <1>2
<1>4. \A n \in 1 .. N, l \in Seq(S) : step[n][l] = IF n \in K THEN Append(l, s[n]) ELSE l
  OBVIOUS
<1> HIDE DEF step, N, f, Is
<1>5. PICK g : Steps(g, Seq(S), <<>>, N, step)
  BY <1>1, <1>3, Stepwise
<1>6. /\ g \in [0 .. N -> Seq(S)] /\ g[0] = <<>>
      /\ \A n \in 1 .. N : g[n] = step[n][g[n - 1]]
  BY <1>5 DEF Steps
<1>7. \A n \in 0 .. N : n # 0 => n \in 1 .. N /\ g[n - 1] \in Seq(S)
  BY <1>1, <1>6
<1>8. Is(g)
  BY <1>4, <1>6, <1>7 DEF Is
<1>9. Is(f)
  BY <1>8, Zenon DEF f
<1>10. Keep(s, K) = f[N]
  BY DEF Keep, N, f, Is
<1>11. f = [n \in 0 .. N |-> IF n = 0 THEN <<>>
                 ELSE IF n \in K THEN Append(f[n - 1], s[n]) ELSE f[n - 1]]
  BY <1>9 DEF Is
<1>12. \A n \in 1 .. N : n \in 0 .. N /\ n # 0
  BY <1>1
<1>13. f[0] = <<>>
  BY <1>1, <1>11
<1>14. \A n \in 1 .. N : f[n] = IF n \in K THEN Append(f[n - 1], s[n]) ELSE f[n - 1]
  BY <1>11, <1>12
<1>15. \A n \in 0 .. N : f[n] = g[n]
  <2> DEFINE M == {n \in Nat : n <= N => f[n] = g[n]}
  <2>1. 0 \in M
    BY <1>1, <1>6, <1>13
  <2>2. ASSUME NEW n \in Nat, n \in M PROVE n + 1 \in M
    <3> SUFFICES ASSUME n + 1 <= N PROVE f[n + 1] = g[n + 1]
      OBVIOUS
    <3>1. n + 1 \in 1 .. N /\ n + 1 - 1 = n /\ f[n] = g[n] /\ g[n] \in Seq(S)
      BY <1>1, <1>6, <2>2
    <3>2. g[n + 1] = step[n + 1][g[n + 1 - 1]]
      BY <1>6, <1>12, <3>1
    <3> QED  BY <1>4, <1>14, <3>1, <3>2
  <2> HIDE DEF M
  <2>3. Nat \subseteq M
    BY <2>1, <2>2, Induction
  <2> QED  BY <1>1, <2>3 DEF M
<1>16. f \in [0 .. N -> Seq(S)]
  BY <1>6, <1>11, <1>15
<1> QED
  BY <1>10, <1>13, <1>14, <1>16 DEF N, Keeping

\* What a comprehension keeps are elements of the list that pass its test.
LEMMA KeepType ==
  ASSUME NEW S, NEW s \in Seq(S), NEW K
  PROVE  /\ Keep(s, K) \in Seq(S)
         /\ \A i \in DOMAIN Keep(s, K) : \E j \in DOMAIN s : j \in K /\ Keep(s, K)[i] = s[j]
<1>0. PICK f : Keeping(f, S, s, K)
  BY KeepSteps
<1>1. /\ f \in [0 .. Len(s) -> Seq(S)]
      /\ f[0] = <<>> /\ Keep(s, K) = f[Len(s)]
      /\ \A n \in 1 .. Len(s) : f[n] = IF n \in K THEN Append(f[n - 1], s[n]) ELSE f[n - 1]
  BY <1>0 DEF Keeping
<1> DEFINE From(l) == \A i \in DOMAIN l : \E j \in DOMAIN s : j \in K /\ l[i] = s[j]
           M == {n \in Nat : n <= Len(s) => From(f[n])}
<1>2. Len(s) \in Nat /\ DOMAIN s = 1 .. Len(s) /\ \A n \in 1 .. Len(s) : s[n] \in S
  OBVIOUS
<1>3. 0 \in M
  BY <1>1, <1>2
<1>4. ASSUME NEW n \in Nat, n \in M PROVE n + 1 \in M
  <2> SUFFICES ASSUME n + 1 <= Len(s) PROVE From(f[n + 1])
    OBVIOUS
  <2>1. n + 1 \in 1 .. Len(s) /\ n + 1 - 1 = n /\ n \in 0 .. Len(s) /\ n <= Len(s)
    BY <1>2
  <2>2. f[n] \in Seq(S) /\ From(f[n]) /\ s[n + 1] \in S
    BY <1>1, <1>2, <1>4, <2>1
  <2>3. f[n + 1] = IF n + 1 \in K THEN Append(f[n], s[n + 1]) ELSE f[n]
    BY <1>1, <2>1
  <2> DEFINE l == f[n]
             x == s[n + 1]
  <2> HIDE DEF l, x, From
  <2>4. ASSUME n + 1 \in K PROVE From(Append(l, x))
    <3>1. l \in Seq(S) /\ x \in S /\ From(l) /\ x = s[n + 1]
      BY <2>2 DEF l, x
    <3>2. ASSUME NEW i \in DOMAIN Append(l, x)
          PROVE  \E j \in DOMAIN s : j \in K /\ Append(l, x)[i] = s[j]
      <4>1. (i \in DOMAIN l /\ Append(l, x)[i] = l[i]) \/ Append(l, x)[i] = x
        BY <3>1
      <4> QED  BY <1>2, <2>1, <2>4, <3>1, <4>1 DEF From
    <3> QED  BY <3>2 DEF From
  <2> QED  BY <2>2, <2>3, <2>4 DEF l, x
<1> HIDE DEF M
<1>5. Nat \subseteq M
  BY <1>3, <1>4, Induction
<1>6. From(f[Len(s)]) /\ f[Len(s)] \in Seq(S)
  BY <1>1, <1>2, <1>5 DEF M
<1> QED
  BY <1>1, <1>6

\* It keeps no more than there was.
LEMMA KeepShorter ==
  ASSUME NEW S, NEW s \in Seq(S), NEW K
  PROVE  Len(Keep(s, K)) \in Nat /\ Len(Keep(s, K)) <= Len(s)
<1>0. PICK f : Keeping(f, S, s, K)
  BY KeepSteps
<1>1. /\ f \in [0 .. Len(s) -> Seq(S)]
      /\ f[0] = <<>> /\ Keep(s, K) = f[Len(s)]
      /\ \A n \in 1 .. Len(s) : f[n] = IF n \in K THEN Append(f[n - 1], s[n]) ELSE f[n - 1]
  BY <1>0 DEF Keeping
<1> DEFINE M == {n \in Nat : n <= Len(s) => Len(f[n]) <= n}
<1>2. Len(s) \in Nat /\ \A n \in 1 .. Len(s) : s[n] \in S
  OBVIOUS
<1>3. 0 \in M
  BY <1>1
<1>4. ASSUME NEW n \in Nat, n \in M PROVE n + 1 \in M
  <2> SUFFICES ASSUME n + 1 <= Len(s) PROVE Len(f[n + 1]) <= n + 1
    OBVIOUS
  <2>1. n + 1 \in 1 .. Len(s) /\ n + 1 - 1 = n /\ n \in 0 .. Len(s) /\ n <= Len(s)
    BY <1>2
  <2>2. f[n + 1] = IF n + 1 \in K THEN Append(f[n], s[n + 1]) ELSE f[n]
    BY <1>1, <2>1
  <2>3. PICK l \in Seq(S) : l = f[n]
    BY <1>1, <2>1
  <2>4. PICK x \in S : x = s[n + 1]
    BY <1>2, <2>1
  <2>5. Len(l) \in Nat /\ Len(l) <= n /\ Len(Append(l, x)) = Len(l) + 1
    BY <1>4, <2>1, <2>3
  <2> QED  BY <2>2, <2>3, <2>4, <2>5
<1> HIDE DEF M
<1>5. Nat \subseteq M
  BY <1>3, <1>4, Induction
<1>6. Len(f[Len(s)]) <= Len(s) /\ f[Len(s)] \in Seq(S)
  BY <1>1, <1>2, <1>5 DEF M
<1> QED
  BY <1>1, <1>6

\* Where just the positions after the d-th pass, the comprehension keeps the tail.
LEMMA KeepTail ==
  ASSUME NEW S, NEW s \in Seq(S), NEW K, NEW d \in 0 .. Len(s),
         \A n \in 1 .. Len(s) : n \in K <=> n > d
  PROVE  Keep(s, K) = SubSeq(s, d + 1, Len(s))
<1>0. PICK f : Keeping(f, S, s, K)
  BY KeepSteps
<1>1. /\ f \in [0 .. Len(s) -> Seq(S)]
      /\ f[0] = <<>> /\ Keep(s, K) = f[Len(s)]
      /\ \A n \in 1 .. Len(s) : f[n] = IF n \in K THEN Append(f[n - 1], s[n]) ELSE f[n - 1]
  BY <1>0 DEF Keeping
<1> DEFINE M == {n \in Nat : n <= Len(s) => f[n] = IF n > d THEN SubSeq(s, d + 1, n) ELSE <<>>}
<1>2. Len(s) \in Nat /\ d \in Nat /\ d <= Len(s)
  OBVIOUS
<1>3. 0 \in M
  BY <1>1, <1>2
<1>4. ASSUME NEW n \in Nat, n \in M PROVE n + 1 \in M
  <2> SUFFICES ASSUME n + 1 <= Len(s)
               PROVE  f[n + 1] = IF n + 1 > d THEN SubSeq(s, d + 1, n + 1) ELSE <<>>
    OBVIOUS
  <2>1. n + 1 \in 1 .. Len(s) /\ n + 1 - 1 = n /\ n <= Len(s)
    BY <1>2
  <2>2. f[n] = IF n > d THEN SubSeq(s, d + 1, n) ELSE <<>>
    BY <1>4, <2>1
  <2>3. f[n + 1] = IF n + 1 > d THEN Append(f[n], s[n + 1]) ELSE f[n]
    BY <1>1, <2>1
  <2>4. n > d => n + 1 > d
    BY <1>2
  <2>5. CASE n + 1 <= d
    BY <1>2, <2>2, <2>3, <2>5
  <2>6. CASE n = d
    <3>1. d + 1 \in 1 .. Len(s) /\ d + 1 \in d + 1 .. Len(s)
      BY <1>2, <2>1, <2>6
    <3>2. SubSeq(s, d + 1, d + 1) = SubSeq(s, d + 1, d + 1 - 1) \o <<s[d + 1]>>
      BY <3>1, SubSeqRecursiveSecond
    <3>3. SubSeq(s, d + 1, d + 1 - 1) = <<>> /\ s[d + 1] \in S
      BY <1>2, <3>1
    <3>4. <<>> \o <<s[d + 1]>> = Append(<<>>, s[d + 1])
      BY <3>3
    <3>5. f[n] = <<>> /\ n + 1 = d + 1 /\ d + 1 > d
      BY <1>2, <2>2, <2>6
    <3>6. f[d + 1] = Append(<<>>, s[d + 1])
      BY <2>3, <3>5
    <3> QED  BY <3>2, <3>3, <3>4, <3>5, <3>6
  <2>7. CASE n > d
    <3>1. d + 1 \in 1 .. Len(s) /\ n + 1 \in d + 1 .. Len(s)
      BY <1>2, <2>1, <2>7
    <3>2. SubSeq(s, d + 1, n + 1) = SubSeq(s, d + 1, n + 1 - 1) \o <<s[n + 1]>>
      BY <3>1, SubSeqRecursiveSecond
    <3>3. SubSeq(s, d + 1, n) \in Seq(S) /\ s[n + 1] \in S
      BY <1>2, <2>1, <2>7
    <3>4. Append(SubSeq(s, d + 1, n), s[n + 1]) = SubSeq(s, d + 1, n) \o <<s[n + 1]>>
      BY <3>3
    <3> QED  BY <2>1, <2>2, <2>3, <2>4, <2>7, <3>2, <3>4
  <2> QED  BY <1>2, <2>5, <2>6, <2>7
<1> HIDE DEF M
<1>5. Nat \subseteq M
  BY <1>3, <1>4, Induction
<1>6. Len(s) \in M
  BY <1>2, <1>5
<1>7. f[Len(s)] = IF Len(s) > d THEN SubSeq(s, d + 1, Len(s)) ELSE <<>>
  BY <1>2, <1>6 DEF M
<1>8. CASE Len(s) > d
  BY <1>1, <1>7, <1>8
<1>9. CASE ~ Len(s) > d
  <2>1. d + 1 > Len(s)
    BY <1>2, <1>9
  <2>2. SubSeq(s, d + 1, Len(s)) = <<>>
    BY <1>2, <2>1
  <2> QED  BY <1>1, <1>7, <1>9, <2>2
<1> QED
  BY <1>8, <1>9

\* f[n] is the sum of the first n numbers.
Adding(f, s) ==
  /\ f \in [0 .. Len(s) -> Int]
  /\ f[0] = 0 /\ Total(s) = f[Len(s)]
  /\ \A n \in 1 .. Len(s) : f[n] = f[n - 1] + s[n]

LEMMA TotalSteps ==
  ASSUME NEW s \in Seq(Int)
  PROVE  \E f : Adding(f, s)
<1> DEFINE N == Len(s)
           step == [n \in 1 .. N |-> [t \in Int |-> t + s[n]]]
           Is(h) == h = [n \in 0 .. N |-> IF n = 0 THEN 0 ELSE h[n - 1] + s[n]]
           f == CHOOSE h : Is(h)
<1>1. N \in Nat /\ 0 \in Int
  OBVIOUS
<1>2. \A n \in 1 .. N : s[n] \in Int
  OBVIOUS
<1>3. step \in [1 .. N -> [Int -> Int]]
  BY <1>2
<1>4. \A n \in 1 .. N, t \in Int : step[n][t] = t + s[n]
  OBVIOUS
<1> HIDE DEF step, N, f, Is
<1>5. PICK g : Steps(g, Int, 0, N, step)
  BY <1>1, <1>3, Stepwise
<1>6. /\ g \in [0 .. N -> Int] /\ g[0] = 0
      /\ \A n \in 1 .. N : g[n] = step[n][g[n - 1]]
  BY <1>5 DEF Steps
<1>7. \A n \in 0 .. N : n # 0 => n \in 1 .. N /\ g[n - 1] \in Int
  BY <1>1, <1>6
<1>8. Is(g)
  BY <1>4, <1>6, <1>7 DEF Is
<1>9. Is(f)
  BY <1>8, Zenon DEF f
<1>10. Total(s) = f[N]
  BY DEF Total, N, f, Is
<1>11. f = [n \in 0 .. N |-> IF n = 0 THEN 0 ELSE f[n - 1] + s[n]]
  BY <1>9 DEF Is
<1>12. \A n \in 1 .. N : n \in 0 .. N /\ n # 0
  BY <1>1
<1>13. f[0] = 0
  BY <1>1, <1>11
<1>14. \A n \in 1 .. N : f[n] = f[n - 1] + s[n]
  BY <1>11, <1>12
<1>15. \A n \in 0 .. N : f[n] = g[n]
  <2> DEFINE M == {n \in Nat : n <= N => f[n] = g[n]}
  <2>1. 0 \in M
    BY <1>1, <1>6, <1>13
  <2>2. ASSUME NEW n \in Nat, n \in M PROVE n + 1 \in M
    <3> SUFFICES ASSUME n + 1 <= N PROVE f[n + 1] = g[n + 1]
      OBVIOUS
    <3>1. n + 1 \in 1 .. N /\ n + 1 - 1 = n /\ f[n] = g[n] /\ g[n] \in Int
      BY <1>1, <1>6, <2>2
    <3>2. g[n + 1] = step[n + 1][g[n + 1 - 1]]
      BY <1>6, <1>12, <3>1
    <3>3. step[n + 1][g[n]] = g[n] + s[n + 1]
      BY <1>4, <3>1
    <3>4. f[n + 1] = f[n + 1 - 1] + s[n + 1]
      BY <1>14, <3>1
    <3> QED  BY <3>1, <3>2, <3>3, <3>4
  <2> HIDE DEF M
  <2>3. Nat \subseteq M
    BY <2>1, <2>2, Induction
  <2> QED  BY <1>1, <2>3 DEF M
<1>16. f \in [0 .. N -> Int]
  BY <1>6, <1>11, <1>15
<1> QED
  BY <1>10, <1>13, <1>14, <1>16 DEF N, Adding

LEMMA TotalType ==
  ASSUME NEW s \in Seq(Int)
  PROVE  Total(s) \in Int
<1>1. PICK f : Adding(f, s)
  BY TotalSteps
<1>2. Len(s) \in 0 .. Len(s)
  OBVIOUS
<1> QED
  BY <1>1, <1>2 DEF Adding

\* A sum is at most the bound of its terms times their number.
LEMMA TotalBound ==
  ASSUME NEW s \in Seq(Int), NEW b \in Int, \A n \in 1 .. Len(s) : s[n] <= b
  PROVE  Total(s) \in Int /\ Total(s) <= b * Len(s)
<1>0. PICK f : Adding(f, s)
  BY TotalSteps
<1>1. /\ f \in [0 .. Len(s) -> Int]
      /\ f[0] = 0 /\ Total(s) = f[Len(s)]
      /\ \A n \in 1 .. Len(s) : f[n] = f[n - 1] + s[n]
  BY <1>0 DEF Adding
<1>2. Len(s) \in Nat /\ \A n \in 1 .. Len(s) : s[n] \in Int
  OBVIOUS
<1> DEFINE M == {n \in Nat : n <= Len(s) => f[n] <= b * n}
<1>3. 0 \in M
  BY <1>1
<1>4. ASSUME NEW n \in Nat, n \in M PROVE n + 1 \in M
  <2> SUFFICES ASSUME n + 1 <= Len(s) PROVE f[n + 1] <= b * (n + 1)
    OBVIOUS
  <2>1. n + 1 \in 1 .. Len(s) /\ n + 1 - 1 = n /\ n <= Len(s) /\ n \in 0 .. Len(s)
    BY <1>2
  <2>2. f[n] <= b * n /\ f[n] \in Int /\ s[n + 1] \in Int /\ s[n + 1] <= b
    BY <1>1, <1>2, <1>4, <2>1
  <2>3. f[n + 1] = f[n] + s[n + 1]
    BY <1>1, <2>1
  <2>4. b * n \in Int /\ b * (n + 1) = b * n + b
    OBVIOUS
  <2> QED  BY <2>2, <2>3, <2>4
<1> HIDE DEF M
<1>5. Nat \subseteq M
  BY <1>3, <1>4, Induction
<1>6. Len(s) \in M
  BY <1>2, <1>5
<1>7. f[Len(s)] <= b * Len(s)
  BY <1>2, <1>6 DEF M
<1> QED
  BY <1>1, <1>2, <1>7

\* A quotient is below a number when the dividend is below so many divisors.
LEMMA QuotientBound ==
  ASSUME NEW x \in Int, NEW d \in Nat \ {0}, NEW q \in Int, x < d * (q + 1)
  PROVE  x \div d \in Int /\ x \div d <= q
<1>1. x \div d \in Int /\ d * (x \div d) <= x
  OBVIOUS
<1>2. CASE x \div d <= q
  BY <1>1, <1>2
<1>3. CASE ~ x \div d <= q
  <2>1. PICK z \in Int : z = x \div d
    BY <1>1
  <2>2. z >= q + 1
    BY <1>3, <2>1
  <2>3. d * z >= d * (q + 1)
    BY <2>2
  <2> QED  BY <1>1, <2>1, <2>3
<1> QED
  BY <1>2, <1>3

-----------------------------------------------------------------------------
(* Rate limiter                                                            *)

Buckets == [rate : Nat, burst : Nat, tokens : Nat, last : Nat]
Accounts == [spent : Nat, since : Nat]

\* The law of a bucket: what it may still give now and what it gave so far come
\* out of its burst and its refills.  A bucket that was set or reset after its
\* last refill has given nothing since, and may hold more than its burst until
\* the next refill cuts it, which is why the law speaks of the lesser of the two.
Obeys(b, a) ==
  /\ b.last <= rlNow /\ a.since <= rlNow
  /\ b.last < a.since => a.spent = 0
  /\ b.last >= a.since => Least(b.tokens, b.burst) + a.spent <= b.burst + b.rate * (b.last - a.since)

BucketsObey == \A k \in DOMAIN bucket : Obeys(bucket[k], account[k])

RLInv == RLTypeOK /\ BucketsObey /\ BlocksAreEarned

-----------------------------------------------------------------------------
(* What a refill and a payment do to one bucket.                           *)

\* A refill brings a bucket up to date, cuts it at its burst and keeps the law
\* (TokenBucket.refill).
LEMMA RefillLemma ==
  ASSUME NEW b \in Buckets, NEW a \in Accounts, rlNow \in Nat, Obeys(b, a)
  PROVE  /\ Refilled(b) \in Buckets
         /\ Refilled(b).last = rlNow
         /\ Refilled(b).tokens <= Refilled(b).burst
         /\ Obeys(Refilled(b), a)
<1> DEFINE r == Refilled(b)
<1>1. b.rate \in Nat /\ b.burst \in Nat /\ b.tokens \in Nat /\ b.last \in Nat
      /\ a.spent \in Nat /\ a.since \in Nat /\ b.last <= rlNow /\ a.since <= rlNow
  BY DEF Buckets, Accounts, Obeys
<1>2. (rlNow - b.last) * b.rate \in Nat
  BY <1>1
<1>3. /\ r.rate = b.rate /\ r.burst = b.burst /\ r.last = rlNow
      /\ r.tokens = Least(b.burst, b.tokens + (rlNow - b.last) * b.rate)
  BY DEF Refilled, Buckets
<1>4. r.tokens \in Nat /\ r.tokens <= b.burst /\ r.tokens <= b.tokens + (rlNow - b.last) * b.rate
  BY <1>1, <1>2, <1>3 DEF Least
<1>5. r \in Buckets
  BY <1>4, <1>3 DEF Refilled, Buckets
<1>6. Least(r.tokens, r.burst) = r.tokens
  BY <1>3, <1>4, <1>1 DEF Least
<1>7. r.tokens + a.spent <= b.burst + b.rate * (rlNow - a.since)
  <2>1. CASE b.last < a.since
    <3>1. a.spent = 0  BY <2>1 DEF Obeys
    <3>2. b.rate * (rlNow - a.since) \in Nat  BY <1>1
    <3> QED  BY <1>1, <1>4, <3>1, <3>2
  <2>2. CASE b.last >= a.since
    <3>1. Least(b.tokens, b.burst) + a.spent <= b.burst + b.rate * (b.last - a.since)
      BY <2>2 DEF Obeys
    <3>2. b.rate * (rlNow - a.since) = b.rate * (rlNow - b.last) + b.rate * (b.last - a.since)
      BY <1>1, <2>2
    <3>3. b.rate * (b.last - a.since) \in Nat /\ b.rate * (rlNow - b.last) \in Nat
      BY <1>1, <2>2
    <3>4. b.rate * (rlNow - b.last) = (rlNow - b.last) * b.rate
      BY <1>1
    <3>5. CASE b.tokens < b.burst
      <4>1. b.tokens + a.spent <= b.burst + b.rate * (b.last - a.since)
        BY <3>1, <3>5 DEF Least
      <4>2. r.tokens + a.spent <= b.tokens + b.rate * (rlNow - b.last) + a.spent
        BY <1>1, <1>4, <3>3, <3>4
      <4> HIDE DEF r
      <4> QED  BY <1>1, <1>4, <3>2, <3>3, <4>1, <4>2
    <3>6. CASE ~ b.tokens < b.burst
      <4>1. b.burst + a.spent <= b.burst + b.rate * (b.last - a.since)
        BY <3>1, <3>6 DEF Least
      <4> HIDE DEF r
      <4> QED  BY <1>1, <1>4, <3>2, <3>3, <4>1
    <3> QED  BY <3>5, <3>6
  <2> QED  BY <1>1, <2>1, <2>2
<1>8. Obeys(r, a)
  BY <1>1, <1>3, <1>6, <1>7 DEF Obeys
<1> QED  BY <1>3, <1>4, <1>5, <1>8

\* A refilled bucket that pays what it holds keeps the law (TokenBucket.consume).
LEMMA PayLemma ==
  ASSUME NEW b \in Buckets, NEW a \in Accounts, rlNow \in Nat, NEW count \in Nat,
         Obeys(b, a), b.last = rlNow, b.tokens <= b.burst, ~ b.tokens < count
  PROVE  /\ [b EXCEPT !.tokens = b.tokens - count] \in Buckets
         /\ [a EXCEPT !.spent = a.spent + count] \in Accounts
         /\ Obeys([b EXCEPT !.tokens = b.tokens - count], [a EXCEPT !.spent = a.spent + count])
<1> DEFINE p == [b EXCEPT !.tokens = b.tokens - count]
           q == [a EXCEPT !.spent = a.spent + count]
<1>1. b.rate \in Nat /\ b.burst \in Nat /\ b.tokens \in Nat /\ b.last \in Nat
      /\ a.spent \in Nat /\ a.since \in Nat /\ a.since <= rlNow
  BY DEF Buckets, Accounts, Obeys
<1>2. p.rate = b.rate /\ p.burst = b.burst /\ p.last = b.last /\ p.tokens = b.tokens - count
  BY DEF Buckets
<1>3. q.spent = a.spent + count /\ q.since = a.since
  BY DEF Accounts
<1>4. p \in Buckets /\ q \in Accounts
  BY <1>1 DEF Buckets, Accounts
<1>5. b.tokens + a.spent <= b.burst + b.rate * (b.last - a.since)
  <2>1. Least(b.tokens, b.burst) = b.tokens  BY <1>1 DEF Least
  <2> QED  BY <1>1, <2>1 DEF Obeys
<1>6. Least(p.tokens, p.burst) = b.tokens - count
  BY <1>1, <1>2 DEF Least
<1>7. b.rate * (b.last - a.since) \in Int
  BY <1>1
<1>8. (b.tokens - count) + (a.spent + count) <= b.burst + b.rate * (b.last - a.since)
  BY <1>1, <1>5, <1>7
<1>9. Obeys(p, q)
  <2> HIDE DEF p, q
  <2> QED  BY <1>1, <1>2, <1>3, <1>6, <1>8 DEF Obeys
<1> QED  BY <1>4, <1>9

-----------------------------------------------------------------------------
(* What the steps do to all buckets.                                       *)

TypedBuckets ==
  /\ DOMAIN bucket \subseteq Keys /\ DOMAIN account = DOMAIN bucket
  /\ \A k \in DOMAIN bucket : bucket[k] \in Buckets /\ account[k] \in Accounts

\* A call of `allow` lets some buckets pay, which have enough, and refills others.
LEMMA ConsumeLemma ==
  ASSUME RLInv, NEW paid, NEW looked, NEW count \in Nat, rlNow' = rlNow,
         \A k \in paid : k \in DOMAIN bucket /\ ~ Refilled(bucket[k]).tokens < count,
         Consume(paid, looked, count)
  PROVE  TypedBuckets' /\ BucketsObey'
<1> USE DEF RLInv, RLTypeOK
<1>1. rlNow \in Nat
  OBVIOUS
<1>2. \A k \in DOMAIN bucket :
        bucket[k] \in Buckets /\ account[k] \in Accounts /\ Obeys(bucket[k], account[k])
  BY DEF Buckets, Accounts, BucketsObey
<1>3. DOMAIN bucket' = DOMAIN bucket /\ DOMAIN account' = DOMAIN bucket
  BY DEF Consume
<1>4. ASSUME NEW k \in DOMAIN bucket
      PROVE  bucket'[k] \in Buckets /\ account'[k] \in Accounts /\ Obeys(bucket'[k], account'[k])
  <2>1. /\ Refilled(bucket[k]) \in Buckets /\ Refilled(bucket[k]).last = rlNow
        /\ Refilled(bucket[k]).tokens <= Refilled(bucket[k]).burst
        /\ Obeys(Refilled(bucket[k]), account[k])
    BY <1>1, <1>2, RefillLemma
  <2>2. CASE k \in paid
    <3>1. /\ bucket'[k] = [Refilled(bucket[k]) EXCEPT !.tokens = Refilled(bucket[k]).tokens - count]
          /\ account'[k] = [account[k] EXCEPT !.spent = account[k].spent + count]
      BY <2>2 DEF Consume
    <3> DEFINE b == Refilled(bucket[k])
               a == account[k]
    <3>2. /\ b \in Buckets /\ a \in Accounts /\ Obeys(b, a)
          /\ b.last = rlNow /\ b.tokens <= b.burst /\ ~ b.tokens < count
      BY <1>2, <2>1, <2>2
    <3> HIDE DEF a, b, RLInv, RLTypeOK
    <3>3. /\ [b EXCEPT !.tokens = b.tokens - count] \in Buckets
          /\ [a EXCEPT !.spent = a.spent + count] \in Accounts
          /\ Obeys([b EXCEPT !.tokens = b.tokens - count], [a EXCEPT !.spent = a.spent + count])
      BY <1>1, <3>2, PayLemma
    <3> QED  BY <3>1, <3>3 DEF a, b
  <2>3. CASE k \notin paid
    <3>1. account'[k] = account[k]
      BY <2>3 DEF Consume
    <3> DEFINE Paying(j) == [Refilled(bucket[j]) EXCEPT !.tokens = Refilled(bucket[j]).tokens - count]
               Looking(j) == Refilled(bucket[j])
    <3>a. bucket' = [j \in DOMAIN bucket |->
                       IF j \in paid THEN Paying(j) ELSE IF j \in looked THEN Looking(j) ELSE bucket[j]]
      BY DEF Consume
    <3> HIDE DEF RLInv, RLTypeOK, Paying, Looking
    <3>b. bucket'[k] = IF k \in looked THEN Looking(k) ELSE bucket[k]
      BY <2>3, <3>a
    <3>2. bucket'[k] = IF k \in looked THEN Refilled(bucket[k]) ELSE bucket[k]
      BY <3>b DEF Looking
    <3>3. bucket'[k] = Refilled(bucket[k]) \/ bucket'[k] = bucket[k]
      BY <3>2
    <3> QED  BY <1>2, <2>1, <3>1, <3>3
  <2> QED  BY <2>2, <2>3
<1>5. \A k \in DOMAIN bucket : Obeys(bucket'[k], account'[k]) => Obeys(bucket[k], account[k])'
  BY DEF Obeys
<1> QED  BY <1>3, <1>4, <1>5 DEF TypedBuckets, BucketsObey

\* The hits and the blocks are well formed, and the blocks are earned.
HitsOK ==
  /\ DOMAIN hits \subseteq HitKeys /\ \A k \in DOMAIN hits : hits[k] \in Nat
  /\ DOMAIN blocked \subseteq DOMAIN hits /\ \A k \in DOMAIN blocked : blocked[k] \in Int
  /\ BlocksAreEarned

LEMMA RLPartsLemma == RLInv <=> rlNow \in Nat /\ TypedBuckets /\ BucketsObey /\ HitsOK
  BY DEF RLInv, RLTypeOK, TypedBuckets, HitsOK, Buckets, Accounts

LEMMA RLPartsNextLemma == rlNow' \in Nat /\ TypedBuckets' /\ BucketsObey' /\ HitsOK' => RLInv'
  BY DEF RLInv, RLTypeOK, TypedBuckets, HitsOK, Buckets, Accounts

\* Time passes and blocks are deleted.
LEMMA UnblockLemma ==
  ASSUME HitsOK, rlNow \in Nat, rlNow' \in Nat, rlNow <= rlNow', hits' = hits,
         DOMAIN blocked' \subseteq DOMAIN blocked,
         \A k \in DOMAIN blocked' : blocked'[k] = blocked[k]
  PROVE  HitsOK'
<1> USE RateLimiterAssumption DEF HitsOK, BlocksAreEarned
<1>1. \A k \in DOMAIN blocked' : blocked'[k] \in Int /\ hits[k] >= HitLimit /\ blocked'[k] <= rlNow + MaxBackoff
  OBVIOUS
<1>2. \A k \in DOMAIN blocked' : blocked'[k] <= rlNow' + MaxBackoff
  BY <1>1
<1> QED  BY <1>1, <1>2

\* A rejection is counted, and blocks from the HitLimit-th on.
LEMMA RecordHitLemma ==
  ASSUME HitsOK, rlNow \in Nat, rlNow' = rlNow, NEW k \in HitKeys, NEW open,
         DOMAIN open \subseteq DOMAIN blocked,
         \A j \in DOMAIN open : open[j] = blocked[j],
         RecordHit(k, open)
  PROVE  HitsOK'
<1> USE RateLimiterAssumption
<1> DEFINE n == HitsOf(k) + 1
           until == rlNow + Least(MaxBackoff, 2 ^ (n - HitLimit))
<1>1. /\ hits' = [j \in DOMAIN hits \union {k} |-> IF j = k THEN n ELSE hits[j]]
      /\ blocked' = IF n < HitLimit THEN open
                    ELSE [j \in DOMAIN open \union {k} |-> IF j = k THEN until ELSE open[j]]
  BY DEF RecordHit
<1>2. HitsOf(k) \in Nat /\ (k \in DOMAIN hits => n > hits[k])
  BY DEF HitsOK, HitsOf
<1>3. n \in Nat
  BY <1>2
<1>4. until \in Int /\ until <= rlNow + MaxBackoff
  <2>1. 2 ^ (n - HitLimit) \in Int  BY <1>3
  <2> HIDE DEF n
  <2> QED  BY <2>1 DEF Least
<1> HIDE DEF n, until
<1>5. \A j \in DOMAIN blocked :
        j \in DOMAIN hits /\ hits[j] \in Nat /\ hits[j] >= HitLimit
          /\ blocked[j] \in Int /\ blocked[j] <= rlNow + MaxBackoff
  BY DEF HitsOK, BlocksAreEarned
<1>6. DOMAIN hits' = DOMAIN hits \union {k} /\ DOMAIN hits' \subseteq HitKeys
  BY <1>1 DEF HitsOK
<1>7. \A j \in DOMAIN hits' : hits'[j] \in Nat
  BY <1>1, <1>3 DEF HitsOK
<1>8. ASSUME NEW j \in DOMAIN blocked'
      PROVE  j \in DOMAIN hits' /\ blocked'[j] \in Int /\ hits'[j] >= HitLimit
             /\ blocked'[j] <= rlNow + MaxBackoff
  <2>1. CASE j \in DOMAIN open /\ (n < HitLimit \/ j # k)
    <3>1. blocked'[j] = blocked[j]  BY <1>1, <2>1
    <3>2. j \in DOMAIN blocked  BY <2>1
    <3>3. j \in DOMAIN hits /\ hits[j] >= HitLimit /\ hits[j] \in Nat  BY <1>5, <3>2
    <3>4. hits'[j] >= hits[j] /\ hits'[j] \in Nat
      BY <1>1, <1>2, <1>3, <1>6, <1>7, <3>3
    <3>5. hits'[j] >= HitLimit  BY <3>3, <3>4
    <3> QED  BY <1>5, <1>6, <3>1, <3>2, <3>3, <3>5
  <2>2. CASE ~ n < HitLimit /\ j = k
    <3>1. blocked'[j] = until /\ hits'[j] = n  BY <1>1, <2>2
    <3> QED  BY <1>3, <1>4, <1>6, <2>2, <3>1
  <2>3. j \in DOMAIN open \/ (~ n < HitLimit /\ j = k)  BY <1>1
  <2> QED  BY <2>1, <2>2, <2>3
<1> QED  BY <1>6, <1>7, <1>8 DEF HitsOK, BlocksAreEarned

-----------------------------------------------------------------------------
LEMMA RLInitLemma == RLInit => RLInv
<1> SUFFICES ASSUME RLInit PROVE RLInv
  OBVIOUS
<1>1. DOMAIN <<>> = {}
  OBVIOUS
<1> QED  BY <1>1 DEF RLInit, RLInv, RLTypeOK, BucketsObey, BlocksAreEarned

LEMMA RLTickLemma ==
  ASSUME RLInv, RLTick
  PROVE  RLInv'
<1>1. rlNow \in Nat /\ TypedBuckets /\ BucketsObey /\ HitsOK
  BY RLPartsLemma
<1>2. rlNow' = rlNow + 1 /\ UNCHANGED <<bucket, hits, blocked, account>>
  BY DEF RLTick
<1>3. rlNow' \in Nat /\ TypedBuckets'
  BY <1>1, <1>2 DEF TypedBuckets
<1>4. ASSUME NEW k \in DOMAIN bucket PROVE Obeys(bucket[k], account[k])'
  <2>1. bucket[k] \in Buckets /\ account[k] \in Accounts /\ Obeys(bucket[k], account[k])
    BY <1>1 DEF TypedBuckets, BucketsObey
  <2>2. bucket[k].last \in Nat /\ account[k].since \in Nat
    BY <2>1 DEF Buckets, Accounts
  <2> QED  BY <1>1, <1>2, <2>1, <2>2 DEF Obeys
<1>5. BucketsObey'
  BY <1>2, <1>4 DEF BucketsObey
<1>6. HitsOK'
  BY <1>1, <1>2, <1>3, UnblockLemma
<1> QED  BY <1>3, <1>5, <1>6, RLPartsNextLemma

LEMMA SetLimitLemma ==
  ASSUME RLInv, NEW k \in Keys, NEW rate \in Rates, NEW burst \in Bursts,
         SetLimit(k, rate, burst)
  PROVE  RLInv'
<1> USE RateLimiterAssumption
<1>1. rlNow \in Nat /\ TypedBuckets /\ BucketsObey /\ HitsOK
  BY RLPartsLemma
<1>2. rlNow' = rlNow /\ hits' = hits /\ blocked' = blocked
  BY DEF SetLimit
<1>3. NewBucket(rate, burst) \in Buckets /\ NewBucket(rate, burst).last = rlNow
  <2>1. rate \in Nat /\ burst \in Nat /\ BurstSeconds \in Nat /\ InitialTokens \in Nat
    OBVIOUS
  <2>2. rate * BurstSeconds \in Nat
    BY <2>1
  <2> QED  BY <1>1, <2>1, <2>2 DEF NewBucket, Buckets
<1>4. [spent |-> 0, since |-> rlNow] \in Accounts
  BY <1>1 DEF Accounts
<1>5. /\ bucket' = [j \in DOMAIN bucket \union {k} |-> IF j = k THEN NewBucket(rate, burst) ELSE bucket[j]]
      /\ account' = [j \in DOMAIN bucket \union {k} |->
                       IF j = k THEN [spent |-> 0, since |-> rlNow] ELSE account[j]]
  BY DEF SetLimit
<1>6. TypedBuckets'
  BY <1>1, <1>3, <1>4, <1>5 DEF TypedBuckets
<1>7. ASSUME NEW j \in DOMAIN bucket' PROVE Obeys(bucket'[j], account'[j])
  <2>1. CASE j = k
    <3>1. bucket'[j] = NewBucket(rate, burst) /\ account'[j] = [spent |-> 0, since |-> rlNow]
      BY <1>5, <2>1
    <3> DEFINE b == NewBucket(rate, burst)
    <3>2. b.last = rlNow /\ b.burst \in Nat /\ b.rate \in Nat /\ b.tokens \in Nat
      BY <1>3 DEF Buckets
    <3> HIDE DEF b
    <3>3. b.rate * (b.last - rlNow) = 0
      BY <1>1, <3>2
    <3>4. Least(b.tokens, b.burst) + 0 <= b.burst + b.rate * (b.last - rlNow)
      BY <3>2, <3>3 DEF Least
    <3>5. Obeys(b, [spent |-> 0, since |-> rlNow])
      BY <1>1, <3>2, <3>4 DEF Obeys
    <3> QED  BY <3>1, <3>5 DEF b
  <2>2. CASE j # k
    BY <1>1, <1>5, <2>2 DEF BucketsObey
  <2> QED  BY <2>1, <2>2
<1>8. BucketsObey'
  BY <1>2, <1>7 DEF BucketsObey, Obeys
<1>9. HitsOK'
  BY <1>1, <1>2, UnblockLemma
<1> QED  BY <1>1, <1>2, <1>6, <1>8, <1>9, RLPartsNextLemma

LEMMA StatusLemma ==
  ASSUME RLInv, NEW k \in Keys, Status(k)
  PROVE  RLInv'
<1>1. rlNow \in Nat /\ TypedBuckets /\ BucketsObey /\ HitsOK
  BY RLPartsLemma
<1>2. rlNow' = rlNow /\ UNCHANGED <<hits, blocked, account>>
  BY DEF Status
<1>3. DOMAIN bucket' = DOMAIN bucket
      /\ \A j \in DOMAIN bucket : bucket'[j] = IF j = k THEN Refilled(bucket[k]) ELSE bucket[j]
  BY DEF Status
<1>4. ASSUME NEW j \in DOMAIN bucket
      PROVE  bucket'[j] \in Buckets /\ Obeys(bucket'[j], account[j])
  <2>1. bucket[j] \in Buckets /\ account[j] \in Accounts /\ Obeys(bucket[j], account[j])
    BY <1>1 DEF TypedBuckets, BucketsObey
  <2>2. Refilled(bucket[j]) \in Buckets /\ Obeys(Refilled(bucket[j]), account[j])
    BY <1>1, <2>1, RefillLemma
  <2> QED  BY <1>3, <2>1, <2>2
<1>5. TypedBuckets'
  BY <1>1, <1>2, <1>3, <1>4 DEF TypedBuckets
<1>6. BucketsObey'
  BY <1>2, <1>3, <1>4 DEF BucketsObey, Obeys
<1>7. HitsOK'
  BY <1>1, <1>2, UnblockLemma
<1> QED  BY <1>1, <1>2, <1>5, <1>6, <1>7, RLPartsNextLemma

LEMMA ResetLemma ==
  ASSUME RLInv, NEW ks, Reset(ks)
  PROVE  RLInv'
<1>1. rlNow \in Nat /\ TypedBuckets /\ BucketsObey /\ HitsOK
  BY RLPartsLemma
<1>2. rlNow' = rlNow
  BY DEF Reset
<1>3. /\ DOMAIN bucket' = DOMAIN bucket /\ DOMAIN account' = DOMAIN bucket
      /\ \A k \in DOMAIN bucket :
           /\ bucket'[k] = IF k \in ks THEN [bucket[k] EXCEPT !.tokens = bucket[k].burst] ELSE bucket[k]
           /\ account'[k] = IF k \in ks THEN [spent |-> 0, since |-> rlNow] ELSE account[k]
  BY DEF Reset
<1>4. ASSUME NEW k \in DOMAIN bucket
      PROVE  bucket'[k] \in Buckets /\ account'[k] \in Accounts /\ Obeys(bucket'[k], account'[k])
  <2>1. bucket[k] \in Buckets /\ account[k] \in Accounts /\ Obeys(bucket[k], account[k])
    BY <1>1 DEF TypedBuckets, BucketsObey
  <2>2. CASE k \in ks
    <3> DEFINE b == bucket[k]
               f == [b EXCEPT !.tokens = b.burst]
    <3>1. b.rate \in Nat /\ b.burst \in Nat /\ b.last \in Nat /\ b.last <= rlNow
      BY <2>1 DEF Buckets, Obeys
    <3>2. f \in Buckets /\ f.tokens = b.burst /\ f.burst = b.burst /\ f.last = b.last /\ f.rate = b.rate
      BY <2>1 DEF Buckets
    <3>3. bucket'[k] = f /\ account'[k] = [spent |-> 0, since |-> rlNow]
      BY <1>3, <2>2
    <3> HIDE DEF f, b
    <3>4. [spent |-> 0, since |-> rlNow] \in Accounts
      BY <1>1 DEF Accounts
    <3>5. f.last >= rlNow => b.rate * (f.last - rlNow) = 0
      BY <1>1, <3>1, <3>2
    <3>6. Least(f.tokens, f.burst) = b.burst
      BY <3>1, <3>2 DEF Least
    <3>7. Obeys(f, [spent |-> 0, since |-> rlNow])
      BY <1>1, <3>1, <3>2, <3>5, <3>6 DEF Obeys
    <3> QED  BY <3>2, <3>3, <3>4, <3>7
  <2>3. CASE k \notin ks
    BY <1>3, <2>1, <2>3
  <2> QED  BY <2>2, <2>3
<1>5. TypedBuckets'
  BY <1>1, <1>3, <1>4 DEF TypedBuckets
<1>6. BucketsObey'
  BY <1>2, <1>3, <1>4 DEF BucketsObey, Obeys
<1>7. HitsOK'
  BY <1>1, <1>2 DEF Reset, Restrict, HitsOK, BlocksAreEarned
<1> QED  BY <1>1, <1>2, <1>5, <1>6, <1>7, RLPartsNextLemma

\* Every key that `allow` may find refusing is one of the limiter's.
LEMMA LimitedLemma ==
  ASSUME NEW op \in Operations, NEW k \in Limited(op)
  PROVE  k \in HitKeys /\ Deciding(k) \in DOMAIN bucket
<1>1. \A s \in Scopes : op[s] # NoName => <<s, op[s]>> \in NamedKeys
  BY DEF Operations, NamedKeys
<1> QED  BY <1>1 DEF Limited, Asked, HitKeys

LEMMA ProductLemma ==
  ASSUME NEW r \in Nat, NEW x \in Nat, NEW y \in Nat, x <= y
  PROVE  r * x <= r * y
  OBVIOUS

LEMMA LevelLemma == \A k \in HitKeys : Level(k) \in 1 .. 4
<1> SUFFICES ASSUME NEW k \in HitKeys PROVE Level(k) \in 1 .. 4
  OBVIOUS
<1>1. k[1] \in {"global", "agent", "room", "federation"}
  <2>1. CASE k = Global
    BY <2>1 DEF Global
  <2>2. CASE k \in NamedKeys
    <3>1. PICK s \in Scopes : \E n \in Names[s] : k = <<s, n>>
      BY <2>2 DEF NamedKeys
    <3>2. k[1] = s
      BY <3>1
    <3> QED  BY <3>2 DEF Scopes
  <2> QED  BY <2>1, <2>2 DEF HitKeys
<1> QED  BY <1>1 DEF Level

\* Among some keys there is one of the first level.
LEMMA FirstLemma ==
  ASSUME NEW S, S # {}, S \subseteq HitKeys
  PROVE  First(S) \in S /\ \A j \in S : Level(First(S)) <= Level(j)
<1>1. \A j \in S : Level(j) \in 1 .. 4
  BY LevelLemma
<1> DEFINE L == {Level(j) : j \in S}
<1>2. L \subseteq 1 .. 4 /\ L # {}
  BY <1>1
<1>3. \E m \in L : \A l \in L : m <= l
  BY <1>2
<1>4. \E k \in S : \A j \in S : Level(k) <= Level(j)
  BY <1>3
<1> QED  BY <1>4 DEF First

LEMMA AllowBlockedLemma ==
  ASSUME RLInv, NEW op \in Operations, AllowBlocked(op)
  PROVE  RLInv'
<1>1. rlNow \in Nat /\ TypedBuckets /\ BucketsObey /\ HitsOK
  BY RLPartsLemma
<1>2. rlNow' = rlNow /\ UNCHANGED <<bucket, hits, account>>
  BY DEF AllowBlocked
<1>3. DOMAIN blocked' \subseteq DOMAIN blocked /\ \A k \in DOMAIN blocked' : blocked'[k] = blocked[k]
  BY DEF AllowBlocked, Restrict
<1>4. HitsOK'
  BY <1>1, <1>2, <1>3, UnblockLemma
<1>5. TypedBuckets' /\ BucketsObey'
  BY <1>1, <1>2 DEF TypedBuckets, BucketsObey, Obeys
<1> QED  BY <1>1, <1>2, <1>4, <1>5, RLPartsNextLemma

LEMMA AllowPassesLemma ==
  ASSUME RLInv, NEW op \in Operations, NEW count \in Counts, AllowPasses(op, count)
  PROVE  RLInv'
<1>1. rlNow \in Nat /\ HitsOK /\ count \in Nat
  BY RLPartsLemma, RateLimiterAssumption
<1>2. rlNow' = rlNow /\ hits' = hits
  BY DEF AllowPasses
<1>3. DOMAIN blocked' \subseteq DOMAIN blocked /\ \A k \in DOMAIN blocked' : blocked'[k] = blocked[k]
  BY DEF AllowPasses, Restrict
<1>4. HitsOK'
  BY <1>1, <1>2, <1>3, UnblockLemma
<1> DEFINE paid == {Deciding(k) : k \in Limited(op)}
<1>5. \A k \in paid : k \in DOMAIN bucket /\ ~ Refilled(bucket[k]).tokens < count
  BY LimitedLemma DEF AllowPasses, Refusing
<1>6. Consume(paid, {}, count)
  BY DEF AllowPasses
<1> HIDE DEF paid
<1>7. TypedBuckets' /\ BucketsObey'
  BY <1>1, <1>2, <1>5, <1>6, ConsumeLemma
<1> QED  BY <1>1, <1>2, <1>4, <1>7, RLPartsNextLemma

LEMMA AllowRefusesLemma ==
  ASSUME RLInv, NEW op \in Operations, NEW count \in Counts, AllowRefuses(op, count)
  PROVE  RLInv'
<1>1. rlNow \in Nat /\ HitsOK /\ count \in Nat
  BY RLPartsLemma, RateLimiterAssumption
<1>2. rlNow' = rlNow
  BY DEF AllowRefuses
<1> DEFINE k == First(Refusing(op, count))
           paid == {Deciding(j) : j \in Above(k, Limited(op))}
           open == Restrict(blocked, DOMAIN blocked \ Lapsed(op))
<1>3. Consume(paid, {Deciding(k)}, count) /\ RecordHit(k, open)
  BY DEF AllowRefuses
\* The first that refuses is one that refuses, and those above it do not.
<1>4. k \in Refusing(op, count) /\ \A j \in Refusing(op, count) : Level(k) <= Level(j)
  <2>1. Refusing(op, count) # {} /\ Refusing(op, count) \subseteq HitKeys
    BY LimitedLemma DEF AllowRefuses, Refusing
  <2> QED  BY <2>1, FirstLemma
<1>5. \A j \in paid : j \in DOMAIN bucket /\ ~ Refilled(bucket[j]).tokens < count
  <2> SUFFICES ASSUME NEW j \in Above(k, Limited(op))
               PROVE  Deciding(j) \in DOMAIN bucket /\ ~ Refilled(bucket[Deciding(j)]).tokens < count
    OBVIOUS
  <2>1. j \in Limited(op) /\ Level(j) < Level(k)
    BY DEF Above
  <2>2. j \in HitKeys /\ k \in HitKeys /\ Deciding(j) \in DOMAIN bucket
    BY <1>4, <2>1, LimitedLemma DEF Refusing
  <2>3. Level(j) \in Nat /\ Level(k) \in Nat
    BY <2>2, LevelLemma
  <2>4. j \notin Refusing(op, count)
    BY <1>4, <2>1, <2>3
  <2> QED  BY <2>1, <2>2, <2>4 DEF Refusing
<1>6. k \in HitKeys
  BY <1>4, LimitedLemma DEF Refusing
<1>7. DOMAIN open \subseteq DOMAIN blocked /\ \A j \in DOMAIN open : open[j] = blocked[j]
  BY DEF Restrict
<1> HIDE DEF k, paid, open
<1>8. HitsOK'
  BY <1>1, <1>2, <1>3, <1>6, <1>7, RecordHitLemma
<1>9. TypedBuckets' /\ BucketsObey'
  BY <1>1, <1>2, <1>3, <1>5, ConsumeLemma
<1> QED  BY <1>1, <1>2, <1>8, <1>9, RLPartsNextLemma

LEMMA RLNextLemma == RLInv /\ [RLNext]_rlVars => RLInv'
<1> SUFFICES ASSUME RLInv, [RLNext]_rlVars PROVE RLInv'
  OBVIOUS
<1>1. CASE UNCHANGED rlVars
  BY <1>1 DEF rlVars, RLInv, RLTypeOK, BucketsObey, Obeys, BlocksAreEarned
<1>2. CASE RLTick
  BY <1>2, RLTickLemma
<1>3. CASE \E k \in Keys : Status(k) \/ Reset({k})
  BY <1>3, StatusLemma, ResetLemma
<1>4. CASE Reset(Keys)
  BY <1>4, ResetLemma
<1>5. CASE \E k \in Keys, rate \in Rates, burst \in Bursts : SetLimit(k, rate, burst)
  BY <1>5, SetLimitLemma
<1>6. CASE \E op \in Operations : AllowBlocked(op)
  BY <1>6, AllowBlockedLemma
<1>7. CASE \E op \in Operations, count \in Counts : AllowPasses(op, count) \/ AllowRefuses(op, count)
  BY <1>7, AllowPassesLemma, AllowRefusesLemma
<1> QED  BY <1>1, <1>2, <1>3, <1>4, <1>5, <1>6, <1>7 DEF RLNext

-----------------------------------------------------------------------------
(* The state is well formed, every bucket obeys its law, and blocks are    *)
(* earned (all methods of RateLimiter, armp_ratelimit.py:116-268).         *)
THEOREM RateLimiterInvariant == RLSpec => []RLInv
  BY RLInitLemma, RLNextLemma, PTL DEF RLSpec

(* No bucket gives more than its burst and its rate times the time since   *)
(* it was set or reset (armp_ratelimit.py:56-69).                          *)
THEOREM LimitsHold == RLSpec => []SpentWithinLimit
<1>1. RLInv => SpentWithinLimit
  <2> SUFFICES ASSUME RLInv, NEW k \in DOMAIN bucket
               PROVE  account[k].spent <= bucket[k].burst + bucket[k].rate * (rlNow - account[k].since)
    BY DEF SpentWithinLimit
  <2> DEFINE b == bucket[k]
             a == account[k]
  <2>1. rlNow \in Nat /\ b \in Buckets /\ a \in Accounts /\ Obeys(b, a)
    BY RLPartsLemma DEF TypedBuckets, BucketsObey
  <2>2. /\ b.rate \in Nat /\ b.burst \in Nat /\ b.tokens \in Nat /\ b.last \in Nat
        /\ a.spent \in Nat /\ a.since \in Nat /\ b.last <= rlNow /\ a.since <= rlNow
    BY <2>1 DEF Buckets, Accounts, Obeys
  <2> HIDE DEF a, b
  <2>3. CASE b.last < a.since
    <3>1. a.spent = 0 /\ b.rate * (rlNow - a.since) \in Nat
      BY <2>1, <2>2, <2>3 DEF Obeys
    <3>2. a.spent <= b.burst + b.rate * (rlNow - a.since)
      BY <2>2, <3>1
    <3> QED  BY <3>2 DEF a, b
  <2>4. CASE ~ b.last < a.since
    <3>1. Least(b.tokens, b.burst) + a.spent <= b.burst + b.rate * (b.last - a.since)
      BY <2>1, <2>2, <2>4 DEF Obeys
    <3>2. Least(b.tokens, b.burst) \in Nat
      BY <2>2 DEF Least
    <3> DEFINE x == b.last - a.since
               y == rlNow - a.since
               r == b.rate
    <3>3. r \in Nat /\ x \in Nat /\ y \in Nat /\ x <= y
      BY <2>1, <2>2, <2>4
    <3>4. Least(b.tokens, b.burst) + a.spent <= b.burst + r * x
      BY <3>1
    <3>5. a.spent <= b.burst + r * y
      <4> HIDE DEF x, y, r
      <4>1. r * x <= r * y /\ r * x \in Nat /\ r * y \in Nat
        BY <3>3, ProductLemma
      <4> QED  BY <2>2, <3>2, <3>4, <4>1
    <3> QED  BY <3>5 DEF a, b
  <2> QED  BY <2>3, <2>4
<1> QED  BY <1>1, RateLimiterInvariant, PTL

(* Who is blocked was rejected HitLimit times or more since its last       *)
(* reset, and is blocked for MaxBackoff at most (armp_ratelimit.py:222-231). *)
THEOREM BlocksEarned == RLSpec => []BlocksAreEarned
<1>1. RLInv => BlocksAreEarned
  BY DEF RLInv
<1> QED  BY <1>1, RateLimiterInvariant, PTL

-----------------------------------------------------------------------------
(* Sliding window                                                          *)

Ordered(l) == \A i, j \in DOMAIN l : i <= j => l[i] <= l[j]

\* The window holds the last events let in, but for the first d, which are old.
Holds(l, s, d, cutoff) ==
  s = SubSeq(l, d + 1, Len(l)) /\ \A i \in 1 .. d : l[i] <= cutoff

WindowInv ==
  /\ WindowTypeOK
  /\ Ordered(letIn) /\ \A i \in DOMAIN letIn : letIn[i] <= windowNow
  /\ \E d \in 0 .. Len(letIn) : Holds(letIn, stamps, d, windowNow - WindowSize)
  /\ WindowHolds

LEMMA TailLemma ==
  ASSUME NEW S, NEW l \in Seq(S), NEW d \in 0 .. Len(l)
  PROVE  /\ SubSeq(l, d + 1, Len(l)) \in Seq(S) /\ Len(SubSeq(l, d + 1, Len(l))) = Len(l) - d
         /\ \A i \in 1 .. Len(l) - d : SubSeq(l, d + 1, Len(l))[i] = l[d + i]
<1>0. PICK n \in Nat : n = Len(l)
  OBVIOUS
<1> DEFINE t == SubSeq(l, d + 1, n)
<1>1. d \in Nat /\ d <= n
  BY <1>0
<1>2. d + 1 \in Int /\ n \in Int /\ \A k \in d + 1 .. n : l[k] \in S
  BY <1>0, <1>1
<1>3. /\ t \in Seq(S) /\ Len(t) = IF d + 1 <= n THEN n - (d + 1) + 1 ELSE 0
      /\ \A i \in 1 .. n - (d + 1) + 1 : t[i] = l[d + 1 + i - 1]
  BY <1>2, SubSeqProperties
<1> HIDE DEF t
<1>4. Len(t) = n - d /\ n - (d + 1) + 1 = n - d
  <2>1. CASE d + 1 <= n
    <3>1. Len(t) = n - (d + 1) + 1
      BY <1>3, <2>1
    <3> QED  BY <1>1, <3>1
  <2>2. CASE ~ d + 1 <= n
    <3>1. Len(t) = 0
      BY <1>3, <2>2
    <3>2. n - d = 0
      BY <1>1, <2>2
    <3> QED  BY <1>1, <3>1, <3>2
  <2> QED  BY <2>1, <2>2
<1>5. \A i \in 1 .. n - d : d + 1 + i - 1 = d + i
  BY <1>1
<1>6. ASSUME NEW i \in 1 .. n - d PROVE t[i] = l[d + i]
  <2>1. i \in 1 .. n - (d + 1) + 1
    BY <1>4
  <2>2. t[i] = l[d + 1 + i - 1]
    BY <1>3, <2>1
  <2> QED  BY <1>5, <2>2
<1> QED
  BY <1>0, <1>3, <1>4, <1>6 DEF t

\* Dropping from an ordered window what is not after a cutoff leaves its tail.
LEMMA ForgetLemma ==
  ASSUME NEW l \in Seq(Nat), Ordered(l), NEW d \in 0 .. Len(l), NEW x \in Int,
         NEW s, Holds(l, s, d, x), NEW K, K = {i \in DOMAIN s : s[i] > x}
  PROVE  \E e \in 0 .. Len(l) : Holds(l, Keep(s, K), e, x)
<1>0. PICK n \in Nat : n = Len(l) /\ DOMAIN l = 1 .. n
  OBVIOUS
<1>1. d \in Nat /\ d <= n
  BY <1>0
<1>2. /\ s = SubSeq(l, d + 1, n) /\ s \in Seq(Nat) /\ Len(s) = n - d
      /\ \A i \in 1 .. n - d : s[i] = l[d + i]
  BY <1>0, TailLemma DEF Holds
<1> DEFINE T == {i \in Nat : i = n - d + 1 \/ i \in K}
<1>3. n - d + 1 \in T
  BY <1>1
<1>4. DOMAIN s = 1 .. n - d
  BY <1>2
<1>5. PICK c \in T : \A i \in T : c <= i
  BY <1>3, LeastOne
<1>6. c \in Nat /\ c >= 1 /\ c <= n - d + 1
  <2>1. c \in Nat /\ c <= n - d + 1
    BY <1>3, <1>5
  <2>2. n - d + 1 >= 1
    BY <1>1
  <2>3. CASE c = n - d + 1
    BY <2>1, <2>2, <2>3
  <2>4. CASE c \in K
    <3>1. c \in 1 .. n - d
      BY <1>4, <2>4
    <3> QED  BY <2>1, <3>1
  <2> QED  BY <1>5, <2>3, <2>4
<1>7. c - 1 \in 0 .. Len(s)
  BY <1>2, <1>6
<1>8. \A i \in 1 .. n - d : i \in K <=> i > c - 1
  <2> SUFFICES ASSUME NEW i \in 1 .. n - d PROVE i \in K <=> i >= c
    BY <1>6
  <2>1. ASSUME i \in K PROVE i >= c
    BY <1>5, <2>1
  <2>2. ASSUME i >= c PROVE i \in K
    <3>1. c # n - d + 1
      BY <1>1, <1>6, <2>2
    <3>2. c \in K
      BY <1>5, <3>1
    <3>3. c \in 1 .. n - d /\ s[c] > x
      BY <1>4, <3>2
    <3>4. s[c] = l[d + c] /\ s[i] = l[d + i]
      BY <1>2, <3>3
    <3>5. d + c \in DOMAIN l /\ d + i \in DOMAIN l /\ d + c <= d + i
      BY <1>0, <1>1, <2>2, <3>3
    <3>6. l[d + c] <= l[d + i] /\ l[d + c] \in Nat /\ l[d + i] \in Nat
      BY <3>5 DEF Ordered
    <3>7. s[i] > x
      BY <3>3, <3>4, <3>6
    <3> QED  BY <1>4, <3>7
  <2> QED  BY <2>1, <2>2
<1>9. Keep(s, K) = SubSeq(s, c, n - d)
  <2>1. Keep(s, K) = SubSeq(s, c - 1 + 1, Len(s))
    BY <1>2, <1>7, <1>8, KeepTail
  <2>2. c - 1 + 1 = c
    BY <1>6
  <2> QED  BY <1>2, <2>1, <2>2
<1> DEFINE e == d + c - 1
<1>10. e \in 0 .. n /\ e \in Nat
  BY <1>1, <1>6
<1>11. SubSeq(s, c, n - d) = SubSeq(l, e + 1, n)
  <2>1. CASE c = n - d + 1
    <3>1. SubSeq(s, c, n - d) = <<>>
      BY <1>1, <1>6, <2>1, SubSeqEmpty
    <3>2. SubSeq(l, e + 1, n) = <<>>
      BY <1>1, <1>6, <2>1, SubSeqEmpty
    <3> QED  BY <3>1, <3>2
  <2>2. CASE c # n - d + 1
    <3>1. d + 1 \in 1 .. n + 1 /\ n \in (d + 1) - 1 .. n
      BY <1>1
    <3>2. c \in 1 .. n - (d + 1) + 2 /\ n - d \in c - 1 .. n - (d + 1) + 1
      BY <1>1, <1>6, <2>2
    <3>3. SubSeq(SubSeq(l, d + 1, n), c, n - d) = SubSeq(l, d + 1 + c - 1, d + 1 + (n - d) - 1)
      BY <1>0, <3>1, <3>2, SubSeqOfSubSeq
    <3>4. d + 1 + c - 1 = e + 1 /\ d + 1 + (n - d) - 1 = n
      BY <1>1, <1>6
    <3> QED  BY <1>2, <3>3, <3>4
  <2> QED  BY <2>1, <2>2
<1>12. ASSUME NEW i \in 1 .. e PROVE l[i] <= x
  <2>1. CASE i <= d
    BY <1>1, <2>1 DEF Holds
  <2>2. CASE ~ i <= d
    <3>1. i - d \in 1 .. n - d /\ ~ (i - d > c - 1) /\ d + (i - d) = i /\ i \in DOMAIN l
      BY <1>0, <1>1, <1>6, <2>2
    <3>2. ~ (s[i - d] > x) /\ s[i - d] = l[i]
      BY <1>2, <1>4, <1>8, <3>1
    <3>3. l[i] \in Nat
      BY <3>1
    <3> QED  BY <1>1, <3>1, <3>2, <3>3
  <2> QED  BY <2>1, <2>2
<1> HIDE DEF e
<1> QED
  BY <1>0, <1>9, <1>10, <1>11, <1>12 DEF Holds

LEMMA WindowInitLemma == WindowInit => WindowInv
<1> SUFFICES ASSUME WindowInit PROVE WindowInv
  OBVIOUS
<1>1. windowNow = 0 /\ stamps = <<>> /\ letIn = <<>>
  BY DEF WindowInit
<1>2. DOMAIN <<>> = {} /\ <<>> \in Seq(Nat) /\ Len(<<>>) = 0
  OBVIOUS
<1>3. WindowTypeOK /\ Ordered(letIn) /\ WindowHolds /\ \A i \in DOMAIN letIn : letIn[i] <= windowNow
  BY <1>1, <1>2 DEF WindowTypeOK, Ordered, WindowHolds
<1>4. Holds(<<>>, <<>>, 0, 0 - WindowSize) /\ 0 \in 0 .. Len(<<>>)
  <2>1. SubSeq(<<>>, 1, 0) = <<>>
    BY SubSeqEmpty
  <2> QED  BY <1>2, <2>1 DEF Holds
<1> QED
  BY <1>1, <1>3, <1>4 DEF WindowInv

LEMMA WindowTickLemma ==
  ASSUME WindowInv, WindowTick
  PROVE  WindowInv'
<1>1. windowNow \in Nat /\ letIn \in Seq(Nat) /\ WindowSize \in Nat
  BY WindowAssumption DEF WindowInv, WindowTypeOK
<1>2. windowNow' = windowNow + 1 /\ stamps' = stamps /\ letIn' = letIn
  BY DEF WindowTick
<1>3. \A i \in DOMAIN letIn : letIn[i] \in Nat /\ letIn[i] <= windowNow
  BY <1>1 DEF WindowInv
<1>4. PICK d \in 0 .. Len(letIn) : Holds(letIn, stamps, d, windowNow - WindowSize)
  BY DEF WindowInv
<1>5. \A i \in 1 .. d : i \in DOMAIN letIn
  BY <1>1
<1>6. Holds(letIn, stamps, d, windowNow + 1 - WindowSize)
  BY <1>1, <1>3, <1>4, <1>5 DEF Holds
<1>7. \A i \in DOMAIN letIn : letIn[i] <= windowNow + 1
  BY <1>1, <1>3
<1> QED
  BY <1>1, <1>2, <1>6, <1>7 DEF WindowInv, WindowTypeOK, WindowHolds

LEMMA WindowAllowLemma ==
  ASSUME WindowInv, WindowAllow
  PROVE  WindowInv'
<1>1. /\ windowNow \in Nat /\ stamps \in Seq(Nat) /\ letIn \in Seq(Nat)
      /\ WindowSize \in Nat /\ MaxEvents \in Nat /\ MaxEvents # 0
  BY WindowAssumption DEF WindowInv, WindowTypeOK
<1>2. windowNow' = windowNow
  BY DEF WindowAllow
<1>3. PICK l \in Seq(Nat) : l = letIn
  BY <1>1
<1>4. PICK s \in Seq(Nat) : s = stamps
  BY <1>1
<1>5. PICK x \in Int : x = windowNow - WindowSize
  BY <1>1
<1>6. PICK now \in Nat : now = windowNow
  BY <1>1
<1>7. Ordered(l) /\ \A i \in DOMAIN l : l[i] <= now
  BY <1>3, <1>6 DEF WindowInv
<1>8. PICK d \in 0 .. Len(l) : Holds(l, s, d, x)
  BY <1>3, <1>4, <1>5 DEF WindowInv
<1>9. PICK K : K = {i \in DOMAIN s : s[i] > x}
  OBVIOUS
<1>10. PICK e \in 0 .. Len(l) : Holds(l, Keep(s, K), e, x)
  BY <1>7, <1>8, <1>9, ForgetLemma
<1>11. PICK kept : kept = Keep(s, K)
  OBVIOUS
<1>12. /\ kept = SubSeq(l, e + 1, Len(l)) /\ kept \in Seq(Nat) /\ Len(kept) = Len(l) - e
       /\ \A i \in 1 .. e : l[i] <= x
  BY <1>10, <1>11, TailLemma DEF Holds
<1>13. IF Len(kept) < MaxEvents
       THEN stamps' = Append(kept, now) /\ letIn' = Append(l, now)
       ELSE stamps' = kept /\ letIn' = l
  <2>1. kept = Keep(stamps, {i \in DOMAIN stamps : Recent(stamps[i])})
    BY <1>4, <1>5, <1>9, <1>11 DEF Recent
  <2> QED  BY <1>3, <1>6, <2>1 DEF WindowAllow
<1>14. \A i \in DOMAIN l : i + MaxEvents \in DOMAIN l => l[i + MaxEvents] - l[i] >= WindowSize
  BY <1>3 DEF WindowInv, WindowHolds
<1>15. CASE Len(kept) < MaxEvents
  <2>1. stamps' = Append(kept, now) /\ letIn' = Append(l, now)
    BY <1>13, <1>15
  <2>2. PICK n \in Nat : n = Len(l) /\ DOMAIN l = 1 .. n
    OBVIOUS
  <2>3. PICK m : m = Append(l, now)
    OBVIOUS
  <2>4. /\ m \in Seq(Nat) /\ Len(m) = n + 1 /\ DOMAIN m = 1 .. n + 1
        /\ m[n + 1] = now /\ \A i \in 1 .. n : m[i] = l[i]
    BY <2>2, <2>3
  <2>5. Append(kept, now) \in Seq(Nat)
    BY <1>12
  <2>6. ASSUME NEW i \in 1 .. n PROVE l[i] \in Nat /\ l[i] <= now
    <3>1. i \in DOMAIN l
      BY <2>2
    <3> QED  BY <1>7, <3>1
  <2>7. Ordered(m) /\ \A i \in DOMAIN m : m[i] <= now
    <3>1. ASSUME NEW i \in 1 .. n + 1, NEW j \in 1 .. n + 1, i <= j PROVE m[i] <= m[j]
      <4>1. CASE j = n + 1
        <5>1. CASE i = n + 1
          BY <2>4, <4>1, <5>1
        <5>2. CASE i # n + 1
          <6>1. i \in 1 .. n
            BY <5>2
          <6> QED  BY <2>4, <2>6, <4>1, <6>1
        <5> QED  BY <5>1, <5>2
      <4>2. CASE j # n + 1
        <5>1. i \in 1 .. n /\ j \in 1 .. n
          BY <3>1, <4>2
        <5> QED  BY <1>7, <2>2, <2>4, <3>1, <5>1 DEF Ordered
      <4> QED  BY <4>1, <4>2
    <3>2. n + 1 \in 1 .. n + 1 /\ \A i \in 1 .. n + 1 : i <= n + 1
      BY <2>2
    <3> QED  BY <2>4, <3>1, <3>2 DEF Ordered
  <2>8. e \in 0 .. n + 1 /\ e \in Nat /\ e <= n
    BY <2>2
  <2>9. Holds(m, Append(kept, now), e, x)
    <3>0. m \in Seq(Nat) /\ kept \in Seq(Nat)
      BY <1>12, <2>4
    <3>1. e + 1 \in 1 .. Len(m) /\ n + 1 \in e + 1 .. Len(m)
      BY <2>2, <2>4, <2>8
    <3>2. SubSeq(m, e + 1, n + 1) = SubSeq(m, e + 1, n + 1 - 1) \o <<m[n + 1]>>
      <4>1. PICK p \in 1 .. Len(m) : p = e + 1
        BY <3>1
      <4>2. PICK q \in p .. Len(m) : q = n + 1
        BY <3>1, <4>1
      <4>3. SubSeq(m, p, q) = SubSeq(m, p, q - 1) \o <<m[q]>>
        BY <3>0, SubSeqRecursiveSecond
      <4>4. q - 1 = n + 1 - 1
        BY <4>2
      <4> QED  BY <4>1, <4>2, <4>3, <4>4, Zenon
    <3>3. SubSeq(m, e + 1, n) = SubSeq(l, e + 1, n)
      BY <2>2, <2>4, <2>8
    <3>4. n + 1 - 1 = n
      BY <2>2
    <3>5. SubSeq(m, e + 1, n + 1) = kept \o <<now>>
      BY <1>12, <2>2, <2>4, <3>2, <3>3, <3>4
    <3>6. kept \o <<now>> = Append(kept, now)
      BY <3>0
    <3>7. ASSUME NEW i \in 1 .. e PROVE m[i] <= x
      <4>1. i \in 1 .. n
        BY <2>8
      <4> QED  BY <1>12, <2>4, <4>1
    <3> QED  BY <2>4, <3>5, <3>6, <3>7 DEF Holds
  <2>10. ASSUME NEW i \in DOMAIN m, i + MaxEvents \in DOMAIN m
         PROVE  m[i + MaxEvents] - m[i] >= WindowSize
    <3>1. i \in 1 .. n /\ i + MaxEvents <= n + 1
      BY <1>1, <2>4, <2>10, i + MaxEvents \in 1 .. n + 1
    <3>2. CASE i + MaxEvents <= n
      <4>1. i + MaxEvents \in 1 .. n
        BY <1>1, <3>1, <3>2
      <4> QED  BY <1>14, <2>2, <2>4, <3>1, <4>1
    <3>3. CASE i + MaxEvents > n
      <4>1. i \in Int /\ MaxEvents \in Int /\ n + 1 \in Int
        BY <1>1, <3>1
      <4>2. i + MaxEvents <= n + 1
        BY <3>1
      <4>3. i + MaxEvents = n + 1
        BY <4>1, <4>2, <3>3
      <4>4. n - e < MaxEvents
        BY <1>12, <1>15, <2>2
      <4>5. i \in 1 .. e
        BY <1>1, <2>8, <3>1, <4>3, <4>4
      <4>6. m[i] = l[i] /\ l[i] <= x /\ l[i] \in Nat /\ m[i + MaxEvents] = now
        BY <1>12, <2>4, <2>6, <3>1, <4>3, <4>5
      <4> QED  BY <1>1, <1>5, <1>6, <4>6
    <3> QED  BY <1>1, <3>1, <3>2, <3>3
  <2>11. WindowTypeOK' /\ WindowHolds'
    BY <1>1, <1>2, <2>1, <2>3, <2>4, <2>5, <2>10 DEF WindowTypeOK, WindowHolds
  <2>12. \E dd \in 0 .. Len(letIn') : Holds(letIn', stamps', dd, windowNow' - WindowSize)
    BY <1>2, <1>5, <2>1, <2>3, <2>4, <2>8, <2>9
  <2> QED
    BY <1>2, <1>6, <2>1, <2>3, <2>7, <2>11, <2>12 DEF WindowInv
<1>16. CASE ~ Len(kept) < MaxEvents
  <2>1. stamps' = kept /\ letIn' = letIn
    BY <1>3, <1>13, <1>16
  <2>2. Holds(letIn', stamps', e, windowNow' - WindowSize) /\ e \in 0 .. Len(letIn')
    BY <1>2, <1>3, <1>5, <1>10, <1>11, <2>1
  <2> QED
    BY <1>1, <1>2, <1>12, <2>1, <2>2 DEF WindowInv, WindowTypeOK, WindowHolds
<1> QED
  BY <1>15, <1>16

LEMMA WindowNextLemma == WindowInv /\ [WindowNext]_windowVars => WindowInv'
<1> SUFFICES ASSUME WindowInv, [WindowNext]_windowVars PROVE WindowInv'
  OBVIOUS
<1>1. CASE UNCHANGED windowVars
  BY <1>1 DEF windowVars, WindowInv, WindowTypeOK, WindowHolds
<1> QED
  BY <1>1, WindowTickLemma, WindowAllowLemma DEF WindowNext

(* No interval as long as the window holds more than max_events events     *)
(* that were let in (SlidingWindow.allow, armp_ratelimit.py:94-105).       *)
THEOREM WindowAlwaysHolds == WindowSpec => []WindowHolds
<1>1. WindowInv => WindowHolds
  BY DEF WindowInv
<1> QED
  BY <1>1, WindowInitLemma, WindowNextLemma, PTL DEF WindowSpec

-----------------------------------------------------------------------------
(* Audit log                                                               *)

Entries == Payloads \X Nat
Events == [payload : Payloads, origin : Origins, time : Nat, previous : Seq(Entries),
           hash : Seq(Entries), at : Nat \ {0}, rehashed : BOOLEAN]

\* The last hash is the history of everything logged.  An event has its place in
\* it, and the hashes it carries, unless somebody changed them, are the histories
\* up to it and before it.
Placed(event, history) ==
  /\ event.at <= Len(history)
  /\ ~event.rehashed =>
       /\ event.hash = SubSeq(history, 1, event.at)
       /\ event.previous = SubSeq(history, 1, event.at - 1)

AllPlaced(log, history) == \A i \in DOMAIN log : Placed(log[i], history)

AuditInv == AuditTypeOK /\ AllPlaced(events, lastHash)

LEMMA PrefixLemma ==
  ASSUME NEW S, NEW s \in Seq(S), NEW n \in 0 .. Len(s)
  PROVE  /\ SubSeq(s, 1, n) \in Seq(S) /\ Len(SubSeq(s, 1, n)) = n
         /\ n > 0 => SubSeq(s, 1, n) = Append(SubSeq(s, 1, n - 1), s[n])
<1>1. n \in Nat /\ n <= Len(s) /\ Len(s) \in Nat
  OBVIOUS
<1>2. SubSeq(s, 1, n) \in Seq(S) /\ Len(SubSeq(s, 1, n)) = n
  BY <1>1
<1>3. ASSUME n > 0 PROVE SubSeq(s, 1, n) = Append(SubSeq(s, 1, n - 1), s[n])
  <2>1. 1 \in 1 .. Len(s) /\ n \in 1 .. Len(s)
    BY <1>1, <1>3
  <2>2. SubSeq(s, 1, n) = SubSeq(s, 1, n - 1) \o <<s[n]>>
    BY <2>1, SubSeqRecursiveSecond
  <2>3. SubSeq(s, 1, n - 1) \in Seq(S) /\ s[n] \in S
    BY <1>1, <2>1
  <2> QED  BY <2>2, <2>3
<1> QED
  BY <1>2, <1>3

\* What is placed in a history stays so when the history grows.
LEMMA PlacedLemma ==
  ASSUME NEW event \in Events, NEW history \in Seq(Entries), Placed(event, history),
         NEW x \in Entries
  PROVE  Placed(event, Append(history, x))
<1> DEFINE longer == Append(history, x)
<1>1. event.at \in Nat /\ event.at >= 1 /\ event.at <= Len(history)
  BY DEF Events, Placed
<1>2. /\ longer \in Seq(Entries) /\ Len(longer) = Len(history) + 1 /\ Len(history) \in Nat
      /\ \A k \in 1 .. Len(history) : longer[k] = history[k]
  OBVIOUS
<1>3. ASSUME NEW n \in 0 .. Len(history) PROVE SubSeq(longer, 1, n) = SubSeq(history, 1, n)
  BY <1>2, <1>3
<1>5. event.at \in 0 .. Len(history) /\ event.at - 1 \in 0 .. Len(history)
  BY <1>1, <1>2
<1> HIDE DEF longer
<1>6. Placed(event, longer)
  BY <1>1, <1>2, <1>3, <1>5 DEF Placed
<1> QED
  BY <1>6 DEF longer

LEMMA AuditInitLemma == AuditInit => AuditInv
<1> SUFFICES ASSUME AuditInit PROVE AuditInv
  OBVIOUS
<1>1. auditNow \in Nat /\ events = <<>> /\ lastHash = <<>> /\ changes = 0
  BY AuditAssumption DEF AuditInit, Genesis
<1>2. DOMAIN <<>> = {} /\ \A S : <<>> \in Seq(S)
  OBVIOUS
<1> QED
  BY <1>1, <1>2 DEF AuditInv, AuditTypeOK, AllPlaced

LEMMA LogLemma ==
  ASSUME AuditInv, NEW payload \in Payloads, NEW origin \in Origins, Log(payload, origin)
  PROVE  AuditInv'
<1> DEFINE x == <<payload, auditNow>>
           new == NewEvent(payload, origin)
           longer == Append(events, new)
<1>1. auditNow \in Nat /\ lastHash \in Seq(Entries) /\ events \in Seq(Events) /\ x \in Entries
  BY DEF AuditInv, AuditTypeOK, Entries, Events
<1>2. /\ new.payload = payload /\ new.time = auditNow /\ new.previous = lastHash
      /\ new.hash = Append(lastHash, x) /\ new.at = Len(lastHash) + 1
  BY DEF NewEvent, ComputeHash
<1>3. new \in Events
  <2>1. Append(lastHash, x) \in Seq(Entries) /\ Len(lastHash) + 1 \in Nat \ {0}
    BY <1>1
  <2> QED  BY <1>1, <2>1 DEF NewEvent, ComputeHash, Events
<1>4. lastHash' = Append(lastHash, x) /\ auditNow' = auditNow /\ changes' = changes
  BY <1>2 DEF Log
<1>5. Placed(new, lastHash')
  <2>1. lastHash' \in Seq(Entries) /\ Len(lastHash') = Len(lastHash) + 1 /\ Len(lastHash) \in Nat
    BY <1>1, <1>4
  <2>3. SubSeq(lastHash', 1, Len(lastHash) + 1) = lastHash'
    BY <2>1
  <2>4. SubSeq(lastHash', 1, Len(lastHash)) = lastHash
    BY <1>1, <1>4
  <2>5. Len(lastHash) + 1 - 1 = Len(lastHash)
    BY <2>1
  <2> HIDE DEF x, new
  <2> QED  BY <1>2, <1>4, <2>1, <2>3, <2>4, <2>5 DEF Placed
<1> HIDE DEF x, new
<1>6. longer \in Seq(Events) /\ DOMAIN longer = 1 .. Len(events) + 1
      /\ (\A i \in DOMAIN events : longer[i] = events[i]) /\ longer[Len(events) + 1] = new
  BY <1>1, <1>3
<1>7. AllPlaced(longer, lastHash')
  <2> SUFFICES ASSUME NEW i \in DOMAIN longer PROVE Placed(longer[i], lastHash')
    BY DEF AllPlaced
  <2>1. CASE i \in DOMAIN events
    <3>1. PICK event \in Events : event = events[i]
      BY <1>1, <2>1
    <3>2. PICK history \in Seq(Entries) : history = lastHash
      BY <1>1
    <3>3. PICK y \in Entries : y = x
      BY <1>1
    <3>4. Placed(event, history)
      BY <2>1, <3>1, <3>2 DEF AuditInv, AllPlaced
    <3>5. Placed(event, Append(history, y))
      BY <3>4, PlacedLemma
    <3> QED  BY <1>4, <1>6, <2>1, <3>1, <3>2, <3>3, <3>5
  <2>2. CASE i \notin DOMAIN events
    <3>1. i = Len(events) + 1
      BY <1>1, <1>6, <2>2
    <3> QED  BY <1>5, <1>6, <3>1
  <2> QED  BY <2>1, <2>2
<1> HIDE DEF longer
<1>8. Pruned(longer) \in Seq(Events) /\ AllPlaced(Pruned(longer), lastHash')
  <2>1. CASE Retention = 0
    BY <1>6, <1>7, <2>1 DEF Pruned
  <2>2. CASE Retention # 0
    <3>1. PICK l \in Seq(Events) : l = longer
      BY <1>6
    <3>2. PICK K : K = {i \in DOMAIN l : Retained(l[i])}
      OBVIOUS
    <3>3. /\ Keep(l, K) \in Seq(Events)
          /\ \A i \in DOMAIN Keep(l, K) : \E j \in DOMAIN l : j \in K /\ Keep(l, K)[i] = l[j]
      BY KeepType
    <3>4. Pruned(longer) = Keep(l, K)
      BY <2>2, <3>1, <3>2 DEF Pruned
    <3> QED  BY <1>7, <3>1, <3>3, <3>4 DEF AllPlaced
  <2> QED  BY <2>1, <2>2
<1>9. events' \in Seq(Events) /\ AllPlaced(events', lastHash')
  <2>1. events' = IF Len(longer) > Capacity THEN Pruned(longer) ELSE longer
    BY DEF Log, longer, new
  <2> QED  BY <1>6, <1>7, <1>8, <2>1
<1>10. lastHash' \in Seq(Entries)
  BY <1>1, <1>4
<1> QED
  BY <1>1, <1>4, <1>9, <1>10 DEF AuditInv, AuditTypeOK, Entries, Events

\* An event in the place of another, with its hashes or said to be rehashed.
LEMMA ChangeLemma ==
  ASSUME AuditInv, NEW i \in DOMAIN events, NEW f \in Events, Change(i, f),
         f.at = events[i].at,
         f.rehashed \/ (f.hash = events[i].hash /\ f.previous = events[i].previous
                        /\ f.rehashed = events[i].rehashed)
  PROVE  AuditInv'
<1>1. auditNow \in Nat /\ lastHash \in Seq(Entries) /\ events \in Seq(Events) /\ changes \in Nat
  BY DEF AuditInv, AuditTypeOK, Entries, Events
<1>2. auditNow' = auditNow /\ lastHash' = lastHash /\ changes' \in Nat
  BY <1>1 DEF Change
<1>3. events[i] \in Events /\ Placed(events[i], lastHash)
  BY <1>1 DEF AuditInv, AllPlaced
<1>4. Placed(f, lastHash)
  BY <1>3 DEF Placed
<1>5. events' = [events EXCEPT ![i] = f]
  BY DEF Change
<1>6. events' \in Seq(Events) /\ DOMAIN events' = DOMAIN events
      /\ \A j \in DOMAIN events : events'[j] = IF j = i THEN f ELSE events[j]
  BY <1>1, <1>5
<1>7. AllPlaced(events', lastHash)
  BY <1>4, <1>6 DEF AuditInv, AllPlaced
<1> QED
  BY <1>1, <1>2, <1>6, <1>7 DEF AuditInv, AuditTypeOK, Entries, Events

LEMMA AlterLemma ==
  ASSUME AuditInv, NEW i \in DOMAIN events, NEW payload \in Payloads, NEW time \in AuditTimes,
         NEW origin \in Origins, Alter(i, payload, time, origin)
  PROVE  AuditInv'
<1>1. events \in Seq(Events) /\ time \in Nat
  BY AuditAssumption DEF AuditInv, AuditTypeOK, Entries, Events
<1>2. PICK e \in Events : e = events[i]
  BY <1>1
<1>3. PICK f : f = [e EXCEPT !.payload = payload, !.time = time, !.origin = origin]
  OBVIOUS
<1>4. /\ f \in Events
      /\ f.at = e.at /\ f.hash = e.hash /\ f.previous = e.previous /\ f.rehashed = e.rehashed
  BY <1>1, <1>3 DEF Events
<1>5. Change(i, f)
  BY <1>2, <1>3 DEF Alter
<1> QED
  BY <1>2, <1>4, <1>5, ChangeLemma

LEMMA RehashLemma ==
  ASSUME AuditInv, NEW i \in DOMAIN events, NEW previous \in KnownHashes,
         NEW hash \in KnownHashes, Rehash(i, previous, hash)
  PROVE  AuditInv'
<1>1. events \in Seq(Events)
  BY DEF AuditInv, AuditTypeOK, Entries, Events
<1>2. ASSUME NEW h \in KnownHashes PROVE h \in Seq(Entries)
  <2>1. PICK k \in DOMAIN events :
          h \in {events[k].previous, events[k].hash,
                ComputeHash(events[k].payload, events[k].time, events[k].previous)}
    BY <1>2 DEF KnownHashes
  <2>2. PICK e \in Events : e = events[k]
    BY <1>1
  <2>3. <<e.payload, e.time>> \in Entries /\ e.previous \in Seq(Entries) /\ e.hash \in Seq(Entries)
    BY DEF Events, Entries
  <2>4. ComputeHash(e.payload, e.time, e.previous) \in Seq(Entries)
    BY <2>3 DEF ComputeHash
  <2> QED  BY <2>1, <2>2, <2>3, <2>4
<1>3. PICK e \in Events : e = events[i]
  BY <1>1
<1>4. PICK f : f = [e EXCEPT !.previous = previous, !.hash = hash, !.rehashed = TRUE]
  OBVIOUS
<1>5. f \in Events /\ f.at = e.at /\ f.rehashed = TRUE
  BY <1>2, <1>4 DEF Events
<1>6. Change(i, f)
  BY <1>3, <1>4 DEF Rehash
<1> QED
  BY <1>3, <1>5, <1>6, ChangeLemma

\* What is left of a list without its i-th element are elements of the list.
LEMMA WithoutLemma ==
  ASSUME NEW S, NEW l \in Seq(S), NEW i \in 1 .. Len(l)
  PROVE  LET rest == SubSeq(l, 1, i - 1) \o SubSeq(l, i + 1, Len(l)) IN
         rest \in Seq(S) /\ \A j \in DOMAIN rest : \E k \in DOMAIN l : rest[j] = l[k]
<1> DEFINE s == SubSeq(l, 1, i - 1)
           t == SubSeq(l, i + 1, Len(l))
<1>0. PICK n \in Nat : n = Len(l) /\ DOMAIN l = 1 .. n
  OBVIOUS
<1>1. i \in Nat /\ 1 <= i /\ i <= n
  BY <1>0
<1>2. s \in Seq(S) /\ Len(s) = i - 1 /\ \A j \in 1 .. Len(s) : s[j] = l[j]
  BY <1>0, <1>1
<1>3. t \in Seq(S) /\ Len(t) = n - i /\ \A j \in 1 .. Len(t) : t[j] = l[i + j]
  <2>1. i + 1 \in Int /\ n \in Int /\ \A k \in i + 1 .. n : l[k] \in S
    BY <1>0, <1>1
  <2>2. /\ t \in Seq(S) /\ Len(t) = IF i + 1 <= n THEN n - (i + 1) + 1 ELSE 0
        /\ \A j \in 1 .. n - (i + 1) + 1 : t[j] = l[i + 1 + j - 1]
    BY <1>0, <2>1, SubSeqProperties
  <2> HIDE DEF t
  <2>3. Len(t) = n - i /\ n - (i + 1) + 1 = n - i
    <3>1. CASE i + 1 <= n
      <4>1. Len(t) = n - (i + 1) + 1
        BY <2>2, <3>1
      <4> QED  BY <1>1, <4>1
    <3>2. CASE ~ i + 1 <= n
      <4>1. Len(t) = 0
        BY <2>2, <3>2
      <4>2. n - i = 0
        BY <1>1, <3>2
      <4> QED  BY <1>0, <4>1, <4>2
    <3> QED  BY <3>1, <3>2
  <2>4. \A j \in 1 .. Len(t) : i + 1 + j - 1 = i + j
    BY <1>1, <2>3
  <2> QED  BY <2>2, <2>3, <2>4
<1> HIDE DEF s, t
<1>4. /\ s \o t \in Seq(S) /\ Len(s \o t) = Len(s) + Len(t)
      /\ \A j \in 1 .. Len(s) + Len(t) :
           (s \o t)[j] = IF j <= Len(s) THEN s[j] ELSE t[j - Len(s)]
  BY <1>2, <1>3, ConcatProperties
<1>5. ASSUME NEW j \in 1 .. Len(s) + Len(t)
      PROVE  \E k \in DOMAIN l : (s \o t)[j] = l[k]
  <2>1. CASE j <= Len(s)
    <3>1. j \in 1 .. Len(s) /\ j \in DOMAIN l
      BY <1>0, <1>1, <1>2, <2>1
    <3> QED  BY <1>2, <1>4, <2>1, <3>1
  <2>2. CASE ~ j <= Len(s)
    <3>1. j - Len(s) \in 1 .. Len(t) /\ i + (j - Len(s)) \in DOMAIN l
      BY <1>0, <1>1, <1>2, <1>3, <2>2
    <3>2. (s \o t)[j] = t[j - Len(s)]
      BY <1>4, <2>2
    <3> QED  BY <1>3, <3>1, <3>2
  <2> QED  BY <2>1, <2>2
<1>6. DOMAIN (s \o t) = 1 .. Len(s) + Len(t)
  BY <1>4
<1> QED
  BY <1>0, <1>4, <1>5, <1>6 DEF s, t

LEMMA DropLemma ==
  ASSUME AuditInv, NEW i \in DOMAIN events, Drop(i)
  PROVE  AuditInv'
<1>1. auditNow \in Nat /\ lastHash \in Seq(Entries) /\ events \in Seq(Events)
  BY DEF AuditInv, AuditTypeOK, Entries, Events
<1>2. auditNow' = auditNow /\ lastHash' = lastHash /\ changes' = changes
      /\ events' = SubSeq(events, 1, i - 1) \o SubSeq(events, i + 1, Len(events))
  BY DEF Drop
<1>3. PICK l \in Seq(Events) : l = events
  BY <1>1
<1>4. i \in 1 .. Len(l)
  BY <1>3
<1>5. events' \in Seq(Events) /\ \A j \in DOMAIN events' : \E k \in DOMAIN events : events'[j] = events[k]
  BY <1>2, <1>3, <1>4, WithoutLemma
<1>6. AllPlaced(events', lastHash)
  BY <1>5 DEF AuditInv, AllPlaced
<1> QED
  BY <1>1, <1>2, <1>5, <1>6 DEF AuditInv, AuditTypeOK, Entries, Events

LEMMA AuditNextLemma == AuditInv /\ [AuditNext]_auditVars => AuditInv'
<1> SUFFICES ASSUME AuditInv, [AuditNext]_auditVars PROVE AuditInv'
  OBVIOUS
<1>1. CASE UNCHANGED auditVars
  BY <1>1 DEF auditVars, AuditInv, AuditTypeOK
<1>2. CASE AuditClock
  BY <1>2, AuditAssumption DEF AuditClock, AuditInv, AuditTypeOK
<1>3. CASE \E payload \in Payloads, origin \in Origins : Log(payload, origin)
  BY <1>3, LogLemma
<1>4. CASE \E i \in DOMAIN events :
        \/ Drop(i)
        \/ \E payload \in Payloads, time \in AuditTimes, origin \in Origins :
             Alter(i, payload, time, origin)
        \/ \E previous, hash \in KnownHashes : Rehash(i, previous, hash)
  BY <1>4, DropLemma, AlterLemma, RehashLemma
<1> QED
  BY <1>1, <1>2, <1>3, <1>4 DEF AuditNext

\* The hash of an event that keeps its hashes is wrong just when its content was
\* changed.
LEMMA WrongHashLemma ==
  ASSUME AuditInv, NEW i \in DOMAIN events, ~events[i].rehashed
  PROVE  WrongHash(i) <=> Content(i) # lastHash[events[i].at]
<1>0. events \in Seq(Events)
  BY DEF AuditInv, AuditTypeOK, Entries, Events
<1>1. PICK e \in Events : e = events[i]
  BY <1>0
<1>2. PICK history \in Seq(Entries) : history = lastHash
  BY DEF AuditInv, AuditTypeOK, Entries
<1>3. Placed(e, history) /\ ~e.rehashed
  BY <1>1, <1>2 DEF AuditInv, AllPlaced
<1>4. e.at \in Nat /\ e.at >= 1 /\ e.at <= Len(history) /\ e.time \in Nat /\ e.payload \in Payloads
  BY <1>3 DEF Events, Placed
<1> DEFINE p == SubSeq(history, 1, e.at - 1)
           x == <<e.payload, e.time>>
           y == history[e.at]
<1>5. e.at \in 0 .. Len(history) /\ e.at - 1 \in 0 .. Len(history) /\ e.at > 0
  BY <1>4
<1>6. SubSeq(history, 1, e.at) = Append(p, y) /\ p \in Seq(Entries)
  BY <1>5, PrefixLemma
<1>7. x \in Entries /\ y \in Entries
  BY <1>4 DEF Entries
<1>8. Content(i) = x /\ lastHash[events[i].at] = y
  BY <1>1, <1>2 DEF Content
<1> HIDE DEF p, x, y
<1>9. Append(p, x) = Append(p, y) <=> x = y
  BY <1>6, <1>7
<1>10. WrongHash(i) <=> Append(p, y) # Append(p, x)
  BY <1>1, <1>3, <1>6 DEF WrongHash, ComputeHash, Placed, p, x
<1> QED
  BY <1>8, <1>9, <1>10

\* A link between events that keep their hashes is broken just when the event
\* logged before is not the one stored before.
LEMMA BrokenLinkLemma ==
  ASSUME AuditInv, NEW i \in DOMAIN events, ~events[i].rehashed,
         i > 1 => ~events[i - 1].rehashed
  PROVE  BrokenLink(i) <=> ~ FollowsDirectly(i)
<1>1. events \in Seq(Events) /\ lastHash \in Seq(Entries)
  BY DEF AuditInv, AuditTypeOK, Entries, Events
<1>2. i \in 1 .. Len(events) /\ Len(events) \in Nat
  BY <1>1
<1> DEFINE n == events[i].at
<1>3. ASSUME NEW k \in DOMAIN events, ~events[k].rehashed
      PROVE  /\ events[k].at \in Nat /\ events[k].at >= 1 /\ events[k].at <= Len(lastHash)
             /\ events[k].hash = SubSeq(lastHash, 1, events[k].at)
             /\ events[k].previous = SubSeq(lastHash, 1, events[k].at - 1)
  <2>1. events[k] \in Events /\ Placed(events[k], lastHash)
    BY <1>1 DEF AuditInv, AllPlaced
  <2> QED  BY <1>3, <2>1 DEF Events, Placed
<1>4. ASSUME NEW k \in 0 .. Len(lastHash)
      PROVE  Len(SubSeq(lastHash, 1, k)) = k
  BY <1>1
<1>5. n - 1 \in 0 .. Len(lastHash) /\ n \in Nat
  BY <1>1, <1>3
<1>6. Len(events[i].previous) = n - 1 /\ events[i].previous = SubSeq(lastHash, 1, n - 1)
  BY <1>3, <1>4, <1>5
<1>7. CASE i = 1
  <2>1. BrokenLink(i) <=> events[i].previous # <<>>
    BY <1>7 DEF BrokenLink, ExpectedHash, Genesis
  <2>2. events[i].previous # <<>> <=> n - 1 # 0
    <3>1. SubSeq(lastHash, 1, 0) = <<>> /\ Len(<<>>) = 0
      BY <1>1
    <3> QED  BY <1>5, <1>6, <3>1
  <2> QED  BY <1>5, <1>7, <2>1, <2>2 DEF FollowsDirectly
<1>8. CASE i # 1
  <2> DEFINE m == events[i - 1].at
  <2>1. i - 1 \in DOMAIN events /\ i > 1
    BY <1>1, <1>2, <1>8
  <2>2. m \in 0 .. Len(lastHash) /\ m \in Nat /\ events[i - 1].hash = SubSeq(lastHash, 1, m)
    BY <1>1, <1>3, <2>1
  <2>3. Len(events[i - 1].hash) = m
    BY <1>4, <2>2
  <2>4. BrokenLink(i) <=> events[i].previous # events[i - 1].hash
    BY <1>8 DEF BrokenLink, ExpectedHash
  <2>5. FollowsDirectly(i) <=> n = m + 1
    BY <1>8 DEF FollowsDirectly
  <2> HIDE DEF n, m
  <2> QED  BY <1>5, <1>6, <2>2, <2>3, <2>4, <2>5
<1> QED
  BY <1>7, <1>8

\* Where nothing is reported, the hash stored with the k-th event is the list of
\* the contents stored up to it.
LEMMA CleanLemma ==
  ASSUME AuditInv, Errors = {}
  PROVE  \A k \in DOMAIN events :
           events[k].hash = SubSeq([i \in DOMAIN events |-> Content(i)], 1, k)
<1>1. PICK N \in Nat : N = Len(events) /\ DOMAIN events = 1 .. N
  BY DEF AuditInv, AuditTypeOK
<1>2. ASSUME NEW k \in 1 .. N PROVE Content(k) \in Entries
  <2>1. events \in Seq(Events)
    BY DEF AuditInv, AuditTypeOK, Entries, Events
  <2>2. PICK e \in Events : e = events[k]
    BY <1>1, <2>1
  <2> QED  BY <2>2 DEF Content, Events, Entries
<1>3. PICK c : c = [i \in DOMAIN events |-> Content(i)]
  OBVIOUS
<1>4. c \in Seq(Entries) /\ Len(c) = N /\ \A k \in 1 .. N : c[k] = Content(k)
  BY <1>1, <1>2, <1>3
<1>5. ASSUME NEW k \in 1 .. N
      PROVE  /\ events[k].previous = ExpectedHash(k)
             /\ events[k].hash = Append(events[k].previous, c[k])
  <2>1. ~BrokenLink(k) /\ ~WrongHash(k)
    BY <1>1 DEF Errors
  <2> QED  BY <1>4, <2>1 DEF BrokenLink, WrongHash, ComputeHash, Content
<1> DEFINE M == {k \in Nat : k \in 1 .. N => events[k].hash = SubSeq(c, 1, k)}
<1>6. 0 \in M
  OBVIOUS
<1>7. ASSUME NEW k \in Nat, k \in M PROVE k + 1 \in M
  <2> SUFFICES ASSUME k + 1 \in 1 .. N PROVE events[k + 1].hash = SubSeq(c, 1, k + 1)
    OBVIOUS
  <2>1. k + 1 \in 0 .. Len(c) /\ k \in 0 .. Len(c) /\ k + 1 > 0 /\ k + 1 - 1 = k
    BY <1>4
  <2>2. SubSeq(c, 1, k + 1) = Append(SubSeq(c, 1, k), c[k + 1])
    BY <1>4, <2>1, PrefixLemma
  <2>4. events[k + 1].previous = ExpectedHash(k + 1)
    BY <1>5
  <2>3. events[k + 1].previous = SubSeq(c, 1, k)
    <3>1. CASE k = 0
      <4>1. SubSeq(c, 1, 0) = <<>>
        BY <1>4
      <4>2. events[k + 1].previous = <<>>
        BY <2>4, <3>1 DEF ExpectedHash, Genesis
      <4> QED  BY <3>1, <4>1, <4>2
    <3>2. CASE k # 0
      <4>1. k \in 1 .. N /\ k + 1 # 1
        BY <3>2
      <4>2. events[k].hash = SubSeq(c, 1, k)
        BY <1>7, <4>1
      <4> QED  BY <2>1, <2>4, <4>1, <4>2 DEF ExpectedHash
    <3> QED  BY <3>1, <3>2
  <2> QED  BY <1>5, <2>2, <2>3
<1> HIDE DEF M
<1>8. Nat \subseteq M
  BY <1>6, <1>7, Induction
<1>9. ASSUME NEW k \in 1 .. N PROVE events[k].hash = SubSeq(c, 1, k)
  <2>1. k \in M
    BY <1>8
  <2> QED  BY <2>1 DEF M
<1> QED
  BY <1>1, <1>3, <1>9

LEMMA LoggedLemma == AuditInv => CleanMeansLogged
<1> SUFFICES ASSUME AuditInv, Errors = {}, events # <<>>, events[Len(events)].hash = lastHash
             PROVE  [i \in DOMAIN events |-> Content(i)] = lastHash
  BY DEF CleanMeansLogged
<1>1. PICK N \in Nat : N = Len(events) /\ DOMAIN events = 1 .. N /\ N # 0
  BY DEF AuditInv, AuditTypeOK
<1>2. ASSUME NEW k \in 1 .. N PROVE Content(k) \in Entries
  <2>1. events \in Seq(Events)
    BY DEF AuditInv, AuditTypeOK, Entries, Events
  <2>2. PICK e \in Events : e = events[k]
    BY <1>1, <2>1
  <2> QED  BY <2>2 DEF Content, Events, Entries
<1>3. PICK c : c = [i \in DOMAIN events |-> Content(i)]
  OBVIOUS
<1>4. c \in Seq(Entries) /\ Len(c) = N
  BY <1>1, <1>2, <1>3
<1>5. N \in DOMAIN events
  BY <1>1
<1>6. lastHash = SubSeq(c, 1, N)
  BY <1>1, <1>3, <1>5, CleanLemma
<1>7. SubSeq(c, 1, N) = c
  BY <1>1, <1>4
<1> QED
  BY <1>3, <1>6, <1>7

(* The audit log's state is well formed (armp_audit.py:129-218).           *)
THEOREM AuditTypeCorrect == AuditSpec => []AuditTypeOK
<1>1. AuditInv => AuditTypeOK
  BY DEF AuditInv
<1> QED
  BY <1>1, AuditInitLemma, AuditNextLemma, PTL DEF AuditSpec

(* verify_integrity reports an event that keeps its hashes just when its   *)
(* content was changed or the one logged before it is not there, and when  *)
(* it reports nothing up to the last hash, the contents stored are all     *)
(* that was logged (armp_audit.py:82-96, 186-218, 322-328).                *)
THEOREM VerdictExact == AuditSpec => []VerdictIsExact
<1>1. AuditInv => ReportsChanges
  BY WrongHashLemma, BrokenLinkLemma DEF ReportsChanges, Errors
<1>2. AuditInv => VerdictIsExact
  BY <1>1, LoggedLemma DEF VerdictIsExact
<1> QED
  BY <1>2, AuditInitLemma, AuditNextLemma, PTL DEF AuditSpec

-----------------------------------------------------------------------------
(* Reputation                                                              *)

TaskRecords == [completed : BOOLEAN, time : Times]

ReputationInv == ReputationTypeOK /\ CacheIsFresh

Full == (15 * Unit) \div 100

LEMMA WithinLemma ==
  ASSUME NEW x \in Int
  PROVE  Within(0, Full, x) \in 0 .. 180
<1>1. Full = 180
  BY DEF Full, Unit
<1> QED
  BY <1>1 DEF Within

\* Completed tasks give at most 480 points.
LEMMA CompletionLemma ==
  ASSUME NEW ts \in Seq(TaskRecords)
  PROVE  Completion(ts) \in Int /\ Completion(ts) <= 480
<1>1. CASE ts = <<>>
  BY <1>1 DEF Completion
<1>2. CASE ts # <<>>
  <2>1. PICK n \in Nat : n = Len(ts)
    OBVIOUS
  <2>2. n >= 1
    BY <1>2, <2>1, EmptySeq
  <2>3. PICK c \in Nat : c = Len(Completed(ts)) /\ c <= n
    BY <2>1, KeepShorter DEF Completed
  <2>4. Completion(ts) = (4 * 1200 * c) \div (10 * n)
    BY <1>2, <2>1, <2>3 DEF Completion, Unit
  <2>5. 10 * n \in Nat \ {0} /\ 4 * 1200 * c \in Int
    BY <2>2
  <2>6. 4 * 1200 * c < (10 * n) * (480 + 1)
    BY <2>2, <2>3
  <2> QED  BY <2>4, <2>5, <2>6, QuotientBound
<1> QED
  BY <1>1, <1>2

LEMMA RatingsAreNumbers ==
  ASSUME NEW rs \in Seq(Ratings)
  PROVE  rs \in Seq(Int) /\ \A i \in 1 .. Len(rs) : rs[i] \in Ratings
<1>1. Ratings \subseteq Int
  BY ReputationAssumption
<1>2. rs \in Seq(Int)
  BY <1>1, SeqMonotonic
<1> QED
  BY <1>2

\* The ratings give some number of points, and 180 when there are none.
LEMMA RatedLemma ==
  ASSUME NEW rs \in Seq(Ratings)
  PROVE  Rated(rs) \in Int /\ (rs = <<>> => Rated(rs) = 180)
<1>1. CASE rs = <<>>
  BY <1>1 DEF Rated, Unit
<1>2. CASE rs # <<>>
  <2>1. PICK n \in Nat : n = Len(rs)
    OBVIOUS
  <2>2. n >= 1
    BY <1>2, <2>1, EmptySeq
  <2>3. PICK t \in Int : t = Total(rs)
    BY RatingsAreNumbers, TotalType
  <2>4. Rated(rs) = (3 * 1200 * t) \div (100 * n)
    BY <1>2, <2>1, <2>3 DEF Rated, Unit
  <2>5. 100 * n \in Nat \ {0} /\ 3 * 1200 * t \in Int
    BY <2>2
  <2>6. (3 * 1200 * t) \div (100 * n) \in Int
    BY <2>5
  <2> QED  BY <1>2, <2>4, <2>6
<1> QED
  BY <1>1, <1>2

\* Response times give at most 180 points.
LEMMA SpeedLemma ==
  ASSUME NEW ts \in Seq(TaskRecords)
  PROVE  Speed(ts) \in 0 .. 180
<1> DEFINE times == [i \in DOMAIN ts |-> ts[i].time]
           given == Keep(times, {i \in DOMAIN times : times[i] > 0})
           outer == Full - (Full * (Total(given) - 5 * Len(given))) \div (55 * Len(given))
<1>1. Speed(ts) = CASE ts = <<>> -> 0
                    [] ts # <<>> /\ given = <<>> -> Full \div 2
                    [] OTHER -> Within(0, Full, outer)
  BY DEF Speed, Full
<1>2. times \in Seq(Int)
  <2>1. Times \subseteq Int
    BY ReputationAssumption
  <2>2. \A t \in TaskRecords : t.time \in Times
    BY DEF TaskRecords
  <2>3. PICK n \in Nat : DOMAIN ts = 1 .. n
    OBVIOUS
  <2>4. ASSUME NEW i \in 1 .. n PROVE ts[i].time \in Int
    <3>1. ts[i] \in TaskRecords
      BY <2>3
    <3> QED  BY <2>1, <2>2, <3>1
  <2> QED  BY <2>3, <2>4
<1>3. given \in Seq(Int)
  <2>1. PICK K : K = {i \in DOMAIN times : times[i] > 0}
    OBVIOUS
  <2>2. PICK s \in Seq(Int) : s = times
    BY <1>2
  <2>3. Keep(s, K) \in Seq(Int)
    BY KeepType
  <2> QED  BY <2>1, <2>2, <2>3
<1> HIDE DEF given
<1>4. ASSUME given # <<>> PROVE outer \in Int
  <2>1. PICK n \in Nat : n = Len(given)
    BY <1>3
  <2>2. n >= 1
    BY <1>3, <1>4, <2>1, EmptySeq
  <2>3. PICK t \in Int : t = Total(given)
    BY <1>3, TotalType
  <2>4. Full = 180
    BY DEF Full, Unit
  <2>5. 55 * n \in Nat \ {0} /\ 180 * (t - 5 * n) \in Int
    BY <2>2
  <2>6. (180 * (t - 5 * n)) \div (55 * n) \in Int
    BY <2>5
  <2> QED  BY <2>1, <2>3, <2>4, <2>6
<1> HIDE DEF outer
<1>5. given # <<>> => Within(0, Full, outer) \in 0 .. 180
  BY <1>4, WithinLemma
<1>6. Full \div 2 \in 0 .. 180
  BY DEF Full, Unit
<1>7. CASE ts = <<>>
  BY <1>1, <1>7
<1>8. CASE ts # <<>> /\ given = <<>>
  BY <1>1, <1>6, <1>8
<1>9. CASE ts # <<>> /\ given # <<>>
  BY <1>1, <1>5, <1>9
<1> QED
  BY <1>7, <1>8, <1>9

\* Consistent reviews give at most 180 points, and 90 when there are none.
LEMMA ConsistencyLemma ==
  ASSUME NEW rs \in Seq(Ratings)
  PROVE  Consistency(rs) \in 0 .. 180 /\ (rs = <<>> => Consistency(rs) = 90)
<1>1. PICK n \in Nat : n = Len(rs)
  OBVIOUS
<1> DEFINE squares == [i \in DOMAIN rs |-> rs[i] * rs[i]]
           spread == n * Total(squares) - Total(rs) * Total(rs)
           outer == Full - (Full * 20 * spread) \div (100 * n * (n - 1))
<1>2. Consistency(rs) = IF n < 3 THEN Full \div 2 ELSE Within(0, Full, outer)
  BY <1>1 DEF Consistency, Full
<1>3. ASSUME ~ n < 3 PROVE outer \in Int
  <2>1. rs \in Seq(Int)
    BY RatingsAreNumbers
  <2>2. squares \in Seq(Int)
    BY <2>1
  <2>3. PICK q \in Int : q = Total(squares)
    BY <2>2, TotalType
  <2>4. PICK t \in Int : t = Total(rs)
    BY <2>1, TotalType
  <2>5. PICK p \in Int : p = n * q - t * t
    OBVIOUS
  <2>6. Full = 180
    BY DEF Full, Unit
  <2>7. 100 * n * (n - 1) \in Nat \ {0}
    <3>1. n - 1 \in Nat \ {0} /\ 100 * n \in Nat \ {0}
      BY <1>3
    <3>2. \A a, b \in Nat \ {0} : a * b \in Nat \ {0}
      OBVIOUS
    <3> QED  BY <3>1, <3>2
  <2>8. (180 * 20 * p) \div (100 * n * (n - 1)) \in Int
    <3>1. PICK d \in Nat \ {0} : d = 100 * n * (n - 1)
      BY <2>7
    <3>2. (180 * 20 * p) \div d \in Int
      OBVIOUS
    <3> QED  BY <3>1, <3>2
  <2>9. spread = p
    BY <2>3, <2>4, <2>5
  <2> HIDE DEF spread
  <2> QED  BY <2>6, <2>8, <2>9
<1> HIDE DEF outer
<1>4. CASE n < 3
  <2>1. Full \div 2 = 90
    BY DEF Full, Unit
  <2> QED  BY <1>2, <1>4, <2>1
<1>5. CASE ~ n < 3
  <2>1. rs # <<>>
    BY <1>1, <1>5
  <2> QED  BY <1>2, <1>3, <1>5, <2>1, WithinLemma
<1> QED
  BY <1>4, <1>5

LEMMA SumBound ==
  \A w \in Int, y \in 0 .. 180 : w <= 480 =>
    \E sum \in Int : sum = w + 180 + y + 90 /\ sum <= 930
  OBVIOUS

LEMMA ScoreLemma ==
  ASSUME NEW ts \in Seq(TaskRecords), NEW rs \in Seq(Ratings)
  PROVE  Score(ts, rs) \in Int
<1>1. PICK w \in Int : w = Completion(ts)
  BY CompletionLemma
<1>2. PICK x \in Int : x = Rated(rs)
  BY RatedLemma
<1>3. PICK y \in Int : y = Speed(ts)
  BY SpeedLemma
<1>4. PICK z \in Int : z = Consistency(rs)
  BY ConsistencyLemma
<1> QED
  BY <1>1, <1>2, <1>3, <1>4 DEF Score, Unit

\* Without reviews a score is at most 930 of 1200.
LEMMA UnreviewedLemma ==
  ASSUME NEW ts \in Seq(TaskRecords)
  PROVE  Score(ts, <<>>) \in Int /\ Score(ts, <<>>) <= 930
<1>1. PICK w \in Int : w = Completion(ts) /\ w <= 480
  BY CompletionLemma
<1>2. PICK y \in 0 .. 180 : y = Speed(ts)
  BY SpeedLemma
<1>3. Rated(<<>>) = 180
  BY DEF Rated, Unit
<1>4. <<>> \in Seq(Ratings)
  OBVIOUS
<1>5. Consistency(<<>>) = 90
  BY <1>4, ConsistencyLemma
<1>6. PICK sum \in Int : sum = w + 180 + y + 90 /\ sum <= 930
  BY <1>1, SumBound
<1>7. Score(ts, <<>>) = IF sum > 1200 THEN 1200 ELSE sum
  BY <1>1, <1>2, <1>3, <1>5, <1>6 DEF Score, Unit
<1> QED
  BY <1>6, <1>7

LEMMA ReputationInitLemma == ReputationInit => ReputationInv
<1> SUFFICES ASSUME ReputationInit PROVE ReputationInv
  OBVIOUS
<1>1. DOMAIN <<>> = {} /\ \A S : <<>> \in Seq(S)
  OBVIOUS
<1> QED
  BY <1>1 DEF ReputationInit, ReputationInv, ReputationTypeOK, CacheIsFresh

LEMMA CachedLemma ==
  ASSUME ReputationInv, NEW as, as \subseteq Agents, scores' = Cached(as),
         UNCHANGED <<tasks, reviews>>
  PROVE  ReputationInv'
<1>1. \A a \in DOMAIN scores : scores[a] = Score(tasks[a], reviews[a])
  BY DEF ReputationInv, CacheIsFresh
<1>2. \A a : GetScore(a) = Score(tasks[a], reviews[a])
  BY <1>1 DEF GetScore
<1>3. DOMAIN scores' = DOMAIN scores \union as
      /\ \A a \in DOMAIN scores' : scores'[a] = Score(tasks[a], reviews[a])
  BY <1>2 DEF Cached
<1>4. DOMAIN scores' \subseteq Agents
  BY <1>3 DEF ReputationInv, ReputationTypeOK
<1>5. ASSUME NEW a \in Agents PROVE Score(tasks[a], reviews[a]) \in Int
  <2>1. PICK ts \in Seq(TaskRecords) : ts = tasks[a]
    BY DEF ReputationInv, ReputationTypeOK, TaskRecords
  <2>2. PICK rs \in Seq(Ratings) : rs = reviews[a]
    BY DEF ReputationInv, ReputationTypeOK
  <2> QED  BY <2>1, <2>2, ScoreLemma
<1>6. \A a \in DOMAIN scores' : scores'[a] \in Int
  BY <1>3, <1>4, <1>5
<1>7. CacheIsFresh'
  BY <1>3 DEF CacheIsFresh
<1> QED
  BY <1>4, <1>6, <1>7 DEF ReputationInv, ReputationTypeOK

\* A record of an agent leaves the scores of the others as they are.
LEMMA RecordLemma ==
  ASSUME ReputationInv, NEW a \in Agents, Invalidate(a),
         \A b \in Agents \ {a} : tasks'[b] = tasks[b] /\ reviews'[b] = reviews[b],
         tasks' \in [Agents -> Seq(TaskRecords)], reviews' \in [Agents -> Seq(Ratings)]
  PROVE  ReputationInv'
<1>1. DOMAIN scores' = DOMAIN scores \ {a} /\ \A b \in DOMAIN scores' : scores'[b] = scores[b]
  BY DEF Invalidate, Restrict
<1>2. DOMAIN scores \subseteq Agents
  BY DEF ReputationInv, ReputationTypeOK
<1>3. CacheIsFresh'
  BY <1>1, <1>2 DEF ReputationInv, CacheIsFresh
<1> QED
  BY <1>1, <1>2, <1>3 DEF ReputationInv, ReputationTypeOK, TaskRecords

LEMMA ReputationNextLemma == ReputationInv /\ [ReputationNext]_reputationVars => ReputationInv'
<1> SUFFICES ASSUME ReputationInv, [ReputationNext]_reputationVars PROVE ReputationInv'
  OBVIOUS
<1>0. tasks \in [Agents -> Seq(TaskRecords)] /\ reviews \in [Agents -> Seq(Ratings)]
  BY DEF ReputationInv, ReputationTypeOK, TaskRecords
<1>1. CASE UNCHANGED reputationVars
  BY <1>1 DEF reputationVars, ReputationInv, ReputationTypeOK, CacheIsFresh
<1>2. ASSUME NEW a \in Agents, ReadScore(a) PROVE ReputationInv'
  BY <1>2, CachedLemma DEF ReadScore
<1>3. CASE GetLeaderboard
  BY <1>3, CachedLemma DEF GetLeaderboard
<1>4. ASSUME NEW a \in Agents, NEW completed \in BOOLEAN, NEW time \in Times,
             RecordTask(a, completed, time)
      PROVE  ReputationInv'
  <2> DEFINE record == [completed |-> completed, time |-> time]
  <2>1. record \in TaskRecords
    BY DEF TaskRecords
  <2>2. /\ tasks' = [tasks EXCEPT ![a] = Append(tasks[a], record)]
        /\ Invalidate(a) /\ reviews' = reviews
    BY <1>4 DEF RecordTask
  <2> HIDE DEF record
  <2>3. Append(tasks[a], record) \in Seq(TaskRecords)
    BY <1>0, <2>1
  <2>4. tasks' \in [Agents -> Seq(TaskRecords)] /\ \A b \in Agents \ {a} : tasks'[b] = tasks[b]
    BY <1>0, <2>2, <2>3
  <2> QED  BY <1>0, <2>2, <2>4, RecordLemma
<1>5. ASSUME NEW a \in Agents, NEW rating \in Ratings, AddReview(a, rating)
      PROVE  ReputationInv'
  <2>1. /\ reviews' = [reviews EXCEPT ![a] = Append(reviews[a], rating)]
        /\ Invalidate(a) /\ tasks' = tasks
    BY <1>5 DEF AddReview
  <2>2. Append(reviews[a], rating) \in Seq(Ratings)
    BY <1>0
  <2>3. reviews' \in [Agents -> Seq(Ratings)] /\ \A b \in Agents \ {a} : reviews'[b] = reviews[b]
    BY <1>0, <2>1, <2>2
  <2> QED  BY <1>0, <2>1, <2>3, RecordLemma
<1> QED
  BY <1>1, <1>2, <1>3, <1>4, <1>5 DEF ReputationNext

(* The engine's state is well formed, and a cached score is that of all    *)
(* tasks and reviews recorded (armp_reputation.py:115-138).                *)
THEOREM ReputationInvariant == ReputationSpec => []ReputationInv
  BY ReputationInitLemma, ReputationNextLemma, PTL DEF ReputationSpec

(* The gate judges by the scores of all that was recorded, and admits no   *)
(* agent without reviews to premium tasks, whatever ratings are given      *)
(* (armp_reputation.py:137-183, 282-284).                                  *)
THEOREM GateSound == ReputationSpec => []GateIsSound
<1>1. ReputationInv => PremiumIsReviewed
  <2> SUFFICES ASSUME ReputationInv, NEW a \in Agents, RequirePremium(a), reviews[a] = <<>>
               PROVE  FALSE
    BY DEF PremiumIsReviewed
  <2>1. PICK ts \in Seq(TaskRecords) : ts = tasks[a]
    BY DEF ReputationInv, ReputationTypeOK, TaskRecords
  <2>2. GetScore(a) = Score(ts, <<>>)
    BY <2>1 DEF ReputationInv, CacheIsFresh, GetScore
  <2>3. GetScore(a) >= 960
    BY DEF RequirePremium, AllowTask, Unit
  <2>4. PICK n \in Int : n = Score(ts, <<>>) /\ n <= 930
    BY UnreviewedLemma
  <2> QED  BY <2>2, <2>3, <2>4
<1>2. ReputationInv => GateIsSound
  BY <1>1 DEF ReputationInv, GateIsSound
<1> QED
  BY <1>2, ReputationInvariant, PTL

-----------------------------------------------------------------------------
(* Trust framework                                                         *)

VCs == [id : Ids, issuer : Issuers, capability : Capabilities, level : Levels,
        expires : TrustTimes \union {Never}, signed : BOOLEAN, vouched : BOOLEAN]

\* Nothing but a trusted issuer puts a credential into the registry.
AllVouched == \A a \in Subjects : \A n \in DOMAIN credentials[a] : credentials[a][n].vouched

TrustInv == TrustTypeOK /\ AllVouched

LEMMA TrustInitLemma == TrustInit => TrustInv
<1> SUFFICES ASSUME TrustInit PROVE TrustInv
  OBVIOUS
<1>1. DOMAIN <<>> = {} /\ \A S : <<>> \in Seq(S)
  OBVIOUS
<1>2. TrustTypeOK
  BY <1>1 DEF TrustInit, TrustTypeOK
<1>3. AllVouched
  BY <1>1 DEF TrustInit, AllVouched
<1> QED
  BY <1>2, <1>3 DEF TrustInv

LEMMA IssueLemma ==
  ASSUME TrustInv, NEW i \in Issuers, NEW a \in Subjects, NEW capability \in Capabilities,
         NEW level \in Levels, IssueCapability(i, a, capability, level)
  PROVE  TrustInv'
<1> DEFINE vc == [id |-> NewId(i, a), issuer |-> i, capability |-> capability, level |-> level,
                  expires |-> Never, signed |-> FALSE, vouched |-> Trusted(i)]
<1>1. credentials \in [Subjects -> Seq(VCs)] /\ trustNow \in TrustTimes
  BY DEF TrustInv, TrustTypeOK, VCs
<1>2. UNCHANGED <<trustNow, issuers, revoked, ratings>>
      /\ credentials' = [credentials EXCEPT ![a] = Append(credentials[a], vc)]
  BY DEF IssueCapability
<1>3. Trusted(i)
  BY DEF IssueCapability, MayIssue
<1>4. vc.vouched
  BY <1>3
<1>5. vc \in VCs
  <2>1. NewId(i, a) \in Ids
    BY <1>1 DEF NewId, Ids
  <2>2. Trusted(i) \in BOOLEAN
    BY <1>3
  <2> QED  BY <2>1, <2>2 DEF VCs
<1> HIDE DEF vc
<1>6. /\ Append(credentials[a], vc) \in Seq(VCs)
      /\ \A n \in DOMAIN Append(credentials[a], vc) :
           (n \in DOMAIN credentials[a] /\ Append(credentials[a], vc)[n] = credentials[a][n])
           \/ Append(credentials[a], vc)[n] = vc
  BY <1>1, <1>5
<1>7. credentials' \in [Subjects -> Seq(VCs)]
  BY <1>1, <1>2, <1>6
<1>8. AllVouched'
  BY <1>1, <1>2, <1>4, <1>6 DEF TrustInv, AllVouched
<1> QED
  BY <1>2, <1>7, <1>8 DEF TrustInv, TrustTypeOK, VCs

LEMMA SignLemma ==
  ASSUME TrustInv, NEW a \in Subjects, NEW n \in DOMAIN credentials[a],
         NEW expires \in TrustTimes \union {Never}, Sign(a, n, expires)
  PROVE  TrustInv'
<1> DEFINE vc == [credentials[a][n] EXCEPT !.expires = expires, !.signed = TRUE]
<1>0. credentials \in [Subjects -> Seq(VCs)]
  BY DEF TrustInv, TrustTypeOK, VCs
<1>1. credentials[a] \in Seq(VCs) /\ credentials[a][n] \in VCs
  BY <1>0
<1>2. UNCHANGED <<trustNow, issuers, revoked, ratings>>
      /\ credentials' = [credentials EXCEPT ![a] = [credentials[a] EXCEPT ![n] = vc]]
  BY DEF Sign
<1>3. vc \in VCs /\ vc.vouched
  BY <1>1 DEF VCs, TrustInv, AllVouched
<1> HIDE DEF vc
<1>4. /\ [credentials[a] EXCEPT ![n] = vc] \in Seq(VCs)
      /\ DOMAIN [credentials[a] EXCEPT ![n] = vc] = DOMAIN credentials[a]
  BY <1>1, <1>3
<1>5. credentials' \in [Subjects -> Seq(VCs)]
  BY <1>0, <1>2, <1>4
<1>6. AllVouched'
  BY <1>0, <1>1, <1>2, <1>3, <1>4 DEF TrustInv, AllVouched
<1> QED
  BY <1>2, <1>5, <1>6 DEF TrustInv, TrustTypeOK, VCs

LEMMA TrustNextLemma == TrustInv /\ [TrustNext]_trustVars => TrustInv'
<1> SUFFICES ASSUME TrustInv, [TrustNext]_trustVars PROVE TrustInv'
  OBVIOUS
<1>1. CASE UNCHANGED trustVars
  BY <1>1 DEF trustVars, TrustInv, TrustTypeOK, AllVouched
<1>2. CASE TrustClock
  BY <1>2 DEF TrustClock, TrustInv, TrustTypeOK, AllVouched
<1>3. ASSUME NEW i \in Issuers, NEW trusted \in BOOLEAN, RegisterIssuer(i, trusted)
      PROVE  TrustInv'
  BY <1>3 DEF RegisterIssuer, TrustInv, TrustTypeOK, AllVouched
<1>4. ASSUME NEW a \in Subjects, NEW rating \in PeerRatings, Rate(a, rating)
      PROVE  TrustInv'
  <2>1. Append(ratings[a], rating) \in Seq(PeerRatings) /\ ratings \in [Subjects -> Seq(PeerRatings)]
    BY DEF TrustInv, TrustTypeOK
  <2>2. ratings' = [ratings EXCEPT ![a] = Append(ratings[a], rating)]
    BY <1>4 DEF Rate
  <2>3. ratings' \in [Subjects -> Seq(PeerRatings)]
    BY <2>1, <2>2
  <2> QED  BY <1>4, <2>3 DEF Rate, TrustInv, TrustTypeOK, AllVouched
<1>5. ASSUME NEW a \in Subjects, NEW n \in DOMAIN credentials[a],
             RevokeCredential(credentials[a][n].id)
      PROVE  TrustInv'
  <2>1. credentials[a][n].id \in Ids
    <3>1. credentials[a] \in Seq(VCs)
      BY DEF TrustInv, TrustTypeOK, VCs
    <3>2. credentials[a][n] \in VCs
      BY <3>1
    <3> QED  BY <3>2 DEF VCs
  <2>2. revoked' \subseteq Ids
    BY <1>5, <2>1 DEF RevokeCredential, TrustInv, TrustTypeOK
  <2> QED  BY <1>5, <2>2 DEF RevokeCredential, TrustInv, TrustTypeOK, AllVouched
<1> QED
  BY <1>1, <1>2, <1>3, <1>4, <1>5, IssueLemma, SignLemma DEF TrustNext

\* An active credential is one of the agent's that was not revoked.
LEMMA ActiveLemma ==
  ASSUME TrustInv, NEW a \in Subjects
  PROVE  /\ Len(ActiveCredentials(a)) \in Nat
         /\ DOMAIN ActiveCredentials(a) = 1 .. Len(ActiveCredentials(a))
         /\ \A n \in DOMAIN ActiveCredentials(a) : \E k \in DOMAIN credentials[a] :
              /\ credentials[a][k].vouched /\ credentials[a][k].id \notin revoked
              /\ ActiveCredentials(a)[n] = credentials[a][k]
<1>1. PICK s \in Seq(VCs) : s = credentials[a]
  BY DEF TrustInv, TrustTypeOK, VCs
<1>2. PICK K : K = {n \in DOMAIN s : s[n].id \notin revoked}
  OBVIOUS
<1>3. ActiveCredentials(a) = Keep(s, K)
  BY <1>1, <1>2 DEF ActiveCredentials
<1>4. /\ Keep(s, K) \in Seq(VCs)
      /\ \A i \in DOMAIN Keep(s, K) : \E j \in DOMAIN s : j \in K /\ Keep(s, K)[i] = s[j]
  BY KeepType
<1> QED
  BY <1>1, <1>2, <1>3, <1>4 DEF TrustInv, AllVouched

LEMMA LevelsAreRanked ==
  ASSUME NEW l \in Levels
  PROVE  LevelRank[l] \in Nat
<1>1. l \in {"basic", "intermediate", "expert", "master"}
  BY TrustAssumption
<1>2. CASE l = "basic"
  BY <1>2 DEF LevelRank
<1>3. CASE l = "intermediate"
  BY <1>3 DEF LevelRank
<1>4. CASE l = "expert"
  BY <1>4 DEF LevelRank
<1>5. CASE l = "master"
  BY <1>5 DEF LevelRank
<1> QED
  BY <1>1, <1>2, <1>3, <1>4, <1>5

LEMMA VerifiedLemma == TrustInv => VerifiedIsVouched
<1> SUFFICES ASSUME TrustInv, NEW a \in Subjects, NEW capability \in Capabilities,
                    NEW minLevel \in Levels, VerifyAgentCapability(a, capability, minLevel)
             PROVE  \E k \in DOMAIN credentials[a] :
                      /\ credentials[a][k].vouched /\ credentials[a][k].id \notin revoked
                      /\ credentials[a][k].capability = capability
                      /\ credentials[a][k].signed
                      /\ credentials[a][k].expires # Never => trustNow <= credentials[a][k].expires
                      /\ LevelRank[minLevel] <= LevelRank[credentials[a][k].level]
  BY DEF VerifiedIsVouched, Vouched
<1>1. PICK n \in DOMAIN ActiveCredentials(a) :
        /\ ActiveCredentials(a)[n].capability = capability
        /\ Verifies(ActiveCredentials(a)[n])
        /\ LevelRank[ActiveCredentials(a)[n].level] >= LevelRank[minLevel]
  BY DEF VerifyAgentCapability
<1>2. PICK k \in DOMAIN credentials[a] :
        /\ credentials[a][k].vouched /\ credentials[a][k].id \notin revoked
        /\ ActiveCredentials(a)[n] = credentials[a][k]
  BY ActiveLemma
<1>3. credentials[a][k] \in VCs
  <2>1. credentials[a] \in Seq(VCs)
    BY DEF TrustInv, TrustTypeOK, VCs
  <2> QED  BY <2>1
<1>4. LevelRank[minLevel] \in Nat /\ LevelRank[credentials[a][k].level] \in Nat
  <2>1. credentials[a][k].level \in Levels
    BY <1>3 DEF VCs
  <2> QED  BY <2>1, LevelsAreRanked
<1> QED
  BY <1>1, <1>2, <1>4 DEF Verifies

\* What ratings come to.
RatingPoints(rs) == IF rs = <<>> THEN (15 * TrustUnit) \div 100 ELSE Mean(3, Total(rs), Len(rs))

\* Ratings of at most 1.0 alone come to 180 of 600 at most.
LEMMA RatingsLemma ==
  ASSUME NEW rs \in Seq(PeerRatings), \A n \in DOMAIN rs : rs[n] <= 10
  PROVE  RatingPoints(rs) \in Int /\ RatingPoints(rs) <= 180
<1>1. CASE rs = <<>>
  BY <1>1 DEF RatingPoints, TrustUnit
<1>2. CASE rs # <<>>
  <2>1. PeerRatings \subseteq Int
    BY TrustAssumption
  <2>2. rs \in Seq(Int) /\ \A n \in 1 .. Len(rs) : rs[n] <= 10
    <3>1. rs \in Seq(Int)
      BY <2>1, SeqMonotonic
    <3> QED  BY <3>1
  <2>3. Total(rs) \in Int /\ Total(rs) <= 10 * Len(rs)
    <3>1. PICK b \in Int : b = 10
      OBVIOUS
    <3>2. \A n \in 1 .. Len(rs) : rs[n] <= b
      BY <2>2, <3>1
    <3>3. Total(rs) \in Int /\ Total(rs) <= b * Len(rs)
      BY <2>2, <3>2, TotalBound
    <3> QED  BY <3>1, <3>3
  <2>4. PICK n \in Nat : n = Len(rs)
    OBVIOUS
  <2>5. n >= 1
    BY <1>2, <2>4, EmptySeq
  <2>6. PICK t \in Int : t = Total(rs)
    BY <2>3
  <2>7. t <= 10 * n
    BY <2>3, <2>4, <2>6
  <2>8. 3 * 600 * t < (100 * n) * (180 + 1)
    BY <2>5, <2>7
  <2>9. 100 * n \in Nat \ {0} /\ 3 * 600 * t \in Int
    BY <2>5
  <2>10. (3 * 600 * t) \div (100 * n) \in Int /\ (3 * 600 * t) \div (100 * n) <= 180
    BY <2>8, <2>9, QuotientBound
  <2>11. Mean(3, Total(rs), Len(rs)) = (3 * 600 * t) \div (100 * n)
    BY <2>4, <2>6 DEF Mean, TrustUnit
  <2> QED  BY <1>2, <2>10, <2>11 DEF RatingPoints
<1> QED
  BY <1>1, <1>2

LEMMA TrustNeedsLemma == TrustInv => TrustNeedsCredential
<1> SUFFICES ASSUME TrustInv, NEW a \in Subjects, RatedInRange(a),
                    ShouldTrust(a, TrustUnit \div 2)
             PROVE  \E k \in DOMAIN credentials[a] :
                      credentials[a][k].vouched /\ credentials[a][k].id \notin revoked
  BY DEF TrustNeedsCredential, Vouched
<1>1. TrustScore(a) >= 300
  BY DEF ShouldTrust, TrustUnit
<1>2. CASE Len(ActiveCredentials(a)) = 0
  <2>1. PICK rs \in Seq(PeerRatings) : rs = ratings[a]
    BY DEF TrustInv, TrustTypeOK
  <2>2. \A n \in DOMAIN rs : rs[n] <= 10
    BY <2>1 DEF RatedInRange
  <2>3. PICK points \in Int : points = RatingPoints(rs) /\ points <= 180
    BY <2>2, RatingsLemma
  <2>4. TrustScore(a) = IF points + 0 > 600 THEN 600 ELSE points + 0
    BY <1>2, <2>1, <2>3 DEF TrustScore, RatingPoints, TrustUnit
  <2> QED  BY <1>1, <2>3, <2>4
<1>3. CASE Len(ActiveCredentials(a)) # 0
  <2>1. 1 \in DOMAIN ActiveCredentials(a)
    BY <1>3, ActiveLemma
  <2> QED  BY <2>1, ActiveLemma
<1> QED
  BY <1>2, <1>3

(* The registry's state is well formed (armp_trust.py:140-295).            *)
THEOREM TrustTypeCorrect == TrustSpec => []TrustTypeOK
<1>1. TrustInv => TrustTypeOK
  BY DEF TrustInv
<1> QED
  BY <1>1, TrustInitLemma, TrustNextLemma, PTL DEF TrustSpec

(* A verified capability rests on a credential that a trusted issuer       *)
(* issued and nobody revoked, and so does trust at the default threshold   *)
(* as long as nobody rated the agent above 1.0 (armp_trust.py:114-135,     *)
(* 187-188, 206-217, 224-268, 283-297).                                    *)
THEOREM TrustVouched == TrustSpec => []TrustIsVouched
<1>1. TrustInv => TrustIsVouched
  BY VerifiedLemma, TrustNeedsLemma DEF TrustIsVouched
<1> QED
  BY <1>1, TrustInitLemma, TrustNextLemma, PTL DEF TrustSpec

-----------------------------------------------------------------------------
(* Enterprise SSO                                                          *)

\* What is refused is gone.
SsoInv == SsoTypeOK /\ refused \cap DOMAIN keys = {}

\* What the service makes are tokens.
LEMMA TokenLemma ==
  ASSUME ssoNow \in SsoTimes
  PROVE  /\ [expires |-> ssoNow + KeyLife, from |-> "key"] \in Token
         /\ [expires |-> ssoNow + ServiceLife, from |-> "service"] \in Token
         /\ \A expires \in SsoTimes \union {NoExpiry} : [expires |-> expires, from |-> "jwt"] \in Token
         /\ NoToken \in Token
<1>1. ssoNow + KeyLife \in Nat /\ ssoNow + ServiceLife \in Nat
  BY SsoAssumption
<1>2. \A expires \in SsoTimes \union {NoExpiry} : expires \in Nat
  BY SsoAssumption DEF NoExpiry
<1> QED
  BY <1>1, <1>2 DEF Token, NoToken, NoExpiry

LEMMA SsoInitLemma == SsoInit => SsoInv
<1> SUFFICES ASSUME SsoInit PROVE SsoInv
  OBVIOUS
<1>1. DOMAIN <<>> = {}
  OBVIOUS
<1>2. NoToken \in Token
  BY DEF Token, NoToken, NoExpiry
<1> QED
  BY <1>1, <1>2 DEF SsoInit, SsoInv, SsoTypeOK

\* A key that is registered is not refused any more.
LEMMA RegisterKeyLemma ==
  ASSUME SsoInv, NEW k \in ApiKeys, RegisterKey(k)
  PROVE  SsoInv'
<1> DEFINE token == [expires |-> ssoNow + KeyLife, from |-> "key"]
<1>1. token \in Token
  BY TokenLemma DEF SsoInv, SsoTypeOK
<1>2. /\ keys' = [j \in DOMAIN keys \union {k} |-> IF j = k THEN token ELSE keys[j]]
      /\ session' = token
      /\ refused' = refused \ {k}
      /\ UNCHANGED <<ssoNow, providers>>
  BY DEF RegisterKey
<1> HIDE DEF token
<1> QED
  BY <1>1, <1>2 DEF SsoInv, SsoTypeOK

\* A key that is refused is deleted.
LEMMA AuthenticateKeyLemma ==
  ASSUME SsoInv, NEW k \in ApiKeys, AuthenticateKey(k)
  PROVE  SsoInv'
<1>1. NoToken \in Token
  BY DEF Token, NoToken, NoExpiry
<1>2. CASE k \in DOMAIN keys /\ Expired(keys[k])
  <2>1. DOMAIN keys' = DOMAIN keys \ {k} /\ \A j \in DOMAIN keys' : keys'[j] = keys[j]
    BY <1>2 DEF AuthenticateKey, Delete
  <2>2. refused' = refused \union {k} /\ session' = NoToken /\ UNCHANGED <<ssoNow, providers>>
    BY <1>2 DEF AuthenticateKey
  <2> QED  BY <1>1, <2>1, <2>2 DEF SsoInv, SsoTypeOK
<1>3. CASE ~ (k \in DOMAIN keys /\ Expired(keys[k]))
  <2>1. UNCHANGED <<keys, refused, ssoNow, providers>>
    BY <1>3 DEF AuthenticateKey
  <2>2. session' \in Token
    BY <1>1, <1>3 DEF AuthenticateKey, SsoInv, SsoTypeOK
  <2> QED  BY <2>1, <2>2 DEF SsoInv, SsoTypeOK
<1> QED
  BY <1>2, <1>3

LEMMA SsoNextLemma == SsoInv /\ [SsoNext]_ssoVars => SsoInv'
<1> SUFFICES ASSUME SsoInv, [SsoNext]_ssoVars PROVE SsoInv'
  OBVIOUS
<1>1. CASE UNCHANGED ssoVars
  BY <1>1 DEF ssoVars, SsoInv, SsoTypeOK
<1>2. CASE SsoClock
  BY <1>2 DEF SsoClock, SsoInv, SsoTypeOK
<1>3. ASSUME NEW p \in Providers, NEW issuer \in IssuerUrls, RegisterProvider(p, issuer)
      PROVE  SsoInv'
  BY <1>3 DEF RegisterProvider, SsoInv, SsoTypeOK
<1>4. CASE CreateServiceToken
  BY <1>4, TokenLemma DEF CreateServiceToken, SsoInv, SsoTypeOK
<1>5. ASSUME NEW p, NEW issuer, NEW expires \in SsoTimes \union {NoExpiry},
             ValidateJwt(p, issuer, expires)
      PROVE  SsoInv'
  <2>1. session' \in Token
    BY <1>5, TokenLemma DEF ValidateJwt, SsoInv, SsoTypeOK
  <2> QED  BY <1>5, <2>1 DEF ValidateJwt, SsoInv, SsoTypeOK
<1> QED
  BY <1>1, <1>2, <1>3, <1>4, <1>5, RegisterKeyLemma, AuthenticateKeyLemma DEF SsoNext

(* Keys, providers and the token returned last are well formed             *)
(* (armp_sso.py:122-290).                                                  *)
THEOREM SsoTypeCorrect == SsoSpec => []SsoTypeOK
<1>1. SsoInv => SsoTypeOK
  BY DEF SsoInv
<1> QED
  BY <1>1, SsoInitLemma, SsoNextLemma, PTL DEF SsoSpec

(* A key refused as expired stays refused until it is registered again,    *)
(* however the wall clock is set (armp_sso.py:251-259).                    *)
THEOREM RefusedStayRefused == SsoSpec => []RefusedKeyStaysRefused
<1>1. SsoInv => RefusedKeyStaysRefused
  BY DEF SsoInv, RefusedKeyStaysRefused
<1> QED
  BY <1>1, SsoInitLemma, SsoNextLemma, PTL DEF SsoSpec

-----------------------------------------------------------------------------
(* MCP integration                                                         *)

Walks == [at : Nat, of : Nat, asked : Urls \union {Nothing}, found : Seq(AnyTool)]
ToolTable(table) == \A n \in DOMAIN table : table[n] \in AnyTool /\ table[n].name = n
Caps == {CapabilityOf(tool) : tool \in AnyTool}

\* A stdio server, what a walk has found, and what is exposed all have a tool of
\* their name in the table, from which nothing is ever removed.
Known(found, table) == \A i \in DOMAIN found : found[i].name \in DOMAIN table

ServersOK ==
  /\ servers \in Seq(McpServers) /\ IsInjective(servers)
  /\ Range(servers) = DOMAIN url /\ \A s \in DOMAIN url : url[s] \in Urls \union {Stdio}

WalksOK ==
  /\ walk \in [Walkers -> Walks]
  /\ \A w \in Walkers : walk[w].at <= walk[w].of /\ walk[w].of <= Len(servers)
  /\ \A w \in Walkers : Known(walk[w].found, tools)

ExposedOK ==
  /\ cardNames \in Seq(Caps) /\ \A i \in DOMAIN cardNames : cardNames[i] \in DOMAIN exposed
  /\ \A c \in DOMAIN exposed : exposed[c] \in AnyTool /\ exposed[c].name \in DOMAIN tools

McpInv ==
  /\ ServersOK
  /\ ToolTable(tools)
  /\ \A s \in DOMAIN url : url[s] = Stdio => s \in DOMAIN tools
  /\ WalksOK
  /\ ExposedOK

\* A set of numbers up to n that is not empty has a greatest element.
LEMMA GreatestOne ==
  ASSUME NEW n \in Nat, NEW T, T \subseteq 1 .. n, T # {}
  PROVE  \E x \in T : \A y \in T : y <= x
<1> DEFINE U == {n - y : y \in T}
<1>1. U \subseteq Nat /\ U # {}
  <2>1. \A y \in T : y \in 1 .. n
    OBVIOUS
  <2>2. \A y \in T : n - y \in Nat
    BY <2>1
  <2> QED  BY <2>2
<1>2. PICK u \in U : \A v \in U : u <= v
  BY <1>1, LeastOne
<1>3. PICK x \in T : u = n - x
  BY <1>2
<1>4. \A y \in T : n - x <= n - y
  BY <1>2, <1>3
<1> QED
  BY <1>4

LEMMA McpInitLemma == McpInit => McpInv
<1> SUFFICES ASSUME McpInit PROVE McpInv
  OBVIOUS
<1>1. DOMAIN <<>> = {} /\ \A S : <<>> \in Seq(S)
  OBVIOUS
<1>2. Len(<<>>) = 0
  OBVIOUS
<1>3. ServersOK /\ ToolTable(tools) /\ ExposedOK
  BY <1>1 DEF McpInit, ServersOK, ToolTable, ExposedOK, IsInjective, Range
<1>4. Idle \in Walks
  BY <1>1 DEF Idle, Walks
<1>5. Idle.at = 0 /\ Idle.of = 0 /\ Idle.found = <<>>
  BY DEF Idle
<1>6. WalksOK
  BY <1>1, <1>2, <1>4, <1>5 DEF McpInit, WalksOK, Known
<1> QED
  BY <1>1, <1>3, <1>6 DEF McpInv, McpInit

\* More tools and more servers leave walks and exposed tools in order.
LEMMA MoreTools ==
  ASSUME McpInv, DOMAIN tools \subseteq DOMAIN tools', UNCHANGED <<walk, exposed, cardNames>>,
         Len(servers') \in Nat, Len(servers) <= Len(servers')
  PROVE  WalksOK' /\ ExposedOK'
<1>1. Len(servers) \in Nat
  BY DEF McpInv, ServersOK
<1>2. \A w \in Walkers : walk[w].of \in Nat
  BY DEF McpInv, WalksOK, Walks
<1>3. \A w \in Walkers : walk[w].of <= Len(servers')
  BY <1>1, <1>2 DEF McpInv, WalksOK
<1>4. \A w \in Walkers : Known(walk[w].found, tools')
  BY DEF McpInv, WalksOK, Known
<1>5. WalksOK'
  BY <1>3, <1>4 DEF McpInv, WalksOK
<1>6. ExposedOK'
  BY DEF McpInv, ExposedOK
<1> QED
  BY <1>5, <1>6

LEMMA AddServerLemma ==
  ASSUME McpInv, NEW s \in McpServers, NEW where \in Urls \union {Stdio}, AddServer(s, where)
  PROVE  /\ ServersOK' /\ Len(servers') \in Nat /\ Len(servers) <= Len(servers')
         /\ DOMAIN url' = DOMAIN url \union {s}
         /\ \A t \in DOMAIN url' : url'[t] = IF t = s THEN where ELSE url[t]
<1>1. servers \in Seq(McpServers) /\ IsInjective(servers) /\ Range(servers) = DOMAIN url
      /\ \A t \in DOMAIN url : url[t] \in Urls \union {Stdio}
  BY DEF McpInv, ServersOK
<1>2. DOMAIN url' = DOMAIN url \union {s}
      /\ \A t \in DOMAIN url' : url'[t] = IF t = s THEN where ELSE url[t]
  BY DEF AddServer
<1>3. \A t \in DOMAIN url' : url'[t] \in Urls \union {Stdio}
  BY <1>1, <1>2
<1>4. CASE s \in DOMAIN url
  <2>1. servers' = servers
    BY <1>4 DEF AddServer
  <2> QED  BY <1>1, <1>2, <1>3, <1>4, <2>1 DEF ServersOK
<1>5. CASE s \notin DOMAIN url
  <2>1. servers' = Append(servers, s)
    BY <1>5 DEF AddServer
  <2>2. PICK n \in Nat : n = Len(servers)
    BY <1>1
  <2>3. /\ servers' \in Seq(McpServers) /\ Len(servers') = n + 1 /\ servers'[n + 1] = s
        /\ \A i \in 1 .. n : servers'[i] = servers[i]
    BY <1>1, <2>1, <2>2
  <2>4. DOMAIN servers' = 1 .. n + 1 /\ DOMAIN servers = 1 .. n
    BY <1>1, <2>2, <2>3
  <2>5. \A i \in 1 .. n : servers[i] \in DOMAIN url /\ servers[i] # s
    BY <1>1, <1>5, <2>4 DEF Range
  <2>6. ASSUME NEW i \in 1 .. n + 1, NEW j \in 1 .. n + 1, servers'[i] = servers'[j]
        PROVE  i = j
    <3>1. CASE i = n + 1
      <4>1. ~ j \in 1 .. n
        BY <2>3, <2>5, <2>6, <3>1
      <4> QED  BY <3>1, <4>1
    <3>2. CASE j = n + 1
      <4>1. ~ i \in 1 .. n
        BY <2>3, <2>5, <2>6, <3>2
      <4> QED  BY <3>2, <4>1
    <3>3. CASE i \in 1 .. n /\ j \in 1 .. n
      BY <1>1, <2>3, <2>4, <2>6, <3>3 DEF IsInjective
    <3> QED  BY <3>1, <3>2, <3>3
  <2>7. IsInjective(servers')
    BY <2>4, <2>6 DEF IsInjective
  <2>8. Range(servers') = Range(servers) \union {s}
    <3>1. ASSUME NEW i \in 1 .. n + 1 PROVE servers'[i] \in Range(servers) \union {s}
      <4>1. i = n + 1 \/ i \in 1 .. n
        OBVIOUS
      <4> QED  BY <2>3, <2>4, <4>1 DEF Range
    <3>2. ASSUME NEW i \in 1 .. n PROVE servers[i] \in Range(servers')
      <4>1. i \in 1 .. n + 1
        OBVIOUS
      <4> QED  BY <2>3, <2>4, <4>1 DEF Range
    <3>3. s \in Range(servers')
      <4>1. n + 1 \in 1 .. n + 1
        OBVIOUS
      <4> QED  BY <2>3, <2>4, <4>1 DEF Range
    <3>4. Range(servers') \subseteq Range(servers) \union {s}
      BY <2>4, <3>1 DEF Range
    <3>5. Range(servers) \subseteq Range(servers')
      BY <2>4, <3>2 DEF Range
    <3> QED  BY <3>3, <3>4, <3>5
  <2>9. ServersOK'
    BY <1>1, <1>2, <1>3, <2>3, <2>7, <2>8 DEF ServersOK
  <2> QED  BY <1>2, <2>2, <2>3, <2>9
<1> QED
  BY <1>4, <1>5

LEMMA PutToolLemma ==
  ASSUME McpInv, NEW tool \in AnyTool, PutTool(tool)
  PROVE  ToolTable(tools') /\ DOMAIN tools' = DOMAIN tools \union {tool.name}
  BY DEF PutTool, McpInv, ToolTable

LEMMA RegisterLemma ==
  ASSUME McpInv, NEW s \in McpServers, RegisterStdioServer(s)
  PROVE  McpInv'
<1>1. AddServer(s, Stdio) /\ PutTool(Tool(s, s, Nothing)) /\ UNCHANGED <<walk, exposed, cardNames>>
  BY DEF RegisterStdioServer
<1>2. Tool(s, s, Nothing) \in AnyTool /\ Tool(s, s, Nothing).name = s
  BY DEF Tool, AnyTool
<1>3. ToolTable(tools') /\ DOMAIN tools' = DOMAIN tools \union {s}
  BY <1>1, <1>2, PutToolLemma
<1>4. /\ ServersOK' /\ Len(servers') \in Nat /\ Len(servers) <= Len(servers')
      /\ DOMAIN url' = DOMAIN url \union {s}
      /\ \A t \in DOMAIN url' : url'[t] = IF t = s THEN Stdio ELSE url[t]
  BY <1>1, AddServerLemma
<1>5. \A t \in DOMAIN url' : url'[t] = Stdio => t \in DOMAIN tools'
  BY <1>3, <1>4 DEF McpInv
<1>6. WalksOK' /\ ExposedOK'
  BY <1>1, <1>3, <1>4, MoreTools
<1> QED
  BY <1>3, <1>4, <1>5, <1>6 DEF McpInv

LEMMA RegisterHttpLemma ==
  ASSUME McpInv, NEW s \in McpServers, NEW where \in Urls, RegisterHttpServer(s, where)
  PROVE  McpInv'
<1>1. AddServer(s, where) /\ UNCHANGED <<tools, walk, exposed, cardNames>>
  BY DEF RegisterHttpServer
<1>2. /\ ServersOK' /\ Len(servers') \in Nat /\ Len(servers) <= Len(servers')
      /\ DOMAIN url' = DOMAIN url \union {s}
      /\ \A t \in DOMAIN url' : url'[t] = IF t = s THEN where ELSE url[t]
  BY <1>1, AddServerLemma
<1>3. \A t \in DOMAIN url' : url'[t] = Stdio => t \in DOMAIN tools'
  BY <1>1, <1>2, McpAssumption DEF McpInv
<1>4. WalksOK' /\ ExposedOK'
  BY <1>1, <1>2, MoreTools
<1> QED
  BY <1>1, <1>2, <1>3, <1>4 DEF McpInv

LEMMA RegisterToolLemma ==
  ASSUME McpInv, NEW n \in ToolNames, RegisterTool(n)
  PROVE  McpInv'
<1>1. PutTool(Tool(n, Nothing, Nothing)) /\ UNCHANGED <<servers, url, walk, exposed, cardNames>>
  BY DEF RegisterTool
<1>2. Tool(n, Nothing, Nothing) \in AnyTool /\ Tool(n, Nothing, Nothing).name = n
  BY DEF Tool, AnyTool
<1>3. ToolTable(tools') /\ DOMAIN tools' = DOMAIN tools \union {n}
  BY <1>1, <1>2, PutToolLemma
<1>4. Len(servers) \in Nat
  BY DEF McpInv, ServersOK
<1>5. WalksOK' /\ ExposedOK'
  BY <1>1, <1>3, <1>4, MoreTools
<1>6. ServersOK'
  BY <1>1 DEF McpInv, ServersOK
<1> QED
  BY <1>1, <1>3, <1>5, <1>6 DEF McpInv

\* Up to its next stop a walk passes only stdio servers, whose tools are known.
LEMMA NextStopLemma ==
  ASSUME McpInv, NEW i \in 1 .. Len(servers) + 1
  PROVE  /\ NextStop(i) \in i .. Len(servers) + 1
         /\ NextStop(i) <= Len(servers) => url[servers[NextStop(i)]] \in Urls
         /\ StdioTools(i, NextStop(i)) \in Seq(AnyTool)
         /\ Known(StdioTools(i, NextStop(i)), tools)
<1>1. PICK n \in Nat : n = Len(servers)
  BY DEF McpInv, ServersOK
<1>2. \A j \in 1 .. n : servers[j] \in DOMAIN url /\ url[servers[j]] \in Urls \union {Stdio}
  BY <1>1 DEF McpInv, ServersOK, Range
<1> DEFINE stops == {j \in i .. n : url[servers[j]] # Stdio}
           stop == NextStop(i)
<1>3. i \in Nat /\ i >= 1 /\ i <= n + 1
  BY <1>1
<1>4. stop = IF stops = {} THEN n + 1 ELSE CHOOSE j \in stops : \A k \in stops : j <= k
  BY <1>1 DEF NextStop
<1>5. stop \in i .. n + 1 /\ (stop <= n => stop \in stops) /\ \A j \in i .. stop - 1 : j \notin stops
  <2>1. CASE stops = {}
    BY <1>3, <1>4, <2>1
  <2>2. CASE stops # {}
    <3>1. stops \subseteq Nat
      BY <1>3
    <3>2. \E j \in stops : \A k \in stops : j <= k
      BY <2>2, <3>1, LeastOne
    <3>3. stop \in stops /\ \A k \in stops : stop <= k
      BY <1>4, <2>2, <3>2
    <3>4. stop \in i .. n
      BY <3>3
    <3> HIDE DEF stop
    <3>5. \A j \in i .. stop - 1 : j \notin stops
      BY <1>3, <3>3, <3>4
    <3> QED  BY <1>3, <3>3, <3>4, <3>5
  <2> QED  BY <2>1, <2>2
<1> HIDE DEF stop
<1>6. stop <= n => url[servers[stop]] \in Urls
  BY <1>2, <1>3, <1>5
<1>7. ASSUME NEW k \in 1 .. stop - i
      PROVE  /\ servers[i + k - 1] \in DOMAIN tools
             /\ tools[servers[i + k - 1]] \in AnyTool
             /\ tools[servers[i + k - 1]].name \in DOMAIN tools
  <2>1. i + k - 1 \in i .. stop - 1 /\ i + k - 1 \in i .. n /\ i + k - 1 \in 1 .. n
    BY <1>3, <1>5
  <2>2. url[servers[i + k - 1]] = Stdio /\ servers[i + k - 1] \in DOMAIN url
    BY <1>2, <1>5, <2>1
  <2> QED  BY <2>2 DEF McpInv, ToolTable
<1>8. stop - i \in Nat
  BY <1>3, <1>5
<1> DEFINE passed == [k \in 1 .. stop - i |-> tools[servers[i + k - 1]]]
<1>9. passed \in Seq(AnyTool) /\ \A k \in DOMAIN passed : passed[k].name \in DOMAIN tools
  BY <1>7, <1>8
<1>10. StdioTools(i, stop) = passed
  BY DEF StdioTools
<1> QED
  BY <1>1, <1>5, <1>6, <1>9, <1>10 DEF Known, stop

\* What is found and exposed goes into the bridge's table and onto the card.
LEMMA ExposeLemma ==
  ASSUME McpInv, NEW more \in Seq(AnyTool), Known(more, tools'),
         DOMAIN tools \subseteq DOMAIN tools', Expose(more)
  PROVE  ExposedOK'
<1> DEFINE caps == [i \in DOMAIN more |-> CapabilityOf(more[i])]
<1>1. PICK n \in Nat : n = Len(more) /\ DOMAIN more = 1 .. n
  OBVIOUS
<1>2. \A i \in 1 .. n : more[i] \in AnyTool
  BY <1>1
<1>3. caps \in Seq(Caps) /\ DOMAIN caps = 1 .. n
  BY <1>1, <1>2 DEF Caps
<1>4. /\ cardNames' = cardNames \o caps
      /\ exposed' = [c \in DOMAIN exposed \union Range(caps) |->
                   IF c \in Range(caps)
                   THEN more[CHOOSE i \in DOMAIN more : caps[i] = c
                                /\ \A j \in DOMAIN more : caps[j] = c => j <= i]
                   ELSE exposed[c]]
  BY DEF Expose
<1> HIDE DEF caps
<1>5. ASSUME NEW c \in Range(caps)
      PROVE  exposed'[c] \in AnyTool /\ exposed'[c].name \in DOMAIN tools'
  <2> DEFINE T == {i \in 1 .. n : caps[i] = c}
             last == CHOOSE i \in DOMAIN more : caps[i] = c
                                /\ \A j \in DOMAIN more : caps[j] = c => j <= i
  <2>1. T \subseteq 1 .. n /\ T # {}
    BY <1>3 DEF Range
  <2>2. \E i \in T : \A j \in T : j <= i
    BY <2>1, GreatestOne
  <2>3. \E i \in DOMAIN more : caps[i] = c /\ \A j \in DOMAIN more : caps[j] = c => j <= i
    BY <1>1, <2>2
  <2>4. last \in DOMAIN more
    BY <2>3
  <2>5. exposed'[c] = more[last]
    BY <1>4
  <2> HIDE DEF last
  <2> QED  BY <1>1, <1>2, <2>4, <2>5 DEF Known
<1>6. ASSUME NEW c \in DOMAIN exposed'
      PROVE  exposed'[c] \in AnyTool /\ exposed'[c].name \in DOMAIN tools'
  <2>1. CASE c \in Range(caps)
    BY <1>5, <2>1
  <2>2. CASE c \notin Range(caps)
    <3>1. c \in DOMAIN exposed /\ exposed'[c] = exposed[c]
      BY <1>4, <2>2
    <3> QED  BY <3>1 DEF McpInv, ExposedOK
  <2> QED  BY <2>1, <2>2
<1>7. cardNames \in Seq(Caps) /\ \A i \in DOMAIN cardNames : cardNames[i] \in DOMAIN exposed
  BY DEF McpInv, ExposedOK
<1>8. PICK s \in Seq(Caps) : s = cardNames
  BY <1>7
<1>9. PICK t \in Seq(Caps) : t = caps
  BY <1>3
<1>10. /\ s \o t \in Seq(Caps) /\ Len(s \o t) = Len(s) + Len(t)
       /\ \A i \in 1 .. Len(s) + Len(t) : (s \o t)[i] = IF i <= Len(s) THEN s[i] ELSE t[i - Len(s)]
  BY ConcatProperties
<1>11. ASSUME NEW i \in 1 .. Len(s) + Len(t) PROVE (s \o t)[i] \in DOMAIN exposed'
  <2>1. Len(s) \in Nat /\ Len(t) \in Nat
    OBVIOUS
  <2>2. CASE i <= Len(s)
    <3>1. i \in DOMAIN s
      BY <2>1, <2>2
    <3>2. s[i] \in DOMAIN exposed
      BY <1>7, <1>8, <3>1
    <3>3. (s \o t)[i] = s[i]
      BY <1>10, <2>2
    <3> QED  BY <1>4, <3>2, <3>3
  <2>3. CASE ~ i <= Len(s)
    <3>1. i - Len(s) \in DOMAIN t
      BY <2>1, <2>3
    <3>2. t[i - Len(s)] \in Range(caps)
      BY <1>9, <3>1 DEF Range
    <3>3. (s \o t)[i] = t[i - Len(s)]
      BY <1>10, <2>3
    <3> QED  BY <1>4, <3>2, <3>3
  <2> QED  BY <2>2, <2>3
<1>12. DOMAIN (s \o t) = 1 .. Len(s) + Len(t)
  BY <1>10
<1>13. cardNames' \in Seq(Caps) /\ \A i \in DOMAIN cardNames' : cardNames'[i] \in DOMAIN exposed'
  BY <1>4, <1>8, <1>9, <1>10, <1>11, <1>12
<1> QED
  BY <1>6, <1>13 DEF ExposedOK

LEMMA ProceedLemma ==
  ASSUME McpInv, NEW w \in Walkers, NEW n \in Nat, NEW i \in 1 .. n + 1,
         NEW found \in Seq(AnyTool), Known(found, tools'),
         DOMAIN tools \subseteq DOMAIN tools', ToolTable(tools'),
         UNCHANGED <<servers, url>>, Proceed(w, i, n, found)
  PROVE  McpInv'
<1> DEFINE stop == NextStop(i)
           more == found \o StdioTools(i, stop)
<1>1. Len(servers) \in Nat /\ ServersOK'
  BY DEF McpInv, ServersOK
<1>2. \A s \in DOMAIN url' : url'[s] = Stdio => s \in DOMAIN tools'
  BY DEF McpInv
\* A walk that is over, or goes on, keeps the others as they are.
<1>3. ASSUME NEW r \in Walks, walk' = [walk EXCEPT ![w] = r],
             r.at <= r.of, r.of <= Len(servers), Known(r.found, tools')
      PROVE  WalksOK'
  <2>1. walk \in [Walkers -> Walks]
    BY DEF McpInv, WalksOK
  <2>2. walk' \in [Walkers -> Walks]
    BY <1>3, <2>1
  <2>3. ASSUME NEW v \in Walkers
        PROVE  walk'[v].at <= walk'[v].of /\ walk'[v].of <= Len(servers') /\ Known(walk'[v].found, tools')
    <3>1. CASE v = w
      <4>1. walk'[v] = r
        BY <1>3, <2>1, <3>1
      <4> QED  BY <1>3, <4>1
    <3>2. CASE v # w
      <4>1. walk'[v] = walk[v]
        BY <1>3, <2>1, <3>2
      <4>2. Known(walk[v].found, tools')
        BY DEF McpInv, WalksOK, Known
      <4> QED  BY <4>1, <4>2 DEF McpInv, WalksOK
    <3> QED  BY <3>1, <3>2
  <2> QED  BY <2>2, <2>3 DEF WalksOK
<1>4. Idle \in Walks /\ Idle.at <= Idle.of /\ Idle.of <= Len(servers) /\ Known(Idle.found, tools')
  <2>1. <<>> \in Seq(AnyTool) /\ DOMAIN <<>> = {}
    OBVIOUS
  <2>2. Idle.at = 0 /\ Idle.of = 0 /\ Idle.found = <<>>
    BY DEF Idle
  <2>3. Idle \in Walks
    BY <2>1 DEF Idle, Walks
  <2> QED  BY <1>1, <2>1, <2>2, <2>3 DEF Known
<1>5. UNCHANGED <<exposed, cardNames>> => ExposedOK'
  BY DEF McpInv, ExposedOK
<1>6. CASE Len(servers) # n
  <2>1. walk' = [walk EXCEPT ![w] = Idle] /\ UNCHANGED <<exposed, cardNames>>
    BY <1>6 DEF Proceed
  <2> QED  BY <1>1, <1>2, <1>3, <1>4, <1>5, <2>1 DEF McpInv
<1>7. CASE Len(servers) = n
  <2>1. /\ stop \in i .. n + 1 /\ (stop <= n => url[servers[stop]] \in Urls)
        /\ StdioTools(i, stop) \in Seq(AnyTool) /\ Known(StdioTools(i, stop), tools)
    BY <1>7, NextStopLemma
  <2> HIDE DEF stop
  <2>2. more \in Seq(AnyTool) /\ Known(more, tools')
    <3>1. PICK t \in Seq(AnyTool) : t = StdioTools(i, stop)
      BY <2>1
    <3>2. /\ found \o t \in Seq(AnyTool) /\ Len(found \o t) = Len(found) + Len(t)
          /\ \A j \in 1 .. Len(found) + Len(t) :
               (found \o t)[j] = IF j <= Len(found) THEN found[j] ELSE t[j - Len(found)]
      BY ConcatProperties
    <3>3. ASSUME NEW j \in 1 .. Len(found) + Len(t) PROVE (found \o t)[j].name \in DOMAIN tools'
      <4>1. Len(found) \in Nat /\ Len(t) \in Nat
        OBVIOUS
      <4>2. CASE j <= Len(found)
        <5>1. j \in DOMAIN found
          BY <4>1, <4>2
        <5>2. (found \o t)[j] = found[j]
          BY <3>2, <4>2
        <5> QED  BY <5>1, <5>2 DEF Known
      <4>3. CASE ~ j <= Len(found)
        <5>1. j - Len(found) \in DOMAIN t
          BY <4>1, <4>3
        <5>2. (found \o t)[j] = t[j - Len(found)]
          BY <3>2, <4>3
        <5>3. t[j - Len(found)].name \in DOMAIN tools
          BY <2>1, <3>1, <5>1 DEF Known
        <5> QED  BY <5>2, <5>3
      <4> QED  BY <4>2, <4>3
    <3>4. DOMAIN (found \o t) = 1 .. Len(found) + Len(t)
      BY <3>2
    <3> QED  BY <3>1, <3>2, <3>3, <3>4 DEF Known
  <2>3. CASE stop <= n
    <3> DEFINE r == [at |-> stop, of |-> n, asked |-> url[servers[stop]], found |-> more]
    <3>1. walk' = [walk EXCEPT ![w] = r] /\ UNCHANGED <<exposed, cardNames>>
      BY <1>7, <2>3 DEF Proceed, stop
    <3>2. stop \in Nat
      BY <2>1
    <3>3. r \in Walks /\ r.at = stop /\ r.of = n /\ r.found = more
      BY <2>1, <2>2, <2>3, <3>2 DEF Walks
    <3> HIDE DEF r
    <3>4. PICK q \in Walks : q = r
      BY <3>3
    <3>5. walk' = [walk EXCEPT ![w] = q]
      BY <3>1, <3>4
    <3>6. q.at <= q.of
      BY <2>3, <3>3, <3>4
    <3>7. q.of <= Len(servers)
      BY <1>1, <1>7, <3>3, <3>4
    <3>8. Known(q.found, tools')
      BY <2>2, <3>3, <3>4
    <3>9. WalksOK'
      BY <1>3, <3>5, <3>6, <3>7, <3>8
    <3> QED  BY <1>1, <1>2, <1>5, <3>1, <3>9 DEF McpInv
  <2>4. CASE ~ stop <= n
    <3>1. walk' = [walk EXCEPT ![w] = Idle] /\ Expose(more)
      BY <1>7, <2>4 DEF Proceed, stop
    <3> HIDE DEF more
    <3>2. PICK found2 \in Seq(AnyTool) : found2 = more
      BY <2>2
    <3>3. ExposedOK'
      BY <2>2, <3>1, <3>2, ExposeLemma
    <3>4. WalksOK'
      BY <1>3, <1>4, <3>1
    <3> QED  BY <1>1, <1>2, <3>3, <3>4 DEF McpInv
  <2> QED  BY <2>3, <2>4
<1> QED
  BY <1>6, <1>7

LEMMA ExposeAllLemma ==
  ASSUME McpInv, NEW w \in Walkers, ExposeAllTools(w)
  PROVE  McpInv'
<1>1. UNCHANGED <<servers, url, tools>> /\ Proceed(w, 1, Len(servers), <<>>)
  BY DEF ExposeAllTools
<1>2. PICK n \in Nat : n = Len(servers)
  BY DEF McpInv, ServersOK
<1>3. PICK found \in Seq(AnyTool) : found = <<>>
  <2>1. <<>> \in Seq(AnyTool)
    OBVIOUS
  <2> QED  BY <2>1
<1>4. PICK i \in 1 .. n + 1 : i = 1
  <2>1. 1 \in 1 .. n + 1
    OBVIOUS
  <2> QED  BY <2>1
<1>5. Known(found, tools') /\ ToolTable(tools') /\ Proceed(w, i, n, found)
  BY <1>1, <1>2, <1>3, <1>4 DEF Known, McpInv, ToolTable
<1> QED
  BY <1>1, <1>5, ProceedLemma

\* Finitely many names are the elements of a list.
LEMMA NamesLemma ==
  ASSUME NEW names \in SUBSET ToolNames
  PROVE  Cardinality(names) \in Nat /\ SetToSeq(names) \in [1 .. Cardinality(names) -> names]
<1>1. IsFiniteSet(names)
  BY McpAssumption, FS_Subset
<1>2. Cardinality(names) \in Nat /\ ExistsBijection(1 .. Cardinality(names), names)
  BY <1>1, FS_CardinalityType
<1>3. \E f \in [1 .. Cardinality(names) -> names] : IsInjective(f)
  BY <1>2 DEF ExistsBijection, Bijection, Injection
<1> QED
  BY <1>2, <1>3 DEF SetToSeq

LEMMA AnswerLemma ==
  ASSUME McpInv, NEW w \in Walkers, NEW names \in SUBSET ToolNames, Answer(w, names)
  PROVE  McpInv'
<1> DEFINE new == [i \in 1 .. Cardinality(names) |->
                  Tool(SetToSeq(names)[i], Nothing, walk[w].asked)]
<1>1. /\ Learn(new) /\ Proceed(w, walk[w].at + 1, walk[w].of, walk[w].found \o new)
      /\ UNCHANGED <<servers, url>>
  BY DEF Answer
<1>2. walk[w] \in Walks /\ walk[w].at <= walk[w].of /\ Known(walk[w].found, tools)
  BY DEF McpInv, WalksOK
<1>3. walk[w].at \in Nat /\ walk[w].of \in Nat /\ walk[w].found \in Seq(AnyTool)
      /\ walk[w].asked \in Urls \union {Nothing}
  BY <1>2 DEF Walks
<1>4. PICK m \in Nat : m = Cardinality(names)
  BY NamesLemma
<1>5. ASSUME NEW i \in 1 .. m PROVE new[i] \in AnyTool
  <2>1. SetToSeq(names)[i] \in ToolNames
    BY <1>4, NamesLemma
  <2>2. new[i] = Tool(SetToSeq(names)[i], Nothing, walk[w].asked)
    BY <1>4
  <2> QED  BY <1>3, <2>1, <2>2 DEF Tool, AnyTool
<1>6. new \in Seq(AnyTool) /\ DOMAIN new = 1 .. m
  BY <1>4, <1>5
<1> HIDE DEF new
<1>7. /\ DOMAIN tools' = DOMAIN tools \union {new[i].name : i \in DOMAIN new}
      /\ \A n \in DOMAIN tools' : tools'[n] = IF n \in DOMAIN tools THEN tools[n]
                                ELSE new[CHOOSE i \in DOMAIN new : new[i].name = n]
  BY <1>1 DEF Learn
<1>8. ASSUME NEW n \in DOMAIN tools' PROVE tools'[n] \in AnyTool /\ tools'[n].name = n
  <2>1. CASE n \in DOMAIN tools
    BY <1>7, <2>1 DEF McpInv, ToolTable
  <2>2. CASE n \notin DOMAIN tools
    <3> DEFINE i == CHOOSE i \in DOMAIN new : new[i].name = n
    <3>1. i \in DOMAIN new /\ new[i].name = n
      BY <1>7, <2>2
    <3>2. tools'[n] = new[i]
      BY <1>7, <2>2
    <3> HIDE DEF i
    <3> QED  BY <1>5, <1>6, <3>1, <3>2
  <2> QED  BY <2>1, <2>2
<1>9. ToolTable(tools') /\ DOMAIN tools \subseteq DOMAIN tools' /\ Known(new, tools')
  BY <1>7, <1>8 DEF ToolTable, Known
<1>10. PICK s \in Seq(AnyTool) : s = walk[w].found
  BY <1>3
<1>11. PICK t \in Seq(AnyTool) : t = new
  BY <1>6
<1>12. /\ s \o t \in Seq(AnyTool) /\ Len(s \o t) = Len(s) + Len(t)
       /\ \A j \in 1 .. Len(s) + Len(t) : (s \o t)[j] = IF j <= Len(s) THEN s[j] ELSE t[j - Len(s)]
  BY ConcatProperties
<1>13. ASSUME NEW j \in 1 .. Len(s) + Len(t) PROVE (s \o t)[j].name \in DOMAIN tools'
  <2>1. Len(s) \in Nat /\ Len(t) \in Nat
    OBVIOUS
  <2>2. CASE j <= Len(s)
    <3>1. j \in DOMAIN s
      BY <2>1, <2>2
    <3>2. (s \o t)[j] = s[j]
      BY <1>12, <2>2
    <3> QED  BY <1>2, <1>9, <1>10, <3>1, <3>2 DEF Known
  <2>3. CASE ~ j <= Len(s)
    <3>1. j - Len(s) \in DOMAIN t
      BY <2>1, <2>3
    <3>2. (s \o t)[j] = t[j - Len(s)]
      BY <1>12, <2>3
    <3> QED  BY <1>9, <1>11, <3>1, <3>2 DEF Known
  <2> QED  BY <2>2, <2>3
<1>14. DOMAIN (s \o t) = 1 .. Len(s) + Len(t)
  BY <1>12
<1>15. PICK found \in Seq(AnyTool) : found = s \o t
  BY <1>12
<1>16. Known(found, tools')
  BY <1>13, <1>14, <1>15 DEF Known
<1>17. PICK n \in Nat : n = walk[w].of
  BY <1>3
<1>18. PICK i \in 1 .. n + 1 : i = walk[w].at + 1
  BY <1>2, <1>3, <1>17
<1>19. Proceed(w, i, n, found)
  BY <1>1, <1>10, <1>11, <1>15, <1>17, <1>18
<1> QED
  BY <1>1, <1>9, <1>16, <1>19, ProceedLemma

LEMMA McpNextLemma == McpInv /\ [McpNext]_mcpVars => McpInv'
<1> SUFFICES ASSUME McpInv, [McpNext]_mcpVars PROVE McpInv'
  OBVIOUS
<1>1. CASE UNCHANGED mcpVars
  BY <1>1 DEF mcpVars, McpInv, ServersOK, WalksOK, ExposedOK
<1>2. CASE McpNext
  BY <1>2, RegisterLemma, RegisterHttpLemma, RegisterToolLemma, ExposeAllLemma, AnswerLemma
     DEF McpNext
<1> QED
  BY <1>1, <1>2

(* The bridge's state is well formed: servers, tools, walks and the table  *)
(* of exposed tools (armp_mcp.py:60-345).                                  *)
THEOREM McpTypeCorrect == McpSpec => []McpTypeOK
<1>1. McpInv => McpTypeOK
  BY DEF McpInv, ServersOK, ToolTable, WalksOK, Walks, ExposedOK, McpTypeOK
<1> QED
  BY <1>1, McpInitLemma, McpNextLemma, PTL DEF McpSpec

(* Every capability on the card is in the bridge's table, and a request    *)
(* for it finds a tool to call (armp_mcp.py:105-122, 317-345).             *)
THEOREM ExposedCallable == McpSpec => []ExposedIsCallable
<1>1. McpInv => ExposedIsCallable
  BY DEF McpInv, ExposedOK, ExposedIsCallable, HandleToolCall, CallTool
<1> QED
  BY <1>1, McpInitLemma, McpNextLemma, PTL DEF McpSpec

-----------------------------------------------------------------------------
(* The services side by side                                               *)

LEMMA InitsLemma ==
  Init => RLInit /\ WindowInit /\ AuditInit /\ ReputationInit /\ TrustInit /\ SsoInit /\ McpInit
BY DEF Init

servicesVars == <<service, rlVars, windowVars, auditVars, reputationVars, trustVars, ssoVars, mcpVars>>

LEMMA NextsLemma ==
  [Next]_servicesVars =>
    /\ [RLNext]_rlVars /\ [WindowNext]_windowVars /\ [AuditNext]_auditVars
    /\ [ReputationNext]_reputationVars /\ [TrustNext]_trustVars
    /\ [SsoNext]_ssoVars /\ [McpNext]_mcpVars
BY DEF servicesVars, Next, LimitsStep, WindowStep, AuditStep, ReputationStep, TrustStep, SsoStep,
       McpStep

(* Each service, side by side with the others, does what it does alone.    *)
LEMMA EachAlone ==
  Spec => RLSpec /\ WindowSpec /\ AuditSpec /\ ReputationSpec /\ TrustSpec /\ SsoSpec /\ McpSpec
<1>1. Spec => Init /\ [][Next]_servicesVars
  BY DEF Spec, servicesVars
<1> QED
  BY <1>1, InitsLemma, NextsLemma, PTL
     DEF RLSpec, WindowSpec, AuditSpec, ReputationSpec, TrustSpec, SsoSpec, McpSpec

(* Each service keeps its state well formed, whatever is called.           *)
THEOREM ServicesTypesCorrect == Spec => []ServicesTypeOK
<1>1. RLInv => RLTypeOK
  BY DEF RLInv
<1>2. WindowInv => WindowTypeOK
  BY DEF WindowInv
<1>3. ReputationInv => ReputationTypeOK
  BY DEF ReputationInv
<1>4. RLTypeOK /\ WindowTypeOK /\ AuditTypeOK /\ ReputationTypeOK /\ TrustTypeOK /\ SsoTypeOK
      /\ McpTypeOK => ServicesTypeOK
  BY DEF ServicesTypeOK
<1>5. RLSpec => []RLTypeOK
  BY <1>1, RateLimiterInvariant, PTL
<1>6. WindowSpec => []WindowTypeOK
  BY <1>2, WindowInitLemma, WindowNextLemma, PTL DEF WindowSpec
<1>7. ReputationSpec => []ReputationTypeOK
  BY <1>3, ReputationInvariant, PTL
<1> QED
  BY <1>4, <1>5, <1>6, <1>7, EachAlone, AuditTypeCorrect, TrustTypeCorrect, SsoTypeCorrect,
     McpTypeCorrect, PTL
=============================================================================
