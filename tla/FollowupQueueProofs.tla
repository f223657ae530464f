------------------------ MODULE FollowupQueueProofs ------------------------
(***************************************************************************)
(* Proofs about the followup queue, for every set of messages and queue    *)
(* objects, all routes, authorizations and settings.                       *)
(*                                                                         *)
(* The heart of it is where the messages of a run are in its queue: the    *)
(* run holds a copy of a prefix of the queue, the queue goes on changing   *)
(* at both ends, and messages are taken off by their number at the end.    *)
(***************************************************************************)
EXTENDS FollowupQueue, TLAPS, FiniteSetTheorems, SequenceTheorems, WellFoundedInduction

-----------------------------------------------------------------------------
(* Numbers and sequences *)

\* A set of natural numbers has a least element.
LEMMA Least ==
  ASSUME NEW T, T \subseteq Nat, T # {}
  PROVE  \E x \in T : \A y \in T : x <= y
<1>1. PICK R : R = {ss \in Nat \X Nat : ss[1] < ss[2]}
  OBVIOUS
<1>2. IsWellFoundedOn(R, Nat)
  BY <1>1, NatLessThanWellFounded DEF OpToRel
<1>3. PICK x \in T : \A y \in T : ~ (<<y, x>> \in R)
  BY <1>2, WFMin
<1>4. \A y \in T : ~ (y < x)
  BY <1>1, <1>3
<1> QED
  BY <1>4

\* What is left of a sequence whose first g elements are taken off
LEMMA Suffix ==
  ASSUME NEW S, NEW s \in Seq(S), NEW g \in Nat, NEW t, t = SubSeq(s, g + 1, Len(s))
  PROVE  /\ t \in Seq(S)
         /\ g <= Len(s) => Len(t) = Len(s) - g
         /\ g > Len(s) => t = <<>>
         /\ DOMAIN t = 1 .. Len(t)
         /\ \A i \in DOMAIN t : i + g \in DOMAIN s /\ t[i] = s[i + g]
<1>1. PICK n \in Nat : n = Len(s)
  BY LenProperties
<1>2. \A i \in 1 .. n : s[i] \in S
  BY <1>1, ElementOfSeq
<1>3. DOMAIN s = 1 .. n
  BY <1>1, LenProperties
<1>4. PICK a \in Int : a = g + 1
  OBVIOUS
<1>5. \A i \in a .. n : s[i] \in S
  BY <1>2, <1>4
<1>6. /\ t \in Seq(S)
      /\ Len(t) = IF a <= n THEN n - a + 1 ELSE 0
      /\ \A i \in 1 .. n - a + 1 : t[i] = s[a + i - 1]
  BY <1>1, <1>4, <1>5, SubSeqProperties
<1>7. PICK k \in Nat : k = Len(t)
  BY <1>6, LenProperties
<1>8. DOMAIN t = 1 .. k
  BY <1>6, <1>7, LenProperties
<1>9. /\ k = IF g < n THEN n - g ELSE 0
      /\ \A i \in 1 .. n - g : t[i] = s[i + g]
  <2>1. k = IF a <= n THEN n - a + 1 ELSE 0
    BY <1>6, <1>7
  <2>2. n - a + 1 = n - g /\ (a <= n <=> g < n)
    BY <1>4
  <2>3. ASSUME NEW i \in 1 .. n - g
        PROVE  t[i] = s[i + g]
    <3>1. t[i] = s[a + i - 1]
      BY <1>6, <2>2
    <3>2. a + i - 1 = i + g
      BY <1>4
    <3> QED
      BY <3>1, <3>2
  <2> QED
    BY <2>1, <2>2, <2>3
<1>10. ASSUME NEW i \in 1 .. k
       PROVE  i + g \in 1 .. n /\ t[i] = s[i + g]
  <2>1. i \in 1 .. n - g
    BY <1>9
  <2>2. i + g \in 1 .. n
    BY <2>1
  <2> QED
    BY <1>9, <2>1, <2>2
<1>11. g > n => t = <<>>
  <2>1. g > n => Len(t) = 0
    BY <1>7, <1>9
  <2> QED
    BY <1>6, <2>1, EmptySeq
<1>12. /\ g <= n => k = n - g
       /\ DOMAIN t = 1 .. Len(t)
  BY <1>7, <1>8, <1>9
<1> QED
  BY <1>1, <1>3, <1>6, <1>7, <1>8, <1>10, <1>11, <1>12

\* ... has no element twice if the sequence has none.
LEMMA SuffixInjective ==
  ASSUME NEW S, NEW s \in Seq(S), NEW g \in Nat, NEW t, t = SubSeq(s, g + 1, Len(s)),
         IsInjective(s)
  PROVE  IsInjective(t) /\ Range(t) \subseteq Range(s)
<1>1. /\ DOMAIN t = 1 .. Len(t) /\ t \in Seq(S)
      /\ \A i \in DOMAIN t : i + g \in DOMAIN s /\ t[i] = s[i + g]
  BY Suffix
<1>2. \A i \in DOMAIN t : i \in Int
  BY <1>1
<1> QED
  BY <1>1, <1>2 DEF IsInjective, Range

\* A new element at the end of a sequence
LEMMA Appended ==
  ASSUME NEW S, NEW s \in Seq(S), NEW m \in S
  PROVE  /\ Range(Append(s, m)) = Range(s) \cup {m}
         /\ IsInjective(s) /\ m \notin Range(s) => IsInjective(Append(s, m))
<1> DEFINE t == Append(s, m)
<1>1. /\ t \in Seq(S) /\ Len(t) = Len(s) + 1
      /\ \A i \in 1 .. Len(s) : t[i] = s[i]
      /\ t[Len(s) + 1] = m
  BY AppendProperties
<1> HIDE DEF t
<1>2. Len(s) \in Nat /\ DOMAIN s = 1 .. Len(s) /\ DOMAIN t = 1 .. Len(t)
  BY <1>1, LenProperties
<1>3. Range(t) = Range(s) \cup {m}
  <2>1. Range(t) \subseteq Range(s) \cup {m}
    BY <1>1, <1>2 DEF Range
  <2>2. Range(s) \subseteq Range(t)
    BY <1>1, <1>2 DEF Range
  <2>3. m \in Range(t)
    BY <1>1, <1>2 DEF Range
  <2> QED
    BY <2>1, <2>2, <2>3
<1>4. IsInjective(s) /\ m \notin Range(s) => IsInjective(t)
  BY <1>1, <1>2 DEF IsInjective, Range
<1> QED
  BY <1>3, <1>4 DEF t

-----------------------------------------------------------------------------
(* Where the messages f of a run are in its queue s, d of them being gone *)

Shifted(s, f, d) ==
  /\ Len(f) <= Len(s) + d
  /\ \A i \in DOMAIN s : IF i + d <= Len(f) THEN s[i] = f[i + d] ELSE s[i] \notin Range(f)

\* The same in numbers
LEMMA ShiftedNumbers ==
  ASSUME NEW S, NEW s \in Seq(S), NEW f, NEW n \in Nat, n = Len(s),
         NEW k \in Nat, k = Len(f), NEW d \in Nat
  PROVE  Shifted(s, f, d) <=>
           /\ k <= n + d
           /\ \A i \in 1 .. n : IF i + d <= k THEN s[i] = f[i + d] ELSE s[i] \notin Range(f)
<1>1. DOMAIN s = 1 .. n
  BY LenProperties
<1> QED
  BY <1>1 DEF Shifted

\* The drop policy takes g messages off.
LEMMA ShiftedDrop ==
  ASSUME NEW S, NEW s \in Seq(S), NEW f \in Seq(S), NEW d \in Nat, NEW g \in Nat,
         g <= Len(s), Shifted(s, f, d), NEW t, t = SubSeq(s, g + 1, Len(s))
  PROVE  Shifted(t, f, d + g)
<1>1. PICK n \in Nat : n = Len(s)
  BY LenProperties
<1>2. PICK k \in Nat : k = Len(f)
  BY LenProperties
<1>3. PICK l \in Nat : l = n - g
  BY <1>1
<1>4. t \in Seq(S) /\ Len(t) = l
  BY <1>1, <1>3, Suffix
<1>5. \A i \in 1 .. l : t[i] = s[i + g]
  BY <1>1, <1>3, <1>4, Suffix
<1>6. /\ k <= n + d
      /\ \A i \in 1 .. n : IF i + d <= k THEN s[i] = f[i + d] ELSE s[i] \notin Range(f)
  BY <1>1, <1>2, ShiftedNumbers
<1>7. PICK e \in Nat : e = d + g
  OBVIOUS
<1>8. ASSUME NEW i \in 1 .. l
      PROVE  IF i + e <= k THEN t[i] = f[i + e] ELSE t[i] \notin Range(f)
  <2>1. i + g \in 1 .. n /\ (i + g) + d = i + e
    BY <1>3, <1>7
  <2> QED
    BY <1>5, <1>6, <2>1
<1>9. k <= l + e
  BY <1>3, <1>6, <1>7
<1>10. DOMAIN t = 1 .. l
  BY <1>4, LenProperties
<1>11. Shifted(t, f, e)
  BY <1>2, <1>4, <1>8, <1>9, <1>10 DEF Shifted
<1> QED
  BY <1>7, <1>11

\* A message that is not of the run is added.
LEMMA ShiftedAppend ==
  ASSUME NEW S, NEW s \in Seq(S), NEW f \in Seq(S), NEW d \in Nat, Shifted(s, f, d),
         NEW m \in S, m \notin Range(f), NEW t, t = Append(s, m)
  PROVE  Shifted(t, f, d)
<1>1. PICK n \in Nat : n = Len(s)
  BY LenProperties
<1>2. PICK k \in Nat : k = Len(f)
  BY LenProperties
<1>3. /\ t \in Seq(S) /\ Len(t) = n + 1
      /\ \A i \in 1 .. n : t[i] = s[i]
      /\ t[n + 1] = m
  BY <1>1, AppendProperties
<1>4. /\ k <= n + d
      /\ \A i \in 1 .. n : IF i + d <= k THEN s[i] = f[i + d] ELSE s[i] \notin Range(f)
  BY <1>1, <1>2, ShiftedNumbers
<1>5. ASSUME NEW i \in 1 .. n + 1
      PROVE  IF i + d <= k THEN t[i] = f[i + d] ELSE t[i] \notin Range(f)
  <2>1. CASE i = n + 1
    <3>1. ~(i + d <= k)
      BY <1>4, <2>1
    <3> QED
      BY <1>3, <2>1, <3>1
  <2>2. CASE i # n + 1
    <3>1. i \in 1 .. n
      BY <2>2
    <3> QED
      BY <1>3, <1>4, <3>1
  <2> QED
    BY <2>1, <2>2
<1>6. PICK l \in Nat : l = n + 1
  OBVIOUS
<1>7. k <= l + d
  BY <1>4, <1>6
<1>8. DOMAIN t = 1 .. l /\ Len(t) = l
  BY <1>3, <1>6, LenProperties
<1> QED
  BY <1>2, <1>5, <1>6, <1>7, <1>8 DEF Shifted

\* A run has delivered its messages a and as many are taken off: those of the
\* groups after it, b, are where they were, and none of a is left.
LEMMA ShiftedTake ==
  ASSUME NEW S, NEW s \in Seq(S), NEW a \in Seq(S), NEW b \in Seq(S), IsInjective(a \o b),
         NEW d \in Nat, Shifted(s, a \o b, d), NEW t, t = SubSeq(s, Len(a) + 1, Len(s))
  PROVE  /\ \E e \in Nat : Shifted(t, b, e)
         /\ Range(t) \cap Range(a) = {}
         /\ d = 0 => Shifted(t, b, 0) /\ Range(s) \subseteq Range(t) \cup Range(a)
<1>1. PICK f \in Seq(S) : f = a \o b
  BY ConcatProperties
<1>2. PICK n \in Nat : n = Len(s)
  BY LenProperties
<1>3. PICK g \in Nat : g = Len(a)
  BY LenProperties
<1>4. PICK h \in Nat : h = Len(b)
  BY LenProperties
<1>5. PICK k \in Nat : k = g + h
  OBVIOUS
<1>6. Len(f) = k
  BY <1>1, <1>3, <1>4, <1>5, ConcatProperties
<1>7. /\ \A i \in 1 .. g : f[i] = a[i]
      /\ \A i \in 1 .. h : f[i + g] = b[i]
  <2>1. \A i \in 1 .. k : f[i] = IF i <= g THEN a[i] ELSE b[i - g]
    BY <1>1, <1>3, <1>4, <1>5, ConcatProperties
  <2>2. ASSUME NEW i \in 1 .. h
        PROVE  f[i + g] = b[i]
    <3>1. i + g \in 1 .. k /\ ~(i + g <= g) /\ (i + g) - g = i
      BY <1>5
    <3> QED
      BY <2>1, <3>1
  <2>3. ASSUME NEW i \in 1 .. g
        PROVE  f[i] = a[i]
    <3>1. i \in 1 .. k /\ i <= g
      BY <1>5
    <3> QED
      BY <2>1, <3>1
  <2> QED
    BY <2>2, <2>3
<1>8. Range(f) = Range(a) \cup Range(b)
  BY <1>1, RangeConcatenation
<1>9. DOMAIN a = 1 .. g /\ DOMAIN b = 1 .. h /\ DOMAIN f = 1 .. k
  BY <1>3, <1>4, <1>6, LenProperties
<1>10. t = SubSeq(s, g + 1, n)
  BY <1>2, <1>3
<1>11. /\ k <= n + d
       /\ \A i \in 1 .. n : IF i + d <= k THEN s[i] = f[i + d] ELSE s[i] \notin Range(f)
  BY <1>1, <1>2, <1>6, ShiftedNumbers
<1>12. t \in Seq(S)
  BY <1>2, <1>10, Suffix
<1>12a. PICK l \in Nat : l = Len(t)
  BY <1>12, LenProperties
<1>12b. DOMAIN t = 1 .. l
  BY <1>12, <1>12a, LenProperties
<1>13. (g <= n => l = n - g) /\ (g > n => l = 0)
  <2>1. (g <= n => l = n - g) /\ (g > n => t = <<>>)
    BY <1>2, <1>10, <1>12a, Suffix
  <2> QED
    BY <1>12a, <2>1, EmptySeq
<1>14. ASSUME NEW i \in 1 .. l
       PROVE  i + g \in 1 .. n /\ t[i] = s[i + g]
  <2>1. PICK ld \in Seq(S) : ld = t
    BY <1>12
  <2>2. i \in DOMAIN ld
    BY <1>12b, <2>1
  <2>3. \A o \in DOMAIN ld : ld[o] = s[o + g]
    BY <1>2, <1>10, <2>1, Suffix
  <2>4. t[i] = s[i + g]
    BY <2>1, <2>2, <2>3
  <2>5. i + g \in 1 .. n
    <3>1. g <= n /\ l = n - g
      BY <1>13
    <3> QED
      BY <3>1
  <2> QED
    BY <2>4, <2>5
<1>15. ASSUME NEW i \in 1 .. l
       PROVE  /\ IF i + d <= h THEN t[i] = b[i + d] ELSE t[i] \notin Range(b)
              /\ t[i] \notin Range(a)
  <2>1. CASE i + d <= h
    <3>1. (i + g) + d <= k /\ i + d \in 1 .. h /\ (i + g) + d = (i + d) + g
      BY <1>5, <2>1
    <3>2. t[i] = f[(i + d) + g] /\ t[i] = b[i + d]
      BY <1>7, <1>11, <1>14, <3>1
    <3>3. ASSUME NEW j \in 1 .. g, a[j] = t[i]
          PROVE  FALSE
      <4>0. j \in 1 .. k /\ (i + d) + g \in 1 .. k
        BY <1>5, <3>1
      <4>1. f[j] = f[(i + d) + g]
        BY <1>7, <3>1, <3>2, <3>3
      <4>2. j = (i + d) + g
        BY <1>1, <1>9, <4>0, <4>1 DEF IsInjective
      <4> QED
        BY <4>2
    <3>4. t[i] \notin Range(a)
      BY <1>9, <3>3 DEF Range
    <3> QED
      BY <2>1, <3>2, <3>4
  <2>2. CASE ~(i + d <= h)
    <3>1. ~((i + g) + d <= k)
      BY <1>5, <2>2
    <3>2. t[i] \notin Range(f)
      BY <1>11, <1>14, <3>1
    <3> QED
      BY <1>8, <2>2, <3>2
  <2> QED
    BY <2>1, <2>2
<1>16. Range(t) \cap Range(a) = {}
  BY <1>12b, <1>15 DEF Range
<1>17. CASE g <= n
  <2>1. h <= l + d
    BY <1>5, <1>11, <1>13, <1>17
  <2>2. Shifted(t, b, d)
    BY <1>4, <1>12a, <1>12b, <1>15, <2>1 DEF Shifted
  <2>3. ASSUME d = 0, NEW i \in 1 .. n
        PROVE  s[i] \in Range(t) \cup Range(a)
    <3>1. CASE i <= g
      <4>1. i \in 1 .. g /\ i + d <= k /\ i + d = i
        BY <1>5, <2>3, <3>1
      <4>2. s[i] = a[i]
        BY <1>7, <1>11, <4>1
      <4> QED
        BY <1>9, <4>1, <4>2 DEF Range
    <3>2. CASE ~(i <= g)
      <4>1. PICK o \in 1 .. l : o + g = i
        <5>1. i - g \in 1 .. l /\ (i - g) + g = i
          BY <1>13, <1>17, <3>2
        <5> QED
          BY <5>1
      <4>2. t[o] = s[i]
        BY <1>14, <4>1
      <4> QED
        BY <1>12b, <4>2 DEF Range
    <3> QED
      BY <3>1, <3>2
  <2>4. DOMAIN s = 1 .. n
    BY <1>2, LenProperties
  <2>5. d = 0 => Range(s) \subseteq Range(t) \cup Range(a)
    BY <2>3, <2>4 DEF Range
  <2> QED
    BY <1>16, <2>2, <2>5
<1>18. CASE g > n
  <2>1. l = 0
    BY <1>13, <1>18
  <2>2. Shifted(t, b, h)
    <3>1. h <= l + h /\ \A i \in 1 .. l : FALSE
      BY <2>1
    <3> QED
      BY <1>4, <1>12a, <1>12b, <3>1 DEF Shifted
  <2>3. d # 0
    BY <1>5, <1>11, <1>18
  <2> QED
    BY <1>16, <2>2, <2>3
<1> QED
  BY <1>17, <1>18

-----------------------------------------------------------------------------
(* The runs a drain asks for *)

JobType == [msgs : Seq(Msgs), takes : Nat, summary : BOOLEAN, rest : Seq(Msgs)]

\* The messages a drain has copied and not delivered
Flow(j) == j.msgs \o j.rest

\* A run takes off what it delivers, and its messages have one authorization.
Shaped(j) ==
  /\ IsInjective(Flow(j))
  /\ IF j.msgs = <<>> THEN j.rest = <<>> ELSE j.takes = Len(j.msgs)
  /\ \A m, n \in Range(j.msgs) : Auth[m] = Auth[n]

\* A run of messages that are the first ones of s
Prefixed(s, j) == j \in JobType /\ Shaped(j) /\ \E d \in Nat : Shifted(s, Flow(j), d)

\* The first authorization group is a part of the sequence, and not empty.
LEMMA TogetherFacts ==
  ASSUME NEW s \in Seq(Msgs), s # <<>>
  PROVE  Together(s) \in 1 .. Len(s) /\ \A i \in 1 .. Together(s) : Auth[s[i]] = Auth[s[1]]
<1>1. PICK n \in Nat : n = Len(s)
  BY LenProperties
<1>2. n >= 1
  BY <1>1, EmptySeq
<1> DEFINE Ends(k) == /\ \A i \in 1 .. k : Auth[s[i]] = Auth[s[1]]
                      /\ k < Len(s) => Auth[s[k + 1]] # Auth[s[1]]
<1>3. \E k \in 1 .. Len(s) : Ends(k)
  <2>1. PICK T : T = {i \in 1 .. n : Auth[s[i]] # Auth[s[1]]}
    OBVIOUS
  <2>2. CASE T = {}
    <3>0. \A i \in 1 .. n : Auth[s[i]] = Auth[s[1]]
      BY <2>1, <2>2
    <3>a. ~(n < Len(s))
      BY <1>1
    <3>1. Ends(n)
      BY <3>0, <3>a
    <3> QED
      BY <1>1, <1>2, <3>1
  <2>3. CASE T # {}
    <3>b. T \subseteq Nat
      BY <2>1
    <3>1. PICK x \in T : \A y \in T : x <= y
      BY <2>3, <3>b, Least
    <3>2. x \in 1 .. n /\ Auth[s[x]] # Auth[s[1]]
      BY <2>1, <3>1
    <3>3. PICK k \in Nat : k = x - 1
      BY <3>2
    <3>4. k \in 1 .. n /\ k + 1 = x
      BY <3>2, <3>3
    <3>5. ASSUME NEW i \in 1 .. k
          PROVE  Auth[s[i]] = Auth[s[1]]
      <4>1. i \in 1 .. n /\ ~(x <= i)
        BY <3>4
      <4> QED
        BY <2>1, <3>1, <4>1
    <3>6. Ends(k)
      BY <3>2, <3>4, <3>5
    <3> QED
      BY <1>1, <3>4, <3>6
  <2> QED
    BY <2>2, <2>3
<1>4. Together(s) = CHOOSE k \in 1 .. Len(s) : Ends(k)
  BY DEF Together
<1>5. Together(s) \in 1 .. Len(s) /\ Ends(Together(s))
  BY <1>3, <1>4
<1> QED
  BY <1>5

\* A batch is what its queue holds, cut after the first group.
LEMMA BatchFacts ==
  ASSUME NEW s \in Seq(Msgs), s # <<>>, IsInjective(s), NEW summary \in BOOLEAN,
         NEW j, j = Batch(s, summary)
  PROVE  j \in JobType /\ Shaped(j) /\ Flow(j) = s /\ j # NoJob /\ j.msgs # <<>>
<1>1. PICK n \in Nat : n = Len(s)
  BY LenProperties
<1>2. PICK k \in 1 .. n : k = Together(s)
  BY <1>1, TogetherFacts
<1>3. \A i \in 1 .. k : Auth[s[i]] = Auth[s[1]]
  BY <1>2, TogetherFacts
<1>4. PICK a : a = SubSeq(s, 1, k)
  OBVIOUS
<1>5. PICK b : b = SubSeq(s, k + 1, n)
  OBVIOUS
<1>6. j = [msgs |-> a, takes |-> k, summary |-> summary, rest |-> b]
  BY <1>1, <1>2, <1>4, <1>5 DEF Batch, Job
<1>7. /\ a \in Seq(Msgs) /\ Len(a) = k
      /\ \A i \in 1 .. k : a[i] = s[i]
  <2>1. \A i \in 1 .. k : s[i] \in Msgs
    <3>1. \A i \in 1 .. n : s[i] \in Msgs
      BY <1>1, ElementOfSeq
    <3> QED
      BY <3>1
  <2>2. /\ a \in Seq(Msgs)
        /\ Len(a) = IF 1 <= k THEN k - 1 + 1 ELSE 0
        /\ \A i \in 1 .. k - 1 + 1 : a[i] = s[1 + i - 1]
    BY <1>4, <2>1, SubSeqProperties
  <2>3. \A i \in 1 .. k : 1 + i - 1 = i /\ i \in 1 .. k - 1 + 1
    OBVIOUS
  <2> QED
    BY <2>2, <2>3
<1>8. b \in Seq(Msgs)
  BY <1>1, <1>5, Suffix
<1>9. a \o b = s
  <2>1. SubSeq(s, 1, k) \o SubSeq(s, k + 1, n) = SubSeq(s, 1, n)
    <3>1. 1 <= k + 1 /\ k <= n
      OBVIOUS
    <3> QED
      BY <1>1, <3>1, ConcatAdjacentSubSeq
  <2>2. SubSeq(s, 1, n) = s
    BY <1>1, SubSeqFull
  <2> QED
    BY <1>4, <1>5, <2>1, <2>2
<1>10. j \in JobType /\ Flow(j) = s /\ j.msgs = a /\ j.takes = k
  BY <1>6, <1>7, <1>8, <1>9 DEF JobType, Flow
<1>11. a # <<>>
  BY <1>7, EmptySeq
<1>12. \A x, y \in Range(a) : Auth[x] = Auth[y]
  <2>1. DOMAIN a = 1 .. k
    BY <1>7, LenProperties
  <2> QED
    BY <1>3, <1>7, <2>1 DEF Range
<1>13. j # NoJob
  BY <1>10, <1>11 DEF NoJob, Job
<1> QED
  BY <1>7, <1>10, <1>11, <1>12, <1>13 DEF Shaped

\* Messages whose replies go to one place that can be found
Alike(C) == \A m, n \in C : Route[m] = Route[n] /\ Route[m] # BadRoute

\* Items that are not cross-channel have one place for their replies.
LEMMA CrossFacts ==
  ASSUME NEW s \in Seq(Msgs), ~Cross(s)
  PROVE  Alike(Range(s))
<1>1. PICK R : R = {Route[m] : m \in Range(s)}
  OBVIOUS
<1>2. ~(Cardinality(R) > 1) /\ BadRoute \notin R
  BY <1>1 DEF Cross
<1>3. Range(s) \subseteq Msgs
  <2>1. s \in [1 .. Len(s) -> Msgs]
    BY LenProperties
  <2> QED
    BY <2>1 DEF Range
<1>4. IsFiniteSet(R)
  <2>0. PICK A : A = Range(s)
    OBVIOUS
  <2>1. IsFiniteSet(A)
    BY <1>3, <2>0, ConstantsAssumption, FS_Subset
  <2>2. PICK f : f = [m \in A |-> Route[m]]
    OBVIOUS
  <2>3. f \in Surjection(A, R)
    BY <1>1, <2>0, <2>2 DEF Surjection
  <2> QED
    BY <2>1, <2>3, FS_Surjection
<1>5. SUFFICES ASSUME NEW m \in Range(s), NEW n \in Range(s), Route[m] # Route[n]
               PROVE  FALSE
  BY <1>1, <1>2 DEF Alike
<1>6. PICK x, y : x = Route[m] /\ y = Route[n]
  OBVIOUS
<1>7. PICK P : P = {x, y}
  OBVIOUS
<1>8. x \in R /\ y \in R /\ x # y /\ P \subseteq R
  BY <1>1, <1>5, <1>6, <1>7
<1>9. IsFiniteSet({x}) /\ Cardinality({x}) = 1
  BY FS_Singleton
<1>10. P = {x} \cup {y} /\ y \notin {x}
  BY <1>7, <1>8
<1>11. Cardinality(P) = 2
  <2>1. PICK A : A = {x} /\ IsFiniteSet(A) /\ Cardinality(A) = 1
    BY <1>9
  <2>2. y \notin A /\ P = A \cup {y}
    BY <1>10, <2>1
  <2>3. Cardinality(A \cup {y}) = Cardinality(A) + 1
    BY <2>1, <2>2, FS_AddElement
  <2> QED
    BY <2>1, <2>2, <2>3
<1>12. Cardinality(P) <= Cardinality(R) /\ Cardinality(R) \in Nat
  BY <1>4, <1>8, FS_Subset, FS_CardinalityType
<1> QED
  BY <1>2, <1>11, <1>12

\* Runs without messages are in step with every queue.
LEMMA EmptyRunFacts ==
  ASSUME NEW s \in Seq(Msgs), NEW n \in Nat, NEW b \in BOOLEAN, NEW j, j = Job(<<>>, n, b, <<>>)
  PROVE  Prefixed(s, j) /\ Shifted(s, Flow(j), 0) /\ Flow(j) = <<>>
<1>1. PICK e \in Seq(Msgs) : e = <<>>
  BY EmptySeq
<1>2. j = [msgs |-> e, takes |-> n, summary |-> b, rest |-> e]
  BY <1>1 DEF Job
<1>3. Flow(j) = e
  <2>1. e \o e = e
    BY <1>1, ConcatEmptySeq
  <2>2. j.msgs = e /\ j.rest = e
    BY <1>2
  <2> QED
    BY <2>1, <2>2 DEF Flow
<1>4. j \in JobType /\ j.msgs = e /\ j.rest = e
  BY <1>2 DEF JobType
<1>5. DOMAIN e = {} /\ Range(e) = {} /\ Len(e) = 0
  <2>1. Len(e) = 0
    BY <1>1, EmptySeq
  <2>2. DOMAIN e = 1 .. 0
    BY <2>1, LenProperties
  <2> QED
    BY <2>1, <2>2 DEF Range
<1>6. Shaped(j)
  BY <1>1, <1>3, <1>4, <1>5 DEF Shaped, IsInjective
<1>7. Shifted(s, e, 0)
  <2>1. PICK n1 \in Nat : n1 = Len(s)
    BY LenProperties
  <2>2. DOMAIN s = 1 .. n1
    BY <2>1, LenProperties
  <2>3. 0 <= n1 + 0 /\ \A i \in 1 .. n1 : ~(i + 0 <= 0)
    OBVIOUS
  <2> QED
    BY <1>5, <2>1, <2>2, <2>3 DEF Shifted
<1> QED
  BY <1>1, <1>3, <1>4, <1>6, <1>7 DEF Prefixed

\* A run of one message
LEMMA OneMessageFacts ==
  ASSUME NEW m \in Msgs, NEW j \in JobType, j.msgs = <<m>>, j.takes = 1, j.rest = <<>>
  PROVE  /\ Shaped(j) /\ j.msgs # <<>>
         /\ Flow(j) \in Seq(Msgs) /\ Len(Flow(j)) = 1 /\ Flow(j)[1] = m /\ Range(Flow(j)) = {m}
<1>1. PICK f : f = <<m>>
  OBVIOUS
<1>2. f \in Seq(Msgs) /\ Len(f) = 1 /\ f[1] = m
  BY <1>1
<1>3. PICK e : e = <<>>
  OBVIOUS
<1>4. j.msgs = f /\ j.rest = e
  BY <1>1, <1>3
<1>5. f \o e = f
  BY <1>2, <1>3, ConcatEmptySeq
<1>6. Flow(j) = f
  BY <1>4, <1>5 DEF Flow
<1>7. DOMAIN f = 1 .. 1
  BY <1>2, LenProperties
<1>8. Range(f) = {m}
  BY <1>2, <1>7 DEF Range
<1>9. f # <<>>
  <2>1. Len(f) # 0
    BY <1>2
  <2>2. Len(<<>>) = 0
    BY EmptySeq
  <2> QED
    BY <2>1, <2>2
<1>10. IsInjective(f)
  BY <1>7 DEF IsInjective
<1>11. j.takes = Len(j.msgs)
  BY <1>2, <1>4
<1>12. \A x, y \in Range(f) : x = y
  BY <1>8
<1>13. Shaped(j)
  BY <1>3, <1>4, <1>6, <1>9, <1>10, <1>11, <1>12 DEF Shaped
<1> QED
  BY <1>2, <1>4, <1>6, <1>8, <1>9, <1>13

\* One message alone, the first of its queue
LEMMA AloneFacts ==
  ASSUME NEW s \in Seq(Msgs), s # <<>>, IsInjective(s),
         NEW j, j = Job(<<Head(s)>>, 1, FALSE, <<>>)
  PROVE  /\ Prefixed(s, j) /\ Shifted(s, Flow(j), 0)
         /\ Range(Flow(j)) \subseteq Range(s) /\ j.msgs # <<>>
         /\ \A x, y \in Range(Flow(j)) : x = y
<1>1. PICK n \in Nat : n = Len(s)
  BY LenProperties
<1>2. n >= 1
  BY <1>1, EmptySeq
<1>3. DOMAIN s = 1 .. n
  BY <1>1, LenProperties
<1>4. PICK m \in Msgs : m = Head(s) /\ m = s[1]
  <2>1. s[1] \in Msgs
    <3>1. \A i \in 1 .. n : s[i] \in Msgs
      BY <1>1, ElementOfSeq
    <3> QED
      BY <1>2, <3>1
  <2>2. Head(s) = s[1]
    OBVIOUS
  <2> QED
    BY <2>1, <2>2
<1>5. PICK f : f = Flow(j)
  OBVIOUS
<1>6. /\ j \in JobType /\ Shaped(j) /\ j.msgs # <<>>
      /\ f \in Seq(Msgs) /\ Len(f) = 1 /\ f[1] = m /\ Range(f) = {m}
  <2>1. j = Job(<<m>>, 1, FALSE, <<>>)
    BY <1>4
  <2>2. j \in JobType
    BY <2>1 DEF Job, JobType
  <2>3. j.msgs = <<m>> /\ j.takes = 1 /\ j.rest = <<>>
    BY <2>1 DEF Job
  <2> QED
    BY <1>5, <2>2, <2>3, OneMessageFacts
<1>7. Shifted(s, f, 0)
  <2>1. ASSUME NEW i \in 1 .. n
        PROVE  IF i + 0 <= 1 THEN s[i] = f[i + 0] ELSE s[i] \notin Range(f)
    <3>1. CASE i = 1
      BY <1>4, <1>6, <3>1
    <3>2. CASE i # 1
      <4>1. s[i] # s[1]
        BY <1>2, <1>3, <3>2 DEF IsInjective
      <4>2. ~(i + 0 <= 1)
        BY <3>2
      <4> QED
        BY <1>4, <1>6, <4>1, <4>2
    <3> QED
      BY <3>1, <3>2
  <2>2. 1 <= n + 0
    BY <1>2
  <2> QED
    BY <1>1, <1>3, <1>6, <2>1, <2>2 DEF Shifted
<1>8. m \in Range(s)
  BY <1>2, <1>3, <1>4 DEF Range
<1> QED
  BY <1>5, <1>6, <1>7, <1>8 DEF Prefixed

\* A queue and a copy of the whole of it
LEMMA SameShifted ==
  ASSUME NEW s \in Seq(Msgs)
  PROVE  Shifted(s, s, 0)
<1>1. PICK n \in Nat : n = Len(s)
  BY LenProperties
<1>2. DOMAIN s = 1 .. n
  BY <1>1, LenProperties
<1>3. n <= n + 0 /\ \A i \in 1 .. n : i + 0 <= n /\ i + 0 = i
  OBVIOUS
<1>4. ASSUME NEW i \in 1 .. n
      PROVE  s[i] = s[i + 0]
  BY <1>3
<1> QED
  BY <1>1, <1>2, <1>3, <1>4 DEF Shifted

\* The run a drain asks for is of the first messages of its queue.
LEMMA AskedFacts ==
  ASSUME NEW q \in Queues, items[q] \in Seq(Msgs), IsInjective(items[q]),
         NEW j, j = FirstJob(q) \/ j = LaterJob(q)
  PROVE  /\ Prefixed(items[q], j) /\ Shifted(items[q], Flow(j), 0)
         /\ Range(Flow(j)) \subseteq Range(items[q])
<1>1. PICK s \in Seq(Msgs) : s = items[q] /\ IsInjective(s)
  OBVIOUS
<1>2. PICK o \in BOOLEAN : o = Overflowed(q)
  BY DEF Overflowed
<1>3. CASE \E n \in Nat, b \in BOOLEAN : j = Job(<<>>, n, b, <<>>)
  <2>1. PICK n \in Nat, b \in BOOLEAN : j = Job(<<>>, n, b, <<>>)
    BY <1>3
  <2>2. Prefixed(s, j) /\ Shifted(s, Flow(j), 0) /\ Flow(j) = <<>>
    BY <2>1, EmptyRunFacts
  <2>3. Range(Flow(j)) = {}
    BY <2>2 DEF Range
  <2> QED
    BY <1>1, <2>2, <2>3
<1>4. CASE s # <<>> /\ j = Alone(q)
  <2>1. j = Job(<<Head(s)>>, 1, FALSE, <<>>)
    BY <1>1, <1>4 DEF Alone
  <2>2. /\ Prefixed(s, j) /\ Shifted(s, Flow(j), 0)
        /\ Range(Flow(j)) \subseteq Range(s)
    <3>1. s # <<>> /\ IsInjective(s)
      BY <1>1, <1>4
    <3> HIDE <1>1, <1>2, <1>3, <1>4
    <3> QED
      BY <2>1, <3>1, AloneFacts
  <2> QED
    BY <1>1, <2>2
<1>5. CASE s # <<>> /\ j = Batch(s, o)
  <2>1. j \in JobType /\ Shaped(j) /\ Flow(j) = s
    BY <1>1, <1>5, BatchFacts
  <2>2. Shifted(s, Flow(j), 0)
    BY <2>1, SameShifted
  <2> QED
    BY <1>1, <2>1, <2>2 DEF Prefixed
<1>6. \/ j = SummaryOnly \/ j = NoJob \/ j = SummaryAsItem
      \/ s # <<>> /\ j = Alone(q)
      \/ s # <<>> /\ j = Batch(s, o)
  BY <1>1, <1>2 DEF FirstJob, LaterJob
<1>7. j = SummaryOnly \/ j = NoJob \/ j = SummaryAsItem
        => \E n \in Nat, b \in BOOLEAN : j = Job(<<>>, n, b, <<>>)
  BY DEF SummaryOnly, NoJob, SummaryAsItem
<1> QED
  BY <1>3, <1>4, <1>5, <1>6, <1>7

-----------------------------------------------------------------------------
(* The inductive invariant *)

Stages == {"idle", "debounce", "checked", "empty", "leaving", "starting", "running"}

Types ==
  /\ registered \in Queues \cup {None}
  /\ items \in [Queues -> Seq(Msgs)]
  /\ settings \in [Queues -> SettingsOK]
  /\ count \in [Queues -> Nat]
  /\ pc \in [Queues -> Stages]
  /\ force \in [Queues -> BOOLEAN]
  /\ job \in [Queues -> JobType]
  /\ active \in Queues \cup {None, Main}
  /\ recent \subseteq Msgs
  /\ fate \in [Msgs -> Fates]

Busy(q) == pc[q] \in {"starting", "running"}

\* The messages in a queue or in the hands of its drain
Held(q) == Range(items[q]) \cup Range(Flow(job[q]))

\* The queue holds every message once, its run is of its first messages but for
\* those that are gone, and no more were dropped than came in.
Sound(q) ==
  /\ IsInjective(items[q])
  /\ Prefixed(items[q], job[q])
  /\ Busy(q) <=> job[q] # NoJob
  /\ count[q] + Len(items[q]) <= Cardinality(recent)

\* What one queue holds came in, is in no other queue, and has not run.
IInv ==
  /\ Types
  /\ \A q \in Queues : Sound(q) /\ Held(q) \subseteq recent
  /\ \A p, q \in Queues : p # q => Held(p) \cap Held(q) = {}
  /\ \A q \in Queues : \A m \in Held(q) : fate[m] # "ran"

\* At most as many messages came in as there are, and a new one counts.
LEMMA RecentFacts ==
  ASSUME NEW R \in SUBSET Msgs, NEW T \in SUBSET Msgs, R \subseteq T
  PROVE  /\ Cardinality(R) \in Nat /\ Cardinality(T) \in Nat /\ Cardinality(Msgs) \in Nat
         /\ Cardinality(R) <= Cardinality(T) /\ Cardinality(R) <= Cardinality(Msgs)
         /\ \A m \in Msgs \ R : Cardinality(R \cup {m}) = Cardinality(R) + 1
<1>1. IsFiniteSet(Msgs)
  BY ConstantsAssumption
<1>2. IsFiniteSet(R) /\ IsFiniteSet(T)
  BY <1>1, FS_Subset
<1>3. Cardinality(R) \in Nat /\ Cardinality(T) \in Nat /\ Cardinality(Msgs) \in Nat
  BY <1>1, <1>2, FS_CardinalityType
<1>4. Cardinality(R) <= Cardinality(T) /\ Cardinality(R) <= Cardinality(Msgs)
  BY <1>1, <1>2, FS_Subset
<1>5. \A m \in Msgs \ R : Cardinality(R \cup {m}) = Cardinality(R) + 1
  BY <1>2, FS_AddElement
<1> QED
  BY <1>3, <1>4, <1>5

\* A step that changes one queue keeps the invariant if the queue is sound
\* after it, holds nothing that it did not hold but what came in, and what has
\* run it holds no longer.
OnlyAt(q) ==
  /\ \A k \in Queues : k # q =>
       /\ items'[k] = items[k] /\ job'[k] = job[k] /\ count'[k] = count[k]
       /\ Busy(k)' <=> Busy(k)
  /\ recent \subseteq recent'
  /\ Held(q)' \subseteq Held(q) \cup (recent' \ recent)
  /\ \A m \in Msgs : fate'[m] = "ran" => fate[m] = "ran" \/ m \in Held(q) \ Held(q)'
  /\ \A m \in recent' \ recent : fate'[m] # "ran"

\* A step at one queue object keeps the invariant of all.
LEMMA OneQueue ==
  ASSUME IInv, NEW q \in Queues, Types', Sound(q)', OnlyAt(q)
  PROVE  IInv'
<1>1. recent \subseteq recent' /\ recent' \subseteq Msgs /\ recent \subseteq Msgs
  BY DEF OnlyAt, IInv, Types
<1>2. /\ Held(q)' \subseteq Held(q) \cup (recent' \ recent)
      /\ \A m \in Msgs : fate'[m] = "ran" => fate[m] = "ran" \/ m \in Held(q) \ Held(q)'
      /\ \A m \in recent' \ recent : fate'[m] # "ran"
  BY DEF OnlyAt
<1>3. ASSUME NEW k \in Queues, k # q
      PROVE  Held(k)' = Held(k) /\ Sound(k)'
  <2>1. /\ items'[k] = items[k] /\ job'[k] = job[k] /\ count'[k] = count[k]
        /\ Busy(k)' <=> Busy(k)
    BY <1>3 DEF OnlyAt
  <2>2. Held(k)' = Held(k)
    BY <2>1 DEF Held
  <2>3. /\ IsInjective(items[k]) /\ Prefixed(items[k], job[k]) /\ (Busy(k) <=> job[k] # NoJob)
        /\ count[k] + Len(items[k]) <= Cardinality(recent)
    BY DEF IInv, Sound
  <2>4. PICK n \in Nat, l \in Nat : n = count[k] /\ l = Len(items[k])
    BY LenProperties DEF IInv, Types
  <2>5. PICK R, T : R = recent /\ T = recent'
    OBVIOUS
  <2>6. Cardinality(R) \in Nat /\ Cardinality(T) \in Nat /\ Cardinality(R) <= Cardinality(T)
    BY <1>1, <2>5, RecentFacts
  <2>7. n + l <= Cardinality(T)
    BY <2>3, <2>4, <2>5, <2>6
  <2>8. count'[k] + Len(items'[k]) <= Cardinality(recent')
    BY <2>1, <2>4, <2>5, <2>7
  <2> QED
    BY <2>1, <2>2, <2>3, <2>8 DEF Sound
<1>4. /\ \A k \in Queues : Held(k) \subseteq recent
      /\ \A k, l \in Queues : k # l => Held(k) \cap Held(l) = {}
      /\ \A k \in Queues : \A m \in Held(k) : fate[m] # "ran"
  BY DEF IInv
<1>5. \A k \in Queues : Sound(k)' /\ Held(k)' \subseteq recent'
  BY <1>1, <1>2, <1>3, <1>4
<1>6. \A k, l \in Queues : k # l => Held(k)' \cap Held(l)' = {}
  <2>1. ASSUME NEW k \in Queues, k # q
        PROVE  Held(k)' \cap Held(q)' = {}
    BY <1>2, <1>3, <1>4, <2>1
  <2>2. ASSUME NEW k \in Queues, NEW l \in Queues, k # q, l # q, k # l
        PROVE  Held(k)' \cap Held(l)' = {}
    BY <1>3, <1>4, <2>2
  <2> QED
    BY <2>1, <2>2
<1>7. \A k \in Queues : \A m \in Held(k)' : fate'[m] # "ran"
  <2>1. ASSUME NEW m \in Held(q)'
        PROVE  fate'[m] # "ran"
    <3>1. m \in Msgs
      BY <1>1, <1>5
    <3> QED
      BY <1>2, <1>4, <3>1
  <2>2. ASSUME NEW k \in Queues, k # q, NEW m \in Held(k)'
        PROVE  fate'[m] # "ran"
    <3>1. m \in Held(k) /\ m \in Msgs
      BY <1>1, <1>3, <1>5, <2>2
    <3>2. m \notin Held(q)
      BY <1>4, <2>2, <3>1
    <3> QED
      BY <1>2, <1>4, <3>1, <3>2
  <2> QED
    BY <2>1, <2>2
<1> QED
  BY <1>5, <1>6, <1>7 DEF IInv

-----------------------------------------------------------------------------
(* Where the drains go *)

\* A drain that is scheduled begins with its debounce.
LEMMA ScheduledFacts ==
  ASSUME Types, NEW p \in [Queues -> Stages], Scheduled(p)
  PROVE  /\ registered' \in Queues \cup {None} /\ force' \in [Queues -> BOOLEAN]
         /\ pc' \in [Queues -> Stages]
         /\ \A k \in Queues : pc'[k] = p[k] \/ (p[k] = "idle" /\ pc'[k] = "debounce")
<1>1. CASE pc' = p
  BY <1>1 DEF Scheduled, Types
<1>2. CASE pc' # p
  <2>1. /\ registered \in Queues /\ p[registered] = "idle"
        /\ pc' = [p EXCEPT ![registered] = "debounce"]
        /\ force' = [force EXCEPT ![registered] = FALSE] /\ registered' = registered
    BY <1>2 DEF Scheduled, Types
  <2>2. force' \in [Queues -> BOOLEAN]
    BY <2>1 DEF Types
  <2>3. pc' \in [Queues -> Stages]
    BY <2>1 DEF Stages
  <2> QED
    BY <2>1, <2>2, <2>3
<1> QED
  BY <1>1, <1>2

\* The drain of q is between two runs or over, the other runs go on.
Rolled(q) ==
  /\ registered' \in Queues \cup {None} /\ force' \in [Queues -> BOOLEAN]
  /\ pc' \in [Queues -> Stages]
  /\ ~Busy(q)'
  /\ \A k \in Queues : k # q => (Busy(k)' <=> Busy(k))

\* A drain that ends rests, or is scheduled anew, and disturbs no other.
LEMMA EndedFacts ==
  ASSUME Types, NEW q \in Queues, Ended(q)
  PROVE  Rolled(q)
<1>1. PICK p : p = [pc EXCEPT ![q] = "idle"]
  OBVIOUS
<1>2. /\ p \in [Queues -> Stages] /\ p[q] = "idle"
      /\ \A k \in Queues : k # q => p[k] = pc[k]
  BY <1>1 DEF Types, Stages
<1>3. CASE Scheduled(p)
  <2>1. /\ registered' \in Queues \cup {None} /\ force' \in [Queues -> BOOLEAN]
        /\ pc' \in [Queues -> Stages]
        /\ \A k \in Queues : pc'[k] = p[k] \/ (p[k] = "idle" /\ pc'[k] = "debounce")
    BY <1>2, <1>3, ScheduledFacts
  <2>2. ~(pc'[q] \in {"starting", "running"})
    BY <1>2, <2>1
  <2>3. ASSUME NEW k \in Queues, k # q
        PROVE  pc'[k] \in {"starting", "running"} <=> pc[k] \in {"starting", "running"}
    BY <1>2, <2>1, <2>3
  <2> QED
    BY <2>1, <2>2, <2>3 DEF Rolled, Busy
<1>4. CASE pc' = p /\ registered' = None /\ UNCHANGED force
  BY <1>2, <1>4 DEF Rolled, Busy, Types
<1> QED
  BY <1>1, <1>3, <1>4 DEF Ended

\* So does one whose loop goes on.
LEMMA LoopedFacts ==
  ASSUME Types, NEW q \in Queues, Looped(q)
  PROVE  Rolled(q)
<1>1. CASE Ended(q)
  BY <1>1, EndedFacts
<1>2. CASE pc' = [pc EXCEPT ![q] = "debounce"] /\ UNCHANGED <<registered, force>>
  <2>1. /\ pc' \in [Queues -> Stages] /\ pc'[q] = "debounce"
        /\ \A k \in Queues : k # q => pc'[k] = pc[k]
    BY <1>2 DEF Types, Stages
  <2> QED
    BY <1>2, <2>1 DEF Rolled, Busy, Types
<1> QED
  BY <1>1, <1>2 DEF Looped

-----------------------------------------------------------------------------
(* Every step keeps the invariant *)

\* The parts of a sequence without repetition have nothing in common.
LEMMA JoinedInjective ==
  ASSUME NEW a \in Seq(Msgs), NEW b \in Seq(Msgs), IsInjective(a \o b)
  PROVE  /\ IsInjective(b) /\ Range(a) \cap Range(b) = {}
         /\ Range(a \o b) = Range(a) \cup Range(b)
<1>1. PICK f \in Seq(Msgs) : f = a \o b
  BY ConcatProperties
<1>2. PICK g \in Nat, h \in Nat : g = Len(a) /\ h = Len(b)
  BY LenProperties
<1>3. PICK k \in Nat : k = g + h
  OBVIOUS
<1>4. Len(f) = k /\ \A i \in 1 .. k : f[i] = IF i <= g THEN a[i] ELSE b[i - g]
  BY <1>1, <1>2, <1>3, ConcatProperties
<1>5. DOMAIN a = 1 .. g /\ DOMAIN b = 1 .. h /\ DOMAIN f = 1 .. k
  BY <1>2, <1>4, LenProperties
<1>6. ASSUME NEW i \in 1 .. h
      PROVE  i + g \in 1 .. k /\ f[i + g] = b[i]
  <2>1. i + g \in 1 .. k /\ ~(i + g <= g) /\ (i + g) - g = i
    BY <1>3
  <2> QED
    BY <1>4, <2>1
<1>7. ASSUME NEW i \in 1 .. g
      PROVE  i \in 1 .. k /\ f[i] = a[i]
  <2>1. i \in 1 .. k /\ i <= g
    BY <1>3
  <2> QED
    BY <1>4, <2>1
<1>8. \A x, y \in DOMAIN f : f[x] = f[y] => x = y
  BY <1>1 DEF IsInjective
<1>9. IsInjective(b)
  <2>1. SUFFICES ASSUME NEW x \in 1 .. h, NEW y \in 1 .. h, b[x] = b[y]
                 PROVE  x = y
    BY <1>5 DEF IsInjective
  <2>2. x + g = y + g
    BY <1>5, <1>6, <1>8, <2>1
  <2> QED
    BY <2>2
<1>10. Range(a) \cap Range(b) = {}
  <2>1. SUFFICES ASSUME NEW x \in 1 .. g, NEW y \in 1 .. h, a[x] = b[y]
                 PROVE  FALSE
    BY <1>5 DEF Range
  <2>2. f[x] = f[y + g] /\ x \in DOMAIN f /\ y + g \in DOMAIN f
    BY <1>5, <1>6, <1>7, <2>1
  <2>3. x = y + g
    BY <1>8, <2>2
  <2> QED
    BY <2>3
<1> QED
  BY <1>9, <1>10, RangeConcatenation

\* No run at all
LEMMA NoJobFacts ==
  ASSUME NEW s \in Seq(Msgs)
  PROVE  /\ Prefixed(s, NoJob) /\ Shifted(s, Flow(NoJob), 0)
         /\ NoJob \in JobType /\ Range(Flow(NoJob)) = {}
<1>1. PICK n \in Nat, b \in BOOLEAN : n = 0 /\ b = FALSE
  OBVIOUS
<1>2. NoJob = Job(<<>>, n, b, <<>>)
  BY <1>1 DEF NoJob
<1>3. Prefixed(s, NoJob) /\ Shifted(s, Flow(NoJob), 0) /\ Flow(NoJob) = <<>>
  BY <1>2, EmptyRunFacts
<1>4. Range(<<>>) = {}
  BY DEF Range
<1> QED
  BY <1>3, <1>4 DEF Prefixed

\* A drain that wakes up takes a message from the front of its queue, or none.
LEMMA WakeKeeps ==
  ASSUME IInv, NEW q \in Queues, Wake(q)
  PROVE  IInv'
<1>1. Types /\ Sound(q)
  BY DEF IInv
<1>2. PICK j : j = FirstJob(q)
  OBVIOUS
<1>3. PICK c \in BOOLEAN, to \in Stages :
        /\ force' = [force EXCEPT ![q] = c]
        /\ pc' = [pc EXCEPT ![q] = to]
        /\ to \in {"starting", "running"} <=> j # NoJob
  <2>1. PICK c \in BOOLEAN : c = (force[q] \/ (settings[q].mode = "collect" /\ Cross(items[q])))
    OBVIOUS
  <2>2. PICK to : to = IF j # NoJob THEN "starting" ELSE Answer(q)
    OBVIOUS
  <2>3. Answer(q) \in {"checked", "empty", "leaving"}
    BY DEF Answer
  <2>4. to \in Stages /\ (to \in {"starting", "running"} <=> j # NoJob)
    BY <2>2, <2>3 DEF Stages
  <2> QED
    BY <1>2, <2>1, <2>2, <2>4 DEF Wake
<1>4. /\ job' = [job EXCEPT ![q] = j]
      /\ UNCHANGED <<registered, items, settings, count, active, recent, fate>>
  BY <1>2 DEF Wake
<1>5. Prefixed(items[q], j) /\ Range(Flow(j)) \subseteq Range(items[q])
  BY <1>1, <1>2, AskedFacts DEF Types, Sound
<1>6. job' \in [Queues -> JobType] /\ job'[q] = j /\ \A k \in Queues : k # q => job'[k] = job[k]
  BY <1>1, <1>4, <1>5 DEF Types, Prefixed
<1>7. /\ force' \in [Queues -> BOOLEAN] /\ pc' \in [Queues -> Stages] /\ pc'[q] = to
      /\ \A k \in Queues : k # q => pc'[k] = pc[k]
  BY <1>1, <1>3 DEF Types
<1>8. Types'
  BY <1>1, <1>4, <1>6, <1>7 DEF Types
<1>9. /\ Busy(q)' <=> j # NoJob
      /\ \A k \in Queues : k # q => (Busy(k)' <=> Busy(k))
  BY <1>3, <1>7 DEF Busy
<1>10. Sound(q)'
  BY <1>1, <1>4, <1>5, <1>6, <1>9 DEF Sound
<1>11. OnlyAt(q)
  BY <1>1, <1>4, <1>5, <1>6, <1>9 DEF OnlyAt, Held
<1> QED
  BY <1>8, <1>10, <1>11, OneQueue

\* A drain that goes on takes a batch from the front of its queue, or ends.
LEMMA GoOnKeeps ==
  ASSUME IInv, NEW q \in Queues, GoOn(q)
  PROVE  IInv'
<1>1. Types /\ Sound(q)
  BY DEF IInv
<1>2. PICK j : j = LaterJob(q)
  OBVIOUS
<1>3. /\ job' = [job EXCEPT ![q] = j]
      /\ UNCHANGED <<items, settings, count, active, recent, fate>>
  BY <1>2 DEF GoOn
<1>4. Prefixed(items[q], j) /\ Range(Flow(j)) \subseteq Range(items[q])
  BY <1>1, <1>2, AskedFacts DEF Types, Sound
<1>5. job' \in [Queues -> JobType] /\ job'[q] = j /\ \A k \in Queues : k # q => job'[k] = job[k]
  BY <1>1, <1>3, <1>4 DEF Types, Prefixed
<1>6. /\ registered' \in Queues \cup {None} /\ force' \in [Queues -> BOOLEAN]
      /\ pc' \in [Queues -> Stages]
      /\ Busy(q)' <=> j # NoJob
      /\ \A k \in Queues : k # q => (Busy(k)' <=> Busy(k))
  <2>1. CASE j = NoJob
    <3>1. Ended(q)
      BY <1>2, <2>1 DEF GoOn
    <3> QED
      BY <1>1, <2>1, <3>1, EndedFacts DEF Rolled
  <2>2. CASE j # NoJob
    <3>1. /\ pc' = [pc EXCEPT ![q] = "starting"]
          /\ UNCHANGED <<registered, force>>
      BY <1>2, <2>2 DEF GoOn
    <3>2. pc' \in [Queues -> Stages] /\ pc'[q] = "starting" /\ \A k \in Queues : k # q => pc'[k] = pc[k]
      BY <1>1, <3>1 DEF Types, Stages
    <3> QED
      BY <1>1, <2>2, <3>1, <3>2 DEF Busy, Types
  <2> QED
    BY <2>1, <2>2
<1>7. Types'
  BY <1>1, <1>3, <1>5, <1>6 DEF Types
<1>8. Sound(q)'
  BY <1>1, <1>3, <1>4, <1>5, <1>6 DEF Sound
<1>9. OnlyAt(q)
  BY <1>1, <1>3, <1>4, <1>5, <1>6 DEF OnlyAt, Held
<1> QED
  BY <1>7, <1>8, <1>9, OneQueue

\* A run that gets the session leaves the queue as it is.
LEMMA BeginKeeps ==
  ASSUME IInv, NEW q \in Queues, BeginFollowup(q)
  PROVE  IInv'
<1>1. Types /\ Sound(q)
  BY DEF IInv
<1>2. /\ pc[q] = "starting" /\ active' = q /\ pc' = [pc EXCEPT ![q] = "running"]
      /\ UNCHANGED <<registered, items, settings, count, force, job, recent, fate>>
  BY DEF BeginFollowup
<1>3. pc' \in [Queues -> Stages] /\ pc'[q] = "running" /\ \A k \in Queues : k # q => pc'[k] = pc[k]
  BY <1>1, <1>2 DEF Types, Stages
<1>4. Types'
  BY <1>1, <1>2, <1>3 DEF Types
<1>5. \A k \in Queues : Busy(k)' <=> Busy(k)
  BY <1>2, <1>3 DEF Busy
<1>6. Sound(q)' /\ OnlyAt(q)
  BY <1>1, <1>2, <1>5 DEF Sound, OnlyAt, Held
<1> QED
  BY <1>4, <1>6, OneQueue

\* A run that fails drops its job, and the queue keeps the messages.
LEMMA FailsKeeps ==
  ASSUME IInv, NEW q \in Queues, FollowupFails(q)
  PROVE  IInv'
<1>1. Types /\ Sound(q)
  BY DEF IInv
<1>2. /\ active' = IF active = q THEN None ELSE active
      /\ job' = [job EXCEPT ![q] = NoJob]
      /\ UNCHANGED <<items, settings, count, recent, fate>>
      /\ Rolled(q)
  BY <1>1, EndedFacts DEF FollowupFails
<1>3. Prefixed(items[q], NoJob) /\ NoJob \in JobType /\ Range(Flow(NoJob)) = {}
  BY <1>1, NoJobFacts DEF Types
<1>4. /\ job' \in [Queues -> JobType] /\ job'[q] = NoJob
      /\ \A k \in Queues : k # q => job'[k] = job[k]
  BY <1>1, <1>2, <1>3 DEF Types
<1>5. Types'
  BY <1>1, <1>2, <1>4 DEF Types, Rolled
<1>6. Sound(q)' /\ OnlyAt(q)
  BY <1>1, <1>2, <1>3, <1>4 DEF Sound, OnlyAt, Held, Rolled
<1> QED
  BY <1>5, <1>6, OneQueue

\* What is left of the queue s after the run j, and the next group
LeftBy(s, j) == SubSeq(s, j.takes + 1, Len(s))
NextGroup(j) == Batch(j.rest, FALSE)

\* A run of j is over: t is left of the queue s, and n is the next group.
LEMMA TakenFacts ==
  ASSUME NEW s \in Seq(Msgs), IsInjective(s), NEW j, Prefixed(s, j),
         NEW t, t = LeftBy(s, j), NEW n, n = NextGroup(j)
  PROVE  /\ t \in Seq(Msgs) /\ IsInjective(t) /\ Len(t) <= Len(s)
         /\ Range(t) \subseteq Range(s) /\ Range(t) \cap Range(j.msgs) = {}
         /\ Range(j.msgs) \subseteq Range(Flow(j))
         /\ j.rest # <<>> => /\ n # NoJob /\ Prefixed(t, n)
                             /\ Range(Flow(n)) \subseteq Range(Flow(j)) \ Range(j.msgs)
<1>1. PICK a \in Seq(Msgs), b \in Seq(Msgs), k \in Nat : a = j.msgs /\ b = j.rest /\ k = j.takes
  BY DEF Prefixed, JobType
<1>2. PICK l \in Nat : l = Len(s)
  BY LenProperties
<1>2a. t = SubSeq(s, k + 1, Len(s))
  BY <1>1 DEF LeftBy
<1>3. t \in Seq(Msgs) /\ IsInjective(t) /\ Range(t) \subseteq Range(s)
  BY <1>2a, Suffix, SuffixInjective
<1>4. Len(t) <= l
  <2>1. PICK o \in Nat : o = Len(t)
    BY <1>3, LenProperties
  <2>2. k <= l => o = l - k
    BY <1>2, <1>2a, <2>1, Suffix
  <2>3. k > l => o = 0
    <3>1. k > l => t = <<>>
      BY <1>2, <1>2a, Suffix
    <3> QED
      BY <2>1, <3>1, EmptySeq
  <2>4. o <= l
    BY <2>2, <2>3
  <2> QED
    BY <2>1, <2>4
<1>5. Flow(j) = a \o b
  BY <1>1 DEF Flow
<1>6. IsInjective(a \o b)
  BY <1>5 DEF Prefixed, Shaped
<1>7. /\ IsInjective(b) /\ Range(a) \cap Range(b) = {}
      /\ Range(a \o b) = Range(a) \cup Range(b)
  BY <1>6, JoinedInjective
<1>8. CASE a = <<>>
  <2>1. Range(a) = {}
    BY <1>8 DEF Range
  <2>2. b = <<>>
    BY <1>1, <1>8 DEF Prefixed, Shaped
  <2> QED
    BY <1>1, <1>2, <1>3, <1>4, <2>1, <2>2
<1>9. CASE a # <<>>
  <2>1. k = Len(a)
    BY <1>1, <1>9 DEF Prefixed, Shaped
  <2>2. PICK d \in Nat : Shifted(s, a \o b, d)
    BY <1>5 DEF Prefixed
  <2>3. t = SubSeq(s, Len(a) + 1, Len(s))
    BY <1>2a, <2>1
  <2>4. (\E e \in Nat : Shifted(t, b, e)) /\ Range(t) \cap Range(a) = {}
    BY <1>6, <2>2, <2>3, ShiftedTake
  <2>5. ASSUME b # <<>>
        PROVE  n # NoJob /\ Prefixed(t, n) /\ Range(Flow(n)) \subseteq Range(Flow(j)) \ Range(a)
    <3>1. PICK o \in BOOLEAN : o = FALSE /\ n = Batch(b, o)
      BY <1>1 DEF NextGroup
    <3>2. n \in JobType /\ Shaped(n) /\ Flow(n) = b /\ n # NoJob
      BY <1>7, <2>5, <3>1, BatchFacts
    <3>3. Range(Flow(n)) \subseteq Range(Flow(j)) \ Range(a)
      BY <1>5, <1>7, <3>2
    <3> QED
      BY <2>4, <3>2, <3>3 DEF Prefixed
  <2> QED
    BY <1>1, <1>2, <1>3, <1>4, <1>5, <1>7, <2>4, <2>5
<1> QED
  BY <1>8, <1>9

\* A run that returns takes its messages off the queue, as far as they are there.
LEMMA ReturnsKeeps ==
  ASSUME IInv, NEW q \in Queues, FollowupReturns(q)
  PROVE  IInv'
<1>1. Types /\ Sound(q)
  BY DEF IInv
<1>2. PICK s \in Seq(Msgs), j \in JobType : s = items[q] /\ j = job[q]
  BY <1>1 DEF Types
<1>3. PICK t, n : t = LeftBy(s, j) /\ n = NextGroup(j)
  OBVIOUS
<1>4. IsInjective(s) /\ Prefixed(s, j)
  BY <1>1, <1>2 DEF Sound
<1>5. /\ t \in Seq(Msgs) /\ IsInjective(t) /\ Len(t) <= Len(s)
      /\ Range(t) \subseteq Range(s) /\ Range(t) \cap Range(j.msgs) = {}
      /\ Range(j.msgs) \subseteq Range(Flow(j))
      /\ j.rest # <<>> => /\ n # NoJob /\ Prefixed(t, n)
                          /\ Range(Flow(n)) \subseteq Range(Flow(j)) \ Range(j.msgs)
  BY <1>3, <1>4, TakenFacts
<1>6. PICK c \in Nat : c = IF j.summary THEN 0 ELSE count[q]
  BY <1>1 DEF Types
<1>7. /\ active' = None
      /\ items' = [items EXCEPT ![q] = t]
      /\ count' = [count EXCEPT ![q] = c]
      /\ fate' = [m \in Msgs |-> IF m \in Range(j.msgs) THEN "ran" ELSE fate[m]]
      /\ UNCHANGED <<settings, recent>>
  BY <1>2, <1>3, <1>6 DEF FollowupReturns, Taken, LeftBy
<1>8. /\ items' \in [Queues -> Seq(Msgs)] /\ items'[q] = t
      /\ \A k \in Queues : k # q => items'[k] = items[k]
  BY <1>1, <1>5, <1>7 DEF Types
<1>9. /\ count' \in [Queues -> Nat] /\ count'[q] = c
      /\ \A k \in Queues : k # q => count'[k] = count[k]
  BY <1>1, <1>7 DEF Types
<1>10. /\ fate' \in [Msgs -> Fates]
       /\ \A m \in Msgs : fate'[m] = "ran" => fate[m] = "ran" \/ m \in Range(j.msgs)
  BY <1>1, <1>7 DEF Types, Fates
<1>11. PICK g : g = job'[q]
  OBVIOUS
<1>12. /\ registered' \in Queues \cup {None} /\ force' \in [Queues -> BOOLEAN]
       /\ pc' \in [Queues -> Stages]
       /\ job' \in [Queues -> JobType]
       /\ \A k \in Queues : k # q => job'[k] = job[k] /\ (Busy(k)' <=> Busy(k))
       /\ Busy(q)' <=> g # NoJob
       /\ Prefixed(t, g)
       /\ Range(Flow(g)) \subseteq Range(Flow(j)) \ Range(j.msgs)
  <2>1. CASE j.rest = <<>>
    <3>1. job' = [job EXCEPT ![q] = NoJob] /\ Rolled(q)
      BY <1>1, <1>2, <2>1, LoopedFacts DEF FollowupReturns
    <3>2. Prefixed(t, NoJob) /\ NoJob \in JobType /\ Range(Flow(NoJob)) = {}
      BY <1>5, NoJobFacts
    <3>3. /\ job' \in [Queues -> JobType] /\ g = NoJob
          /\ \A k \in Queues : k # q => job'[k] = job[k]
      BY <1>1, <1>11, <3>1, <3>2 DEF Types
    <3> QED
      BY <3>1, <3>2, <3>3 DEF Rolled
  <2>2. CASE j.rest # <<>>
    <3>1. /\ job' = [job EXCEPT ![q] = n]
          /\ pc' = [pc EXCEPT ![q] = "starting"]
          /\ UNCHANGED <<registered, force>>
      BY <1>2, <1>3, <2>2 DEF FollowupReturns, NextGroup
    <3>2. n \in JobType
      BY <1>5, <2>2 DEF Prefixed
    <3>3. /\ job' \in [Queues -> JobType] /\ g = n
          /\ \A k \in Queues : k # q => job'[k] = job[k]
      BY <1>1, <1>11, <3>1, <3>2 DEF Types
    <3>4. pc' \in [Queues -> Stages] /\ pc'[q] = "starting" /\ \A k \in Queues : k # q => pc'[k] = pc[k]
      BY <1>1, <3>1 DEF Types, Stages
    <3> QED
      BY <1>1, <1>5, <2>2, <3>1, <3>3, <3>4 DEF Busy, Types
  <2> QED
    BY <2>1, <2>2
<1>13. Types'
  BY <1>1, <1>7, <1>8, <1>9, <1>10, <1>12 DEF Types
<1>14. count'[q] + Len(items'[q]) <= Cardinality(recent')
  <2>1. PICK u \in Nat, v \in Nat, w \in Nat : u = count[q] /\ v = Len(s) /\ w = Len(t)
    BY <1>1, <1>5, LenProperties DEF Types
  <2>2. PICK x \in Nat : x = Cardinality(recent)
    BY <1>1, RecentFacts DEF Types
  <2>3. u + v <= x /\ w <= v
    BY <1>1, <1>2, <1>5, <2>1, <2>2 DEF Sound
  <2>4. c <= u
    BY <1>6, <2>1
  <2>5. c + w <= x
    BY <2>3, <2>4
  <2> QED
    BY <1>7, <1>8, <1>9, <2>1, <2>2, <2>5
<1>15. Sound(q)'
  BY <1>5, <1>8, <1>11, <1>12, <1>14 DEF Sound
<1>16. Held(q) = Range(s) \cup Range(Flow(j)) /\ Held(q)' = Range(t) \cup Range(Flow(g))
  BY <1>2, <1>8, <1>11 DEF Held
<1>17. OnlyAt(q)
  BY <1>5, <1>7, <1>8, <1>9, <1>10, <1>12, <1>16 DEF OnlyAt
<1> QED
  BY <1>13, <1>15, <1>17, OneQueue

\* The queue s with message m, when there is room for it or room is made
PushedOn(s, m, set) == Append(SubSeq(s, Len(Dropped(s, set)) + 1, Len(s)), m)

\* No more is dropped than there is.
LEMMA DroppedFacts ==
  ASSUME NEW s \in Seq(Msgs), NEW set \in SettingsOK, NEW g, g = Len(Dropped(s, set))
  PROVE  g \in Nat /\ g <= Len(s)
<1>1. PICK n \in Nat, c \in Nat : n = Len(s) /\ c = set.cap /\ c >= 1
  BY LenProperties DEF SettingsOK
<1>2. CASE n < c
  <2>1. Dropped(s, set) = <<>>
    BY <1>1, <1>2 DEF Dropped
  <2>2. g = 0
    BY <2>1, EmptySeq
  <2> QED
    BY <1>1, <2>2
<1>3. CASE ~(n < c)
  <2>1. PICK k \in Nat : k = n - c + 1
    BY <1>3
  <2>2. Dropped(s, set) = SubSeq(s, 1, k)
    BY <1>1, <1>3, <2>1 DEF Dropped
  <2>3. k <= n /\ 1 <= k /\ k - 1 + 1 = k
    BY <1>1, <1>3, <2>1
  <2>4. \A i \in 1 .. k : s[i] \in Msgs
    <3>1. \A i \in 1 .. n : s[i] \in Msgs
      BY <1>1, ElementOfSeq
    <3> QED
      BY <2>3, <3>1
  <2>5. Len(SubSeq(s, 1, k)) = IF 1 <= k THEN k - 1 + 1 ELSE 0
    BY <2>4, SubSeqProperties
  <2>6. g = k
    BY <2>2, <2>3, <2>5
  <2> QED
    BY <1>1, <2>3, <2>6
<1> QED
  BY <1>2, <1>3

\* A new message makes the queue longer by one but for those that are dropped,
\* and the run of its drain is still of its first messages.
LEMMA PushedFacts ==
  ASSUME NEW s \in Seq(Msgs), IsInjective(s), NEW j, Prefixed(s, j), NEW set \in SettingsOK,
         NEW m \in Msgs, m \notin Range(s), m \notin Range(Flow(j)),
         NEW t, t = PushedOn(s, m, set), NEW g, g = Len(Dropped(s, set))
  PROVE  /\ t \in Seq(Msgs) /\ IsInjective(t) /\ Prefixed(t, j)
         /\ Range(t) \subseteq Range(s) \cup {m}
         /\ g \in Nat /\ Len(t) + g = Len(s) + 1
<1>1. PICK n \in Nat : n = Len(s)
  BY LenProperties
<1>2. PICK k \in Nat : k = g /\ k <= n
  BY <1>1, DroppedFacts
<1>3. PICK r : r = SubSeq(s, k + 1, Len(s))
  OBVIOUS
<1>4. t = Append(r, m)
  BY <1>2, <1>3 DEF PushedOn
<1>5. r \in Seq(Msgs) /\ IsInjective(r) /\ Range(r) \subseteq Range(s)
  <2>1. r \in Seq(Msgs)
    BY <1>3, Suffix
  <2>2. IsInjective(SubSeq(s, k + 1, Len(s))) /\ Range(SubSeq(s, k + 1, Len(s))) \subseteq Range(s)
    BY SuffixInjective
  <2> QED
    BY <1>3, <2>1, <2>2
<1>6. PICK l \in Nat : l = Len(r)
  BY <1>5, LenProperties
<1>7. l = n - k
  <2>1. r = SubSeq(s, k + 1, Len(s)) /\ k <= Len(s)
    BY <1>1, <1>2, <1>3
  <2>2. Len(r) = Len(s) - k
    BY <2>1, Suffix
  <2> QED
    BY <1>1, <1>6, <2>2
<1>8. /\ t \in Seq(Msgs) /\ Len(t) = l + 1 /\ Range(t) = Range(r) \cup {m} /\ IsInjective(t)
  <2>1. m \notin Range(r)
    BY <1>5
  <2>2. PICK u \in Seq(Msgs) : u = r
    BY <1>5
  <2>3. t = Append(u, m)
    BY <1>4, <2>2
  <2>4. t \in Seq(Msgs) /\ Len(t) = Len(u) + 1
    BY <2>3, AppendProperties
  <2>5. Range(t) = Range(u) \cup {m}
    BY <2>3, Appended
  <2>6. IsInjective(t)
    BY <1>5, <2>1, <2>2, <2>3, Appended
  <2> QED
    BY <1>6, <2>2, <2>4, <2>5, <2>6
<1>9. Prefixed(t, j)
  <2>1. PICK f : f = Flow(j)
    OBVIOUS
  <2>2. f \in Seq(Msgs)
    BY <2>1, ConcatProperties DEF Prefixed, JobType, Flow
  <2>3. PICK d \in Nat : Shifted(s, f, d)
    BY <2>1 DEF Prefixed
  <2>4. PICK e \in Nat : e = d + k
    OBVIOUS
  <2>5. Shifted(r, f, e)
    BY <1>1, <1>2, <1>3, <2>2, <2>3, <2>4, ShiftedDrop
  <2>6. Shifted(t, f, e)
    BY <1>4, <1>5, <2>1, <2>2, <2>5, ShiftedAppend
  <2> QED
    BY <2>1, <2>6 DEF Prefixed
<1>10. PICK h \in Nat : h = l + 1 /\ h + k = n + 1
  BY <1>2, <1>7
<1> QED
  BY <1>1, <1>2, <1>5, <1>8, <1>9, <1>10

\* What a message changes in its queue
LEMMA PushedKeeps ==
  ASSUME IInv, NEW q \in Queues, NEW m \in Msgs, NEW set \in SettingsOK, Pushed(m, q, set)
  PROVE  /\ items' \in [Queues -> Seq(Msgs)] /\ count' \in [Queues -> Nat]
         /\ recent' \subseteq Msgs /\ fate' \in [Msgs -> Fates]
         /\ \A k \in Queues : k # q => items'[k] = items[k] /\ count'[k] = count[k]
         /\ IsInjective(items'[q]) /\ Prefixed(items'[q], job[q])
         /\ count'[q] + Len(items'[q]) <= Cardinality(recent')
         /\ recent \subseteq recent'
         /\ Range(items'[q]) \subseteq Range(items[q]) \cup (recent' \ recent)
         /\ \A n \in Msgs : fate'[n] = "ran" => fate[n] = "ran"
         /\ \A n \in recent' \ recent : fate'[n] # "ran"
<1>1. Types /\ Sound(q) /\ Held(q) \subseteq recent
  BY DEF IInv
<1>2. CASE UNCHANGED <<items, count, recent, fate>>
  BY <1>1, <1>2 DEF Types, Sound
<1>3. CASE ~ UNCHANGED <<items, count, recent, fate>>
  <2>1. PICK s \in Seq(Msgs), j \in JobType : s = items[q] /\ j = job[q]
    BY <1>1 DEF Types
  <2>2. PICK t, g : t = PushedOn(s, m, set) /\ g = Len(Dropped(s, set))
    OBVIOUS
  <2>3. /\ ~Seen(m, q)
        /\ items' = [items EXCEPT ![q] = t]
        /\ count' = [count EXCEPT ![q] = IF set.drop = "summarize" THEN count[q] + g ELSE count[q]]
        /\ recent' = recent \cup {m}
        /\ fate' = [n \in Msgs |->
             IF n = m THEN "pending"
             ELSE IF n \in Range(Dropped(s, set)) /\ fate[n] # "ran" THEN "dropped" ELSE fate[n]]
    BY <1>3, <2>1, <2>2 DEF Pushed, PushedOn
  <2>4. m \notin recent /\ m \notin Range(s) /\ m \notin Range(Flow(j))
    BY <1>1, <2>1, <2>3 DEF Seen, Held
  <2>5. IsInjective(s) /\ Prefixed(s, j)
    BY <1>1, <2>1 DEF Sound
  <2>6. /\ t \in Seq(Msgs) /\ IsInjective(t) /\ Prefixed(t, j)
        /\ Range(t) \subseteq Range(s) \cup {m}
        /\ g \in Nat /\ Len(t) + g = Len(s) + 1
    BY <2>2, <2>4, <2>5, PushedFacts
  <2>7. PICK c \in Nat : c = (IF set.drop = "summarize" THEN count[q] + g ELSE count[q]) /\ c <= count[q] + g
    <3>1. count[q] \in Nat /\ g \in Nat
      BY <1>1, <2>6 DEF Types
    <3> QED
      BY <3>1
  <2>8. /\ items' \in [Queues -> Seq(Msgs)] /\ items'[q] = t
        /\ \A k \in Queues : k # q => items'[k] = items[k]
    BY <1>1, <2>3, <2>6 DEF Types
  <2>9. /\ count' \in [Queues -> Nat] /\ count'[q] = c
        /\ \A k \in Queues : k # q => count'[k] = count[k]
    <3>1. count' = [count EXCEPT ![q] = c]
      BY <2>3, <2>7
    <3> QED
      BY <1>1, <3>1 DEF Types
  <2>10. /\ fate' \in [Msgs -> Fates]
         /\ \A n \in Msgs : fate'[n] = "ran" => fate[n] = "ran"
         /\ fate'[m] # "ran"
    BY <1>1, <2>3 DEF Types, Fates
  <2>11. recent' \subseteq Msgs /\ recent \subseteq recent' /\ recent' \ recent = {m}
    BY <1>1, <2>3, <2>4 DEF Types
  <2>12. count'[q] + Len(items'[q]) <= Cardinality(recent')
    <3>1. PICK u \in Nat, v \in Nat, w \in Nat : u = count[q] /\ v = Len(s) /\ w = Len(t)
      BY <1>1, <2>6, LenProperties DEF Types
    <3>2. PICK R : R = recent
      OBVIOUS
    <3>3. Cardinality(R) \in Nat /\ Cardinality(R \cup {m}) = Cardinality(R) + 1
      BY <1>1, <2>4, <3>2, RecentFacts DEF Types
    <3>4. PICK x \in Nat : x = Cardinality(R)
      BY <3>3
    <3>5. u + v <= x
      BY <1>1, <2>1, <3>1, <3>2, <3>4 DEF Sound
    <3>6. c <= u + g /\ w + g = v + 1 /\ g \in Nat
      BY <2>6, <2>7, <3>1
    <3>7. c + w <= x + 1
      BY <3>5, <3>6
    <3>8. Cardinality(recent') = x + 1
      BY <2>3, <3>2, <3>3, <3>4
    <3> QED
      BY <2>8, <2>9, <3>1, <3>7, <3>8
  <2> QED
    BY <2>1, <2>6, <2>8, <2>9, <2>10, <2>11, <2>12
<1> QED
  BY <1>2, <1>3

\* A new message waits at the end, whatever the drop policy takes from the front.
LEMMA EnqueueKeeps ==
  ASSUME IInv, NEW m \in Msgs, NEW set \in Settings, Enqueue(m, set)
  PROVE  IInv'
<1>1. Types
  BY DEF IInv
<1>2. set \in SettingsOK
  BY ConstantsAssumption
<1>3. PICK q \in Queues :
        /\ settings' = [settings EXCEPT ![q] = set]
        /\ Pushed(m, q, set)
        /\ IF active # None
           THEN registered' = q /\ UNCHANGED <<pc, force>>
           ELSE IF pc[q] # "idle" THEN registered' = q /\ UNCHANGED <<pc, force>>
           ELSE IF HasWorkNext(q)
           THEN /\ registered' = q
                /\ pc' = [pc EXCEPT ![q] = "debounce"]
                /\ force' = [force EXCEPT ![q] = FALSE]
           ELSE registered' = None /\ UNCHANGED <<pc, force>>
        /\ UNCHANGED <<job, active>>
  BY DEF Enqueue
<1>4. /\ items' \in [Queues -> Seq(Msgs)] /\ count' \in [Queues -> Nat]
      /\ recent' \subseteq Msgs /\ fate' \in [Msgs -> Fates]
      /\ \A k \in Queues : k # q => items'[k] = items[k] /\ count'[k] = count[k]
      /\ IsInjective(items'[q]) /\ Prefixed(items'[q], job[q])
      /\ count'[q] + Len(items'[q]) <= Cardinality(recent')
      /\ recent \subseteq recent'
      /\ Range(items'[q]) \subseteq Range(items[q]) \cup (recent' \ recent)
      /\ \A n \in Msgs : fate'[n] = "ran" => fate[n] = "ran"
      /\ \A n \in recent' \ recent : fate'[n] # "ran"
  BY <1>2, <1>3, PushedKeeps
<1>5. /\ registered' \in Queues \cup {None} /\ force' \in [Queues -> BOOLEAN]
      /\ pc' \in [Queues -> Stages]
      /\ \A k \in Queues : Busy(k)' <=> Busy(k)
  <2>1. CASE UNCHANGED <<pc, force>>
    <3>1. registered' \in Queues \cup {None}
      BY <1>3, <2>1
    <3> QED
      BY <1>1, <2>1, <3>1 DEF Types, Busy
  <2>2. CASE ~UNCHANGED <<pc, force>>
    <3>1. /\ registered' = q /\ pc[q] = "idle"
          /\ pc' = [pc EXCEPT ![q] = "debounce"] /\ force' = [force EXCEPT ![q] = FALSE]
      BY <1>3, <2>2
    <3>2. pc' \in [Queues -> Stages] /\ pc'[q] = "debounce" /\ \A k \in Queues : k # q => pc'[k] = pc[k]
      BY <1>1, <3>1 DEF Types, Stages
    <3>3. force' \in [Queues -> BOOLEAN]
      BY <1>1, <3>1 DEF Types
    <3> QED
      BY <3>1, <3>2, <3>3 DEF Busy
  <2> QED
    BY <2>1, <2>2
<1>6. Types'
  BY <1>1, <1>2, <1>3, <1>4, <1>5 DEF Types
<1>7. Sound(q)'
  BY <1>3, <1>4, <1>5 DEF Sound, IInv
<1>8. Held(q)' \subseteq Held(q) \cup (recent' \ recent)
  BY <1>3, <1>4 DEF Held
<1>9. \A n \in Msgs : fate'[n] = "ran" => fate[n] = "ran" \/ n \in Held(q) \ Held(q)'
  BY <1>4
<1>10. OnlyAt(q)
  BY <1>3, <1>4, <1>5, <1>8, <1>9 DEF OnlyAt
<1> QED
  BY <1>6, <1>7, <1>10, OneQueue

\* Whatever a drain holds, it is in step with an empty queue.
LEMMA ClearedFacts ==
  ASSUME NEW s, NEW j, Prefixed(s, j)
  PROVE  Prefixed(<<>>, j)
<1>1. PICK e \in Seq(Msgs) : e = <<>> /\ Len(e) = 0
  BY EmptySeq
<1>2. PICK f : f = Flow(j)
  OBVIOUS
<1>3. f \in Seq(Msgs)
  BY <1>2, ConcatProperties DEF Prefixed, JobType, Flow
<1>4. PICK n \in Nat : n = Len(f)
  BY <1>3, LenProperties
<1>5. DOMAIN e = 1 .. 0
  BY <1>1, LenProperties
<1>6. n <= 0 + n /\ \A i \in 1 .. 0 : FALSE
  OBVIOUS
<1>7. Shifted(e, f, n)
  BY <1>1, <1>4, <1>5, <1>6 DEF Shifted
<1> QED
  BY <1>1, <1>2, <1>7 DEF Prefixed

\* A queue that is cleared under a run has no messages and no drops left.
LEMMA ClearKeeps ==
  ASSUME IInv, Clear
  PROVE  IInv'
<1>1. Types
  BY DEF IInv
<1>2. PICK q \in Queues : q = registered
  BY <1>1 DEF Clear, Types
<1>3. Sound(q)
  BY DEF IInv
<1>4. /\ items' = [items EXCEPT ![q] = <<>>]
      /\ count' = [count EXCEPT ![q] = 0]
      /\ fate' = [m \in Msgs |->
           IF m \in Range(items[q]) /\ fate[m] # "ran" THEN "cleared" ELSE fate[m]]
      /\ registered' = None
      /\ UNCHANGED <<settings, pc, force, job, active, recent>>
  BY <1>2 DEF Clear
<1>5. PICK e \in Seq(Msgs) : e = <<>> /\ Len(e) = 0
  BY EmptySeq
<1>6. Range(e) = {} /\ IsInjective(e)
  BY <1>5 DEF Range, IsInjective
<1>7. /\ items' \in [Queues -> Seq(Msgs)] /\ items'[q] = e
      /\ \A k \in Queues : k # q => items'[k] = items[k]
  BY <1>1, <1>4, <1>5 DEF Types
<1>8. /\ count' \in [Queues -> Nat] /\ count'[q] = 0
      /\ \A k \in Queues : k # q => count'[k] = count[k]
  BY <1>1, <1>4 DEF Types
<1>9. /\ fate' \in [Msgs -> Fates]
      /\ \A m \in Msgs : fate'[m] = "ran" => fate[m] = "ran"
  BY <1>1, <1>4 DEF Types, Fates
<1>10. Types'
  BY <1>1, <1>4, <1>7, <1>8, <1>9 DEF Types
<1>11. Prefixed(e, job[q])
  BY <1>3, <1>5, ClearedFacts DEF Sound
<1>12. count'[q] + Len(items'[q]) <= Cardinality(recent')
  <2>1. PICK x \in Nat : x = Cardinality(recent)
    BY <1>1, RecentFacts DEF Types
  <2>2. 0 + 0 <= x
    OBVIOUS
  <2> QED
    BY <1>4, <1>5, <1>7, <1>8, <2>1, <2>2
<1>13. \A k \in Queues : Busy(k)' <=> Busy(k)
  BY <1>4 DEF Busy
<1>14. Sound(q)'
  BY <1>3, <1>4, <1>6, <1>7, <1>11, <1>12, <1>13 DEF Sound
<1>15. Held(q)' \subseteq Held(q)
  BY <1>4, <1>6, <1>7 DEF Held
<1>16. OnlyAt(q)
  BY <1>4, <1>7, <1>8, <1>9, <1>13, <1>15 DEF OnlyAt
<1> QED
  BY <1>10, <1>14, <1>16, OneQueue

\* Steps that touch no queue
LEMMA OutsideKeeps ==
  ASSUME IInv, StartRun \/ EndRun \/ UNCHANGED vars
  PROVE  IInv'
<1>1. Types
  BY DEF IInv
<1>2. UNCHANGED <<items, settings, count, job, recent, fate>> /\ active' \in Queues \cup {None, Main}
  BY <1>1 DEF StartRun, EndRun, vars, Types
<1>3. /\ registered' \in Queues \cup {None} /\ force' \in [Queues -> BOOLEAN]
      /\ pc' \in [Queues -> Stages]
      /\ \A k \in Queues : Busy(k)' <=> Busy(k)
  <2>1. CASE UNCHANGED <<registered, force, pc>>
    BY <1>1, <2>1 DEF Types, Busy
  <2>2. CASE EndRun
    <3>1. PICK p \in [Queues -> Stages] : p = pc
      BY <1>1 DEF Types
    <3>2. Scheduled(p)
      BY <2>2, <3>1 DEF EndRun
    <3>3. /\ registered' \in Queues \cup {None} /\ force' \in [Queues -> BOOLEAN]
          /\ pc' \in [Queues -> Stages]
          /\ \A k \in Queues : pc'[k] = p[k] \/ (p[k] = "idle" /\ pc'[k] = "debounce")
      BY <1>1, <3>2, ScheduledFacts
    <3>4. \A k \in Queues : Busy(k)' <=> Busy(k)
      BY <3>1, <3>3 DEF Busy
    <3> QED
      BY <3>3, <3>4
  <2> QED
    BY <2>1, <2>2 DEF StartRun, vars
<1>4. Types'
  BY <1>1, <1>2, <1>3 DEF Types
<1>5. \A k \in Queues : Held(k)' = Held(k)
  BY <1>2 DEF Held
<1>6. \A k \in Queues : Sound(k)'
  BY <1>2, <1>3 DEF Sound, IInv
<1> QED
  BY <1>2, <1>4, <1>5, <1>6 DEF IInv

-----------------------------------------------------------------------------
(* The theorems *)

\* At the start no queue holds anything.
LEMMA InitInvariant == Init => IInv
<1> SUFFICES ASSUME Init
             PROVE  IInv
  OBVIOUS
<1>1. PICK e \in Seq(Msgs) : e = <<>> /\ Len(e) = 0
  BY EmptySeq
<1>2. Range(e) = {} /\ IsInjective(e)
  BY <1>1 DEF Range, IsInjective
<1>3. Prefixed(e, NoJob) /\ NoJob \in JobType /\ Range(Flow(NoJob)) = {}
  BY NoJobFacts
<1>4. Types
  <2>1. items \in [Queues -> Seq(Msgs)] /\ job \in [Queues -> JobType]
    BY <1>1, <1>3 DEF Init
  <2>2. settings \in [Queues -> SettingsOK]
    BY ConstantsAssumption DEF Init
  <2>3. pc \in [Queues -> Stages] /\ force \in [Queues -> BOOLEAN] /\ count \in [Queues -> Nat]
    BY DEF Init, Stages
  <2>4. fate \in [Msgs -> Fates]
    BY DEF Init, Fates
  <2> QED
    BY <2>1, <2>2, <2>3, <2>4 DEF Init, Types
<1>5. ASSUME NEW q \in Queues
      PROVE  Sound(q) /\ Held(q) = {}
  <2>1. items[q] = e /\ job[q] = NoJob /\ pc[q] = "idle" /\ count[q] = 0 /\ recent = {}
    BY <1>1 DEF Init
  <2>2. Cardinality(recent) = 0
    BY <2>1, FS_EmptySet
  <2>3. count[q] + Len(items[q]) <= Cardinality(recent)
    BY <1>1, <2>1, <2>2
  <2>4. ~Busy(q)
    BY <2>1 DEF Busy
  <2> QED
    BY <1>2, <1>3, <2>1, <2>3, <2>4 DEF Sound, Held
<1> QED
  BY <1>4, <1>5 DEF IInv

\* Every step keeps the invariant.
LEMMA NextInvariant == IInv /\ [Next]_vars => IInv'
<1> SUFFICES ASSUME IInv, [Next]_vars
             PROVE  IInv'
  OBVIOUS
<1>1. CASE \E q \in Queues : Wake(q) \/ GoOn(q)
  BY <1>1, WakeKeeps, GoOnKeeps
<1>2. CASE \E q \in Queues : BeginFollowup(q)
  BY <1>2, BeginKeeps
<1>3. CASE \E q \in Queues : FollowupFails(q)
  BY <1>3, FailsKeeps
<1>4. CASE \E q \in Queues : FollowupReturns(q)
  BY <1>4, ReturnsKeeps
<1>5. CASE \E m \in Msgs, set \in Settings : Enqueue(m, set)
  BY <1>5, EnqueueKeeps
<1>6. CASE Clear
  BY <1>6, ClearKeeps
<1>7. CASE StartRun \/ EndRun \/ UNCHANGED vars
  BY <1>7, OutsideKeeps
<1> QED
  BY <1>1, <1>2, <1>3, <1>4, <1>5, <1>6, <1>7 DEF Next

\* In every run of the program, each queue holds a message at most once, no
\* message is in two queues, and what a queue or its drain holds has not run.
THEOREM Invariance == Spec => []IInv
BY InitInvariant, NextInvariant, PTL DEF Spec

\* The comparison remembers messages.
Compared == compared \in [Queues -> SUBSET Msgs]

Several(j) == \E m, n \in Range(Flow(j)) : m # n

\* The drain has never found destinations to differ, and its last comparison
\* found one.
Agreed(q) == ~force[q] /\ Alike(compared[q])

\* So it is before a batch is put together, and until it is delivered.
Agreement == \A q \in Queues : pc[q] = "checked" \/ Several(job[q]) => Agreed(q)

\* What the comparison remembers is what the queue held.
LEMMA ComparedKept == IInv /\ Compared /\ [Next]_vars => Compared'
<1> SUFFICES ASSUME IInv, Compared, [Next]_vars, compared' # compared
             PROVE  Compared'
  BY DEF Compared
<1>1. PICK q \in Queues : Wake(q) \/ GoOn(q) \/ FollowupFails(q) \/ FollowupReturns(q)
  BY DEF Next, vars, BeginFollowup, Enqueue, Clear, StartRun, EndRun
<1>2. CASE Wake(q)
  <2>1. PICK s \in Seq(Msgs) : s = items[q]
    BY DEF IInv, Types
  <2>2. Range(s) \subseteq Msgs
    <3>1. s \in [1 .. Len(s) -> Msgs]
      BY LenProperties
    <3> QED
      BY <3>1 DEF Range
  <2> QED
    BY <1>2, <2>1, <2>2 DEF Wake, Compared
<1>3. CASE compared' = [compared EXCEPT ![q] = {}]
  BY <1>3 DEF Compared
<1> QED
  BY <1>1, <1>2, <1>3 DEF GoOn, FollowupFails, FollowupReturns

\* A step of another: the drain of k stays where it is, or is scheduled.
Aside(k) ==
  \/ pc'[k] = pc[k] /\ force'[k] = force[k]
  \/ pc[k] = "idle" /\ pc'[k] = "debounce"

\* Scheduling a drain disturbs none that is under way.
LEMMA ScheduledAside ==
  ASSUME Types, NEW p \in [Queues -> Stages], Scheduled(p), NEW k \in Queues
  PROVE  (pc'[k] = p[k] /\ force'[k] = force[k]) \/ (p[k] = "idle" /\ pc'[k] = "debounce")
<1>1. CASE pc' = p /\ force' = force
  BY <1>1
<1>2. CASE /\ registered \in Queues /\ p[registered] = "idle"
           /\ pc' = [p EXCEPT ![registered] = "debounce"]
           /\ force' = [force EXCEPT ![registered] = FALSE]
  BY <1>2 DEF Types
<1> QED
  BY <1>1, <1>2 DEF Scheduled, Types

\* Nor does a drain that ends.
LEMMA EndedAside ==
  ASSUME Types, NEW q \in Queues, Ended(q)
  PROVE  pc'[q] \in {"idle", "debounce"} /\ \A k \in Queues : k # q => Aside(k)
<1>1. PICK p : p = [pc EXCEPT ![q] = "idle"]
  OBVIOUS
<1>2. /\ p \in [Queues -> Stages] /\ p[q] = "idle"
      /\ \A k \in Queues : k # q => p[k] = pc[k]
  BY <1>1 DEF Types, Stages
<1>3. CASE Scheduled(p)
  BY <1>2, <1>3, ScheduledAside DEF Aside
<1>4. CASE pc' = p /\ force' = force
  BY <1>2, <1>4 DEF Aside
<1> QED
  BY <1>1, <1>3, <1>4 DEF Ended

\* Nor one whose loop goes on.
LEMMA LoopedAside ==
  ASSUME Types, NEW q \in Queues, Looped(q)
  PROVE  pc'[q] \in {"idle", "debounce"} /\ \A k \in Queues : k # q => Aside(k)
<1>1. CASE Ended(q)
  BY <1>1, EndedAside
<1>2. CASE pc' = [pc EXCEPT ![q] = "debounce"] /\ force' = force
  BY <1>2 DEF Types, Aside
<1> QED
  BY <1>1, <1>2 DEF Looped

\* No run is of no messages.
LEMMA NotSeveral ==
  ASSUME NEW j, Flow(j) = <<>>
  PROVE  ~Several(j)
BY DEF Several, Range

\* NoJob in particular
LEMMA NoneNotSeveral == ~Several(NoJob)
<1>1. Range(Flow(NoJob)) = {}
  BY EmptySeq, NoJobFacts
<1> QED
  BY <1>1 DEF Several

\* The agreement of a queue that the step leaves alone
LEMMA AgreedElsewhere ==
  ASSUME IInv, Agreement, NEW k \in Queues, Aside(k),
         job'[k] = job[k], compared'[k] = compared[k],
         pc'[k] = "checked" \/ Several(job'[k])
  PROVE  Agreed(k)'
<1>1. Several(job[k]) => pc[k] # "idle"
  BY NoneNotSeveral DEF IInv, Sound, Busy
<1>2. pc'[k] = pc[k] /\ force'[k] = force[k]
  BY <1>1 DEF Aside
<1>3. Agreed(k)
  BY <1>2 DEF Agreement
<1> QED
  BY <1>2, <1>3 DEF Agreed

\* A message is alone in the run a drain asks for first.
LEMMA FirstNotSeveral ==
  ASSUME NEW q \in Queues, items[q] \in Seq(Msgs), IsInjective(items[q]),
         NEW j, j = FirstJob(q)
  PROVE  ~Several(j)
<1>1. CASE items[q] # <<>> /\ j = Alone(q)
  <2>1. \A x, y \in Range(Flow(j)) : x = y
    BY <1>1, AloneFacts DEF Alone
  <2> QED
    BY <2>1 DEF Several
<1>2. CASE \E n \in Nat, b \in BOOLEAN : j = Job(<<>>, n, b, <<>>)
  <2>1. PICK e \in Seq(Msgs) : e = <<>>
    BY EmptySeq
  <2>2. Flow(j) = <<>>
    BY <1>2, <2>1, EmptyRunFacts
  <2> QED
    BY <2>2, NotSeveral
<1>3. \/ j = NoJob \/ j = SummaryAsItem
      \/ items[q] # <<>> /\ j = Alone(q)
  BY DEF FirstJob
<1>4. j = NoJob \/ j = SummaryAsItem => \E n \in Nat, b \in BOOLEAN : j = Job(<<>>, n, b, <<>>)
  BY DEF NoJob, SummaryAsItem
<1> QED
  BY <1>1, <1>2, <1>3, <1>4

\* A comparison that finds one destination leaves the queue in agreement.
LEMMA WakeAgrees ==
  ASSUME IInv, Agreement, Compared, NEW q \in Queues, Wake(q)
  PROVE  Agreement'
<1>1. Types /\ Sound(q)
  BY DEF IInv
<1>2. PICK j : j = FirstJob(q)
  OBVIOUS
<1>3. PICK c \in BOOLEAN : c = (force[q] \/ (settings[q].mode = "collect" /\ Cross(items[q])))
  OBVIOUS
<1>4. /\ compared' = [compared EXCEPT ![q] = Range(items[q])]
      /\ force' = [force EXCEPT ![q] = c]
      /\ job' = [job EXCEPT ![q] = j]
      /\ pc' = [pc EXCEPT ![q] = IF j # NoJob THEN "starting" ELSE Answer(q)]
  BY <1>2, <1>3 DEF Wake
<1>5. /\ compared'[q] = Range(items[q]) /\ force'[q] = c /\ job'[q] = j
      /\ pc'[q] = "checked" => Answer(q) = "checked"
  BY <1>1, <1>4 DEF Types, Compared
<1>6. ~Several(job'[q])
  BY <1>1, <1>2, <1>5, FirstNotSeveral DEF Types, Sound
<1>7. ASSUME pc'[q] = "checked"
      PROVE  Agreed(q)'
  <2>1. settings[q].mode = "collect" /\ ~force[q] /\ ~Cross(items[q])
    BY <1>5, <1>7 DEF Answer, Apart
  <2>2. Alike(Range(items[q]))
    BY <1>1, <2>1, CrossFacts DEF Types
  <2>3. ~c
    BY <1>3, <2>1
  <2> QED
    BY <1>5, <2>2, <2>3 DEF Agreed
<1>8. ASSUME NEW k \in Queues, k # q
      PROVE  job'[k] = job[k] /\ compared'[k] = compared[k] /\ Aside(k)
  BY <1>1, <1>4, <1>8 DEF Types, Compared, Aside
<1> QED
  BY <1>6, <1>7, <1>8, AgreedElsewhere DEF Agreement

\* A batch is put together only where one destination was found.
LEMMA GoOnAgrees ==
  ASSUME IInv, Agreement, Compared, NEW q \in Queues, GoOn(q)
  PROVE  Agreement'
<1>1. Types /\ Sound(q)
  BY DEF IInv
<1>2. PICK j : j = LaterJob(q)
  OBVIOUS
<1>3. job' = [job EXCEPT ![q] = j]
  BY <1>2 DEF GoOn
<1>4. job'[q] = j /\ \A k \in Queues : k # q => job'[k] = job[k]
  BY <1>1, <1>3 DEF Types
<1>5. CASE j = NoJob
  <2>1. Ended(q) /\ compared' = [compared EXCEPT ![q] = {}]
    BY <1>2, <1>5 DEF GoOn
  <2>2. pc'[q] \in {"idle", "debounce"} /\ \A k \in Queues : k # q => Aside(k)
    BY <1>1, <2>1, EndedAside
  <2>3. \A k \in Queues : k # q => compared'[k] = compared[k]
    BY <2>1 DEF Compared
  <2>4. pc'[q] # "checked" /\ ~Several(job'[q])
    BY <1>4, <1>5, <2>2, NoneNotSeveral
  <2> QED
    BY <1>4, <2>2, <2>3, <2>4, AgreedElsewhere DEF Agreement
<1>6. CASE j # NoJob
  <2>1. pc' = [pc EXCEPT ![q] = "starting"] /\ UNCHANGED <<force, compared>>
    BY <1>2, <1>6 DEF GoOn
  <2>2. pc'[q] = "starting" /\ \A k \in Queues : k # q => Aside(k)
    BY <1>1, <2>1 DEF Types, Aside
  <2>3. ASSUME Several(j)
        PROVE  Agreed(q)'
    <3>1. PICK e \in Seq(Msgs), n \in Nat, b \in BOOLEAN : e = <<>> /\ n = 0 /\ b = TRUE
      BY EmptySeq
    <3>2. Flow(SummaryOnly) = <<>>
      <4>1. SummaryOnly = Job(<<>>, n, b, <<>>)
        BY <3>1 DEF SummaryOnly
      <4> QED
        BY <3>1, <4>1, EmptyRunFacts
    <3>3. j # SummaryOnly
      BY <2>3, <3>2, NotSeveral
    <3>4. pc[q] = "checked"
      BY <1>2, <1>6, <3>3 DEF LaterJob
    <3>5. Agreed(q)
      BY <3>4 DEF Agreement
    <3> QED
      BY <2>1, <3>5 DEF Agreed
  <2> QED
    BY <1>4, <2>1, <2>2, <2>3, AgreedElsewhere DEF Agreement
<1> QED
  BY <1>5, <1>6

\* The run begins, or fails, with the agreement it was asked for.
LEMMA RunAgrees ==
  ASSUME IInv, Agreement, Compared, NEW q \in Queues, BeginFollowup(q) \/ FollowupFails(q)
  PROVE  Agreement'
<1>1. Types /\ Sound(q)
  BY DEF IInv
<1>2. CASE BeginFollowup(q)
  <2>1. pc' = [pc EXCEPT ![q] = "running"] /\ UNCHANGED <<force, compared, job>>
    BY <1>2 DEF BeginFollowup
  <2>2. pc'[q] = "running" /\ \A k \in Queues : k # q => Aside(k)
    BY <1>1, <2>1 DEF Types, Aside
  <2>3. Several(job'[q]) => Agreed(q)'
    BY <2>1 DEF Agreement, Agreed
  <2> QED
    BY <2>1, <2>2, <2>3, AgreedElsewhere DEF Agreement
<1>3. CASE FollowupFails(q)
  <2>1. /\ Ended(q) /\ compared' = [compared EXCEPT ![q] = {}]
        /\ job' = [job EXCEPT ![q] = NoJob]
    BY <1>3 DEF FollowupFails
  <2>2. pc'[q] \in {"idle", "debounce"} /\ \A k \in Queues : k # q => Aside(k)
    BY <1>1, <2>1, EndedAside
  <2>3. /\ job'[q] = NoJob
        /\ \A k \in Queues : k # q => job'[k] = job[k] /\ compared'[k] = compared[k]
    BY <1>1, <2>1 DEF Compared, Types
  <2>4. pc'[q] # "checked" /\ ~Several(job'[q])
    BY <2>2, <2>3, NoneNotSeveral
  <2> QED
    BY <2>2, <2>3, <2>4, AgreedElsewhere DEF Agreement
<1> QED
  BY <1>2, <1>3

\* The groups of a batch share the agreement it was put together with.
LEMMA ReturnsAgrees ==
  ASSUME IInv, Agreement, Compared, NEW q \in Queues, FollowupReturns(q)
  PROVE  Agreement'
<1>1. Types /\ Sound(q)
  BY DEF IInv
<1>2. PICK s \in Seq(Msgs), j \in JobType : s = items[q] /\ j = job[q]
  BY <1>1 DEF Types
<1>3. PICK t, n : t = LeftBy(s, j) /\ n = NextGroup(j)
  OBVIOUS
<1>4. CASE j.rest = <<>>
  <2>1. /\ Looped(q) /\ compared' = [compared EXCEPT ![q] = {}]
        /\ job' = [job EXCEPT ![q] = NoJob]
    BY <1>2, <1>4 DEF FollowupReturns
  <2>2. pc'[q] \in {"idle", "debounce"} /\ \A k \in Queues : k # q => Aside(k)
    BY <1>1, <2>1, LoopedAside
  <2>3. /\ job'[q] = NoJob
        /\ \A k \in Queues : k # q => job'[k] = job[k] /\ compared'[k] = compared[k]
    BY <1>1, <2>1 DEF Compared, Types
  <2>4. pc'[q] # "checked" /\ ~Several(job'[q])
    BY <2>2, <2>3, NoneNotSeveral
  <2> QED
    BY <2>2, <2>3, <2>4, AgreedElsewhere DEF Agreement
<1>5. CASE j.rest # <<>>
  <2>1. /\ job' = [job EXCEPT ![q] = n]
        /\ pc' = [pc EXCEPT ![q] = "starting"]
        /\ UNCHANGED <<force, compared>>
    BY <1>2, <1>3, <1>5 DEF FollowupReturns, NextGroup
  <2>2. Range(Flow(n)) \subseteq Range(Flow(j))
    BY <1>1, <1>2, <1>3, <1>5, TakenFacts DEF Sound
  <2>3. Several(n) => Several(j)
    BY <2>2 DEF Several
  <2>4. job'[q] = n /\ \A k \in Queues : k # q => job'[k] = job[k]
    BY <1>1, <2>1 DEF Types
  <2>5. pc'[q] = "starting" /\ \A k \in Queues : k # q => Aside(k)
    BY <1>1, <2>1 DEF Types, Aside
  <2>6. Several(job'[q]) => Agreed(q)'
    BY <1>2, <2>1, <2>3, <2>4 DEF Agreement, Agreed
  <2> QED
    BY <2>1, <2>4, <2>5, <2>6, AgreedElsewhere DEF Agreement
<1> QED
  BY <1>4, <1>5

\* No other step reaches a drain that is under way.
LEMMA AgreementKept == IInv /\ Agreement /\ Compared /\ [Next]_vars => Agreement'
<1> SUFFICES ASSUME IInv, Agreement, Compared, [Next]_vars
             PROVE  Agreement'
  OBVIOUS
<1>1. CASE \E q \in Queues : \/ Wake(q) \/ GoOn(q)
                            \/ BeginFollowup(q) \/ FollowupFails(q) \/ FollowupReturns(q)
  BY <1>1, WakeAgrees, GoOnAgrees, RunAgrees, ReturnsAgrees
<1>2. CASE UNCHANGED <<job, compared>> /\ \A k \in Queues : Aside(k)
  BY <1>2, AgreedElsewhere DEF Agreement
<1>3. Types
  BY DEF IInv
<1>4. CASE \E m \in Msgs, set \in Settings : Enqueue(m, set)
  <2>1. PICK q \in Queues :
          /\ UNCHANGED <<job, compared>>
          /\ \/ UNCHANGED <<pc, force>>
             \/ /\ pc[q] = "idle" /\ pc' = [pc EXCEPT ![q] = "debounce"]
                /\ force' = [force EXCEPT ![q] = FALSE]
    BY <1>4 DEF Enqueue
  <2>2. \A k \in Queues : Aside(k)
    BY <1>3, <2>1 DEF Types, Aside
  <2> QED
    BY <1>2, <2>1, <2>2
<1>5. CASE EndRun
  <2>1. PICK p \in [Queues -> Stages] : p = pc
    BY <1>3 DEF Types
  <2>2. Scheduled(p) /\ UNCHANGED <<job, compared>>
    BY <1>5, <2>1 DEF EndRun
  <2>3. \A k \in Queues : Aside(k)
    BY <1>3, <2>1, <2>2, ScheduledAside DEF Aside
  <2> QED
    BY <1>2, <2>2, <2>3
<1>6. CASE Clear \/ StartRun \/ UNCHANGED vars
  <2>1. UNCHANGED <<job, compared, pc, force>>
    BY <1>6 DEF Clear, StartRun, vars
  <2> QED
    BY <1>2, <2>1 DEF Aside
<1> QED
  BY <1>1, <1>4, <1>5, <1>6 DEF Next

\* Nothing was compared at the start.
LEMMA InitAgreement == Init => Compared /\ Agreement
<1> SUFFICES ASSUME Init
             PROVE  Compared /\ Agreement
  OBVIOUS
<1>1. Compared
  BY DEF Init, Compared
<1>2. \A q \in Queues : pc[q] = "idle" /\ job[q] = NoJob
  BY DEF Init
<1> QED
  BY <1>1, <1>2, NoneNotSeveral DEF Agreement

\* Queues, drains and counters keep their types, and droppedCount of a queue
\* never exceeds the number of messages that came in.
THEOREM TypesKept == Spec => []TypeOK
<1>1. IInv /\ Compared => TypeOK
  <2> SUFFICES ASSUME IInv, Compared
               PROVE  TypeOK
    OBVIOUS
  <2>1. Types
    BY DEF IInv
  <2>2. ASSUME NEW q \in Queues
        PROVE  /\ items[q] \in Seq(Msgs) /\ IsInjective(items[q])
               /\ settings[q] \in SettingsOK
               /\ count[q] \in 0 .. Cardinality(Msgs)
               /\ pc[q] \in Stages
               /\ pc[q] \in {"starting", "running"} <=> job[q] # NoJob
               /\ force[q] \in BOOLEAN
               /\ compared[q] \subseteq Msgs
    <3>1. Sound(q)
      BY DEF IInv
    <3>2. PICK u \in Nat, v \in Nat : u = count[q] /\ v = Len(items[q])
      BY <2>1, LenProperties DEF Types
    <3>3. PICK x \in Nat, y \in Nat : x = Cardinality(recent) /\ y = Cardinality(Msgs) /\ x <= y
      BY <2>1, RecentFacts DEF Types
    <3>4. u + v <= x
      BY <3>1, <3>2, <3>3 DEF Sound
    <3>5. u \in 0 .. y
      BY <3>3, <3>4
    <3> QED
      BY <2>1, <3>1, <3>2, <3>3, <3>5 DEF Sound, Busy, Types, Compared
  <2> QED
    BY <2>1, <2>2 DEF TypeOK, Types, Stages
<1> QED
  BY <1>1, Invariance, InitAgreement, ComparedKept, PTL DEF Spec

\* A collect batch never mixes authorizations, and no drain that found
\* destinations to differ asks for one; what a batch holds of the messages the
\* drain compared has one destination, whatever comes in, is dropped or is
\* cleared while the batch is put together, retried or split.
THEOREM BatchesStayUniform == Spec => []BatchesAreUniform
<1>1. IInv /\ Agreement => BatchesAreUniform
  <2> SUFFICES ASSUME IInv, Agreement, NEW q \in Queues,
                      NEW m \in Range(job[q].msgs), NEW n \in Range(job[q].msgs), m # n
               PROVE  /\ Auth[m] = Auth[n] /\ ~force[q]
                      /\ {m, n} \subseteq compared[q] => Route[m] = Route[n] /\ Route[m] # BadRoute
    BY DEF BatchesAreUniform
  <2>1. Prefixed(items[q], job[q])
    BY DEF IInv, Sound
  <2>2. PICK a \in Seq(Msgs), b \in Seq(Msgs) : a = job[q].msgs /\ b = job[q].rest
    BY <2>1 DEF Prefixed, JobType
  <2>3. Flow(job[q]) = a \o b /\ IsInjective(a \o b)
    BY <2>1, <2>2 DEF Flow, Prefixed, Shaped
  <2>4. Range(a) \subseteq Range(Flow(job[q]))
    BY <2>3, JoinedInjective
  <2>5. Agreed(q)
    BY <2>2, <2>4 DEF Agreement, Several
  <2>6. Auth[m] = Auth[n]
    BY <2>1 DEF Prefixed, Shaped
  <2> QED
    BY <2>5, <2>6 DEF Agreed, Alike
<1> QED
  BY <1>1, Invariance, InitAgreement, ComparedKept, AgreementKept, PTL DEF Spec

\* A run never delivers a message that was delivered before: not after a failed
\* batch is put together again, not after a drop or a clear during the run, and
\* not when the channel delivers the message a second time.
THEOREM NothingRunsTwice == Spec => DeliveredOnce
<1>1. IInv /\ [Next]_vars =>
        [\A q \in Queues : FollowupReturns(q) => \A m \in Range(job[q].msgs) : fate[m] # "ran"]_vars
  <2> SUFFICES ASSUME IInv, NEW q \in Queues, NEW m \in Range(job[q].msgs)
               PROVE  fate[m] # "ran"
    OBVIOUS
  <2>1. Prefixed(items[q], job[q])
    BY DEF IInv, Sound
  <2>2. PICK a \in Seq(Msgs), b \in Seq(Msgs) : a = job[q].msgs /\ b = job[q].rest
    BY <2>1 DEF Prefixed, JobType
  <2>3. Flow(job[q]) = a \o b /\ IsInjective(a \o b)
    BY <2>1, <2>2 DEF Flow, Prefixed, Shaped
  <2>4. Range(a) \subseteq Range(Flow(job[q]))
    BY <2>3, JoinedInjective
  <2>5. m \in Held(q)
    BY <2>2, <2>4 DEF Held
  <2> QED
    BY <2>5 DEF IInv
<1> QED
  BY <1>1, Invariance, PTL DEF Spec, DeliveredOnce

-----------------------------------------------------------------------------
(* Without /stop and session resets, work is where somebody looks for it *)

AtWork(q) == HasWork(q) \/ pc[q] # "idle"

\* Whatever is at work is the registered queue.
Found == \A q \in Queues : AtWork(q) => q = registered

\* Scheduling the registered queue loses it only if it has no work.
LEMMA ScheduledFound ==
  ASSUME Types, NEW p \in [Queues -> Stages], Scheduled(p),
         \A k \in Queues : HasWorkNext(k) \/ p[k] # "idle" => k = registered
  PROVE  Found'
<1> SUFFICES ASSUME NEW k \in Queues, AtWork(k)'
             PROVE  k = registered'
  BY DEF Found
<1>1. HasWorkNext(k) \/ pc'[k] # "idle"
  BY DEF AtWork, HasWork, HasWorkNext
<1>2. CASE pc' = p
  BY <1>1, <1>2 DEF Scheduled
<1>3. CASE pc' # p
  <2>1. /\ registered \in Queues /\ pc' = [p EXCEPT ![registered] = "debounce"]
        /\ registered' = registered
    BY <1>3 DEF Scheduled, Types
  <2>2. k # registered => pc'[k] = p[k]
    BY <2>1
  <2> QED
    BY <1>1, <2>1, <2>2
<1> QED
  BY <1>2, <1>3

\* The drain of the registered queue ends only when no work is left in it.
LEMMA EndedFound ==
  ASSUME Types, NEW q \in Queues, Ended(q), q = registered,
         \A k \in Queues : k # q => ~HasWorkNext(k) /\ pc[k] = "idle"
  PROVE  Found'
<1>1. PICK p : p = [pc EXCEPT ![q] = "idle"]
  OBVIOUS
<1>2. p \in [Queues -> Stages] /\ \A k \in Queues : p[k] = "idle"
  BY <1>1 DEF Types, Stages
<1>3. CASE Scheduled(p)
  BY <1>2, <1>3, ScheduledFound
<1>4. CASE ~HasWorkNext(q) /\ pc' = p
  BY <1>2, <1>4 DEF Found, AtWork, HasWork, HasWorkNext
<1> QED
  BY <1>1, <1>3, <1>4 DEF Ended

\* So does its loop.
LEMMA LoopedFound ==
  ASSUME Types, NEW q \in Queues, Looped(q), q = registered,
         \A k \in Queues : k # q => ~HasWorkNext(k) /\ pc[k] = "idle"
  PROVE  Found'
<1>1. CASE Ended(q)
  BY <1>1, EndedFound
<1>2. CASE pc' = [pc EXCEPT ![q] = "debounce"] /\ registered' = registered
  <2>1. \A k \in Queues : k # q => pc'[k] = "idle"
    BY <1>2 DEF Types
  <2> QED
    BY <1>2, <2>1 DEF Found, AtWork, HasWork, HasWorkNext
<1> QED
  BY <1>1, <1>2 DEF Looped

\* What a message leaves alone
LEMMA PushedElsewhere ==
  ASSUME Types, NEW q \in Queues, NEW m, NEW set, Pushed(m, q, set)
  PROVE  \A k \in Queues : k # q => items'[k] = items[k] /\ count'[k] = count[k]
<1>1. CASE UNCHANGED <<items, count>>
  BY <1>1
<1>2. CASE ~UNCHANGED <<items, count>>
  <2>1. PICK t, c : items' = [items EXCEPT ![q] = t] /\ count' = [count EXCEPT ![q] = c]
    BY <1>2 DEF Pushed
  <2> QED
    BY <2>1 DEF Types
<1> QED
  BY <1>1, <1>2

\* A step of the drain of q leaves the work of the others alone.
LEMMA DrainFound ==
  ASSUME Types, Found, NEW q \in Queues,
         \/ Wake(q) \/ GoOn(q)
         \/ BeginFollowup(q) \/ FollowupFails(q) \/ FollowupReturns(q)
  PROVE  Found'
<1>1. pc[q] # "idle"
  BY DEF Wake, GoOn, BeginFollowup, FollowupFails, FollowupReturns
<1>2. q = registered /\ \A k \in Queues : k # q => ~HasWork(k) /\ pc[k] = "idle"
  BY <1>1 DEF Found, AtWork
<1>3. PICK t, c : /\ items' = items \/ items' = [items EXCEPT ![q] = t]
                  /\ count' = count \/ count' = [count EXCEPT ![q] = c]
  <2>1. CASE Wake(q) \/ GoOn(q) \/ BeginFollowup(q) \/ FollowupFails(q)
    BY <2>1 DEF Wake, GoOn, BeginFollowup, FollowupFails
  <2>2. CASE FollowupReturns(q)
    BY <2>2 DEF FollowupReturns
  <2> QED
    BY <2>1, <2>2
<1>4. \A k \in Queues : k # q => ~HasWorkNext(k) /\ ~HasWork(k)'
  BY <1>2, <1>3 DEF HasWork, HasWorkNext, Types
<1>5. CASE Ended(q)
  BY <1>2, <1>4, <1>5, EndedFound
<1>6. CASE Looped(q)
  BY <1>2, <1>4, <1>6, LoopedFound
<1>7. CASE registered' = registered /\ \E to \in Stages : pc' = [pc EXCEPT ![q] = to]
  <2>1. \A k \in Queues : k # q => pc'[k] = "idle"
    BY <1>2, <1>7 DEF Types
  <2> QED
    BY <1>2, <1>4, <1>7, <2>1 DEF Found, AtWork
<1>8. CASE Wake(q)
  <2>1. PICK to : to = IF FirstJob(q) # NoJob THEN "starting" ELSE Answer(q)
    OBVIOUS
  <2>2. to \in Stages
    BY <2>1 DEF Answer, Stages
  <2>3. registered' = registered /\ pc' = [pc EXCEPT ![q] = to]
    BY <1>8, <2>1 DEF Wake
  <2> QED
    BY <1>7, <2>2, <2>3
<1> QED
  BY <1>5, <1>6, <1>7, <1>8 DEF GoOn, BeginFollowup, FollowupFails, FollowupReturns, Stages

\* Who enqueues registers the queue and schedules its drain.
LEMMA EnqueueFound ==
  ASSUME Types, Found, NEW m \in Msgs, NEW set \in Settings, Enqueue(m, set)
  PROVE  Found'
<1>1. PICK q \in Queues :
        /\ IF registered = None
           THEN pc[q] = "idle" /\ ~HasWork(q)
           ELSE q = registered
        /\ Pushed(m, q, set)
        /\ \/ registered' = q /\ pc' = pc
           \/ registered' = q /\ pc' = [pc EXCEPT ![q] = "debounce"]
           \/ registered' = None /\ pc' = pc /\ pc[q] = "idle" /\ ~HasWorkNext(q)
  BY DEF Enqueue
<1>2. \A k \in Queues : k # q => ~HasWork(k) /\ pc[k] = "idle"
  BY <1>1, ConstantsAssumption DEF Found, AtWork
<1>3. \A k \in Queues : k # q => ~HasWork(k)' /\ pc'[k] = "idle"
  <2>1. \A k \in Queues : k # q => items'[k] = items[k] /\ count'[k] = count[k]
    BY <1>1, PushedElsewhere
  <2>2. \A k \in Queues : k # q => pc'[k] = pc[k]
    BY <1>1 DEF Types
  <2> QED
    BY <1>2, <2>1, <2>2 DEF HasWork
<1>4. CASE registered' = q
  BY <1>3, <1>4 DEF Found, AtWork
<1>5. CASE pc' = pc /\ pc[q] = "idle" /\ ~HasWorkNext(q)
  BY <1>3, <1>5 DEF Found, AtWork, HasWork, HasWorkNext
<1> QED
  BY <1>1, <1>4, <1>5

\* As long as nothing clears queues, messages that wait are in the registered
\* queue, where the next message and every drain that ends find them.  With
\* clears this does not hold: a drain that outlived its queue removes whatever
\* queue is registered by then.
THEOREM NoWorkIsLost ==
  ASSUME ~Clears
  PROVE  Spec => []NoOrphan
<1>1. Init => Found
  BY DEF Init, Found, AtWork, HasWork
<1>2. ASSUME IInv, Found, [Next]_vars
      PROVE  Found'
  <2>1. Types
    BY <1>2 DEF IInv
  <2>2. CASE \E q \in Queues : \/ Wake(q) \/ GoOn(q)
                               \/ BeginFollowup(q) \/ FollowupFails(q) \/ FollowupReturns(q)
    BY <1>2, <2>1, <2>2, DrainFound
  <2>3. CASE \E m \in Msgs, set \in Settings : Enqueue(m, set)
    BY <1>2, <2>1, <2>3, EnqueueFound
  <2>4. CASE Clear
    BY <2>4 DEF Clear
  <2>5. CASE EndRun
    <3>1. PICK p \in [Queues -> Stages] : p = pc
      BY <2>1 DEF Types
    <3>2. Scheduled(p) /\ items' = items /\ count' = count
      BY <2>5, <3>1 DEF EndRun
    <3>3. \A k \in Queues : HasWorkNext(k) \/ p[k] # "idle" => k = registered
      BY <1>2, <3>1, <3>2 DEF Found, AtWork, HasWork, HasWorkNext
    <3> QED
      BY <2>1, <3>2, <3>3, ScheduledFound
  <2>6. CASE StartRun \/ UNCHANGED vars
    BY <1>2, <2>6 DEF StartRun, vars, Found, AtWork, HasWork
  <2> QED
    BY <1>2, <2>2, <2>3, <2>4, <2>5, <2>6 DEF Next
<1>3. Found => NoOrphan
  BY DEF Found, AtWork, HasWork, NoOrphan
<1> QED
  BY <1>1, <1>2, <1>3, Invariance, PTL DEF Spec

-----------------------------------------------------------------------------
(* With room for all messages, or drop policy new, none vanishes *)

Ample == \A set \in Settings : set.drop = "new" \/ set.cap >= Cardinality(Msgs)

\* Nothing was dropped, and the run takes off what it delivers: the first
\* messages of its queue, unless the queue was cleared and is out of reach.
Whole(q) ==
  /\ count[q] = 0
  /\ job[q].takes = Len(job[q].msgs)
  /\ (items[q] = <<>> /\ q # registered) \/ Shifted(items[q], Flow(job[q]), 0)

AllWhole == \A q \in Queues : Whole(q)

\* A drain that ends leaves the registered queue or no queue.
LEMMA DrainKeepsRegistered ==
  ASSUME NEW q, Ended(q) \/ Looped(q) \/ (\E p : Scheduled(p))
  PROVE  registered' \in {registered, None}
BY DEF Looped, Ended, Scheduled

\* Without drops to report, the run that is asked for takes what it delivers.
LEMMA AskedTakes ==
  ASSUME NEW q \in Queues, items[q] \in Seq(Msgs), IsInjective(items[q]), count[q] = 0,
         NEW j, j = FirstJob(q) \/ j = LaterJob(q)
  PROVE  j.takes = Len(j.msgs)
<1>1. ~Overflowed(q)
  BY DEF Overflowed
<1>2. CASE j = NoJob
  BY <1>2, EmptySeq DEF NoJob, Job
<1>3. CASE items[q] # <<>> /\ j = Alone(q)
  <2>1. Prefixed(items[q], j) /\ j.msgs # <<>>
    BY <1>3, AloneFacts DEF Alone
  <2> QED
    BY <2>1 DEF Prefixed, Shaped
<1>4. CASE items[q] # <<>> /\ \E o \in BOOLEAN : j = Batch(items[q], o)
  <2>1. Shaped(j) /\ j.msgs # <<>>
    BY <1>4, BatchFacts
  <2> QED
    BY <2>1 DEF Shaped
<1>5. \/ j = NoJob
      \/ items[q] # <<>> /\ j = Alone(q)
      \/ items[q] # <<>> /\ \E o \in BOOLEAN : j = Batch(items[q], o)
  <2>1. PICK o \in BOOLEAN : o = Overflowed(q)
    BY DEF Overflowed
  <2> QED
    BY <1>1, <2>1 DEF FirstJob, LaterJob
<1> QED
  BY <1>2, <1>3, <1>4, <1>5

\* The next group takes what it delivers.
LEMMA NextGroupTakes ==
  ASSUME NEW j \in JobType, Shaped(j), j.rest # <<>>, NEW n, n = NextGroup(j)
  PROVE  n.takes = Len(n.msgs) /\ Flow(n) = j.rest
<1>1. PICK a \in Seq(Msgs), b \in Seq(Msgs) : a = j.msgs /\ b = j.rest
  BY DEF JobType
<1>2. Flow(j) = a \o b /\ IsInjective(a \o b)
  BY <1>1 DEF Flow, Shaped
<1>3. IsInjective(b) /\ Range(b) \subseteq Range(Flow(j))
  BY <1>2, JoinedInjective
<1>4. PICK o \in BOOLEAN : o = FALSE /\ n = Batch(b, o)
  BY <1>1 DEF NextGroup
<1>5. Shaped(n) /\ Flow(n) = b /\ n.msgs # <<>>
  BY <1>1, <1>3, <1>4, BatchFacts
<1> QED
  BY <1>1, <1>5 DEF Shaped

\* What is left after a run of the first messages, and the group that comes next
LEMMA TakenWhole ==
  ASSUME NEW s \in Seq(Msgs), NEW j, Prefixed(s, j), j.takes = Len(j.msgs),
         Shifted(s, Flow(j), 0), NEW t, t = LeftBy(s, j), NEW n, n = NextGroup(j)
  PROVE  /\ Range(s) \subseteq Range(t) \cup Range(j.msgs)
         /\ j.rest # <<>> => n.takes = Len(n.msgs) /\ Shifted(t, Flow(n), 0)
<1>1. PICK a \in Seq(Msgs), b \in Seq(Msgs), k \in Nat : a = j.msgs /\ b = j.rest /\ k = j.takes
  BY DEF Prefixed, JobType
<1>2. Flow(j) = a \o b /\ IsInjective(a \o b)
  BY <1>1 DEF Flow, Prefixed, Shaped
<1>3. k = Len(a)
  BY <1>1
<1>4. t = SubSeq(s, Len(a) + 1, Len(s))
  BY <1>1, <1>3 DEF LeftBy
<1>5. PICK d \in Nat : d = 0
  OBVIOUS
<1>6. Shifted(s, a \o b, d)
  BY <1>2, <1>5
<1>7. Shifted(t, b, 0) /\ Range(s) \subseteq Range(t) \cup Range(a)
  BY <1>2, <1>4, <1>5, <1>6, ShiftedTake
<1>8. b # <<>> => n.takes = Len(n.msgs) /\ Flow(n) = b
  BY <1>1, NextGroupTakes DEF Prefixed
<1> QED
  BY <1>1, <1>7, <1>8

\* A step that changes only queue q: the others stay whole.
LEMMA WholeElsewhere ==
  ASSUME AllWhole, NEW q \in Queues, Whole(q)', registered' \in {registered, None, q},
         \A k \in Queues : k # q => /\ items'[k] = items[k] /\ job'[k] = job[k]
                                    /\ count'[k] = count[k],
         None \notin Queues
  PROVE  AllWhole'
<1> SUFFICES ASSUME NEW k \in Queues, k # q
             PROVE  Whole(k)'
  BY DEF AllWhole
<1>1. Whole(k) /\ items'[k] = items[k] /\ job'[k] = job[k] /\ count'[k] = count[k]
  BY DEF AllWhole
<1>2. k # registered => k # registered'
  OBVIOUS
<1> QED
  BY <1>1, <1>2 DEF Whole

\* The steps of a drain settle what they run, and nothing else.
LEMMA DrainWhole ==
  ASSUME IInv, AllWhole, NoneVanish, NEW q \in Queues,
         \/ Wake(q) \/ GoOn(q)
         \/ BeginFollowup(q) \/ FollowupFails(q) \/ FollowupReturns(q)
  PROVE  AllWhole' /\ NoneVanish'
<1>1. Types /\ Sound(q) /\ Whole(q) /\ None \notin Queues
  BY ConstantsAssumption DEF IInv, AllWhole
<1>2. PICK s \in Seq(Msgs), j \in JobType : s = items[q] /\ j = job[q]
  BY <1>1 DEF Types
<1>3. IsInjective(s) /\ Prefixed(s, j) /\ (Busy(q) <=> j # NoJob)
  BY <1>1, <1>2 DEF Sound
<1>4. registered' \in {registered, None}
  BY DrainKeepsRegistered DEF Wake, GoOn, BeginFollowup, FollowupFails, FollowupReturns
<1>5. NoJob.takes = Len(NoJob.msgs) /\ NoJob \in JobType
  <2>1. NoJob.takes = 0 /\ NoJob.msgs = <<>>
    BY DEF NoJob, Job
  <2> QED
    BY <1>2, <2>1, EmptySeq, NoJobFacts
<1>6. CASE Wake(q) \/ GoOn(q)
  <2>1. PICK n : n = IF Wake(q) THEN FirstJob(q) ELSE LaterJob(q)
    OBVIOUS
  <2>2. job' = [job EXCEPT ![q] = n] /\ UNCHANGED <<items, count, fate>>
    BY <1>6, <2>1 DEF Wake, GoOn
  <2>3. n.takes = Len(n.msgs) /\ Shifted(s, Flow(n), 0)
    <3>1. n = FirstJob(q) \/ n = LaterJob(q)
      BY <2>1
    <3> QED
      BY <1>1, <1>2, <1>3, <3>1, AskedTakes, AskedFacts DEF Whole
  <2>4. job'[q] = n /\ \A k \in Queues : k # q => job'[k] = job[k]
    BY <1>1, <2>2 DEF Types
  <2>5. Whole(q)'
    BY <1>1, <1>2, <2>2, <2>3, <2>4 DEF Whole
  <2>6. AllWhole'
    BY <1>1, <1>4, <2>2, <2>4, <2>5, WholeElsewhere
  <2> QED
    BY <2>2, <2>6 DEF NoneVanish
<1>7. CASE BeginFollowup(q)
  <2>1. UNCHANGED <<registered, items, count, job, fate>>
    BY <1>7 DEF BeginFollowup
  <2> QED
    BY <2>1 DEF AllWhole, Whole, NoneVanish
<1>8. CASE FollowupFails(q)
  <2>1. job' = [job EXCEPT ![q] = NoJob] /\ UNCHANGED <<items, count, fate>>
    BY <1>8 DEF FollowupFails
  <2>2. job'[q] = NoJob /\ \A k \in Queues : k # q => job'[k] = job[k]
    BY <1>1, <2>1 DEF Types
  <2>3. Shifted(s, Flow(NoJob), 0)
    BY NoJobFacts
  <2>4. Whole(q)'
    BY <1>1, <1>2, <1>5, <2>1, <2>2, <2>3 DEF Whole
  <2>5. AllWhole'
    BY <1>1, <1>4, <2>1, <2>2, <2>4, WholeElsewhere
  <2> QED
    BY <2>1, <2>5 DEF NoneVanish
<1>9. CASE FollowupReturns(q)
  <2>1. PICK t, n : t = LeftBy(s, j) /\ n = NextGroup(j)
    OBVIOUS
  <2>2. /\ items' = [items EXCEPT ![q] = t]
        /\ fate' = [m \in Msgs |-> IF m \in Range(j.msgs) THEN "ran" ELSE fate[m]]
        /\ job' = [job EXCEPT ![q] = IF j.rest = <<>> THEN NoJob ELSE n]
    BY <1>2, <1>9, <2>1 DEF FollowupReturns, Taken, LeftBy, NextGroup
  <2>3. PICK c : c = 0 /\ count' = [count EXCEPT ![q] = c]
    BY <1>1, <1>9 DEF FollowupReturns, Whole, Types
  <2>4. /\ items'[q] = t /\ job'[q] = (IF j.rest = <<>> THEN NoJob ELSE n) /\ count'[q] = 0
        /\ \A k \in Queues : k # q => /\ items'[k] = items[k] /\ job'[k] = job[k]
                                      /\ count'[k] = count[k]
    BY <1>1, <2>2, <2>3 DEF Types
  <2>5. t \in Seq(Msgs) /\ Range(t) \subseteq Range(s)
    BY <1>3, <2>1, TakenFacts
  <2>6. CASE s = <<>> /\ q # registered
    <3>1. t = <<>>
      <4>1. Range(s) = {}
        BY <2>6 DEF Range
      <4>2. \A i \in DOMAIN t : t[i] \in Range(t)
        BY DEF Range
      <4>3. DOMAIN t = {}
        BY <2>5, <4>1, <4>2
      <4>4. PICK l \in Nat : l = Len(t)
        BY <2>5, LenProperties
      <4>5. 1 .. l = {}
        BY <2>5, <4>3, <4>4, LenProperties
      <4>6. l = 0
        BY <4>5
      <4> QED
        BY <2>5, <4>4, <4>6, EmptySeq
    <3>2. j.rest # <<>> => n.takes = Len(n.msgs)
      BY <1>3, <2>1, NextGroupTakes DEF Prefixed
    <3>3. q # registered'
      BY <1>1, <1>4, <2>6
    <3>4. Whole(q)'
      BY <1>5, <2>4, <3>1, <3>2, <3>3 DEF Whole
    <3>5. AllWhole'
      BY <1>1, <1>4, <2>4, <3>4, WholeElsewhere
    <3>6. NoneVanish'
      <4> SUFFICES ASSUME NEW m \in Msgs, fate'[m] = "pending"
                   PROVE  \E k \in Queues : m \in Range(items'[k])
        BY DEF NoneVanish
      <4>1. fate[m] = "pending"
        BY <2>2
      <4>2. PICK k \in Queues : m \in Range(items[k])
        BY <4>1 DEF NoneVanish
      <4>a. Range(s) = {}
        BY <2>6 DEF Range
      <4>3. k # q
        BY <1>2, <4>2, <4>a
      <4> QED
        BY <2>4, <4>2, <4>3
    <3> QED
      BY <3>5, <3>6
  <2>7. CASE Shifted(s, Flow(j), 0)
    <3>1. j.takes = Len(j.msgs)
      BY <1>1, <1>2 DEF Whole
    <3>2. /\ Range(s) \subseteq Range(t) \cup Range(j.msgs)
          /\ j.rest # <<>> => n.takes = Len(n.msgs) /\ Shifted(t, Flow(n), 0)
      BY <1>3, <2>1, <2>7, <3>1, TakenWhole
    <3>3. Shifted(t, Flow(NoJob), 0)
      BY <2>5, NoJobFacts
    <3>4. Whole(q)'
      BY <1>5, <2>4, <3>2, <3>3 DEF Whole
    <3>5. AllWhole'
      BY <1>1, <1>4, <2>4, <3>4, WholeElsewhere
    <3>6. NoneVanish'
      <4> SUFFICES ASSUME NEW m \in Msgs, fate'[m] = "pending"
                   PROVE  \E k \in Queues : m \in Range(items'[k])
        BY DEF NoneVanish
      <4>1. fate[m] = "pending" /\ m \notin Range(j.msgs)
        BY <2>2
      <4>2. PICK k \in Queues : m \in Range(items[k])
        BY <4>1 DEF NoneVanish
      <4>3. m \in Range(items'[k])
        BY <1>2, <2>4, <3>2, <4>1, <4>2
      <4> QED
        BY <4>3
    <3> QED
      BY <3>5, <3>6
  <2> QED
    BY <1>1, <1>2, <2>6, <2>7 DEF Whole
<1> QED
  BY <1>6, <1>7, <1>8, <1>9

\* With room for every message, nothing has to go for a new one.
LEMMA NothingDropped ==
  ASSUME Ample, NEW set \in Settings, NEW s \in Seq(Msgs), Len(s) < Cardinality(Msgs),
         Cardinality(Msgs) \in Nat, set.drop # "new"
  PROVE  Dropped(s, set) = <<>>
<1>1. PICK n \in Nat, c \in Nat, x \in Nat : n = Len(s) /\ c = set.cap /\ x = Cardinality(Msgs)
  BY ConstantsAssumption, LenProperties DEF SettingsOK
<1>2. c >= x /\ n < x
  BY <1>1 DEF Ample
<1>3. n < c
  BY <1>2
<1> QED
  BY <1>1, <1>3 DEF Dropped

\* A new message is only added.
LEMMA PushedWhole ==
  ASSUME IInv, Ample, AllWhole, NEW q \in Queues, NEW m \in Msgs, NEW set \in Settings,
         Pushed(m, q, set), ~UNCHANGED <<items, count, recent, fate>>
  PROVE  /\ m \notin Held(q)
         /\ items' = [items EXCEPT ![q] = Append(items[q], m)]
         /\ count'[q] = 0
         /\ \A n \in Msgs : fate'[n] = "pending" => n = m \/ fate[n] = "pending"
<1>1. Types /\ Sound(q) /\ Held(q) \subseteq recent /\ count[q] = 0
  BY DEF IInv, AllWhole, Whole
<1>2. PICK s \in Seq(Msgs) : s = items[q]
  BY <1>1 DEF Types
<1>3. PICK gone : gone = Dropped(s, set)
  OBVIOUS
<1>4. PICK g \in Nat : g = Len(gone) /\ g <= Len(s)
  BY <1>2, <1>3, DroppedFacts, ConstantsAssumption
<1>5. /\ ~Seen(m, q) /\ ~(gone # <<>> /\ set.drop = "new")
      /\ items' = [items EXCEPT ![q] = Append(SubSeq(s, g + 1, Len(s)), m)]
      /\ count' = [count EXCEPT ![q] = IF set.drop = "summarize" THEN count[q] + g ELSE count[q]]
      /\ fate' = [n \in Msgs |->
           IF n = m THEN "pending"
           ELSE IF n \in Range(gone) /\ fate[n] # "ran" THEN "dropped" ELSE fate[n]]
  BY <1>2, <1>3, <1>4 DEF Pushed
<1>6. m \notin recent
  BY <1>5 DEF Seen
<1>7. Cardinality(Msgs) \in Nat /\ Len(s) < Cardinality(Msgs)
  <2>1. PICK R, T : R = recent /\ T = recent \cup {m}
    OBVIOUS
  <2>2. R \in SUBSET Msgs /\ T \in SUBSET Msgs /\ m \in Msgs \ R
    BY <1>1, <1>6, <2>1 DEF Types
  <2>3. /\ Cardinality(R) \in Nat /\ Cardinality(Msgs) \in Nat
        /\ Cardinality(R \cup {m}) = Cardinality(R) + 1
    BY <2>2, RecentFacts
  <2>4. Cardinality(T) <= Cardinality(Msgs)
    BY <2>2, RecentFacts
  <2>5. PICK n \in Nat, x \in Nat, y \in Nat : n = Len(s) /\ x = Cardinality(R) /\ y = Cardinality(Msgs)
    BY <2>3, LenProperties
  <2>6. x + 1 <= y
    BY <2>1, <2>3, <2>4, <2>5
  <2>7. 0 + n <= x
    BY <1>1, <1>2, <2>1, <2>5 DEF Sound
  <2>8. n < y
    BY <2>6, <2>7
  <2> QED
    BY <2>5, <2>8
<1>8. gone = <<>>
  <2>1. set.drop # "new" => gone = <<>>
    BY <1>3, <1>7, NothingDropped
  <2> QED
    BY <1>5, <2>1
<1>9. g = 0
  BY <1>4, <1>8, EmptySeq
<1>10. SubSeq(s, g + 1, Len(s)) = s
  <2>1. g + 1 = 1
    BY <1>9
  <2> QED
    BY <2>1, SubSeqFull
<1>11. Range(gone) = {}
  BY <1>8 DEF Range
<1>12. count'[q] = 0
  <2>1. count' = [count EXCEPT ![q] = 0]
    BY <1>1, <1>5, <1>9
  <2> QED
    BY <1>1, <2>1 DEF Types
<1> QED
  BY <1>1, <1>2, <1>5, <1>6, <1>10, <1>11, <1>12

\* With room for all messages, or none to drop, an enqueue drops none.
LEMMA EnqueueWhole ==
  ASSUME IInv, Ample, AllWhole, NoneVanish, NEW m \in Msgs, NEW set \in Settings, Enqueue(m, set)
  PROVE  AllWhole' /\ NoneVanish'
<1>1. Types /\ None \notin Queues
  BY ConstantsAssumption DEF IInv
<1>2. PICK q \in Queues :
        /\ IF registered = None THEN pc[q] = "idle" ELSE q = registered
        /\ Pushed(m, q, set)
        /\ registered' \in {None, q}
        /\ UNCHANGED job
  BY DEF Enqueue
<1>3. Sound(q) /\ Whole(q)
  BY DEF IInv, AllWhole
<1>4. PICK s \in Seq(Msgs), j \in JobType : s = items[q] /\ j = job[q]
  BY <1>1 DEF Types
<1>5. Shifted(s, Flow(j), 0)
  <2>1. CASE j = NoJob
    BY <2>1, NoJobFacts
  <2>2. CASE j # NoJob
    <3>1. q = registered
      BY <1>2, <1>3, <1>4, <2>2 DEF Sound, Busy
    <3> QED
      BY <1>3, <1>4, <3>1 DEF Whole
  <2> QED
    BY <2>1, <2>2
<1>6. \A k \in Queues : k # q => items'[k] = items[k] /\ count'[k] = count[k]
  BY <1>1, <1>2, PushedElsewhere
<1>7. CASE UNCHANGED <<items, count, recent, fate>>
  <2>1. Whole(q)'
    BY <1>2, <1>3, <1>4, <1>5, <1>7 DEF Whole
  <2>2. AllWhole'
    BY <1>1, <1>2, <1>6, <2>1, WholeElsewhere
  <2> QED
    BY <1>7, <2>2 DEF NoneVanish
<1>8. CASE ~UNCHANGED <<items, count, recent, fate>>
  <2>1. /\ m \notin Held(q)
        /\ items' = [items EXCEPT ![q] = Append(items[q], m)]
        /\ count'[q] = 0
        /\ \A n \in Msgs : fate'[n] = "pending" => n = m \/ fate[n] = "pending"
    BY <1>2, <1>8, PushedWhole
  <2>2. PICK t : t = Append(s, m)
    OBVIOUS
  <2>10. m \in Range(t) /\ Range(s) \subseteq Range(t)
    BY <2>2, Appended
  <2>3. items'[q] = t
    BY <1>1, <1>4, <2>1, <2>2 DEF Types
  <2>4. PICK f \in Seq(Msgs) : f = Flow(j)
    BY ConcatProperties DEF JobType, Flow
  <2>5. m \notin Range(f)
    BY <1>4, <2>1, <2>4 DEF Held
  <2>6. PICK d \in Nat : d = 0
    OBVIOUS
  <2>7. Shifted(t, f, d)
    BY <1>5, <2>2, <2>4, <2>5, <2>6, ShiftedAppend
  <2>8. Whole(q)'
    BY <1>2, <1>3, <1>4, <2>1, <2>3, <2>4, <2>6, <2>7 DEF Whole
  <2>9. AllWhole'
    BY <1>1, <1>2, <1>6, <2>8, WholeElsewhere
  <2>11. NoneVanish'
    <3> SUFFICES ASSUME NEW n \in Msgs, fate'[n] = "pending"
                 PROVE  \E k \in Queues : n \in Range(items'[k])
      BY DEF NoneVanish
    <3>1. CASE n = m
      BY <2>3, <2>10, <3>1
    <3>2. CASE n # m
      <4>1. PICK k \in Queues : n \in Range(items[k])
        BY <2>1, <3>2 DEF NoneVanish
      <4> QED
        BY <1>4, <1>6, <2>3, <2>10, <4>1
    <3> QED
      BY <3>1, <3>2
  <2> QED
    BY <2>9, <2>11
<1> QED
  BY <1>7, <1>8

\* A clear settles what was queued.
LEMMA ClearWhole ==
  ASSUME IInv, AllWhole, NoneVanish, Clear
  PROVE  AllWhole' /\ NoneVanish'
<1>1. Types /\ None \notin Queues
  BY ConstantsAssumption DEF IInv
<1>2. PICK q \in Queues : q = registered
  BY <1>1 DEF Clear, Types
<1>3. /\ items' = [items EXCEPT ![q] = <<>>]
      /\ count' = [count EXCEPT ![q] = 0]
      /\ fate' = [m \in Msgs |->
           IF m \in Range(items[q]) /\ fate[m] # "ran" THEN "cleared" ELSE fate[m]]
      /\ registered' = None /\ UNCHANGED job
  BY <1>2 DEF Clear
<1>4. /\ items'[q] = <<>> /\ count'[q] = 0
      /\ \A k \in Queues : k # q => items'[k] = items[k] /\ count'[k] = count[k]
  BY <1>1, <1>3 DEF Types
<1>5. Whole(q)'
  BY <1>1, <1>3, <1>4 DEF AllWhole, Whole
<1>6. AllWhole'
  BY <1>1, <1>3, <1>4, <1>5, WholeElsewhere
<1>7. NoneVanish'
  <2> SUFFICES ASSUME NEW m \in Msgs, fate'[m] = "pending"
               PROVE  \E k \in Queues : m \in Range(items'[k])
    BY DEF NoneVanish
  <2>1. fate[m] = "pending" /\ m \notin Range(items[q])
    BY <1>3
  <2>2. PICK k \in Queues : m \in Range(items[k])
    BY <2>1 DEF NoneVanish
  <2> QED
    BY <1>4, <2>1, <2>2
<1> QED
  BY <1>6, <1>7

\* With drop policy new, or room for every message, a message that was accepted
\* stays in a queue until a run delivers it or the queue is cleared: no batch
\* takes off what it did not deliver, whatever came in during the run.
THEOREM AcceptedStays ==
  ASSUME Ample
  PROVE  Spec => []NoneVanish
<1>1. Init => AllWhole /\ NoneVanish
  <2> SUFFICES ASSUME Init
               PROVE  AllWhole /\ NoneVanish
    OBVIOUS
  <2>1. PICK e \in Seq(Msgs) : e = <<>>
    BY EmptySeq
  <2>2. Shifted(e, Flow(NoJob), 0)
    BY NoJobFacts
  <2>3. NoJob.takes = Len(NoJob.msgs)
    <3>1. NoJob.takes = 0 /\ NoJob.msgs = <<>>
      BY DEF NoJob, Job
    <3> QED
      BY <3>1, EmptySeq
  <2>4. \A q \in Queues : items[q] = e /\ job[q] = NoJob /\ count[q] = 0
    BY <2>1 DEF Init
  <2>5. AllWhole
    BY <2>2, <2>3, <2>4 DEF AllWhole, Whole
  <2> QED
    BY <2>5 DEF Init, NoneVanish
<1>2. ASSUME IInv, AllWhole, NoneVanish, [Next]_vars
      PROVE  AllWhole' /\ NoneVanish'
  <2>1. CASE \E q \in Queues : \/ Wake(q) \/ GoOn(q)
                               \/ BeginFollowup(q) \/ FollowupFails(q) \/ FollowupReturns(q)
    BY <1>2, <2>1, DrainWhole
  <2>2. CASE \E m \in Msgs, set \in Settings : Enqueue(m, set)
    BY <1>2, <2>2, EnqueueWhole
  <2>3. CASE Clear
    BY <1>2, <2>3, ClearWhole
  <2>4. CASE StartRun \/ EndRun \/ UNCHANGED vars
    <3>1. UNCHANGED <<items, count, job, fate>> /\ registered' \in {registered, None}
      <4>1. EndRun => registered' \in {registered, None}
        BY DEF EndRun, Scheduled
      <4> QED
        BY <2>4, <4>1 DEF StartRun, EndRun, vars
    <3>2. \A q \in Queues : q # registered => q # registered'
      BY <3>1, ConstantsAssumption
    <3> QED
      BY <1>2, <3>1, <3>2 DEF AllWhole, Whole, NoneVanish
  <2> QED
    BY <1>2, <2>1, <2>2, <2>3, <2>4 DEF Next
<1> QED
  BY <1>1, <1>2, Invariance, PTL DEF Spec
=============================================================================
