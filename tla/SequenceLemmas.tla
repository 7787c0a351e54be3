---------------------------- MODULE SequenceLemmas ----------------------------
(***************************************************************************)
(* Facts about sequences that the proofs of Connection, SingleReactor and  *)
(* Codec share: what is in a queue, and in which order, as closures,       *)
(* messages and channels are put in and taken out; and the least element   *)
(* that stands for induction.                                              *)
(***************************************************************************)
EXTENDS Integers, Sequences, Functions, FiniteSetTheorems, SequenceTheorems,
        WellFoundedInduction, TLAPS

\* The numbers in s, and those of S before those of T.
Increasing(s) == \A i, j \in DOMAIN s : i < j => s[i] < s[j]
Before(S, T) == \A m \in S, n \in T : m < n

\* A set of natural numbers that is not empty has a least element: the numbers
\* are well-founded.
LEMMA Least ==
  ASSUME NEW T, T \subseteq Nat, T # {}
  PROVE  \E m \in T : \A n \in T : m <= n
<1> DEFINE R == OpToRel(<, Nat)
<1>1. IsWellFoundedOn(R, Nat)
  BY NatLessThanWellFounded
<1>2. R = {s \in Nat \X Nat : s[1] < s[2]}
  BY DEF OpToRel
<1> HIDE DEF R
<1>3. PICK m \in T : \A n \in T : ~ (<<n, m>> \in R)
  BY <1>1, WFMin
<1>4. ASSUME NEW n \in T PROVE m <= n
  <2>1. m \in Nat /\ n \in Nat
    OBVIOUS
  <2>2. <<n, m>> \in Nat \X Nat /\ <<n, m>>[1] = n /\ <<n, m>>[2] = m
    BY <2>1
  <2>3. ~ (n < m)
    BY <1>2, <1>3, <2>2
  <2>4. QED  BY <2>1, <2>3
<1>5. QED  BY <1>4

\* The elements of a sequence, as it loses its head or grows at its end.
LEMMA TailElements ==
  ASSUME NEW S, NEW s \in Seq(S), s # <<>>
  PROVE  /\ Head(s) \in S /\ Head(s) \in Range(s)
         /\ Tail(s) \in Seq(S) /\ Len(Tail(s)) = Len(s) - 1
         /\ Range(s) = Range(Tail(s)) \cup {Head(s)}
         /\ IsInjective(s) => IsInjective(Tail(s)) /\ Head(s) \notin Range(Tail(s))
         /\ Increasing(s) => Increasing(Tail(s)) /\ Before({Head(s)}, Range(Tail(s)))
<1> DEFINE t == Tail(s)
<1>1. /\ Len(s) \in Nat \ {0} /\ DOMAIN s = 1 .. Len(s) /\ Head(s) = s[1]
      /\ t \in Seq(S) /\ Len(t) = Len(s) - 1 /\ DOMAIN t = 1 .. Len(s) - 1
      /\ \A i \in DOMAIN t : t[i] = s[i + 1] /\ i + 1 \in DOMAIN s
      /\ \A i \in DOMAIN s : s[i] \in S
  OBVIOUS
<1> HIDE DEF t
<1>2. \A i \in DOMAIN s : i = 1 \/ (i - 1 \in DOMAIN t /\ t[i - 1] = s[i])
  BY <1>1
<1>3. Range(s) = Range(t) \cup {Head(s)}
  BY <1>1, <1>2 DEF Range
<1>4. IsInjective(s) => IsInjective(t) /\ Head(s) \notin Range(t)
  BY <1>1 DEF IsInjective, Range
<1>5. Increasing(s) => Increasing(t) /\ Before({Head(s)}, Range(t))
  BY <1>1 DEF Increasing, Before, Range
<1>6. Head(s) \in S /\ Head(s) \in Range(s)
  BY <1>1, <1>3
<1>7. QED  BY <1>1, <1>3, <1>4, <1>5, <1>6 DEF t

LEMMA ConcatElements ==
  ASSUME NEW S, NEW s \in Seq(S), NEW t \in Seq(S)
  PROVE  /\ s \o t \in Seq(S) /\ Len(s \o t) = Len(s) + Len(t)
         /\ Range(s \o t) = Range(s) \cup Range(t)
         /\ IsInjective(s) /\ IsInjective(t) /\ Range(s) \cap Range(t) = {}
              => IsInjective(s \o t)
         /\ Increasing(s) /\ Increasing(t) /\ Before(Range(s), Range(t))
              => Increasing(s \o t)
<1> DEFINE u == s \o t
<1>1. /\ u \in Seq(S) /\ Len(u) = Len(s) + Len(t)
      /\ Len(s) \in Nat /\ Len(t) \in Nat
      /\ DOMAIN s = 1 .. Len(s) /\ DOMAIN t = 1 .. Len(t)
      /\ DOMAIN u = 1 .. Len(s) + Len(t)
      /\ \A i \in DOMAIN u : u[i] = IF i <= Len(s) THEN s[i] ELSE t[i - Len(s)]
  BY ConcatProperties, LenProperties
<1>2. \A i \in DOMAIN s : i \in DOMAIN u /\ u[i] = s[i]
  BY <1>1
<1>3. \A i \in DOMAIN t : i + Len(s) \in DOMAIN u /\ u[i + Len(s)] = t[i]
  <2> SUFFICES ASSUME NEW i \in DOMAIN t
               PROVE i + Len(s) \in DOMAIN u /\ u[i + Len(s)] = t[i]
    OBVIOUS
  <2> HIDE DEF u
  <2>1. i \in Nat /\ i >= 1 /\ i <= Len(t)
    BY <1>1
  <2>2. i + Len(s) \in DOMAIN u /\ ~ (i + Len(s) <= Len(s)) /\ i + Len(s) - Len(s) = i
    BY <1>1, <2>1
  <2>3. QED  BY <1>1, <2>2
<1>4. \A i \in DOMAIN u :
        \/ i \in DOMAIN s /\ u[i] = s[i]
        \/ i > Len(s) /\ i - Len(s) \in DOMAIN t /\ u[i] = t[i - Len(s)]
  BY <1>1
<1>5. \A i \in DOMAIN s : s[i] \in S  BY <1>1
<1>6. \A i \in DOMAIN t : t[i] \in S  BY <1>1
<1> HIDE DEF u
<1>7. Range(u) = Range(s) \cup Range(t)
  <2>1. Range(u) \subseteq Range(s) \cup Range(t)
    BY <1>4 DEF Range
  <2>2. Range(s) \subseteq Range(u)
    BY <1>2 DEF Range
  <2>3. Range(t) \subseteq Range(u)
    BY <1>3 DEF Range
  <2>4. QED  BY <2>1, <2>2, <2>3
<1>8. IsInjective(s) /\ IsInjective(t) /\ Range(s) \cap Range(t) = {} => IsInjective(u)
  <2> SUFFICES ASSUME IsInjective(s), IsInjective(t), Range(s) \cap Range(t) = {},
                      NEW i \in DOMAIN u, NEW j \in DOMAIN u, u[i] = u[j]
               PROVE  i = j
    BY DEF IsInjective
  <2>1. i \in Nat /\ j \in Nat /\ Len(s) \in Nat  BY <1>1
  <2>2. CASE i \in DOMAIN s /\ j \in DOMAIN s
    BY <1>2, <2>2 DEF IsInjective
  <2>3. CASE i \notin DOMAIN s /\ j \notin DOMAIN s
    <3>1. /\ i - Len(s) \in DOMAIN t /\ u[i] = t[i - Len(s)]
          /\ j - Len(s) \in DOMAIN t /\ u[j] = t[j - Len(s)]
      BY <1>4, <2>3
    <3>2. i - Len(s) = j - Len(s)
      BY <3>1 DEF IsInjective
    <3>3. QED  BY <2>1, <3>2
  <2>4. CASE i \in DOMAIN s /\ j \notin DOMAIN s
    BY <1>2, <1>4, <2>4 DEF Range
  <2>5. CASE i \notin DOMAIN s /\ j \in DOMAIN s
    BY <1>2, <1>4, <2>5 DEF Range
  <2>6. QED  BY <2>2, <2>3, <2>4, <2>5
<1>9. Increasing(s) /\ Increasing(t) /\ Before(Range(s), Range(t)) => Increasing(u)
  BY <1>1, <1>4 DEF Increasing, Range, Before
<1>10. QED  BY <1>1, <1>7, <1>8, <1>9 DEF u

LEMMA AppendElements ==
  ASSUME NEW S, NEW s \in Seq(S), NEW m \in S
  PROVE  /\ Append(s, m) \in Seq(S) /\ Len(Append(s, m)) = Len(s) + 1
         /\ Range(Append(s, m)) = Range(s) \cup {m}
<1> DEFINE t == <<m>>
<1>1. /\ Append(s, m) = s \o t /\ t \in Seq(S) /\ Len(t) = 1
      /\ DOMAIN t = {1} /\ t[1] = m
  BY AppendIsConcat
<1> HIDE DEF t
<1>2. Range(t) = {m}
  BY <1>1 DEF Range
<1>3. /\ s \o t \in Seq(S) /\ Len(s \o t) = Len(s) + Len(t)
      /\ Range(s \o t) = Range(s) \cup Range(t)
  BY <1>1, ConcatElements
<1>4. QED  BY <1>1, <1>2, <1>3

LEMMA AppendOrder ==
  ASSUME NEW S, NEW s \in Seq(S), NEW m \in S
  PROVE  /\ IsInjective(s) /\ m \notin Range(s) => IsInjective(Append(s, m))
         /\ Increasing(s) /\ Before(Range(s), {m}) => Increasing(Append(s, m))
<1> DEFINE t == <<m>>
<1>1. /\ Append(s, m) = s \o t /\ t \in Seq(S) /\ DOMAIN t = {1} /\ t[1] = m
  BY AppendIsConcat
<1> HIDE DEF t
<1>2. Range(t) = {m} /\ Increasing(t) /\ IsInjective(t)
  BY <1>1 DEF Range, Increasing, IsInjective
<1>3. m \notin Range(s) => Range(s) \cap Range(t) = {}
  BY <1>2
<1>4. /\ IsInjective(s) /\ IsInjective(t) /\ Range(s) \cap Range(t) = {}
           => IsInjective(s \o t)
      /\ Increasing(s) /\ Increasing(t) /\ Before(Range(s), Range(t))
           => Increasing(s \o t)
  BY <1>1, ConcatElements
<1>5. QED  BY <1>1, <1>2, <1>3, <1>4

\* A sequence is cut in two without losing an element.
LEMMA SplitElements ==
  ASSUME NEW S, NEW s \in Seq(S), NEW n \in 0 .. Len(s)
  PROVE  LET front == SubSeq(s, 1, n)
             rest == SubSeq(s, n + 1, Len(s))
         IN  /\ front \in Seq(S) /\ rest \in Seq(S) /\ Len(front) = n
             /\ Range(s) = Range(front) \cup Range(rest)
             /\ IsInjective(s) => /\ IsInjective(front) /\ IsInjective(rest)
                                  /\ Range(front) \cap Range(rest) = {}
<1> DEFINE front == SubSeq(s, 1, n)
           rest == SubSeq(s, n + 1, Len(s))
<1>1. Len(s) \in Nat /\ DOMAIN s = 1 .. Len(s) /\ \A i \in DOMAIN s : s[i] \in S
  OBVIOUS
<1>2. /\ front \in Seq(S) /\ Len(front) = n
      /\ \A i \in 1 .. n : front[i] = s[i]
  <2>1. \A i \in 1 .. n : s[i] \in S
    BY <1>1
  <2>2. n - 1 + 1 = n /\ \A i \in 1 .. n : 1 + i - 1 = i
    OBVIOUS
  <2>3. /\ front \in Seq(S) /\ Len(front) = IF 1 <= n THEN n - 1 + 1 ELSE 0
        /\ \A i \in 1 .. n - 1 + 1 : front[i] = s[1 + i - 1]
    BY <2>1, SubSeqProperties
  <2>4. QED  BY <2>2, <2>3
<1>3. /\ rest \in Seq(S) /\ Len(rest) = Len(s) - n
      /\ \A i \in 1 .. Len(s) - n : rest[i] = s[n + i]
  <2>1. \A i \in n + 1 .. Len(s) : s[i] \in S
    BY <1>1
  <2>2. /\ Len(s) - (n + 1) + 1 = Len(s) - n
        /\ \A i \in 1 .. Len(s) - n : (n + 1) + i - 1 = n + i
    BY <1>1
  <2>3. /\ rest \in Seq(S)
        /\ Len(rest) = IF n + 1 <= Len(s) THEN Len(s) - (n + 1) + 1 ELSE 0
        /\ \A i \in 1 .. Len(s) - (n + 1) + 1 : rest[i] = s[(n + 1) + i - 1]
    BY <1>1, <2>1, SubSeqProperties
  <2>4. Len(rest) = Len(s) - n
    <3>1. n + 1 <= Len(s) \/ Len(s) - n = 0
      <4> DEFINE l == Len(s)
      <4>1. l \in Nat /\ n \in 0 .. l
        BY <1>1
      <4> HIDE DEF l
      <4>2. n + 1 <= l \/ l - n = 0
        BY <4>1
      <4>3. QED  BY <4>2 DEF l
    <3>2. QED  BY <2>2, <2>3, <3>1
  <2> HIDE DEF rest
  <2>5. \A i \in 1 .. Len(s) - n : rest[i] = s[n + i]
    BY <2>2, <2>3
  <2>6. QED  BY <2>3, <2>4, <2>5
<1>4. DOMAIN front = 1 .. n /\ DOMAIN rest = 1 .. Len(s) - n
  BY <1>2, <1>3
<1> HIDE DEF front, rest
<1>5. /\ \A i \in DOMAIN front : i \in DOMAIN s /\ i <= n /\ front[i] = s[i]
      /\ \A i \in DOMAIN rest : n + i \in DOMAIN s /\ n + i > n /\ rest[i] = s[n + i]
  BY <1>1, <1>2, <1>3, <1>4
<1>6. \A i \in DOMAIN s : \/ i \in DOMAIN front /\ front[i] = s[i]
                          \/ i - n \in DOMAIN rest /\ rest[i - n] = s[i]
  <2>1. ASSUME NEW i \in DOMAIN s, i > n PROVE i - n \in DOMAIN rest /\ rest[i - n] = s[i]
    <3>1. i - n \in 1 .. Len(s) - n /\ n + (i - n) = i
      BY <1>1, <2>1
    <3>2. QED  BY <1>3, <1>4, <3>1
  <2>2. ASSUME NEW i \in DOMAIN s, i <= n PROVE i \in DOMAIN front /\ front[i] = s[i]
    BY <1>1, <1>2, <1>4, <2>2
  <2>3. QED  BY <1>1, <2>1, <2>2
<1>7. Range(s) = Range(front) \cup Range(rest)
  <2>1. Range(s) \subseteq Range(front) \cup Range(rest)
    BY <1>6 DEF Range
  <2>2. Range(front) \cup Range(rest) \subseteq Range(s)
    BY <1>5 DEF Range
  <2>3. QED  BY <2>1, <2>2
<1>8. IsInjective(s) => IsInjective(front)
  BY <1>5 DEF IsInjective
<1>9. IsInjective(s) => IsInjective(rest)
  <2> SUFFICES ASSUME IsInjective(s), NEW i \in DOMAIN rest, NEW j \in DOMAIN rest,
                      rest[i] = rest[j]
               PROVE  i = j
    BY DEF IsInjective
  <2>1. n + i = n + j
    BY <1>5 DEF IsInjective
  <2>2. QED  BY <1>4, <2>1
<1>10. IsInjective(s) => Range(front) \cap Range(rest) = {}
  <2> SUFFICES ASSUME IsInjective(s), NEW i \in DOMAIN front, NEW j \in DOMAIN rest,
                      front[i] = rest[j]
               PROVE  FALSE
    BY DEF Range
  <2>1. i = n + j
    BY <1>5 DEF IsInjective
  <2>2. QED  BY <1>4, <1>5, <2>1
<1>11. QED  BY <1>2, <1>3, <1>7, <1>8, <1>9, <1>10 DEF front, rest
=============================================================================
