---------------------------- MODULE Codec_proof -----------------------------
(* Theorems about Codec.tla: however the bytes are cut, the server cuts off  *)
(* what the client sent, and the client receives the replies to it.  First   *)
(* the arithmetic of a header; then what FlattenSeq, a fold over the data,   *)
(* does to sequences of frames; then the steps.                              *)
EXTENDS Codec, SequenceLemmas

-----------------------------------------------------------------------------
(* Headers                                                                   *)

\* A number below b^4 is made of its four digits.
LEMMA Digits ==
  ASSUME NEW b \in Nat \ {0}, NEW n \in Nat, n < b * b * b * b
  PROVE  n = (n % b) + ((n \div b) % b) * b + ((n \div (b * b)) % b) * (b * b)
               + ((n \div (b * b * b)) % b) * (b * b * b)
<1> DEFINE q == n \div b
           r == q \div b
           t == r \div b
           x == n % b
           y == q % b
           z == r % b
<1>1. /\ q \in Nat /\ r \in Nat /\ t \in Nat
      /\ x \in Nat /\ y \in Nat /\ z \in Nat
      /\ n = b * q + x /\ q = b * r + y /\ r = b * t + z
  OBVIOUS
<1>2. n \div (b * b) = r
  OBVIOUS
<1>3. n \div (b * b * b) = t
  <2> DEFINE c == b * b
  <2>1. c \in Nat \ {0} /\ n \div c = r
    BY <1>2
  <2>2. n \div (c * b) = (n \div c) \div b
    <3> HIDE DEF c, q, r, t
    <3> QED BY <2>1
  <2> QED BY <2>1, <2>2
<1>4. t % b = t
  <2>1. q < b * b * b
    BY <1>1
  <2>2. r < b * b
    BY <1>1, <2>1
  <2>3. t < b
    BY <1>1, <2>2
  <2> QED BY <1>1, <2>3
<1>5. n = x + y * b + z * (b * b) + t * (b * b * b)
  <2> HIDE DEF q, r, t, x, y, z
  <2> DEFINE u == b * b * t
             v == b * z
  <2>1. u \in Nat /\ v \in Nat /\ b * (b * t + z) = u + v
    BY <1>1
  <2>2. n = b * (u + v + y) + x
    BY <1>1, <2>1
  <2>3. b * (u + v + y) = b * u + b * v + b * y
    <3> HIDE DEF u, v
    <3> QED BY <1>1, <2>1
  <2> QED BY <1>1, <2>2, <2>3
<1> QED BY <1>2, <1>3, <1>4, <1>5

\* The bytes of an int.
LEMMA HeaderTypes ==
  ASSUME NEW n \in Nat
  PROVE  /\ Encode(n) \in Seq(Byte) /\ Len(Encode(n)) = H
         /\ DOMAIN Encode(n) = 1 .. 4
<1>1. Base \in Nat \ {0} /\ Base > 4
  BY BaseAssumption DEF H
<1>2. ASSUME NEW i \in 1 .. 4
      PROVE  (n \div Place[i]) % Base \in Byte
  <2>1. Place[i] \in Nat \ {0}
    BY <1>1 DEF Place
  <2>2. n \div Place[i] \in Nat
    BY <2>1
  <2> QED BY <1>1, <2>2 DEF Byte
<1> QED BY <1>2 DEF Encode, H

\* The int that the bytes of a length make is this length.
LEMMA HeaderInverse ==
  ASSUME NEW n \in Nat, n < Ints \div 2
  PROVE  Decode(Encode(n)) = n
<1> DEFINE e == Encode(n)
<1>1. Base \in Nat \ {0} /\ Ints = Base * (Base * Base * Base) /\ Ints \in Nat
  BY BaseAssumption DEF Ints, Place, H
<1>2. n < Base * Base * Base * Base
  BY <1>1
<1>3. /\ Place[1] = 1 /\ Place[2] = Base /\ Place[3] = Base * Base
      /\ Place[4] = Base * Base * Base
  BY DEF Place
<1>4. /\ e[1] = (n \div 1) % Base /\ e[2] = (n \div Base) % Base
      /\ e[3] = (n \div (Base * Base)) % Base
      /\ e[4] = (n \div (Base * Base * Base)) % Base
  BY <1>3 DEF Encode, H
<1>5. n \div 1 = n
  OBVIOUS
<1>6. n = e[1] + e[2] * Place[2] + e[3] * Place[3] + e[4] * Place[4]
  <2>1. n = (n % Base) + ((n \div Base) % Base) * Base
              + ((n \div (Base * Base)) % Base) * (Base * Base)
              + ((n \div (Base * Base * Base)) % Base) * (Base * Base * Base)
    BY <1>1, <1>2, Digits
  <2> HIDE DEF e
  <2> QED BY <2>1, <1>3, <1>4, <1>5, Zenon
<1> HIDE DEF e
<1>7. Decode(e) = n
  BY <1>6 DEF Decode
<1> QED BY <1>7 DEF e

\* The last digit that is not there tells: of the numbers just below b^4, which
\* are the negative lengths down to -4, none has this digit 0.
LEMMA NegativeDigits ==
  ASSUME NEW b \in Nat, b > 4,
         NEW h1 \in 0 .. b - 1, NEW h2 \in 0 .. b - 1,
         NEW h3 \in 0 .. b - 1, NEW h4 \in 0 .. b - 1,
         NEW n, n = h1 + h2 * b + h3 * (b * b) + h4 * (b * b * b),
         NEW k \in 0 .. 3,
         n >= b * b * b * b - 4, n <= b * b * b * b - 4 + k
  PROVE  /\ k = 0 => h1 # 0
         /\ k = 1 => h2 # 0
         /\ k = 2 => h3 # 0
         /\ k = 3 => h4 # 0
  OBVIOUS

\* A header of which a byte is missing makes no message complete, whatever
\* getmessage finds in the memory behind the terminator.
LEMMA PartialHeader ==
  ASSUME NEW b \in Seq(Byte), NEW h \in Fetched(b), Len(b) < H
  PROVE  ~Complete(b, h)
<1> DEFINE k == Len(b)
           n == h[1] + h[2] * Place[2] + h[3] * Place[3] + h[4] * Place[4]
<1>1. Base \in Nat /\ Base > 4 /\ 0 \in Byte /\ k \in 0 .. 3
  <2>1. Base \in Nat /\ Base > 4 /\ 0 \in Byte
    BY BaseAssumption DEF H, Byte
  <2>2. k \in Nat /\ k < 4
    BY DEF H
  <2> HIDE DEF k
  <2> QED BY <2>1, <2>2
<1>2. h[k + 1] = 0 /\ h \in [1 .. 4 -> Byte]
  <2>1. PICK stale \in [k + 2 .. 4 -> Byte] :
          h = [i \in 1 .. 4 |-> IF i <= k THEN b[i] ELSE IF i = k + 1 THEN 0 ELSE stale[i]]
    BY DEF Fetched, H
  <2>2. \A i \in 1 .. 4 : i <= k => b[i] \in Byte
    BY <1>1
  <2> HIDE DEF k
  <2>3. \A i \in 1 .. 4 : ~(i <= k) /\ i # k + 1 => i \in k + 2 .. 4
    BY <1>1
  <2>4. k + 1 \in 1 .. 4 /\ ~(k + 1 <= k)
    BY <1>1
  <2> QED BY <2>1, <2>2, <2>3, <2>4, <1>1
<1>3. /\ Place[2] = Base /\ Place[3] = Base * Base /\ Place[4] = Base * Base * Base
      /\ Ints = Base * (Base * Base * Base)
  BY DEF Place, Ints, H
<1>4. /\ h[1] \in 0 .. Base - 1 /\ h[2] \in 0 .. Base - 1
      /\ h[3] \in 0 .. Base - 1 /\ h[4] \in 0 .. Base - 1
  BY <1>2 DEF Byte
<1>5. n \in Nat /\ Ints \in Nat
  <2>1. /\ Base * Base \in Nat /\ Base * Base * Base \in Nat
        /\ Base * (Base * Base * Base) \in Nat
    BY <1>1
  <2>2. \A x, y \in Nat : x * y \in Nat /\ x + y \in Nat
    OBVIOUS
  <2>3. h[1] \in Nat /\ h[2] \in Nat /\ h[3] \in Nat /\ h[4] \in Nat
    BY <1>4
  <2> QED BY <1>1, <1>3, <2>1, <2>2, <2>3
<1>6. SUFFICES ASSUME Decode(h) + 4 \in 0 .. k PROVE FALSE
  BY DEF Complete, H
<1>7. n >= Ints - 4 /\ n <= Ints - 4 + k
  <2>1. Decode(h) = IF n < Ints \div 2 THEN n ELSE n - Ints
    BY DEF Decode
  <2> HIDE DEF n, k
  <2> QED BY <2>1, <1>1, <1>5, <1>6
<1>8. Ints = Base * Base * Base * Base
  BY <1>1, <1>3
<1> QED
  <2>1. n = h[1] + h[2] * Base + h[3] * (Base * Base) + h[4] * (Base * Base * Base)
    BY <1>3
  <2> HIDE DEF n, k
  <2>2. /\ k = 0 => h[1] # 0
        /\ k = 1 => h[2] # 0
        /\ k = 2 => h[3] # 0
        /\ k = 3 => h[4] # 0
    BY <2>1, <1>1, <1>4, <1>7, <1>8, NegativeDigits
  <2> QED BY <2>2, <1>1, <1>2

-----------------------------------------------------------------------------
(* Sequences of frames                                                       *)

\* Induction up to N.
LEMMA Upto ==
  ASSUME NEW N \in Nat, NEW S, 0 \in S,
         \A n \in 0 .. N - 1 : n \in S => n + 1 \in S
  PROVE  \A n \in 0 .. N : n \in S
<1> DEFINE T == {n \in 0 .. N : n \notin S}
<1>1. SUFFICES ASSUME T # {} PROVE FALSE
  OBVIOUS
<1>2. PICK m \in T : \A n \in T : m <= n
  <2>1. T \subseteq Nat
    OBVIOUS
  <2> HIDE DEF T
  <2> QED BY <1>1, <2>1, Least
<1>3. m \in 1 .. N /\ m - 1 \in 0 .. N - 1 /\ m - 1 \notin T
  BY <1>2
<1>4. m - 1 \in S
  BY <1>3
<1>5. (m - 1) + 1 \in S
  BY <1>3, <1>4
<1> QED BY <1>2, <1>3, <1>5

\* ConcatAssociative, read from right to left.
LEMMA Associative ==
  ASSUME NEW T
  PROVE  \A q, x, y \in Seq(T) : q \o (x \o y) = (q \o x) \o y
  BY ConcatAssociative

\* The function that FlattenSeq chooses exists.
LEMMA FlattenFunction ==
  ASSUME NEW T, NEW s \in Seq(Seq(T)), s # <<>>
  PROVE  \E f : /\ f = [i \in 1 .. Len(s) |-> IF i = 1 THEN s[i] ELSE f[i - 1] \o s[i]]
               /\ FlattenSeq(s) = f[Len(s)]
<1> DEFINE Step(f, n) == [i \in 1 .. n |-> IF i = 1 THEN s[i] ELSE f[i - 1] \o s[i]]
           S == {n \in Nat : \E f : f = Step(f, n)}
           L == Len(s)
<1>1. L \in Nat \ {0}
  OBVIOUS
<1>2. 0 \in S
  <2>1. <<>> = Step(<<>>, 0)
    OBVIOUS
  <2> QED BY <2>1
<1>3. ASSUME NEW n \in 0 .. L - 1, n \in S PROVE n + 1 \in S
  <2>1. PICK f : f = Step(f, n)
    BY <1>3
  <2> DEFINE g == [i \in 1 .. n + 1 |->
                     IF i = 1 THEN s[i] ELSE IF i <= n THEN f[i] ELSE f[n] \o s[i]]
  <2>2. ASSUME NEW i \in 1 .. n + 1
        PROVE  g[i] = IF i = 1 THEN s[i] ELSE g[i - 1] \o s[i]
    <3>1. CASE i = 1
      BY <3>1
    <3>2. CASE i # 1 /\ i <= n
      <4>1. i \in 1 .. n /\ i - 1 \in 1 .. n
        BY <3>2
      <4>2. f[i] = f[i - 1] \o s[i]
        BY <2>1, <3>2, <4>1
      <4>3. f[i - 1] = g[i - 1]
        BY <2>1, <4>1
      <4> QED BY <3>2, <4>2, <4>3
    <3>3. CASE i # 1 /\ ~(i <= n)
      <4>1. i = n + 1 /\ i - 1 = n /\ n \in 1 .. n
        BY <3>3
      <4>2. f[n] = g[n]
        BY <2>1, <4>1
      <4> QED BY <3>3, <4>1, <4>2
    <3> QED BY <3>1, <3>2, <3>3
  <2>3. g = Step(g, n + 1)
    BY <2>2
  <2>4. n + 1 \in Nat
    BY <1>1
  <2> HIDE DEF g, Step
  <2> QED BY <2>3, <2>4
<1>4. L \in S
  <2> HIDE DEF S
  <2>1. \A n \in 0 .. L : n \in S
    BY <1>1, <1>2, <1>3, Upto
  <2> QED BY <1>1, <2>1
<1> DEFINE f == CHOOSE f : f = Step(f, L)
<1>5. f = Step(f, L)
  BY <1>4, Zenon
<1>6. FlattenSeq(s) = f[L]
  BY <1>1, Zenon DEF FlattenSeq
<1> QED BY <1>5, <1>6

LEMMA FlattenEmpty ==
  FlattenSeq(<<>>) = <<>>
  BY DEF FlattenSeq

LEMMA FlattenAppend ==
  ASSUME NEW T, NEW s \in Seq(Seq(T)), NEW x \in Seq(T)
  PROVE  FlattenSeq(Append(s, x)) = FlattenSeq(s) \o x
<1> DEFINE u == Append(s, x)
           L == Len(s)
<1>1. /\ u \in Seq(Seq(T)) /\ u # <<>> /\ Len(u) = L + 1 /\ L \in Nat
      /\ \A i \in 1 .. L : u[i] = s[i]
      /\ u[L + 1] = x
  <2> DEFINE Q == Seq(T)
  <2>1. s \in Seq(Q) /\ x \in Q
    OBVIOUS
  <2> HIDE DEF Q
  <2>2. /\ u \in Seq(Q) /\ u # <<>> /\ Len(u) = L + 1 /\ L \in Nat
        /\ \A i \in 1 .. L : u[i] = s[i]
        /\ u[L + 1] = x
    BY <2>1, AppendProperties, LenProperties
  <2> QED BY <2>2 DEF Q
<1> HIDE DEF u
<1>2. PICK f : /\ f = [i \in 1 .. Len(u) |-> IF i = 1 THEN u[i] ELSE f[i - 1] \o u[i]]
               /\ FlattenSeq(u) = f[Len(u)]
  BY <1>1, FlattenFunction
<1>3. CASE s = <<>>
  <2>1. L = 0 /\ f[1] = u[1] /\ FlattenSeq(u) = x
    BY <1>1, <1>2, <1>3
  <2>2. <<>> \o x = x
    OBVIOUS
  <2> QED BY <1>3, <2>1, <2>2, FlattenEmpty DEF u
<1>4. CASE s # <<>>
  <2>1. PICK g : /\ g = [i \in 1 .. L |-> IF i = 1 THEN s[i] ELSE g[i - 1] \o s[i]]
                 /\ FlattenSeq(s) = g[L]
    BY <1>4, FlattenFunction
  <2> DEFINE S == {n \in Nat : n \in 1 .. L => f[n] = g[n]}
  <2>2. 0 \in S
    OBVIOUS
  <2>3. ASSUME NEW n \in 0 .. L - 1, n \in S PROVE n + 1 \in S
    <3>1. /\ n + 1 \in 1 .. L /\ n + 1 \in 1 .. Len(u) /\ n + 1 \in Nat
          /\ (n + 1) - 1 = n /\ u[n + 1] = s[n + 1]
      BY <1>1
    <3>2. CASE n = 0
      BY <1>2, <2>1, <3>1, <3>2
    <3>3. CASE n # 0
      <4>1. f[n] = g[n] /\ n + 1 # 1
        BY <2>3, <3>1, <3>3
      <4>2. f[n + 1] = f[n] \o u[n + 1]
        BY <1>2, <3>1, <4>1
      <4>3. g[n + 1] = g[n] \o s[n + 1]
        BY <2>1, <3>1, <4>1
      <4> QED BY <3>1, <4>1, <4>2, <4>3
    <3> QED BY <3>2, <3>3
  <2>4. L \in 1 .. L /\ f[L] = g[L]
    <3>1. L \in 1 .. L
      BY <1>1, <1>4
    <3> HIDE DEF S
    <3>2. \A n \in 0 .. L : n \in S
      BY <1>1, <2>2, <2>3, Upto
    <3>3. L \in S
      BY <1>1, <3>2
    <3> QED BY <3>1, <3>3 DEF S
  <2>5. f[L + 1] = f[L] \o x
    <3>1. L + 1 \in 1 .. Len(u) /\ L + 1 # 1 /\ (L + 1) - 1 = L
      BY <1>1, <2>4
    <3> QED BY <1>1, <1>2, <3>1
  <2> QED BY <1>1, <1>2, <2>1, <2>4, <2>5 DEF u
<1> QED BY <1>3, <1>4

\* A sequence grows from the empty one by its own elements.
LEMMA GrowsByElements ==
  ASSUME NEW S, NEW s \in Seq(S)
  PROVE  /\ SubSeq(s, 1, 0) = <<>> /\ SubSeq(s, 1, Len(s)) = s /\ Len(s) \in Nat
         /\ \A n \in 0 .. Len(s) : SubSeq(s, 1, n) \in Seq(S) /\ n \in Nat
         /\ \A n \in 0 .. Len(s) - 1 :
              /\ SubSeq(s, 1, n + 1) = Append(SubSeq(s, 1, n), s[n + 1])
              /\ s[n + 1] \in S /\ n \in 0 .. Len(s) /\ n + 1 \in Nat
<1>1. /\ SubSeq(s, 1, 0) = <<>> /\ SubSeq(s, 1, Len(s)) = s /\ Len(s) \in Nat
      /\ \A n \in 0 .. Len(s) : SubSeq(s, 1, n) \in Seq(S) /\ n \in Nat
  BY SubSeqFull, SubSeqEmpty
<1>2. ASSUME NEW n \in 0 .. Len(s) - 1
      PROVE  /\ SubSeq(s, 1, n + 1) = Append(SubSeq(s, 1, n), s[n + 1])
             /\ s[n + 1] \in S /\ n \in 0 .. Len(s) /\ n + 1 \in Nat
  <2>1. /\ n + 1 \in 1 .. Len(s) /\ 1 \in 1 .. Len(s) /\ n + 1 \in 1 .. n + 1
        /\ n \in 0 .. Len(s) /\ (n + 1) - 1 = n /\ n + 1 \in Nat
    BY <1>1
  <2>2. s[n + 1] \in S
    BY <2>1, ElementOfSeq
  <2>3. SubSeq(s, 1, n + 1) = SubSeq(s, 1, n) \o <<s[n + 1]>>
    BY <2>1, SubSeqRecursiveSecond
  <2>4. Append(SubSeq(s, 1, n), s[n + 1]) = SubSeq(s, 1, n) \o <<s[n + 1]>>
    BY <1>1, <2>1, <2>2, AppendIsConcat
  <2> QED BY <2>1, <2>2, <2>3, <2>4
<1> QED BY <1>1, <1>2

LEMMA FlattenType ==
  ASSUME NEW T, NEW s \in Seq(Seq(T))
  PROVE  FlattenSeq(s) \in Seq(T)
<1> DEFINE Q == Seq(T)
           S == {n \in Nat : FlattenSeq(SubSeq(s, 1, n)) \in Q}
<1>1. s \in Seq(Q) /\ <<>> \in Q
  OBVIOUS
<1>2. \A q, x \in Q : q \o x \in Q
  OBVIOUS
<1>3. \A q \in Seq(Q), x \in Q : FlattenSeq(Append(q, x)) = FlattenSeq(q) \o x
  BY FlattenAppend
<1> HIDE DEF Q
<1>4. 0 \in S
  BY <1>1, GrowsByElements, FlattenEmpty
<1>5. ASSUME NEW n \in 0 .. Len(s) - 1, n \in S PROVE n + 1 \in S
  <2> DEFINE q == SubSeq(s, 1, n)
             x == s[n + 1]
  <2>1. /\ q \in Seq(Q) /\ x \in Q /\ n + 1 \in Nat
        /\ SubSeq(s, 1, n + 1) = Append(q, x)
    <3> HIDE DEF S
    <3>1. /\ \A k \in 0 .. Len(s) : SubSeq(s, 1, k) \in Seq(Q)
          /\ \A k \in 0 .. Len(s) - 1 :
               /\ SubSeq(s, 1, k + 1) = Append(SubSeq(s, 1, k), s[k + 1])
               /\ s[k + 1] \in Q /\ k \in 0 .. Len(s) /\ k + 1 \in Nat
      BY <1>1, GrowsByElements
    <3> QED BY <1>5, <3>1, Zenon
  <2>2. FlattenSeq(q) \in Q
    BY <1>5
  <2> HIDE DEF q, x
  <2>3. FlattenSeq(Append(q, x)) = FlattenSeq(q) \o x
    BY <1>3, <2>1
  <2>4. FlattenSeq(Append(q, x)) \in Q
    BY <1>2, <2>1, <2>2, <2>3
  <2> QED BY <2>1, <2>4
<1>6. \A n \in 0 .. Len(s) : n \in S
  <2>1. Len(s) \in Nat
    BY <1>1, LenProperties
  <2> HIDE DEF S
  <2> QED BY <2>1, <1>4, <1>5, Upto
<1>7. Len(s) \in 0 .. Len(s) /\ SubSeq(s, 1, Len(s)) = s
  BY <1>1, GrowsByElements
<1> QED BY <1>6, <1>7 DEF Q

\* FlattenSeq turns the concatenation of its arguments into that of its values.
LEMMA FlattenConcat ==
  ASSUME NEW T, NEW s \in Seq(Seq(T)), NEW t \in Seq(Seq(T))
  PROVE  FlattenSeq(s \o t) = FlattenSeq(s) \o FlattenSeq(t)
<1> DEFINE Q == Seq(T)
           p(n) == SubSeq(t, 1, n)
           S == {n \in Nat : FlattenSeq(s \o p(n)) = FlattenSeq(s) \o FlattenSeq(p(n))}
<1>1. s \in Seq(Q) /\ t \in Seq(Q)
  OBVIOUS
<1>2. /\ \A q \in Q : q \o <<>> = q
      /\ \A q, x, y \in Q : q \o (x \o y) = (q \o x) \o y
  <2>1. \A q \in Q : q \o <<>> = q
    BY ConcatEmptySeq
  <2>2. \A q, x, y \in Q : q \o (x \o y) = (q \o x) \o y
    <3> HIDE DEF p, S
    <3>1. ASSUME NEW q \in Seq(T), NEW x \in Seq(T), NEW y \in Seq(T)
          PROVE  q \o (x \o y) = (q \o x) \o y
      BY SMTT(40)
    <3> QED BY <3>1
  <2> QED BY <2>1, <2>2
<1>3. \A q \in Seq(Q) : /\ FlattenSeq(q) \in Q
                         /\ \A x \in Q : FlattenSeq(Append(q, x)) = FlattenSeq(q) \o x
  BY FlattenAppend, FlattenType
<1> HIDE DEF Q
<1>4. 0 \in S
  <2>1. s \o <<>> = s
    BY <1>1, ConcatEmptySeq
  <2>2. p(0) = <<>>
    BY <1>1, GrowsByElements
  <2>3. FlattenSeq(s) \o <<>> = FlattenSeq(s)
    BY <1>1, <1>2, <1>3
  <2> QED BY <2>1, <2>2, <2>3, FlattenEmpty, Zenon
<1>5. ASSUME NEW n \in 0 .. Len(t) - 1, n \in S PROVE n + 1 \in S
  <2>1. /\ p(n) \in Seq(Q) /\ t[n + 1] \in Q /\ n + 1 \in Nat
        /\ p(n + 1) = Append(p(n), t[n + 1])
    BY <1>1, GrowsByElements
  <2> DEFINE q == p(n)
             x == t[n + 1]
  <2>2. FlattenSeq(s \o q) = FlattenSeq(s) \o FlattenSeq(q)
    BY <1>5
  <2>3. q \in Seq(Q) /\ x \in Q /\ p(n + 1) = Append(q, x)
    BY <2>1
  <2> HIDE DEF q, x, p
  <2>4. s \o Append(q, x) = Append(s \o q, x) /\ s \o q \in Seq(Q)
    <3>1. <<x>> \in Seq(Q) /\ s \o q \in Seq(Q)
      BY <1>1, <2>3
    <3>2. Append(q, x) = q \o <<x>> /\ Append(s \o q, x) = (s \o q) \o <<x>>
      BY <3>1, <2>3, AppendIsConcat, Zenon
    <3>3. (s \o q) \o <<x>> = s \o (q \o <<x>>)
      <4> DEFINE y == <<x>>
      <4>1. s \in Seq(Q) /\ q \in Seq(Q) /\ y \in Seq(Q)
        BY <1>1, <2>3, <3>1
      <4> HIDE DEF y, S
      <4>2. s \o (q \o y) = (s \o q) \o y
        BY <4>1, Associative
      <4> QED BY <4>2 DEF y
    <3> QED BY <3>1, <3>2, <3>3
  <2>5. FlattenSeq(s \o p(n + 1)) = (FlattenSeq(s) \o FlattenSeq(q)) \o x
    <3>1. FlattenSeq(Append(s \o q, x)) = FlattenSeq(s \o q) \o x
      BY <1>3, <2>3, <2>4, Zenon
    <3> QED BY <2>2, <2>3, <2>4, <3>1, Zenon
  <2>6. FlattenSeq(p(n + 1)) = FlattenSeq(q) \o x
    BY <1>3, <2>3
  <2>7. (FlattenSeq(s) \o FlattenSeq(q)) \o x = FlattenSeq(s) \o (FlattenSeq(q) \o x)
    BY <1>1, <1>2, <1>3, <2>3
  <2>8. FlattenSeq(s \o p(n + 1)) = FlattenSeq(s) \o FlattenSeq(p(n + 1))
    BY <2>5, <2>6, <2>7
  <2> QED BY <2>1, <2>8
<1>6. \A n \in 0 .. Len(t) : n \in S
  <2>1. Len(t) \in Nat
    BY <1>1, LenProperties
  <2> HIDE DEF S
  <2> QED BY <2>1, <1>4, <1>5, Upto
<1>7. Len(t) \in 0 .. Len(t) /\ p(Len(t)) = t
  BY <1>1, GrowsByElements
<1> QED BY <1>6, <1>7

\* The elements of s, each replaced by a sequence, one behind the other.
Expanders(S, T) == [S -> Seq(T)]
Expand(F, s) == FlattenSeq([i \in DOMAIN s |-> F[s[i]]])

LEMMA ExpandConcat ==
  ASSUME NEW S, NEW T, NEW F \in Expanders(S, T), NEW s \in Seq(S), NEW t \in Seq(S)
  PROVE  /\ Expand(F, s) \in Seq(T)
         /\ Expand(F, s \o t) = Expand(F, s) \o Expand(F, t)
<1> DEFINE Q == Seq(T)
           image(u) == [i \in DOMAIN u |-> F[u[i]]]
<1>1. ASSUME NEW u \in Seq(S)
      PROVE  image(u) \in Seq(Q) /\ Len(image(u)) = Len(u)
  <2>1. \A i \in DOMAIN u : F[u[i]] \in Q
    BY DEF Expanders
  <2>2. DOMAIN u = 1 .. Len(u) /\ Len(u) \in Nat
    OBVIOUS
  <2> HIDE DEF Q
  <2> QED BY <2>1, <2>2
<1>2. image(s \o t) = image(s) \o image(t)
  <2> DEFINE u == s \o t
  <2>1. /\ u \in Seq(S) /\ Len(u) = Len(s) + Len(t)
        /\ Len(s) \in Nat /\ Len(t) \in Nat
        /\ DOMAIN u = 1 .. Len(u) /\ DOMAIN s = 1 .. Len(s) /\ DOMAIN t = 1 .. Len(t)
        /\ \A i \in 1 .. Len(u) :
             u[i] = IF i <= Len(s) THEN s[i] ELSE t[i - Len(s)]
    BY ConcatProperties, LenProperties
  <2> HIDE DEF u
  <2>2. /\ image(u) \in Seq(Q) /\ image(s) \in Seq(Q) /\ image(t) \in Seq(Q)
        /\ Len(image(u)) = Len(u) /\ Len(image(s)) = Len(s) /\ Len(image(t)) = Len(t)
    BY <1>1, <2>1
  <2>3. /\ \A i \in 1 .. Len(u) : image(u)[i] = F[u[i]]
        /\ \A i \in 1 .. Len(s) : image(s)[i] = F[s[i]]
        /\ \A i \in 1 .. Len(t) : image(t)[i] = F[t[i]]
    BY <2>1
  <2>4. /\ image(s) \o image(t) \in Seq(Q)
        /\ Len(image(s) \o image(t)) = Len(u)
        /\ \A i \in 1 .. Len(u) : (image(s) \o image(t))[i] =
             IF i <= Len(s) THEN image(s)[i] ELSE image(t)[i - Len(s)]
    <3> DEFINE a == image(s)
               b == image(t)
    <3>1. /\ a \in Seq(Q) /\ b \in Seq(Q)
          /\ Len(a) = Len(s) /\ Len(b) = Len(t)
      BY <2>2
    <3> HIDE DEF Q, a, b
    <3>2. /\ a \o b \in Seq(Q) /\ Len(a \o b) = Len(a) + Len(b)
          /\ \A i \in 1 .. Len(a) + Len(b) :
               (a \o b)[i] = IF i <= Len(a) THEN a[i] ELSE b[i - Len(a)]
      BY <3>1, ConcatProperties
    <3> QED BY <2>1, <3>1, <3>2 DEF a, b
  <2>5. ASSUME NEW i \in 1 .. Len(u)
        PROVE  image(u)[i] = (image(s) \o image(t))[i]
    <3>1. ~(i <= Len(s)) => i - Len(s) \in 1 .. Len(t)
      BY <2>1
    <3>2. i <= Len(s) => i \in 1 .. Len(s)
      BY <2>1
    <3>3. (image(s) \o image(t))[i] =
            IF i <= Len(s) THEN image(s)[i] ELSE image(t)[i - Len(s)]
      BY <2>4
    <3>4. image(u)[i] = F[u[i]] /\ u[i] = IF i <= Len(s) THEN s[i] ELSE t[i - Len(s)]
      BY <2>1, <2>3
    <3>5. /\ i <= Len(s) => image(s)[i] = F[s[i]]
          /\ ~(i <= Len(s)) => image(t)[i - Len(s)] = F[t[i - Len(s)]]
      BY <2>3, <3>1, <3>2
    <3> HIDE DEF image
    <3> QED BY <3>3, <3>4, <3>5
  <2> HIDE DEF image, Q
  <2>6. image(u) = image(s) \o image(t)
    BY <2>2, <2>4, <2>5, SeqEqual
  <2> QED BY <2>6 DEF u
<1> HIDE DEF image
<1>3. image(s) \in Seq(Seq(T)) /\ image(t) \in Seq(Seq(T))
  BY <1>1
<1>4. /\ FlattenSeq(image(s)) \in Seq(T)
      /\ FlattenSeq(image(s) \o image(t)) = FlattenSeq(image(s)) \o FlattenSeq(image(t))
  BY <1>3, FlattenType, FlattenConcat
<1> QED BY <1>2, <1>4 DEF image, Expand

LEMMA ExpandOne ==
  ASSUME NEW S, NEW T, NEW F \in Expanders(S, T), NEW m \in S
  PROVE  Expand(F, <<>>) = <<>> /\ Expand(F, <<m>>) = F[m]
<1>1. Expand(F, <<>>) = <<>>
  <2>1. [i \in DOMAIN <<>> |-> F[<<>>[i]]] = <<>>
    OBVIOUS
  <2> QED BY <2>1, FlattenEmpty DEF Expand
<1>2. Expand(F, <<m>>) = F[m]
  <2> DEFINE x == F[m]
  <2>1. [i \in DOMAIN <<m>> |-> F[<<m>>[i]]] = Append(<<>>, x)
    OBVIOUS
  <2>2. x \in Seq(T) /\ <<>> \o x = x /\ <<>> \in Seq(Seq(T))
    BY DEF Expanders
  <2> HIDE DEF x
  <2>3. FlattenSeq(Append(<<>>, x)) = FlattenSeq(<<>>) \o x
    BY <2>2, FlattenAppend
  <2> QED BY <2>1, <2>2, <2>3, FlattenEmpty DEF Expand, x
<1> QED BY <1>1, <1>2

\* Sequences of at most one element each make at most as many as they are.
LEMMA ExpandShort ==
  ASSUME NEW S, NEW T, NEW F \in Expanders(S, T), NEW s \in Seq(S),
         \A m \in S : Len(F[m]) <= 1
  PROVE  Len(Expand(F, s)) <= Len(s)
<1> DEFINE p(n) == SubSeq(s, 1, n)
           N == {n \in Nat : Len(Expand(F, p(n))) <= n}
<1>0. \A u, v \in Seq(S) : /\ Expand(F, u \o v) = Expand(F, u) \o Expand(F, v)
                           /\ Expand(F, u) \in Seq(T)
  BY ExpandConcat
<1>1. 0 \in N
  <2>1. p(0) = <<>> /\ Len(<<>>) = 0
    BY GrowsByElements
  <2> HIDE DEF p
  <2>2. Expand(F, p(0)) = <<>>
    <3>1. [i \in DOMAIN <<>> |-> F[<<>>[i]]] = <<>>
      OBVIOUS
    <3> QED BY <2>1, <3>1, FlattenEmpty DEF Expand
  <2> QED BY <2>1, <2>2
<1>2. ASSUME NEW n \in 0 .. Len(s) - 1, n \in N PROVE n + 1 \in N
  <2> DEFINE q == p(n)
             m == s[n + 1]
  <2>1. q \in Seq(S) /\ m \in S /\ n + 1 \in Nat /\ p(n + 1) = Append(q, m)
    BY GrowsByElements
  <2>2. Len(Expand(F, q)) <= n /\ n \in Nat
    BY <1>2
  <2> HIDE DEF q, m, p
  <2>3. p(n + 1) = q \o <<m>> /\ <<m>> \in Seq(S)
    <3>1. Append(q, m) = q \o <<m>>
      BY <2>1, AppendIsConcat, Zenon
    <3>2. <<m>> \in Seq(S)
      BY <2>1
    <3> QED BY <2>1, <3>1, <3>2
  <2>4. /\ Expand(F, p(n + 1)) = Expand(F, q) \o Expand(F, <<m>>)
        /\ Expand(F, q) \in Seq(T)
    <3> DEFINE t == <<m>>
    <3>1. t \in Seq(S)
      BY <2>3
    <3> HIDE DEF t
    <3>2. /\ Expand(F, q \o t) = Expand(F, q) \o Expand(F, t)
          /\ Expand(F, q) \in Seq(T)
      BY <1>0, <2>1, <3>1
    <3> QED BY <2>3, <3>2 DEF t
  <2>5. Expand(F, <<m>>) = F[m] /\ F[m] \in Seq(T) /\ Len(F[m]) <= 1
    BY <2>1, ExpandOne DEF Expanders
  <2>6. Len(Expand(F, p(n + 1))) = Len(Expand(F, q)) + Len(F[m])
    BY <2>4, <2>5, ConcatProperties
  <2>7. Len(Expand(F, q)) \in Nat /\ Len(F[m]) \in Nat
    BY <2>4, <2>5, LenProperties
  <2> QED BY <2>1, <2>2, <2>5, <2>6, <2>7
<1>3. Len(s) \in Nat /\ p(Len(s)) = s
  BY GrowsByElements
<1>4. Len(s) \in N
  <2> HIDE DEF N
  <2>1. \A n \in 0 .. Len(s) : n \in N
    BY <1>1, <1>2, <1>3, Upto
  <2> QED BY <1>3, <2>1
<1> QED BY <1>3, <1>4

Bytes == Seq(Byte)
ReplyText == {Reply(m) : m \in Text}

LEMMA BytesConcat ==
  /\ <<>> \in Bytes
  /\ \A x, y \in Bytes : x \o y \in Bytes /\ Len(x \o y) = Len(x) + Len(y)
  /\ \A x \in Bytes : Len(x) \in Nat /\ x \o <<>> = x /\ <<>> \o x = x
  BY ConcatProperties, ConcatEmptySeq DEF Bytes

LEMMA BytesAssociative ==
  \A x, y, z \in Bytes : (x \o y) \o z = x \o (y \o z)
  BY ConcatAssociative DEF Bytes

LEMMA BytesCancel ==
  ASSUME NEW x \in Bytes, NEW y \in Bytes, NEW z \in Bytes, x \o y = x \o z
  PROVE  y = z
  BY ConcatSimplifications DEF Bytes

LEMMA TextTypes ==
  /\ Text \subseteq Bytes /\ ReplyText \subseteq Bytes
  /\ \A m \in Text \cup ReplyText : Len(m) \in Nat /\ Len(m) < Ints \div 2
  /\ Blank \in Bytes
  /\ Ints \in Nat
<1>1. Ints \in Nat
  BY BaseAssumption DEF Ints, Place, H
<1>2. ASSUME NEW m \in Text
      PROVE  /\ m \in Bytes /\ Reply(m) \in Bytes /\ Len(m) \in Nat
             /\ Len(Reply(m)) \in Nat /\ Len(m) <= Len(Reply(m))
  <2>1. m \in Seq(Byte) /\ Prefix \in Seq(Byte)
    BY TextAssumption
  <2>2. /\ Reply(m) \in Seq(Byte) /\ Len(Reply(m)) = Len(Prefix) + Len(m)
        /\ Len(Prefix) \in Nat /\ Len(m) \in Nat
    BY <2>1, ConcatProperties, LenProperties DEF Reply
  <2> QED BY <2>1, <2>2 DEF Bytes
<1>3. Blank \in Bytes
  BY TextAssumption DEF Blank, Bytes
<1>4. Ints \div 2 \in Int
  BY <1>1
<1>5. ASSUME NEW m \in Text PROVE Len(m) < Ints \div 2 /\ Len(Reply(m)) < Ints \div 2
  BY <1>2, <1>4, LengthAssumption
<1> QED BY <1>1, <1>2, <1>3, <1>5 DEF ReplyText

LEMMA FrameType ==
  ASSUME NEW m \in Bytes
  PROVE  Frame(m) \in Bytes
<1>1. Len(m) \in Nat /\ m \in Seq(Byte)
  BY DEF Bytes
<1>2. Encode(Len(m)) \in Seq(Byte)
  BY <1>1, HeaderTypes
<1> QED BY <1>1, <1>2, ConcatProperties DEF Frame, Bytes

\* Frames one behind the other.
LEMMA StreamFrames ==
  /\ \A ms, ns \in Seq(Bytes) : /\ Stream(ms) \in Bytes
                                /\ Stream(ms \o ns) = Stream(ms) \o Stream(ns)
  /\ Stream(<<>>) = <<>>
  /\ \A m \in Bytes : Stream(<<m>>) = Frame(m)
<1> DEFINE F == [m \in Bytes |-> Frame(m)]
<1>1. F \in Expanders(Bytes, Byte)
  BY FrameType DEF Expanders, Bytes
<1>2. ASSUME NEW ms \in Seq(Bytes) PROVE Stream(ms) = Expand(F, ms)
  <2>1. \A i \in DOMAIN ms : ms[i] \in Bytes
    OBVIOUS
  <2>2. [i \in DOMAIN ms |-> Frame(ms[i])] = [i \in DOMAIN ms |-> F[ms[i]]]
    BY <2>1
  <2> QED BY <2>2 DEF Stream, Expand
<1> HIDE DEF F
<1>3. ASSUME NEW ms \in Seq(Bytes), NEW ns \in Seq(Bytes)
      PROVE  /\ Stream(ms) \in Bytes
             /\ Stream(ms \o ns) = Stream(ms) \o Stream(ns)
  <2>1. /\ Expand(F, ms) \in Seq(Byte)
        /\ Expand(F, ms \o ns) = Expand(F, ms) \o Expand(F, ns)
    BY <1>1, ExpandConcat
  <2>2. ms \o ns \in Seq(Bytes)
    BY ConcatProperties
  <2> QED BY <1>2, <2>1, <2>2 DEF Bytes
<1>4. Stream(<<>>) = <<>>
  <2>1. [i \in DOMAIN <<>> |-> Frame(<<>>[i])] = <<>>
    OBVIOUS
  <2> QED BY <2>1, FlattenEmpty DEF Stream
<1>5. ASSUME NEW m \in Bytes PROVE Stream(<<m>>) = Frame(m)
  <2>1. <<m>> \in Seq(Bytes)
    OBVIOUS
  <2>2. Expand(F, <<m>>) = F[m] /\ F[m] = Frame(m)
    BY <1>1, ExpandOne DEF F
  <2> QED BY <1>2, <2>1, <2>2
<1> QED BY <1>3, <1>4, <1>5

\* The replies to messages, in their order.
LEMMA RepliesInOrder ==
  /\ \A ms, ns \in Seq(Text) : /\ Replies(ms) \in Seq(ReplyText)
                               /\ Replies(ms \o ns) = Replies(ms) \o Replies(ns)
                               /\ Len(Replies(ms)) <= Len(ms)
  /\ Replies(<<>>) = <<>>
  /\ \A m \in Text : Replies(<<m>>) = RepliesTo(m) /\ RepliesTo(m) \in Seq(ReplyText)
<1> DEFINE F == [m \in Text |-> RepliesTo(m)]
<1>0. ASSUME NEW m \in Text
      PROVE  RepliesTo(m) \in Seq(ReplyText) /\ Len(RepliesTo(m)) <= 1
  <2> DEFINE r == Reply(m)
  <2>1. r \in ReplyText
    BY DEF ReplyText
  <2> HIDE DEF r
  <2>2. /\ <<r>> \in Seq(ReplyText) /\ Len(<<r>>) <= 1
        /\ <<>> \in Seq(ReplyText) /\ Len(<<>>) <= 1
    BY <2>1
  <2>3. RepliesTo(m) = <<>> \/ RepliesTo(m) = <<r>>
    BY DEF RepliesTo, r
  <2> QED BY <2>2, <2>3, Zenon
<1>1. F \in Expanders(Text, ReplyText) /\ \A m \in Text : Len(F[m]) <= 1
  BY <1>0 DEF Expanders
<1>2. ASSUME NEW ms \in Seq(Text) PROVE Replies(ms) = Expand(F, ms)
  <2>1. \A i \in DOMAIN ms : ms[i] \in Text
    OBVIOUS
  <2>2. [i \in DOMAIN ms |-> RepliesTo(ms[i])] = [i \in DOMAIN ms |-> F[ms[i]]]
    BY <2>1
  <2> QED BY <2>2 DEF Replies, Expand
<1>3. ASSUME NEW m \in Text PROVE F[m] = RepliesTo(m)
  OBVIOUS
<1> HIDE DEF F
<1>4. ASSUME NEW ms \in Seq(Text), NEW ns \in Seq(Text)
      PROVE  /\ Replies(ms) \in Seq(ReplyText)
             /\ Replies(ms \o ns) = Replies(ms) \o Replies(ns)
             /\ Len(Replies(ms)) <= Len(ms)
  <2>1. /\ Expand(F, ms) \in Seq(ReplyText)
        /\ Expand(F, ms \o ns) = Expand(F, ms) \o Expand(F, ns)
        /\ Len(Expand(F, ms)) <= Len(ms)
    BY <1>1, ExpandConcat, ExpandShort
  <2>2. ms \o ns \in Seq(Text)
    BY ConcatProperties
  <2> QED BY <1>2, <2>1, <2>2
<1>5. Replies(<<>>) = <<>>
  <2>1. [i \in DOMAIN <<>> |-> RepliesTo(<<>>[i])] = <<>>
    OBVIOUS
  <2> QED BY <2>1, FlattenEmpty DEF Replies
<1>6. ASSUME NEW m \in Text PROVE Replies(<<m>>) = RepliesTo(m)
  <2>1. <<m>> \in Seq(Text)
    OBVIOUS
  <2>2. Expand(F, <<m>>) = F[m]
    BY <1>1, ExpandOne
  <2> QED BY <1>2, <1>3, <2>1, <2>2
<1> QED BY <1>0, <1>4, <1>5, <1>6

-----------------------------------------------------------------------------
(* Cutting                                                                   *)

\* b and u together are s and t together, and b holds all of s.
Begins(s, t, b, u) == b \o u = s \o t /\ Len(s) <= Len(b)

\* s is what is cut off the front of b, and t what remains, with u behind it.
CutOff(s, t, b, u) ==
  /\ SubSeq(b, 1, Len(s)) = s
  /\ SubSeq(b, Len(s) + 1, Len(b)) \in Bytes
  /\ Len(SubSeq(b, Len(s) + 1, Len(b))) = Len(b) - Len(s)
  /\ SubSeq(b, Len(s) + 1, Len(b)) \o u = t

\* If b and what is behind it begin with s, and b holds all of s, then s is cut
\* off the front of b, and what remains is what was behind s.
LEMMA Cut ==
  ASSUME NEW b \in Bytes, NEW u \in Bytes, NEW s \in Bytes, NEW t \in Bytes,
         Begins(s, t, b, u)
  PROVE  CutOff(s, t, b, u)
<1>0. /\ b \in Seq(Byte) /\ u \in Seq(Byte) /\ s \in Seq(Byte) /\ t \in Seq(Byte)
      /\ b \o u = s \o t /\ Len(s) <= Len(b)
  BY DEF Bytes, Begins
<1> DEFINE a == SubSeq(b, 1, Len(s))
           c == SubSeq(b, Len(s) + 1, Len(b))
<1>1. /\ Len(s) \in Nat /\ Len(b) \in Nat /\ Len(u) \in Nat /\ Len(t) \in Nat
      /\ a \in Seq(Byte) /\ Len(a) = Len(s) /\ \A i \in 1 .. Len(s) : a[i] = b[i]
      /\ c \in Seq(Byte) /\ Len(c) = Len(b) - Len(s)
  BY <1>0
<1>2. \A i \in 1 .. Len(s) : b[i] = s[i]
  <2>1. \A i \in 1 .. Len(s) : (b \o u)[i] = b[i] /\ (s \o t)[i] = s[i]
    BY <1>0, <1>1
  <2> QED BY <1>0, <2>1
<1>3. a = s
  BY <1>0, <1>1, <1>2, SeqEqual
<1>4. b = a \o c
  <2>1. /\ 1 \in 1 .. Len(b) + 1 /\ Len(s) \in 1 - 1 .. Len(b)
        /\ Len(b) \in Len(s) .. Len(b)
    BY <1>1
  <2>2. a \o c = SubSeq(b, 1, Len(b))
    BY <1>0, <2>1, ConcatAdjacentSubSeq
  <2> QED BY <1>0, <2>2, SubSeqFull
<1> HIDE DEF a, c
<1>5. s \o (c \o u) = s \o t
  <2>1. c \in Bytes
    BY <1>1 DEF Bytes
  <2>2. (s \o c) \o u = s \o (c \o u)
    BY <2>1, BytesAssociative, Zenon
  <2> QED BY <1>0, <1>3, <1>4, <2>2
<1>6. c \o u = t
  <2>1. c \o u \in Seq(Byte)
    BY <1>0, <1>1, ConcatProperties
  <2> QED BY <1>0, <1>5, <2>1, ConcatSimplifications
<1> QED BY <1>1, <1>3, <1>6 DEF a, c, Bytes, CutOff

\* b and u together are the frame of m, and z behind it.
Framed(m, z, b, u) == b \o u = Frame(m) \o z

\* If the buffer and the bytes to come are a frame and more, getmessage cuts
\* off the text of this frame and nothing else.
LEMMA CutMessage ==
  ASSUME NEW b \in Bytes, NEW u \in Bytes, NEW m \in Bytes, NEW z \in Bytes,
         Len(m) < Ints \div 2, Framed(m, z, b, u),
         NEW h \in Fetched(b), Len(b) >= H
  PROVE  /\ Decode(h) = Len(m)
         /\ Complete(b, h) => /\ Message(b, h) = m
                              /\ Erased(b, h) \in Bytes
                              /\ Erased(b, h) \o u = z
<1> DEFINE e == Encode(Len(m))
           c == SubSeq(b, H + 1, Len(b))
<1>1. /\ b \in Seq(Byte) /\ u \in Seq(Byte) /\ m \in Seq(Byte) /\ z \in Seq(Byte)
      /\ Len(m) \in Nat /\ Len(b) \in Nat
  BY DEF Bytes
<1>2. e \in Seq(Byte) /\ Len(e) = H /\ DOMAIN e = 1 .. 4
  BY <1>1, HeaderTypes
<1>3. Decode(e) = Len(m)
  BY <1>1, HeaderInverse
<1>4. b \o u = e \o (m \o z) /\ m \o z \in Seq(Byte)
  <2> HIDE DEF e
  <2>1. b \o u = (e \o m) \o z
    BY DEF Framed, Frame, e
  <2>2. e \in Bytes
    BY <1>2 DEF Bytes
  <2>3. (e \o m) \o z = e \o (m \o z)
    BY <2>2, BytesAssociative, Zenon
  <2>4. m \o z \in Bytes
    BY BytesConcat, Zenon
  <2> QED BY <2>1, <2>3, <2>4, Zenon DEF Bytes
<1> HIDE DEF e
<1>5. /\ SubSeq(b, 1, H) = e
      /\ c \in Seq(Byte) /\ Len(c) = Len(b) - H /\ c \o u = m \o z
  <2>1. Len(e) <= Len(b)
    BY <1>2
  <2> HIDE DEF c
  <2> DEFINE w == m \o z
  <2>2. Begins(e, w, b, u) /\ e \in Bytes /\ w \in Bytes
    BY <1>2, <1>4, <2>1 DEF Begins, Bytes
  <2> HIDE DEF w
  <2>3. /\ SubSeq(b, 1, Len(e)) = e
        /\ SubSeq(b, Len(e) + 1, Len(b)) \in Bytes
        /\ Len(SubSeq(b, Len(e) + 1, Len(b))) = Len(b) - Len(e)
        /\ SubSeq(b, Len(e) + 1, Len(b)) \o u = w
    <3>1. CutOff(e, w, b, u)
      BY <2>2, Cut
    <3> QED BY <3>1, Zenon DEF CutOff
  <2> QED BY <1>2, <2>3 DEF c, w, Bytes
<1>6. h = e
  <2>1. h \in [1 .. 4 -> Byte] /\ \A i \in 1 .. 4 : h[i] = b[i]
    <3>1. PICK stale \in [Len(b) + 2 .. 4 -> Byte] :
            h = [i \in 1 .. 4 |-> IF i <= Len(b) THEN b[i]
                                ELSE IF i = Len(b) + 1 THEN 0 ELSE stale[i]]
      BY DEF Fetched, H
    <3>2. \A i \in 1 .. 4 : i <= Len(b) /\ b[i] \in Byte
      BY <1>1 DEF H
    <3> QED BY <3>1, <3>2
  <2>2. \A i \in 1 .. 4 : SubSeq(b, 1, H)[i] = b[i]
    BY <1>1 DEF H
  <2>3. e \in [1 .. 4 -> Byte]
    BY <1>2, LenProperties DEF H
  <2>4. \A i \in 1 .. 4 : h[i] = e[i]
    BY <1>5, <2>1, <2>2
  <2> QED BY <2>1, <2>3, <2>4
<1>7. Decode(h) = Len(m)
  BY <1>3, <1>6
<1>8. ASSUME Complete(b, h)
      PROVE  /\ Message(b, h) = m
             /\ Erased(b, h) \in Bytes
             /\ Erased(b, h) \o u = z
  <2>1. Len(m) <= Len(c)
    BY <1>1, <1>5, <1>7, <1>8 DEF Complete, H
  <2>2. /\ SubSeq(c, 1, Len(m)) = m
        /\ SubSeq(c, Len(m) + 1, Len(c)) \in Bytes
        /\ SubSeq(c, Len(m) + 1, Len(c)) \o u = z
    <3> HIDE DEF c
    <3>1. Begins(m, z, c, u) /\ c \in Bytes
      BY <1>5, <2>1 DEF Begins, Bytes
    <3>2. CutOff(m, z, c, u)
      BY <3>1, Cut
    <3> QED BY <3>2, Zenon DEF CutOff
  <2>3. SubSeq(c, 1, Len(m)) = SubSeq(b, H + 1, H + Len(m))
    BY <1>1, <1>5, <2>1 DEF H
  <2>4. SubSeq(c, Len(m) + 1, Len(c)) = SubSeq(b, H + Len(m) + 1, Len(b))
    BY <1>1, <1>5, <2>1 DEF H
  <2> QED BY <1>7, <2>2, <2>3, <2>4 DEF Message, Erased, Bytes
<1> QED BY <1>7, <1>8

LEMMA FirstAndRest ==
  ASSUME NEW S, NEW s \in Seq(S), s # <<>>
  PROVE  s = <<s[1]>> \o Tail(s)
<1>1. 1 \in 1 .. Len(s) /\ Len(s) \in 1 .. Len(s)
  BY LenProperties, EmptySeq
<1>2. SubSeq(s, 1, Len(s)) = <<s[1]>> \o SubSeq(s, 1 + 1, Len(s))
  BY <1>1, SubSeqRecursiveFirst
<1> QED BY <1>2, SubSeqFull, TailIsSubSeq

\* The first frame of a stream.
LEMMA FirstFrame ==
  ASSUME NEW ms \in Seq(Bytes), ms # <<>>
  PROVE  /\ ms[1] \in Bytes /\ Tail(ms) \in Seq(Bytes)
         /\ ms = <<ms[1]>> \o Tail(ms)
         /\ Stream(Tail(ms)) \in Bytes
         /\ Stream(ms) = Frame(ms[1]) \o Stream(Tail(ms))
<1> DEFINE m == ms[1]
           t == Tail(ms)
           f == <<m>>
<1>1. m \in Bytes /\ t \in Seq(Bytes)
  OBVIOUS
<1>2. ms = f \o t /\ f \in Seq(Bytes)
  BY <1>1, FirstAndRest
<1> HIDE DEF t, f
<1>3. Stream(ms) = Stream(f) \o Stream(t) /\ Stream(t) \in Bytes
  BY <1>1, <1>2, StreamFrames
<1>4. Stream(f) = Frame(m)
  BY <1>1, StreamFrames DEF f
<1> QED BY <1>1, <1>2, <1>3, <1>4 DEF t, f

\* What getmessage does to the bytes of a stream: the header it believes is
\* that of the first frame.
LEMMA ServerCut ==
  ASSUME NEW ms \in Seq(Text), NEW b \in Bytes, NEW u \in Bytes, b \o u = Stream(ms),
         NEW h \in Fetched(b), Complete(b, h)
  PROVE  /\ ms # <<>> /\ Len(b) >= H /\ Decode(h) >= 0
         /\ Message(b, h) = ms[1]
         /\ Erased(b, h) \in Bytes
         /\ Erased(b, h) \o u = Stream(Tail(ms))
<1>1. Len(b) >= H
  <2>1. b \in Seq(Byte) /\ Len(b) \in Nat /\ H \in Nat
    BY DEF Bytes, H
  <2> QED BY <2>1, PartialHeader
<1>2. ms # <<>>
  <2>1. SUFFICES ASSUME ms = <<>> PROVE FALSE
    OBVIOUS
  <2>2. b \o u = <<>>
    BY <2>1, StreamFrames
  <2>3. Len(b) + Len(u) = 0 /\ Len(b) \in Nat /\ Len(u) \in Nat
    <3>1. Len(b \o u) = 0
      BY <2>2
    <3> QED BY <3>1, BytesConcat
  <2> QED BY <1>1, <2>3 DEF H
<1>3. ms \in Seq(Bytes) /\ ms[1] \in Text
  <2>1. ms[1] \in Text
    BY <1>2
  <2> QED BY <2>1, TextTypes, SeqMonotonic
<1>4. /\ ms[1] \in Bytes /\ Stream(Tail(ms)) \in Bytes
      /\ b \o u = Frame(ms[1]) \o Stream(Tail(ms))
  BY <1>2, <1>3, FirstFrame
<1>5. Len(ms[1]) < Ints \div 2 /\ Len(ms[1]) \in Nat
  BY <1>3, TextTypes
<1>6. /\ Decode(h) = Len(ms[1])
      /\ Message(b, h) = ms[1]
      /\ Erased(b, h) \in Bytes
      /\ Erased(b, h) \o u = Stream(Tail(ms))
  <2> DEFINE m == ms[1]
             z == Stream(Tail(ms))
  <2>1. /\ m \in Bytes /\ z \in Bytes /\ Framed(m, z, b, u)
        /\ Len(m) < Ints \div 2
    BY <1>4, <1>5 DEF Framed
  <2> HIDE DEF m, z
  <2>2. /\ Decode(h) = Len(m)
        /\ Message(b, h) = m /\ Erased(b, h) \in Bytes /\ Erased(b, h) \o u = z
    BY <1>1, <2>1, CutMessage
  <2> QED BY <2>2 DEF m, z
<1> QED BY <1>1, <1>2, <1>5, <1>6

\* What a client finds at the front of a stream of replies.
LEMMA ClientCut ==
  ASSUME NEW rs \in Seq(ReplyText), rs # <<>>
  PROVE  LET r == rs[1]
             e == Encode(Len(r))
             t == Stream(Tail(rs))
         IN  /\ r \in ReplyText /\ Len(r) \in Nat /\ r \in Bytes
             /\ e \in Bytes /\ Len(e) = H /\ Decode(e) = Len(r)
             /\ t \in Bytes
             /\ Stream(rs) = e \o (r \o t)
<1> DEFINE r == rs[1]
           e == Encode(Len(r))
           t == Stream(Tail(rs))
<1>1. r \in ReplyText
  OBVIOUS
<1>2. r \in Bytes /\ Len(r) \in Nat /\ Len(r) < Ints \div 2
  BY <1>1, TextTypes
<1>3. e \in Bytes /\ Len(e) = H /\ Decode(e) = Len(r)
  BY <1>2, HeaderTypes, HeaderInverse DEF Bytes
<1>4. rs \in Seq(Bytes)
  BY TextTypes, SeqMonotonic
<1>5. t \in Bytes /\ Stream(rs) = (e \o r) \o t
  BY <1>4, FirstFrame DEF Frame
<1> HIDE DEF r, e, t
<1>6. Stream(rs) = e \o (r \o t)
  BY <1>2, <1>3, <1>5, BytesAssociative, Zenon
<1> QED BY <1>1, <1>2, <1>3, <1>5, <1>6 DEF r, e, t

-----------------------------------------------------------------------------
(* The invariant                                                             *)

\* What is in t behind its beginning s.
Behind(s, t) == SubSeq(t, Len(s) + 1, Len(t))

\* The messages cut off are the first ones sent; the input buffer and the bytes
\* on the way are the frames of the others.
ServerOK ==
  /\ sent = taken \o Behind(taken, sent)
  /\ buf \o up = Stream(Behind(taken, sent))

\* The replies received are the first ones due.  Unless a recv was short, the
\* bytes on the way are the frames of the others, without the header that the
\* client has read when it is about to read the text.
ClientOK ==
  LET due == Behind(got, Replies(taken))
  IN  /\ Replies(taken) = got \o due
      /\ cpc \notin {"body", "lost"} => down = Stream(due)
      /\ cpc = "body" => /\ due # <<>> /\ len = Len(due[1])
                         /\ Encode(len) \o down = Stream(due)

\* A client sends Count messages and closes with as many replies; the server
\* removes a connection that is closed, with nothing left in its buffer.
CountOK ==
  /\ Len(sent) <= Count
  /\ cpc = "send" => Len(sent) < Count
  /\ cpc = "closed" => Len(got) >= Count
  /\ pc = "removed" => cpc = "closed" /\ buf = <<>>

IInv == TypeOK /\ ServerOK /\ ClientOK /\ CountOK

LEMMA BehindStart ==
  ASSUME NEW S, NEW s \in Seq(S), NEW t \in Seq(S)
  PROVE  Behind(s, s \o t) = t
<1> DEFINE u == s \o t
           b == SubSeq(u, Len(s) + 1, Len(u))
<1>1. /\ u \in Seq(S) /\ Len(u) = Len(s) + Len(t) /\ Len(s) \in Nat /\ Len(t) \in Nat
      /\ \A i \in 1 .. Len(u) : u[i] = IF i <= Len(s) THEN s[i] ELSE t[i - Len(s)]
  BY ConcatProperties, LenProperties
<1> HIDE DEF u
<1>2. /\ b \in Seq(S) /\ Len(b) = Len(t)
      /\ \A i \in 1 .. Len(t) : b[i] = u[Len(s) + i]
  BY <1>1
<1>3. ASSUME NEW i \in 1 .. Len(t) PROVE b[i] = t[i]
  <2>1. /\ Len(s) + i \in 1 .. Len(u) /\ ~(Len(s) + i <= Len(s))
        /\ (Len(s) + i) - Len(s) = i
    BY <1>1
  <2>2. u[Len(s) + i] = t[i]
    BY <1>1, <2>1
  <2> HIDE DEF b
  <2> QED BY <1>2, <2>2
<1> HIDE DEF b
<1>4. b = t
  BY <1>2, <1>3, SeqEqual
<1> QED BY <1>4 DEF Behind, u, b

\* The first of what is behind s goes to the end of s.
FirstMoved(S, s, t) ==
  /\ t[1] \in S /\ Tail(t) \in Seq(S)
  /\ Append(s, t[1]) \in Seq(S)
  /\ s \o t = Append(s, t[1]) \o Tail(t)
  /\ Behind(Append(s, t[1]), s \o t) = Tail(t)

LEMMA MoveFirst ==
  ASSUME NEW S, NEW s \in Seq(S), NEW t \in Seq(S), t # <<>>
  PROVE  FirstMoved(S, s, t)
<1> DEFINE m == t[1]
           r == Tail(t)
           f == <<m>>
           a == Append(s, m)
<1>1. m \in S /\ r \in Seq(S) /\ f \in Seq(S) /\ Len(f) = 1
  OBVIOUS
<1>2. t = f \o r
  BY FirstAndRest
<1>3. a = s \o f /\ a \in Seq(S)
  BY <1>1, AppendIsConcat, AppendProperties
<1> HIDE DEF m, r, f, a
<1>4. (s \o f) \o r = s \o (f \o r)
  BY <1>1
<1>5. s \o t = a \o r
  BY <1>2, <1>3, <1>4
<1>6. Behind(a, a \o r) = r
  BY <1>1, <1>3, BehindStart
<1> QED BY <1>1, <1>3, <1>5, <1>6 DEF m, r, f, a, FirstMoved

\* What is behind s grows at its end.
EndExtended(S, s, t, u) ==
  /\ t \o u \in Seq(S)
  /\ (s \o t) \o u = s \o (t \o u)
  /\ Behind(s, (s \o t) \o u) = t \o u

LEMMA ExtendEnd ==
  ASSUME NEW S, NEW s \in Seq(S), NEW t \in Seq(S), NEW u \in Seq(S)
  PROVE  EndExtended(S, s, t, u)
<1> DEFINE v == t \o u
<1>1. v \in Seq(S) /\ (s \o t) \o u = s \o v
  OBVIOUS
<1> HIDE DEF v
<1>2. Behind(s, s \o v) = v
  BY <1>1, BehindStart
<1> QED BY <1>1, <1>2 DEF v, EndExtended

-----------------------------------------------------------------------------
(* The steps                                                                 *)

LEMMA Known ==
  ASSUME IInv
  PROVE  /\ sent \in Seq(Text) /\ taken \in Seq(Text)
         /\ got \in Seq(ReplyText) /\ Replies(taken) \in Seq(ReplyText)
         /\ Behind(taken, sent) \in Seq(Text)
         /\ Behind(got, Replies(taken)) \in Seq(ReplyText)
         /\ up \in Bytes /\ down \in Bytes /\ buf \in Bytes
         /\ Len(sent) \in Nat /\ Len(got) \in Nat /\ Count \in Nat \ {0}
<1>1. /\ sent \in Seq(Text) /\ taken \in Seq(Text) /\ got \in Seq(ReplyText)
      /\ up \in Bytes /\ down \in Bytes /\ buf \in Bytes
  BY DEF IInv, TypeOK, ReplyText, Bytes
<1>2. Replies(taken) \in Seq(ReplyText)
  BY <1>1, RepliesInOrder
<1>3. \A S : \A s, t \in Seq(S) : Behind(s, t) \in Seq(S)
  BY DEF Behind
<1> QED BY <1>1, <1>2, <1>3, CountAssumption, LenProperties

LEMMA InitInv == Init => IInv
<1> SUFFICES ASSUME Init PROVE IInv
  OBVIOUS
<1>1. /\ sent = <<>> /\ taken = <<>> /\ got = <<>> /\ up = <<>> /\ down = <<>> /\ buf = <<>>
      /\ cpc = "send" /\ pc = "idle" /\ len = 0 /\ window \in Windows
  BY DEF Init
<1>2. TypeOK
  BY <1>1 DEF TypeOK
<1>3. Behind(<<>>, <<>>) = <<>> /\ <<>> \o <<>> = <<>> /\ Len(<<>>) = 0
  BY DEF Behind
<1>4. Stream(<<>>) = <<>> /\ Replies(<<>>) = <<>>
  BY StreamFrames, RepliesInOrder
<1>5. ServerOK
  BY <1>1, <1>3, <1>4 DEF ServerOK
<1>6. ClientOK
  BY <1>1, <1>3, <1>4 DEF ClientOK
<1>7. CountOK
  BY <1>1, <1>3, CountAssumption DEF CountOK
<1> QED BY <1>2, <1>5, <1>6, <1>7 DEF IInv

LEMMA ReadInv == IInv /\ Read => IInv'
<1> SUFFICES ASSUME IInv, Read PROVE IInv'
  OBVIOUS
<1>1. PICK n \in 1 .. Len(up) : /\ buf' = buf \o SubSeq(up, 1, n)
                               /\ up' = SubSeq(up, n + 1, Len(up))
  BY DEF Read
<1>2. /\ pc = "idle" /\ pc' = "parse"
      /\ UNCHANGED <<window, cpc, len, sent, got, taken, down>>
  BY DEF Read, client
<1>3. /\ SubSeq(up, 1, n) \in Bytes /\ up' \in Bytes /\ SubSeq(up, 1, n) \o up' = up
  <2>1. up \in Seq(Byte) /\ Len(up) \in Nat
    BY Known DEF Bytes
  <2>2. SubSeq(up, 1, n) \in Seq(Byte) /\ up' \in Seq(Byte)
    BY <1>1, <2>1
  <2>3. /\ 1 \in 1 .. Len(up) + 1 /\ n \in 1 - 1 .. Len(up) /\ Len(up) \in n .. Len(up)
    BY <2>1
  <2>4. SubSeq(up, 1, n) \o up' = SubSeq(up, 1, Len(up))
    BY <1>1, <2>1, <2>3, ConcatAdjacentSubSeq
  <2> QED BY <2>1, <2>2, <2>4, SubSeqFull DEF Bytes
<1>4. buf' \in Bytes /\ buf' \o up' = buf \o up
  <2> DEFINE x == SubSeq(up, 1, n)
  <2>1. /\ x \in Bytes /\ buf \in Bytes /\ up' \in Bytes
        /\ buf' = buf \o x /\ x \o up' = up
    BY <1>1, <1>3, Known
  <2> HIDE DEF x
  <2>2. buf \o x \in Bytes
    BY <2>1, BytesConcat, Zenon
  <2>3. (buf \o x) \o up' = buf \o (x \o up')
    BY <2>1, BytesAssociative, Zenon
  <2> QED BY <2>1, <2>2, <2>3, Zenon
<1>5. TypeOK'
  BY <1>2, <1>3, <1>4 DEF IInv, TypeOK, Bytes
<1>6. ServerOK'
  BY <1>2, <1>4 DEF IInv, ServerOK
<1>7. ClientOK'
  BY <1>2 DEF IInv, ClientOK
<1>8. CountOK'
  BY <1>2 DEF IInv, CountOK
<1> QED BY <1>5, <1>6, <1>7, <1>8 DEF IInv

\* A client that has closed has its replies, and the server has taken all.
LEMMA ClosedDone ==
  ASSUME IInv, cpc = "closed"
  PROVE  taken = sent /\ got = Replies(sent) /\ buf = <<>> /\ up = <<>>
<1> DEFINE rest == Behind(taken, sent)
           due == Behind(got, Replies(taken))
<1>1. sent = taken \o rest /\ Replies(taken) = got \o due
  BY DEF IInv, ServerOK, ClientOK
<1>2. /\ taken \in Seq(Text) /\ rest \in Seq(Text)
      /\ got \in Seq(ReplyText) /\ due \in Seq(ReplyText)
  BY Known
<1>3. buf \o up = Stream(rest) /\ buf \in Bytes /\ up \in Bytes
  BY Known DEF IInv, ServerOK
<1> HIDE DEF rest, due
<1>4. /\ Len(sent) = Len(taken) + Len(rest)
      /\ Len(Replies(taken)) = Len(got) + Len(due)
      /\ Len(rest) \in Nat /\ Len(due) \in Nat /\ Len(taken) \in Nat
  BY <1>1, <1>2, ConcatProperties, LenProperties
<1>5. /\ Len(Replies(taken)) <= Len(taken) /\ Len(sent) <= Count /\ Len(got) >= Count
      /\ Len(got) \in Nat /\ Count \in Nat
  BY <1>2, Known, RepliesInOrder DEF IInv, CountOK
<1>6. Len(rest) = 0 /\ Len(due) = 0
  BY <1>4, <1>5
<1>7. rest = <<>> /\ due = <<>>
  BY <1>2, <1>6, EmptySeq
<1>8. taken = sent /\ got = Replies(sent)
  BY <1>1, <1>2, <1>7, ConcatEmptySeq
<1>9. buf = <<>> /\ up = <<>>
  BY <1>3, <1>7, StreamFrames, ConcatEqualIffEmpty DEF Bytes
<1> QED BY <1>8, <1>9

LEMMA ReadToEndInv == IInv /\ ReadToEnd => IInv'
<1> SUFFICES ASSUME IInv, ReadToEnd PROVE IInv'
  OBVIOUS
<1>1. /\ cpc = "closed" /\ buf' = buf \o up /\ up' = <<>> /\ pc' = "removed"
      /\ UNCHANGED <<window, cpc, len, sent, got, taken, down>>
  BY DEF ReadToEnd, client
<1>2. buf = <<>> /\ up = <<>>
  BY <1>1, ClosedDone
<1>3. buf' = buf /\ up' = up
  BY <1>1, <1>2
<1>4. TypeOK'
  BY <1>1, <1>3 DEF IInv, TypeOK
<1>5. ServerOK'
  BY <1>1, <1>3 DEF IInv, ServerOK
<1>6. ClientOK'
  BY <1>1 DEF IInv, ClientOK
<1>7. CountOK'
  BY <1>1, <1>2, <1>3 DEF IInv, CountOK
<1> QED BY <1>4, <1>5, <1>6, <1>7 DEF IInv

LEMMA NoMessageInv == IInv /\ NoMessage => IInv'
<1> SUFFICES ASSUME IInv, NoMessage PROVE IInv'
  OBVIOUS
<1>1. pc' = "idle" /\ UNCHANGED <<window, cpc, len, sent, got, buf, taken, up, down>>
  BY DEF NoMessage, client
<1> QED BY <1>1 DEF IInv, TypeOK, ServerOK, ClientOK, CountOK

LEMMA TakeMessageInv == IInv /\ TakeMessage => IInv'
<1> SUFFICES ASSUME IInv, TakeMessage PROVE IInv'
  OBVIOUS
<1> DEFINE rest == Behind(taken, sent)
           due == Behind(got, Replies(taken))
           m == rest[1]
           more == RepliesTo(m)
<1>1. PICK h \in Fetched(buf) :
        /\ Complete(buf, h)
        /\ taken' = Append(taken, Message(buf, h))
        /\ down' = IF Message(buf, h) = Blank THEN down ELSE down \o Answer(Message(buf, h))
        /\ pc' = AfterMessage(Message(buf, h))
        /\ buf' = Erased(buf, h)
  BY DEF TakeMessage
<1>2. pc = "parse" /\ UNCHANGED <<window, cpc, len, sent, got, up>>
  BY DEF TakeMessage, client
<1>3. /\ taken \in Seq(Text) /\ rest \in Seq(Text) /\ sent \in Seq(Text)
      /\ got \in Seq(ReplyText) /\ due \in Seq(ReplyText)
      /\ buf \in Bytes /\ up \in Bytes /\ down \in Bytes
      /\ sent = taken \o rest /\ buf \o up = Stream(rest)
      /\ Replies(taken) = got \o due
  BY Known DEF IInv, ServerOK, ClientOK
<1> HIDE DEF rest, due
<1>4. /\ rest # <<>> /\ Message(buf, h) = m
      /\ Erased(buf, h) \in Bytes /\ Erased(buf, h) \o up = Stream(Tail(rest))
  BY <1>1, <1>3, ServerCut
<1>5. /\ taken' = Append(taken, m) /\ buf' \in Bytes /\ buf' \o up' = Stream(Tail(rest))
      /\ down' = IF m = Blank THEN down ELSE down \o Answer(m)
      /\ pc' = AfterMessage(m)
  BY <1>1, <1>2, <1>4
<1>6. /\ m \in Text /\ Tail(rest) \in Seq(Text)
      /\ taken' \in Seq(Text)
      /\ sent = taken' \o Tail(rest)
      /\ Behind(taken', sent) = Tail(rest)
  <2>1. FirstMoved(Text, taken, rest)
    BY <1>3, <1>4, MoveFirst
  <2> QED BY <1>3, <1>5, <2>1, Zenon DEF FirstMoved
<1>7. ServerOK'
  BY <1>2, <1>5, <1>6 DEF ServerOK
<1>8. Replies(taken') = Replies(taken) \o more /\ more \in Seq(ReplyText)
  <2> DEFINE f == <<m>>
  <2>1. f \in Seq(Text) /\ taken' = taken \o f
    BY <1>3, <1>5, <1>6, AppendIsConcat
  <2>2. Replies(f) = more /\ more \in Seq(ReplyText)
    BY <1>6, RepliesInOrder
  <2> HIDE DEF f, more
  <2>3. Replies(taken \o f) = Replies(taken) \o Replies(f)
    BY <1>3, <2>1, RepliesInOrder
  <2> QED BY <2>1, <2>2, <2>3
<1>9. down' = down \o Stream(more) /\ Stream(more) \in Bytes /\ down' \in Bytes
  <2>1. CASE m = Blank
    <3>1. more = <<>> /\ down' = down
      BY <1>5, <2>1 DEF RepliesTo
    <3>2. Stream(more) = <<>> /\ <<>> \in Bytes /\ down \o <<>> = down
      BY <1>3, <3>1, StreamFrames, BytesConcat
    <3> QED BY <1>3, <3>1, <3>2
  <2>2. CASE m # Blank
    <3>1. more = <<Reply(m)>> /\ down' = down \o Frame(Reply(m))
      BY <1>5, <2>2 DEF RepliesTo, Answer
    <3>2. Reply(m) \in Bytes
      BY <1>6, TextTypes DEF ReplyText
    <3>3. Stream(more) = Frame(Reply(m)) /\ Frame(Reply(m)) \in Bytes
      BY <3>1, <3>2, StreamFrames, FrameType
    <3> QED BY <1>3, <3>1, <3>3, BytesConcat
  <2> QED BY <2>1, <2>2
<1> HIDE DEF more
<1>10. /\ due \o more \in Seq(ReplyText)
       /\ Replies(taken') = got \o (due \o more)
       /\ Behind(got, Replies(taken')) = due \o more
  <2>1. EndExtended(ReplyText, got, due, more)
    BY <1>3, <1>8, ExtendEnd
  <2> QED BY <1>3, <1>8, <2>1, Zenon DEF EndExtended
<1>11. Stream(due \o more) = Stream(due) \o Stream(more) /\ Stream(due) \in Bytes
  <2>1. due \in Seq(Bytes) /\ more \in Seq(Bytes)
    BY <1>3, <1>8, TextTypes, SeqMonotonic
  <2> QED BY <2>1, StreamFrames
<1>12. ClientOK'
  <2>1. cpc \notin {"body", "lost"} => down' = Stream(due \o more)
    BY <1>9, <1>11 DEF IInv, ClientOK, due
  <2>2. ASSUME cpc = "body"
        PROVE  /\ due \o more # <<>> /\ len = Len((due \o more)[1])
               /\ Encode(len) \o down' = Stream(due \o more)
    <3>1. due # <<>> /\ len = Len(due[1]) /\ Encode(len) \o down = Stream(due)
      BY <2>2 DEF IInv, ClientOK, due
    <3>2. /\ (due \o more)[1] = due[1] /\ due \o more # <<>>
          /\ due[1] \in ReplyText
      <4>1. Len(due) \in Nat \ {0} /\ Len(more) \in Nat /\ 1 \in 1 .. Len(due) + Len(more)
            /\ 1 <= Len(due) /\ 1 \in 1 .. Len(due)
        BY <1>3, <1>8, <3>1, EmptySeq, LenProperties
      <4>2. (due \o more)[1] = due[1] /\ due[1] \in ReplyText
        BY <1>3, <1>8, <4>1, ConcatProperties, ElementOfSeq
      <4> QED BY <1>3, <1>8, <3>1, <4>2, ConcatEqualIffEmpty
    <3>3. Encode(len) \in Bytes
      BY <3>1, <3>2, TextTypes, HeaderTypes DEF Bytes
    <3>4. Encode(len) \o (down \o Stream(more)) = (Encode(len) \o down) \o Stream(more)
      <4> DEFINE e == Encode(len)
                 t == Stream(more)
      <4>1. e \in Bytes /\ down \in Bytes /\ t \in Bytes
        BY <1>3, <1>9, <3>3
      <4> HIDE DEF e, t
      <4>2. e \o (down \o t) = (e \o down) \o t
        BY <4>1, BytesAssociative, Zenon
      <4> QED BY <4>2 DEF e, t
    <3> QED BY <1>9, <1>11, <3>1, <3>2, <3>4
  <2> QED BY <1>2, <1>10, <2>1, <2>2 DEF ClientOK
<1>13. TypeOK'
  <2>1. pc' \in {"idle", "parse"}
    BY <1>5 DEF AfterMessage
  <2> QED BY <1>2, <1>5, <1>6, <1>9, <2>1 DEF IInv, TypeOK, Bytes
<1>14. CountOK'
  <2>1. pc' # "removed"
    BY <1>5 DEF AfterMessage
  <2> QED BY <1>2, <2>1 DEF IInv, CountOK
<1> QED BY <1>7, <1>12, <1>13, <1>14 DEF IInv

LEMMA SendInv == IInv /\ Send => IInv'
<1> SUFFICES ASSUME IInv, Send PROVE IInv'
  OBVIOUS
<1> DEFINE rest == Behind(taken, sent)
<1>1. PICK m \in Text :
        /\ sent' = Append(sent, m) /\ up' = up \o Frame(m) /\ len' = Len(m)
        /\ cpc' = IF Len(sent') - Len(got) < window /\ Len(sent') < Count
                  THEN "send" ELSE "header"
  BY DEF Send
<1>2. /\ cpc = "send" /\ UNCHANGED <<window, got, pc, buf, taken, down>>
  BY DEF Send, server
<1>3. /\ taken \in Seq(Text) /\ rest \in Seq(Text) /\ sent \in Seq(Text)
      /\ buf \in Bytes /\ up \in Bytes
      /\ sent = taken \o rest /\ buf \o up = Stream(rest)
  BY Known DEF IInv, ServerOK
<1> HIDE DEF rest
<1> DEFINE f == <<m>>
<1>4. f \in Seq(Text) /\ sent' = sent \o f /\ sent' \in Seq(Text) /\ Len(sent') = Len(sent) + 1
  BY <1>1, <1>3, AppendIsConcat, AppendProperties
<1>5. m \in Bytes /\ Frame(m) \in Bytes /\ Stream(f) = Frame(m)
  BY TextTypes, FrameType, StreamFrames
<1> HIDE DEF f
<1>6. /\ rest \o f \in Seq(Text) /\ sent' = taken \o (rest \o f)
      /\ Behind(taken, sent') = rest \o f
  <2>1. EndExtended(Text, taken, rest, f)
    BY <1>3, <1>4, ExtendEnd
  <2> QED BY <1>3, <1>4, <2>1, Zenon DEF EndExtended
<1>7. buf \o up' = Stream(rest \o f) /\ up' \in Bytes
  <2>1. rest \in Seq(Bytes) /\ f \in Seq(Bytes)
    BY <1>3, <1>4, TextTypes, SeqMonotonic
  <2>2. Stream(rest \o f) = Stream(rest) \o Stream(f)
    BY <2>1, StreamFrames
  <2>3. (buf \o up) \o Frame(m) = buf \o (up \o Frame(m))
    BY <1>3, <1>5, BytesAssociative, Zenon
  <2>4. up \o Frame(m) \in Bytes
    BY <1>3, <1>5, BytesConcat, Zenon
  <2> QED BY <1>1, <1>3, <1>5, <2>2, <2>3, <2>4, Zenon
<1>8. ServerOK'
  BY <1>2, <1>6, <1>7 DEF ServerOK
<1>9. ClientOK'
  <2>1. cpc' \in {"send", "header"}
    BY <1>1
  <2> QED BY <1>2, <2>1 DEF IInv, ClientOK
<1>10. TypeOK'
  BY <1>1, <1>2, <1>4, <1>7 DEF IInv, TypeOK, Bytes
<1>11. CountOK'
  BY <1>1, <1>2, <1>4, Known DEF IInv, CountOK
<1> QED BY <1>8, <1>9, <1>10, <1>11 DEF IInv

LEMMA RecvHeaderInv == IInv /\ RecvHeader => IInv'
<1> SUFFICES ASSUME IInv, RecvHeader PROVE IInv'
  OBVIOUS
<1> DEFINE due == Behind(got, Replies(taken))
           r == due[1]
           e == Encode(Len(r))
           w == r \o Stream(Tail(due))
<1>1. /\ cpc = "header" /\ Len(down) >= H /\ cpc' = "body"
      /\ len' = Decode(SubSeq(down, 1, H))
      /\ down' = SubSeq(down, H + 1, Len(down))
      /\ UNCHANGED <<window, sent, got, pc, buf, taken, up>>
  BY DEF RecvHeader, server
<1>2. /\ due \in Seq(ReplyText) /\ down \in Bytes /\ Len(down) \in Nat
      /\ down = Stream(due)
  BY <1>1, Known, BytesConcat DEF IInv, ClientOK
<1> HIDE DEF due
<1>3. due # <<>>
  BY <1>1, <1>2, StreamFrames DEF H
<1>4. /\ r \in ReplyText /\ r \in Bytes
      /\ e \in Bytes /\ Len(e) = H /\ Decode(e) = Len(r)
      /\ w \in Bytes /\ Stream(due) = e \o w
  <2>1. /\ r \in ReplyText /\ r \in Bytes
        /\ e \in Bytes /\ Len(e) = H /\ Decode(e) = Len(r)
        /\ Stream(Tail(due)) \in Bytes /\ Stream(due) = e \o w
    BY <1>2, <1>3, ClientCut, Zenon
  <2> QED BY <2>1, BytesConcat, Zenon
<1> HIDE DEF r, e, w
<1>5. SubSeq(down, 1, H) = e /\ down' \in Bytes /\ down' = w
  <2>1. Begins(e, w, down, <<>>) /\ <<>> \in Bytes
    <3>1. down \o <<>> = down /\ <<>> \in Bytes
      BY <1>2, BytesConcat, Zenon
    <3>2. down \o <<>> = e \o w
      BY <1>2, <1>4, <3>1, Zenon
    <3>3. Len(e) <= Len(down)
      BY <1>1, <1>2, <1>4 DEF H
    <3> QED BY <3>1, <3>2, <3>3, Zenon DEF Begins
  <2>2. /\ SubSeq(down, 1, Len(e)) = e
        /\ SubSeq(down, Len(e) + 1, Len(down)) \in Bytes
        /\ SubSeq(down, Len(e) + 1, Len(down)) \o <<>> = w
    <3>1. CutOff(e, w, down, <<>>)
      BY <1>2, <1>4, <2>1, Cut
    <3> QED BY <3>1, Zenon DEF CutOff
  <2>3. down' \in Bytes /\ down' \o <<>> = w /\ SubSeq(down, 1, H) = e
    BY <1>1, <1>4, <2>2, Zenon
  <2> QED BY <2>3, BytesConcat, Zenon
<1>6. len' = Len(r) /\ Encode(len') \o down' = Stream(due)
  BY <1>1, <1>4, <1>5, Zenon DEF e
<1>7. ClientOK'
  BY <1>1, <1>3, <1>6 DEF IInv, ClientOK, due, r
<1>8. ServerOK'
  BY <1>1 DEF IInv, ServerOK
<1>9. TypeOK'
  <2>1. len' \in {Len(Reply(m)) : m \in Text}
    BY <1>4, <1>6 DEF ReplyText
  <2> QED BY <1>1, <1>5, <2>1 DEF IInv, TypeOK, Bytes
<1>10. CountOK'
  BY <1>1 DEF IInv, CountOK
<1> QED BY <1>7, <1>8, <1>9, <1>10 DEF IInv

LEMMA RecvBodyInv == IInv /\ RecvBody => IInv'
<1> SUFFICES ASSUME IInv, RecvBody PROVE IInv'
  OBVIOUS
<1> DEFINE due == Behind(got, Replies(taken))
           r == due[1]
           e == Encode(Len(r))
           z == Stream(Tail(due))
<1>1. /\ cpc = "body" /\ Len(down) >= len /\ cpc' = AfterReply(Len(got'))
      /\ got' = Append(got, SubSeq(down, 1, len))
      /\ down' = SubSeq(down, len + 1, Len(down))
      /\ UNCHANGED <<window, len, sent, pc, buf, taken, up>>
  BY DEF RecvBody, server
<1>2. /\ got \in Seq(ReplyText) /\ due \in Seq(ReplyText) /\ down \in Bytes
      /\ Len(down) \in Nat /\ Replies(taken) = got \o due
      /\ due # <<>> /\ len = Len(r) /\ Encode(len) \o down = Stream(due)
  BY <1>1, Known, BytesConcat DEF IInv, ClientOK
<1> HIDE DEF due
<1>3. /\ r \in ReplyText /\ r \in Bytes /\ Len(r) \in Nat
      /\ e \in Bytes /\ z \in Bytes /\ Stream(due) = e \o (r \o z)
  BY <1>2, ClientCut, Zenon
<1>4. e \o down = e \o (r \o z) /\ r \o z \in Bytes
  BY <1>2, <1>3, BytesConcat, Zenon
<1>5. FirstMoved(ReplyText, got, due)
  BY <1>2, MoveFirst
<1>6. /\ Append(got, r) \in Seq(ReplyText)
      /\ Behind(Append(got, r), Replies(taken)) = Tail(due)
      /\ Replies(taken) = Append(got, r) \o Tail(due)
  BY <1>2, <1>5, Zenon DEF FirstMoved
<1> HIDE DEF r, e, z
<1>7. down = r \o z
  BY <1>2, <1>3, <1>4, BytesCancel
<1>8. SubSeq(down, 1, len) = r /\ down' \in Bytes /\ down' = z
  <2>1. Begins(r, z, down, <<>>) /\ <<>> \in Bytes
    <3>1. down \o <<>> = down /\ <<>> \in Bytes
      BY <1>2, BytesConcat, Zenon
    <3>2. down \o <<>> = r \o z
      BY <1>7, <3>1, Zenon
    <3>3. Len(r) <= Len(down)
      BY <1>1, <1>2, <1>3
    <3> QED BY <3>1, <3>2, <3>3, Zenon DEF Begins
  <2>2. /\ SubSeq(down, 1, Len(r)) = r
        /\ SubSeq(down, Len(r) + 1, Len(down)) \in Bytes
        /\ SubSeq(down, Len(r) + 1, Len(down)) \o <<>> = z
    <3>1. CutOff(r, z, down, <<>>)
      BY <1>2, <1>3, <2>1, Cut
    <3> QED BY <3>1, Zenon DEF CutOff
  <2>3. down' \in Bytes /\ down' \o <<>> = z /\ SubSeq(down, 1, len) = r
    BY <1>1, <1>2, <2>2, Zenon
  <2> QED BY <2>3, BytesConcat, Zenon
<1>9. got' = Append(got, r) /\ got' \in Seq(ReplyText)
  BY <1>1, <1>6, <1>8
<1>10. cpc' \in {"send", "header", "closed"}
  BY <1>1 DEF AfterReply
<1>11. ClientOK'
  <2>1. /\ Behind(got', Replies(taken')) = Tail(due)
        /\ Replies(taken') = got' \o Tail(due)
        /\ down' = Stream(Tail(due))
    BY <1>1, <1>6, <1>8, <1>9, Zenon DEF z
  <2> QED BY <1>10, <2>1 DEF ClientOK
<1>12. ServerOK'
  BY <1>1 DEF IInv, ServerOK
<1>13. TypeOK'
  BY <1>1, <1>8, <1>9, <1>10 DEF IInv, TypeOK, Bytes, ReplyText
<1>14. CountOK'
  <2>1. Len(got') \in Nat /\ Len(sent) \in Nat /\ Count \in Nat
    BY <1>9, Known, LenProperties
  <2>2. pc # "removed"
    BY <1>1 DEF IInv, CountOK
  <2> QED BY <1>1, <2>1, <2>2 DEF IInv, CountOK, AfterReply
<1> QED BY <1>11, <1>12, <1>13, <1>14 DEF IInv

LEMMA RecvShortInv == IInv /\ RecvShort => IInv'
<1> SUFFICES ASSUME IInv, RecvShort PROVE IInv'
  OBVIOUS
<1>1. /\ cpc \in {"header", "body"} /\ cpc' = "lost"
      /\ UNCHANGED <<window, len, sent, got, pc, buf, taken, up, down>>
  BY DEF RecvShort, server
<1> QED BY <1>1 DEF IInv, TypeOK, ServerOK, ClientOK, CountOK

LEMMA NextInv == IInv /\ [Next]_vars => IInv'
<1>1. IInv /\ Next => IInv'
  BY ReadInv, ReadToEndInv, NoMessageInv, TakeMessageInv, SendInv, RecvHeaderInv,
     RecvBodyInv, RecvShortInv DEF Next, Serve, Converse
<1>2. IInv /\ UNCHANGED vars => IInv'
  BY DEF vars, client, server, IInv, TypeOK, ServerOK, ClientOK, CountOK
<1> QED BY <1>1, <1>2

LEMMA Invariance == Spec => []IInv
<1> QED BY InitInv, NextInv, PTL DEF Spec

-----------------------------------------------------------------------------
(* What follows from the invariant                                           *)

\* A length that getmessage acts upon is that of a message the client sent.
LEMMA HeaderGenuine == IInv => HeaderIsGenuine
<1> SUFFICES ASSUME IInv, NEW h \in Fetched(buf), Complete(buf, h)
             PROVE  Len(buf) >= H /\ Decode(h) >= 0
  BY DEF HeaderIsGenuine
<1> DEFINE rest == Behind(taken, sent)
<1>1. rest \in Seq(Text) /\ buf \in Bytes /\ up \in Bytes /\ buf \o up = Stream(rest)
  BY Known DEF IInv, ServerOK
<1> HIDE DEF rest
<1> QED BY <1>1, ServerCut

LEMMA InFrame == IInv => StaysInFrame
<1> SUFFICES ASSUME IInv PROVE StaysInFrame
  OBVIOUS
<1> DEFINE rest == Behind(taken, sent)
<1>1. sent = taken \o rest /\ buf \o up = Stream(rest)
  BY DEF IInv, ServerOK
<1>2. /\ taken \in Seq(Bytes) /\ rest \in Seq(Bytes) /\ buf \in Bytes /\ up \in Bytes
  BY Known, TextTypes, SeqMonotonic
<1> HIDE DEF rest
<1>3. Stream(sent) = Stream(taken) \o Stream(rest) /\ Stream(taken) \in Bytes
  BY <1>1, <1>2, StreamFrames, Zenon
<1>4. (Stream(taken) \o buf) \o up = Stream(taken) \o (buf \o up)
  BY <1>2, <1>3, BytesAssociative, Zenon
<1>5. Stream(sent) = Stream(taken) \o buf \o up
  BY <1>1, <1>3, <1>4, Zenon
<1> QED BY <1>5, HeaderGenuine DEF StaysInFrame

LEMMA BeginningIsPrefix ==
  ASSUME NEW S, NEW s \in Seq(S), NEW t \in Seq(S)
  PROVE  IsPrefix(s, s \o t)
<1> DEFINE u == s \o t
<1>1. u \in Seq(S) /\ Len(u) = Len(s) + Len(t) /\ Len(s) \in Nat /\ Len(t) \in Nat
  BY ConcatProperties, LenProperties
<1>2. ASSUME NEW i \in 1 .. Len(s) PROVE u[i] = s[i]
  BY ConcatProperties, LenProperties
<1> HIDE DEF u
<1>3. /\ SubSeq(u, 1, Len(s)) = SubSeq(s, 1, Len(s))
      /\ Len(s) <= Len(u)
  BY <1>1, <1>2
<1> QED BY <1>3 DEF IsPrefix, u

LEMMA RepliesInStep == IInv => RepliesMatch
<1> SUFFICES ASSUME IInv PROVE RepliesMatch
  OBVIOUS
<1> DEFINE rest == Behind(taken, sent)
           due == Behind(got, Replies(taken))
<1>1. sent = taken \o rest /\ Replies(taken) = got \o due
  BY DEF IInv, ServerOK, ClientOK
<1>2. /\ taken \in Seq(Text) /\ rest \in Seq(Text)
      /\ got \in Seq(ReplyText) /\ due \in Seq(ReplyText)
  BY Known
<1> HIDE DEF rest, due
<1>3. Replies(sent) = Replies(taken) \o Replies(rest) /\ Replies(rest) \in Seq(ReplyText)
  BY <1>1, <1>2, RepliesInOrder, Zenon
<1>4. Replies(sent) = got \o (due \o Replies(rest)) /\ due \o Replies(rest) \in Seq(ReplyText)
  <2> DEFINE more == Replies(rest)
  <2>1. more \in Seq(ReplyText)
    BY <1>3
  <2> HIDE DEF more
  <2>2. EndExtended(ReplyText, got, due, more)
    BY <1>2, <2>1, ExtendEnd
  <2>3. /\ due \o more \in Seq(ReplyText)
        /\ (got \o due) \o more = got \o (due \o more)
    BY <2>2, Zenon DEF EndExtended
  <2> QED BY <1>1, <1>3, <2>3, Zenon DEF more
<1>5. IsPrefix(got, Replies(sent))
  <2> DEFINE more == due \o Replies(rest)
  <2>1. more \in Seq(ReplyText) /\ Replies(sent) = got \o more
    BY <1>4
  <2> HIDE DEF more
  <2>2. IsPrefix(got, got \o more)
    BY <1>2, <2>1, BeginningIsPrefix
  <2> QED BY <2>1, <2>2, Zenon
<1>6. pc = "removed" => buf = <<>> /\ got = Replies(sent)
  BY ClosedDone DEF IInv, CountOK
<1> QED BY <1>5, <1>6 DEF RepliesMatch

\* What getmessage cuts off the input buffer are texts the client sent, and what
\* the client takes for replies are replies to them; so is the client's int len
\* always the length of one or the other.
THEOREM Typing == Spec => []TypeOK
<1>1. IInv => TypeOK
  BY DEF IInv
<1> QED BY <1>1, Invariance, PTL

\* Buffer::getmessage never acts upon a header of which bytes are missing, although
\* it reads the header before it has tested the size, and however onmessage's reads
\* cut the stream, every byte the client sent is in a message, in the input buffer
\* or still on the way, once and in order.
THEOREM StreamKept == Spec => []StaysInFrame
<1> QED BY InFrame, Invariance, PTL

\* The replies that Handledata sends and client.cpp receives answer the client's
\* messages in order, as long as no recv comes back short; and Connection::onmessage
\* finds the end of the stream only when every message has had its reply.
THEOREM RepliesKept == Spec => []RepliesMatch
<1> QED BY RepliesInStep, Invariance, PTL

=============================================================================
