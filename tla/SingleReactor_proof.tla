-------------------------- MODULE SingleReactor_proof --------------------------
(***************************************************************************)
(* SingleReactor for every number of clients, descriptors, messages and    *)
(* events of one epoll_wait: the pointers epoll returned stay good until   *)
(* they are used, no input and no waiting client is overlooked, and each   *)
(* step is one of Echo, or changes nothing a client can see.               *)
(***************************************************************************)
EXTENDS SingleReactor, SequenceLemmas

\* A client is connected only after it has waited, and waits only once.
WaitOK ==
  /\ outside \cap backlog = {}
  /\ \A c \in outside \cup backlog : ~Live(c)

\* The ready list holds sockets on the epoll tree, each once.
ReadyOK ==
  /\ IsInjective(ready)
  /\ \A ch \in Range(ready) : ch = Listener \/ Live(ch)

\* The client whose messages are handled is the first of the batch.  While the
\* listening socket is still to be handled, it will be reported again.
HandleOK ==
  /\ pc = "reply" => batch # <<>> /\ Head(batch) \in Client
  /\ Listener \in Range(batch) => Listener \in Range(ready)

\* No reply is to a message that was not taken out of inputbuffer_ yet.
ReplyOK ==
  \A c \in Client : \A i \in DOMAIN replies[c] : replies[c][i][1] <= parsed[c]

IInv ==
  /\ TypeOK /\ WaitOK /\ ReadyOK /\ HandleOK /\ ReplyOK
  /\ BatchIsLive /\ InputIsReported

\* What is still to be handled.
Handling == IF pc = "reply" THEN Tail(batch) ELSE batch

-----------------------------------------------------------------------------
(* Sequences. *)

\* Filter keeps just the elements in T, none more often than it was there.
LEMMA FilterElements ==
  ASSUME NEW S, NEW s \in Seq(S), NEW T
  PROVE  /\ Filter(s, T) \in Seq(S)
         /\ Range(Filter(s, T)) = Range(s) \cap T
         /\ IsInjective(s) => IsInjective(Filter(s, T))
<1> DEFINE I == {i \in DOMAIN s : s[i] \in T}
           Upto(i) == {j \in I : j <= i}
           rank == [i \in I |-> Cardinality(Upto(i))]
           n == Cardinality(I)
           at == [k \in 1 .. n |-> CHOOSE i \in I : rank[i] = k]
           f == Filter(s, T)
<1>1. I \subseteq Nat /\ IsFiniteSet(I) /\ n \in Nat
  <2>1. Len(s) \in Nat /\ DOMAIN s = 1 .. Len(s) /\ IsFiniteSet(1 .. Len(s))
    BY FS_Interval
  <2>2. I \subseteq 1 .. Len(s)
    BY <2>1
  <2>3. IsFiniteSet(I)
    BY <2>1, <2>2, FS_Subset
  <2>4. n \in Nat
    BY <2>3, FS_CardinalityType
  <2>5. QED  BY <2>2, <2>3, <2>4
<1>2. f = [k \in 1 .. n |-> s[CHOOSE i \in I : Cardinality(Upto(i)) = k]]
  BY DEF Filter
<1>3. \A i \in I : i \in DOMAIN s /\ s[i] \in T /\ s[i] \in S
  OBVIOUS
<1>4. \A i \in DOMAIN s : s[i] \in T => i \in I
  OBVIOUS
<1>5. rank \in [I -> 1 .. n] /\ IsInjective(rank)
  <2> HIDE DEF I
  <2>1. ASSUME NEW i \in I
        PROVE  /\ Upto(i) \subseteq I /\ i \in Upto(i) /\ IsFiniteSet(Upto(i))
               /\ Cardinality(Upto(i)) \in 1 .. n
    <3>1. Upto(i) \subseteq I /\ i \in Upto(i)
      BY <1>1
    <3>2. IsFiniteSet(Upto(i)) /\ Cardinality(Upto(i)) <= n
      BY <1>1, <3>1, FS_Subset
    <3>3. Cardinality(Upto(i)) \in Nat /\ Cardinality(Upto(i)) # 0
      BY <3>1, <3>2, FS_CardinalityType, FS_EmptySet
    <3>4. QED  BY <1>1, <3>1, <3>2, <3>3
  <2>2. ASSUME NEW i \in I, NEW j \in I, i < j PROVE rank[i] # rank[j]
    <3>1. Upto(i) \subseteq Upto(j) /\ j \notin Upto(i)
      <4>1. i \in Nat /\ j \in Nat /\ \A k \in I : k \in Nat
        BY <1>1
      <4>2. ~ (j <= i) /\ \A k \in I : k <= i => k <= j
        BY <2>2, <4>1
      <4>3. QED  BY <4>2
    <3>2. Cardinality(Upto(i)) # Cardinality(Upto(j))
      BY <2>1, <3>1, FS_Subset
    <3>3. QED  BY <3>2
  <2>3. ASSUME NEW i \in I, NEW j \in I, rank[i] = rank[j] PROVE i = j
    <3>1. ~ (i < j) /\ ~ (j < i)
      BY <2>2, <2>3
    <3>2. QED  BY <1>1, <3>1
  <2>4. rank \in [I -> 1 .. n]
    BY <2>1
  <2> HIDE DEF rank
  <2>5. QED  BY <2>3, <2>4 DEF IsInjective
<1>6. \A k \in 1 .. n : \E i \in I : rank[i] = k
  <2>1. rank \in Injection(I, 1 .. n)
    BY <1>5 DEF Injection
  <2>2. IsFiniteSet(1 .. n) /\ Cardinality(1 .. n) = n
    BY <1>1, FS_Interval
  <2> HIDE DEF rank
  <2>3. rank \in Surjection(I, 1 .. n)
    <3>1. Cardinality(I) = Cardinality(1 .. n)
      BY <2>2
    <3> HIDE DEF I, n
    <3>2. QED  BY <2>1, <2>2, <3>1, FS_Injection
  <2>4. QED  BY <2>3 DEF Surjection
<1>7. \A k \in 1 .. n : at[k] \in I /\ rank[at[k]] = k
  <2> HIDE DEF I, rank, n
  <2>1. QED  BY <1>6
<1>8. \A k \in 1 .. n : f[k] = s[at[k]]
  <2>1. ASSUME NEW k \in 1 .. n PROVE f[k] = s[at[k]]
    <3>1. f[k] = s[CHOOSE i \in I : Cardinality(Upto(i)) = k]
      BY <1>2
    <3>2. (CHOOSE i \in I : Cardinality(Upto(i)) = k) = at[k]
      <4>1. \A i \in I : Cardinality(Upto(i)) = rank[i]
        OBVIOUS
      <4> HIDE DEF I, Upto, rank, n
      <4>2. QED  BY <4>1
    <3>3. QED  BY <3>1, <3>2
  <2>2. QED  BY <2>1
<1>9. DOMAIN f = 1 .. n
  BY <1>2
<1> HIDE DEF f, at, rank, n, Upto
<1>10. \A i \in I : rank[i] \in 1 .. n /\ at[rank[i]] = i
  <2> HIDE DEF I
  <2>1. QED  BY <1>5, <1>7 DEF IsInjective
<1>11. f \in Seq(S)
  <2>1. f = [k \in 1 .. n |-> f[k]]
    BY <1>2 DEF n, f
  <2>2. \A k \in 1 .. n : f[k] \in S
    BY <1>3, <1>7, <1>8
  <2>3. QED  BY <1>1, <2>1, <2>2
<1>12. Range(f) = Range(s) \cap T
  <2>1. Range(f) \subseteq Range(s) \cap T
    <3>1. \A k \in 1 .. n : f[k] \in T /\ f[k] = s[at[k]] /\ at[k] \in DOMAIN s
      BY <1>3, <1>7, <1>8
    <3> HIDE DEF I
    <3>2. QED  BY <1>9, <3>1 DEF Range
  <2>2. ASSUME NEW i \in DOMAIN s, s[i] \in T PROVE s[i] \in Range(f)
    <3>1. i \in I
      BY <2>2
    <3>2. rank[i] \in 1 .. n /\ f[rank[i]] = s[i]
      BY <1>8, <1>10, <3>1
    <3>3. QED  BY <1>9, <3>2 DEF Range
  <2>3. QED  BY <2>1, <2>2 DEF Range
<1>13. IsInjective(s) => IsInjective(f)
  <2> SUFFICES ASSUME IsInjective(s), NEW k \in 1 .. n, NEW m \in 1 .. n, f[k] = f[m]
               PROVE  k = m
    BY <1>9 DEF IsInjective
  <2>1. at[k] \in DOMAIN s /\ at[m] \in DOMAIN s /\ s[at[k]] = s[at[m]]
    BY <1>3, <1>7, <1>8
  <2>2. at[k] = at[m]
    BY <2>1 DEF IsInjective
  <2>3. QED  BY <1>7, <2>2
<1>14. QED  BY <1>11, <1>12, <1>13 DEF f


\* What epoll_wait leaves on the ready list: the events it had no room for,
\* and the listening socket, once.
LEMMA RestOK ==
  ASSUME NEW events \in Seq(Channel), IsInjective(events), NEW n \in 0 .. Len(events)
  PROVE  LET front == SubSeq(events, 1, n)
         IN  /\ front \in Seq(Channel) /\ Len(front) = n /\ IsInjective(front)
             /\ Rest(events, n) \in Seq(Channel) /\ IsInjective(Rest(events, n))
             /\ Range(events) = Range(front) \cup Range(Rest(events, n))
             /\ Listener \in Range(front) => Listener \in Range(Rest(events, n))
<1> DEFINE front == SubSeq(events, 1, n)
           rest == SubSeq(events, n + 1, Len(events))
           back == IF Listener \in Range(front) THEN <<Listener>> ELSE <<>>
<1>1. /\ front \in Seq(Channel) /\ rest \in Seq(Channel) /\ Len(front) = n
      /\ Range(events) = Range(front) \cup Range(rest)
      /\ IsInjective(front) /\ IsInjective(rest) /\ Range(front) \cap Range(rest) = {}
  BY SplitElements
<1>2. Rest(events, n) = rest \o back
  BY DEF Rest
<1>3. back \in Seq(Channel) /\ IsInjective(back)
  <2> HIDE DEF front
  <2>1. CASE Listener \in Range(front)
    <3>1. back = <<Listener>>
      BY <2>1
    <3> HIDE DEF back
    <3>2. QED  BY <3>1 DEF Channel, IsInjective
  <2>2. CASE Listener \notin Range(front)
    BY <2>2 DEF IsInjective
  <2>3. QED  BY <2>1, <2>2
<1>4. Range(back) = Range(front) \cap {Listener}
  <2> HIDE DEF front
  <2>1. CASE Listener \in Range(front)
    <3>1. back = <<Listener>> /\ DOMAIN back = {1} /\ back[1] = Listener
      BY <2>1
    <3> HIDE DEF back
    <3>2. Range(back) = {Listener}
      BY <3>1 DEF Range
    <3>3. QED  BY <2>1, <3>2
  <2>2. CASE Listener \notin Range(front)
    <3>1. DOMAIN back = {}
      BY <2>2
    <3> HIDE DEF back
    <3>2. Range(back) = {}
      BY <3>1 DEF Range
    <3>3. QED  BY <2>2, <3>2
  <2>3. QED  BY <2>1, <2>2
<1> HIDE DEF front, rest, back
<1>5. Range(rest) \cap Range(back) = {}
  BY <1>1, <1>4
<1>6. /\ rest \o back \in Seq(Channel) /\ IsInjective(rest \o back)
      /\ Range(rest \o back) = Range(rest) \cup Range(back)
  BY <1>1, <1>3, <1>5, ConcatElements
<1>7. /\ Range(events) = Range(front) \cup Range(rest \o back)
      /\ Listener \in Range(front) => Listener \in Range(rest \o back)
  BY <1>1, <1>4, <1>6
<1>8. QED  BY <1>1, <1>2, <1>6, <1>7 DEF front

-----------------------------------------------------------------------------
LEMMA InitOK == Init => IInv
<1> SUFFICES ASSUME Init PROVE IInv
  OBVIOUS
<1> USE SingleReactorAssumption DEF Init
<1>1. TypeOK
  <2>1. /\ limits \in Limits /\ outside \cup backlog \cup fin \subseteq Client
        /\ reset \in [Client -> {"none", "ECONNRESET", "EPIPE"}]
        /\ connections \in [Fd -> Client \cup {None}]
        /\ pc \in {"handle", "reply"} /\ killed \in BOOLEAN
    OBVIOUS
  <2>2. /\ arrived \in [Client -> Nat] /\ read \in [Client -> Nat]
        /\ parsed \in [Client -> Nat] /\ unacked \in [Client -> 0 .. SndBuf]
    OBVIOUS
  <2>3. \A c \in Client : /\ 2 * parsed[c] <= read[c] /\ read[c] <= arrived[c]
                          /\ arrived[c] <= 2 * Last[c]
    <3>1. ASSUME NEW c \in Client
          PROVE  /\ 2 * parsed[c] <= read[c] /\ read[c] <= arrived[c]
                 /\ arrived[c] <= 2 * Last[c]
      <4>1. parsed[c] = 0 /\ read[c] = 0 /\ arrived[c] = 0 /\ Last[c] \in Nat
        OBVIOUS
      <4>2. QED  BY <4>1
    <3>2. QED  BY <3>1
  <2>4. ready \in Seq(Channel) /\ batch \in Seq(Channel)
    OBVIOUS
  <2>5. replies \in [Client -> Seq(Nat \X {1, 2})]
    OBVIOUS
  <2>6. QED  BY <2>1, <2>2, <2>3, <2>4, <2>5 DEF TypeOK
<1>2. \A c \in Client : ~Live(c)
  BY DEF Live
<1>3. Range(ready) = {} /\ Range(batch) = {}
  BY DEF Range
<1>4. WaitOK /\ ReadyOK /\ HandleOK
  BY <1>2, <1>3 DEF WaitOK, ReadyOK, HandleOK, IsInjective
<1>5. ReplyOK /\ BatchIsLive
  BY DEF ReplyOK, BatchIsLive
<1>6. InputIsReported
  <2>1. ASSUME NEW ch \in Channel, ch = Listener \/ Live(ch) PROVE ~Reportable(ch)
    BY <1>2, <2>1 DEF Reportable, Channel
  <2>2. QED  BY <2>1 DEF InputIsReported
<1>7. QED  BY <1>1, <1>4, <1>5, <1>6 DEF IInv

-----------------------------------------------------------------------------
(* The clients and the kernel. *)

\* An event puts the socket it is on on the ready list, if epoll watches it.
LEMMA SignalOK ==
  ASSUME TypeOK, ReadyOK, HandleOK, NEW ch \in Channel, Signal(ch),
         UNCHANGED <<connections, batch, pc>>
  PROVE  /\ ready' \in Seq(Channel) /\ ReadyOK' /\ HandleOK'
         /\ Range(ready) \subseteq Range(ready')
         /\ ch = Listener \/ Live(ch) => ch \in Range(ready')
<1>1. ready \in Seq(Channel)
  BY DEF TypeOK
<1>2. \A d : Live(d)' <=> Live(d)
  BY DEF Live
<1>3. CASE (ch = Listener \/ Live(ch)) /\ ch \notin Range(ready)
  <2>1. ready' = Append(ready, ch)
    BY <1>3 DEF Signal
  <2>2. ready' \in Seq(Channel) /\ Range(ready') = Range(ready) \cup {ch} /\ IsInjective(ready')
    BY <1>1, <1>3, <2>1, AppendElements, AppendOrder DEF ReadyOK
  <2>3. ReadyOK' /\ HandleOK'
    BY <1>2, <1>3, <2>2 DEF ReadyOK, HandleOK
  <2>4. QED  BY <2>2, <2>3
<1>4. CASE ~ ((ch = Listener \/ Live(ch)) /\ ch \notin Range(ready))
  <2>1. ready' = ready
    BY <1>4 DEF Signal
  <2>2. ReadyOK' /\ HandleOK'
    BY <1>2, <2>1 DEF ReadyOK, HandleOK
  <2>3. QED  BY <1>1, <1>4, <2>1, <2>2
<1>5. QED  BY <1>3, <1>4

LEMMA ClientStepOK == ASSUME IInv, ClientStep PROVE IInv'
<1> USE DEF IInv
<1>1. PICK c \in Client : Connect(c) \/ Arrive(c) \/ Fin(c) \/ Reset(c) \/ Ack(c)
  BY DEF ClientStep
<1>2. UNCHANGED <<connections, read, parsed, batch, pc, killed, replies>>
  BY <1>1 DEF Connect, Arrive, Fin, Reset, Ack, program, input
<1>3. \A d : Live(d)' <=> Live(d)
  BY <1>2 DEF Live
<1>4. ReplyOK' /\ BatchIsLive'
  BY <1>2, <1>3 DEF ReplyOK, BatchIsLive
<1>5. Listener \notin Client /\ Listener \in Channel /\ c \in Channel
  BY SingleReactorAssumption DEF Channel
<1>6. CASE Connect(c)
  <2>1. /\ c \in outside /\ outside' = outside \ {c} /\ backlog' = backlog \cup {c}
        /\ Signal(Listener) /\ UNCHANGED <<limits, arrived, fin, reset, unacked>>
    BY <1>6 DEF Connect
  <2>2. /\ ready' \in Seq(Channel) /\ ReadyOK' /\ HandleOK'
        /\ Range(ready) \subseteq Range(ready') /\ Listener \in Range(ready')
    BY <1>2, <1>5, <2>1, SignalOK
  <2>3. WaitOK'
    BY <1>3, <2>1 DEF WaitOK
  <2>4. TypeOK'
    BY <1>2, <2>1, <2>2 DEF TypeOK
  <2>5. InputIsReported'
    BY <1>2, <1>3, <2>1, <2>2 DEF InputIsReported, Reportable
  <2>6. QED  BY <1>4, <2>2, <2>3, <2>4, <2>5
<1>7. CASE Arrive(c) \/ Fin(c) \/ Reset(c)
  <2>1. Signal(c) /\ UNCHANGED <<limits, outside, backlog, unacked>>
    BY <1>7 DEF Arrive, Fin, Reset
  <2>2. /\ ready' \in Seq(Channel) /\ ReadyOK' /\ HandleOK'
        /\ Range(ready) \subseteq Range(ready') /\ (Live(c) => c \in Range(ready'))
    BY <1>2, <1>5, <2>1, SignalOK
  <2>3. WaitOK'
    BY <1>3, <2>1 DEF WaitOK
  <2>4. /\ arrived' \in [Client -> Nat] /\ fin' \subseteq Client
        /\ reset' \in [Client -> {"none", "ECONNRESET", "EPIPE"}]
        /\ \A d \in Client : arrived[d] <= arrived'[d] /\ arrived'[d] <= 2 * Last[d]
        /\ \A d \in Client \ {c} :
             arrived'[d] = arrived[d] /\ reset'[d] = reset[d] /\ (d \in fin' <=> d \in fin)
    <3>1. CASE Arrive(c)
      <4>1. /\ arrived[c] < 2 * Last[c] /\ arrived' = [arrived EXCEPT ![c] = @ + 1]
            /\ UNCHANGED <<fin, reset>>
        BY <3>1 DEF Arrive
      <4>2. \A d \in Client : arrived[d] \in Nat /\ Last[d] \in Nat /\ arrived[d] <= 2 * Last[d]
        BY SingleReactorAssumption DEF TypeOK
      <4>3. arrived[c] + 1 <= 2 * Last[c]
        BY <4>1, <4>2
      <4>4. /\ arrived' \in [Client -> Nat] /\ fin' \subseteq Client
            /\ reset' \in [Client -> {"none", "ECONNRESET", "EPIPE"}]
        BY <4>1, <4>2 DEF TypeOK
      <4>5. \A d \in Client : arrived'[d] = IF d = c THEN arrived[c] + 1 ELSE arrived[d]
        BY <4>1 DEF TypeOK
      <4>6. \A d \in Client : arrived[d] <= arrived'[d] /\ arrived'[d] <= 2 * Last[d]
        BY <4>2, <4>3, <4>5
      <4>7. \A d \in Client \ {c} :
              arrived'[d] = arrived[d] /\ reset'[d] = reset[d] /\ (d \in fin' <=> d \in fin)
        BY <4>1, <4>5
      <4>8. QED  BY <4>4, <4>6, <4>7
    <3>2. CASE Fin(c)
      <4>1. \A d \in Client : arrived[d] \in Nat /\ arrived[d] <= 2 * Last[d]
        BY DEF TypeOK
      <4>2. UNCHANGED <<arrived, reset>> /\ fin' = fin \cup {c}
        BY <3>2 DEF Fin
      <4>3. /\ arrived' \in [Client -> Nat] /\ fin' \subseteq Client
            /\ reset' \in [Client -> {"none", "ECONNRESET", "EPIPE"}]
        BY <4>2 DEF TypeOK
      <4>4. \A d \in Client : arrived[d] <= arrived'[d] /\ arrived'[d] <= 2 * Last[d]
        BY <4>1, <4>2
      <4>5. \A d \in Client \ {c} :
              arrived'[d] = arrived[d] /\ reset'[d] = reset[d] /\ (d \in fin' <=> d \in fin)
        BY <4>2
      <4>6. QED  BY <4>3, <4>4, <4>5
    <3>3. CASE Reset(c)
      <4>1. \A d \in Client : arrived[d] \in Nat /\ arrived[d] <= 2 * Last[d]
        BY DEF TypeOK
      <4>2. UNCHANGED <<arrived, fin>>
        BY <3>3 DEF Reset
      <4>3. reset' = [reset EXCEPT ![c] = IF c \in fin THEN "EPIPE" ELSE "ECONNRESET"]
        BY <3>3 DEF Reset
      <4>4. /\ arrived' \in [Client -> Nat] /\ fin' \subseteq Client
            /\ reset' \in [Client -> {"none", "ECONNRESET", "EPIPE"}]
        BY <4>2, <4>3 DEF TypeOK
      <4>5. \A d \in Client : arrived[d] <= arrived'[d] /\ arrived'[d] <= 2 * Last[d]
        BY <4>1, <4>2
      <4>6. \A d \in Client \ {c} : reset'[d] = reset[d]
        BY <4>3 DEF TypeOK
      <4>7. QED  BY <4>2, <4>4, <4>5, <4>6
    <3>4. QED  BY <1>7, <3>1, <3>2, <3>3
  <2>5. TypeOK'
    <3>1. \A d \in Client : /\ 2 * parsed'[d] <= read'[d] /\ read'[d] <= arrived'[d]
                            /\ arrived'[d] <= 2 * Last[d]
      <4>1. ASSUME NEW d \in Client
            PROVE /\ 2 * parsed'[d] <= read'[d] /\ read'[d] <= arrived'[d]
        <5>1. /\ parsed[d] \in Nat /\ read[d] \in Nat /\ arrived[d] \in Nat
              /\ arrived'[d] \in Nat /\ 2 * parsed[d] <= read[d] /\ read[d] <= arrived[d]
              /\ arrived[d] <= arrived'[d]
          BY <2>4 DEF TypeOK
        <5>2. QED  BY <1>2, <5>1
      <4>2. QED  BY <2>4, <4>1
    <3>2. QED  BY <1>2, <2>1, <2>2, <2>4, <3>1 DEF TypeOK
  <2>6. InputIsReported'
    <3> SUFFICES ASSUME NEW ch \in Channel, Reportable(ch)', ch = Listener \/ Live(ch), ~killed
                 PROVE  ch \in Range(ready') \cup Range(Handling)
      BY <1>2, <1>3 DEF InputIsReported, Handling
    <3>1. CASE ch = c
      BY <1>5, <2>2, <3>1
    <3>2. CASE ch # c
      <4>1. Reportable(ch)
        BY <2>1, <2>4, <1>2, <3>2 DEF Reportable, Channel
      <4>2. QED  BY <2>2, <4>1 DEF InputIsReported, Handling
    <3>3. QED  BY <3>1, <3>2
  <2>7. QED  BY <1>4, <2>2, <2>3, <2>5, <2>6
<1>8. CASE Ack(c)
  <2>1. /\ unacked[c] > 0 /\ unacked' = [unacked EXCEPT ![c] = @ - 1]
        /\ UNCHANGED <<limits, outside, backlog, arrived, fin, reset, ready>>
    BY <1>8 DEF Ack, socket
  <2>2. unacked' \in [Client -> 0 .. SndBuf]
    <3>1. unacked[c] - 1 \in 0 .. SndBuf
      BY <2>1, SingleReactorAssumption DEF TypeOK
    <3>2. QED  BY <2>1, <3>1 DEF TypeOK
  <2>3. TypeOK'
    BY <1>2, <2>1, <2>2 DEF TypeOK
  <2>4. WaitOK' /\ ReadyOK' /\ HandleOK' /\ InputIsReported'
    BY <1>2, <1>3, <2>1 DEF WaitOK, ReadyOK, HandleOK, InputIsReported, Reportable
  <2>5. QED  BY <1>4, <2>3, <2>4
<1>9. QED  BY <1>1, <1>6, <1>7, <1>8

-----------------------------------------------------------------------------
(* EventLoop::run and Epoll::loop. *)

\* Every socket with something to report is in the batch, or stays on the ready
\* list; the listening socket stays in any case.
LEMMA PollOK == ASSUME IInv, Poll PROVE IInv'
<1> USE DEF IInv
<1> DEFINE T == {ch \in Channel : Reportable(ch)}
           events == Filter(ready, T)
           n == Smaller(MaxEvents, Len(events))
<1>1. /\ batch = <<>> /\ ~killed /\ n > 0
      /\ batch' = SubSeq(events, 1, n) /\ ready' = Rest(events, n)
      /\ UNCHANGED <<limits, outside, backlog, arrived, fin, reset, unacked, connections,
                     read, parsed, pc, killed, replies>>
  BY DEF Poll, socket, input
<1>2. /\ events \in Seq(Channel) /\ IsInjective(events)
      /\ Range(events) = Range(ready) \cap T
  BY FilterElements DEF TypeOK, ReadyOK
<1>3. n \in 0 .. Len(events)
  <2>1. MaxEvents \in Nat
    BY SingleReactorAssumption DEF TypeOK, MaxEvents
  <2>2. Len(events) \in Nat
    BY <1>2
  <2>3. QED  BY <2>1, <2>2 DEF Smaller
<1> HIDE DEF n, events
<1>4. /\ batch' \in Seq(Channel) /\ Len(batch') = n /\ IsInjective(batch')
      /\ ready' \in Seq(Channel) /\ IsInjective(ready')
      /\ Range(events) = Range(batch') \cup Range(ready')
      /\ Listener \in Range(batch') => Listener \in Range(ready')
  BY <1>1, <1>2, <1>3, RestOK
<1>5. pc = "handle"
  BY <1>1 DEF HandleOK, TypeOK
<1>6. \A d : Live(d)' <=> Live(d)
  BY <1>1 DEF Live
<1>7. TypeOK'
  BY <1>1, <1>4 DEF TypeOK
<1>8. WaitOK' /\ ReplyOK'
  BY <1>1, <1>6 DEF WaitOK, ReplyOK
<1>9. Range(batch') \cup Range(ready') \subseteq Range(ready)
  BY <1>2, <1>4
<1>10. ReadyOK' /\ HandleOK'
  BY <1>1, <1>4, <1>5, <1>6, <1>9 DEF ReadyOK, HandleOK
<1>11. BatchIsLive'
  <2>1. \A i \in DOMAIN batch' : batch'[i] \in Range(batch')
    BY DEF Range
  <2>2. QED  BY <1>4, <1>6, <1>9, <2>1 DEF BatchIsLive, ReadyOK, IsInjective
<1>12. InputIsReported'
  <2> SUFFICES ASSUME NEW ch \in Channel, Reportable(ch)', ch = Listener \/ Live(ch)
               PROVE  ch \in Range(ready') \cup Range(batch')
    BY <1>1, <1>5, <1>6 DEF InputIsReported
  <2>1. Reportable(ch)
    BY <1>1 DEF Reportable
  <2>2. ch \in Range(ready) \cup Range(batch)
    BY <1>1, <1>5, <2>1 DEF InputIsReported
  <2>3. Range(batch) = {}
    BY <1>1 DEF Range
  <2>4. QED  BY <1>2, <1>4, <2>1, <2>2, <2>3
<1>13. QED  BY <1>7, <1>8, <1>10, <1>11, <1>12

\* When a handler has run, the channels behind it are as live as they were, and
\* it is not among them.
LEMMA TailOfBatch ==
  ASSUME TypeOK, BatchIsLive, batch # <<>>
  PROVE  /\ Head(batch) \in Channel /\ Tail(batch) \in Seq(Channel)
         /\ Range(batch) = Range(Tail(batch)) \cup {Head(batch)}
         /\ Head(batch) \notin Range(Tail(batch)) /\ IsInjective(Tail(batch))
         /\ \A ch \in Range(Tail(batch)) : ch = Listener \/ Live(ch)
<1>1. batch \in Seq(Channel) /\ IsInjective(batch)
  BY DEF TypeOK, BatchIsLive, IsInjective
<1>2. /\ Head(batch) \in Channel /\ Tail(batch) \in Seq(Channel)
      /\ Range(batch) = Range(Tail(batch)) \cup {Head(batch)}
      /\ Head(batch) \notin Range(Tail(batch)) /\ IsInjective(Tail(batch))
  BY <1>1, TailElements
<1>3. \A ch \in Range(batch) : ch = Listener \/ Live(ch)
  BY DEF BatchIsLive, Range
<1>4. QED  BY <1>2, <1>3

\* The new Connection is one that waited; the listening socket stays reported
\* for those that still wait.
LEMMA AcceptOK == ASSUME IInv, Accept PROVE IInv'
<1> USE DEF IInv
<1>1. PICK c \in backlog, fd \in Free :
        /\ backlog' = backlog \ {c} /\ connections' = [connections EXCEPT ![fd] = c]
        /\ Watch(c)
  BY DEF Accept
<1>2. /\ ~killed /\ pc = "handle" /\ batch # <<>> /\ Head(batch) = Listener
      /\ batch' = Tail(batch)
      /\ UNCHANGED <<limits, outside, arrived, fin, reset, unacked, read, parsed, pc,
                     killed, replies>>
  BY DEF Accept, Handles, input
<1>3. c \in Client /\ c # Listener /\ Listener \in Channel /\ c \in Channel /\ ~Live(c)
  BY SingleReactorAssumption DEF TypeOK, Channel, WaitOK
<1>4. fd \in Fd /\ connections[fd] = None /\ None \notin Client
  BY SingleReactorAssumption DEF Free, Open
<1>5. \A d \in Client : Live(d)' <=> Live(d) \/ d = c
  BY <1>1, <1>4 DEF Live, TypeOK
<1>6. /\ ready' \in Seq(Channel) /\ IsInjective(ready')
      /\ Range(ready) \subseteq Range(ready') /\ Range(ready') \subseteq Range(ready) \cup {c}
      /\ Reportable(c) => c \in Range(ready')
  <2>1. ready \in Seq(Channel) /\ IsInjective(ready) /\ c \notin Range(ready)
    BY <1>3 DEF TypeOK, ReadyOK
  <2>2. CASE Reportable(c)
    <3>1. ready' = Append(ready, c)
      BY <1>1, <2>2 DEF Watch
    <3>2. /\ ready' \in Seq(Channel) /\ IsInjective(ready')
          /\ Range(ready') = Range(ready) \cup {c}
      <4>1. /\ Append(ready, c) \in Seq(Channel)
            /\ Range(Append(ready, c)) = Range(ready) \cup {c}
        BY <1>3, <2>1, AppendElements
      <4>2. IsInjective(Append(ready, c))
        BY <1>3, <2>1, AppendOrder
      <4>3. QED  BY <3>1, <4>1, <4>2
    <3>3. QED  BY <3>2
  <2>3. CASE ~Reportable(c)
    <3>1. ready' = ready
      BY <1>1, <2>3 DEF Watch
    <3>2. QED  BY <2>1, <2>3, <3>1
  <2>4. QED  BY <2>2, <2>3
<1>7. /\ Tail(batch) \in Seq(Channel) /\ IsInjective(Tail(batch))
      /\ Range(batch) = Range(Tail(batch)) \cup {Listener}
      /\ \A ch \in Range(Tail(batch)) : ch = Listener \/ Live(ch)
  BY <1>2, TailOfBatch
<1>8. /\ \A ch \in Range(batch') : ch \in Client \cup {Listener}
      /\ \A ch \in Range(ready') : ch \in Client \cup {Listener}
  BY <1>2, <1>6, <1>7 DEF Channel, Range
<1>9. TypeOK'
  <2>1. connections' \in [Fd -> Client \cup {None}]
    BY <1>1, <1>3 DEF TypeOK
  <2>2. outside' \cup backlog' \cup fin' \subseteq Client
    BY <1>1, <1>2 DEF TypeOK
  <2>3. QED  BY <1>2, <1>6, <1>7, <2>1, <2>2 DEF TypeOK
<1>10. WaitOK'
  <2>1. outside \subseteq Client /\ backlog \subseteq Client
    BY DEF TypeOK
  <2>2. QED  BY <1>1, <1>2, <1>5, <2>1 DEF WaitOK
<1>11. ReadyOK' /\ HandleOK' /\ ReplyOK'
  <2>1. Listener \in Range(ready')
    BY <1>6, <1>7 DEF HandleOK
  <2>2. \A ch \in Range(ready') : ch = Listener \/ Live(ch)'
    BY <1>5, <1>6, <1>8 DEF ReadyOK
  <2>3. QED  BY <1>2, <1>6, <2>1, <2>2 DEF ReadyOK, HandleOK, ReplyOK
<1>12. BatchIsLive'
  <2>1. \A ch \in Range(batch') : ch = Listener \/ Live(ch)'
    BY <1>2, <1>5, <1>7, <1>8
  <2>2. \A i \in DOMAIN batch' : batch'[i] \in Range(batch')
    BY DEF Range
  <2>3. QED  BY <1>2, <1>7, <2>1, <2>2 DEF BatchIsLive, IsInjective
<1>13. InputIsReported'
  <2> SUFFICES ASSUME NEW ch \in Channel, Reportable(ch)', (ch = Listener \/ Live(ch))'
               PROVE  ch \in Range(ready') \cup Range(batch')
    BY <1>2 DEF InputIsReported
  <2>1. CASE ch = Listener
    BY <1>6, <1>7, <2>1 DEF HandleOK
  <2>2. CASE ch = c
    <3>1. Reportable(c)
      BY <1>2, <1>3, <2>2 DEF Reportable
    <3>2. QED  BY <1>6, <2>2, <3>1
  <2>3. CASE ch # Listener /\ ch # c
    <3>1. Reportable(ch) /\ Live(ch) /\ ch \in Client
      BY <1>2, <1>5, <2>3 DEF Reportable, Channel
    <3>2. ch \in Range(ready) \cup Range(batch)
      BY <1>2, <3>1 DEF InputIsReported
    <3>3. QED  BY <1>2, <1>6, <1>7, <2>3, <3>2
  <2>4. QED  BY <2>1, <2>2, <2>3
<1>14. QED  BY <1>9, <1>10, <1>11, <1>12, <1>13

LEMMA AcceptFailsOK == ASSUME IInv, AcceptFails PROVE IInv'
<1> USE DEF IInv
<1>1. /\ ~killed /\ pc = "handle" /\ batch # <<>> /\ Head(batch) = Listener
      /\ batch' = Tail(batch)
      /\ UNCHANGED <<limits, outside, backlog, arrived, fin, reset, unacked, ready,
                     connections, read, parsed, pc, killed, replies>>
  BY DEF AcceptFails, Handles, socket, input
<1>2. /\ Tail(batch) \in Seq(Channel) /\ IsInjective(Tail(batch))
      /\ Range(batch) = Range(Tail(batch)) \cup {Listener}
      /\ \A ch \in Range(Tail(batch)) : ch = Listener \/ Live(ch)
  BY <1>1, TailOfBatch
<1>3. \A d : Live(d)' <=> Live(d)
  BY <1>1 DEF Live
<1>4. TypeOK' /\ WaitOK' /\ ReplyOK' /\ ReadyOK'
  BY <1>1, <1>2, <1>3 DEF TypeOK, WaitOK, ReplyOK, ReadyOK
<1>5. HandleOK'
  BY <1>1, <1>2 DEF HandleOK
<1>6. BatchIsLive'
  <2>1. \A i \in DOMAIN batch' : batch'[i] \in Range(batch')
    BY DEF Range
  <2>2. QED  BY <1>1, <1>2, <1>3, <2>1 DEF BatchIsLive, IsInjective
<1>7. InputIsReported'
  <2> SUFFICES ASSUME NEW ch \in Channel, Reportable(ch), ch = Listener \/ Live(ch)
               PROVE  ch \in Range(ready') \cup Range(batch')
    BY <1>1, <1>3 DEF InputIsReported, Reportable
  <2>1. ch \in Range(ready) \cup Range(batch) /\ Listener \in Range(ready)
    BY <1>1, <1>2 DEF InputIsReported, HandleOK
  <2>2. QED  BY <1>1, <1>2, <2>1
<1>8. QED  BY <1>4, <1>5, <1>6, <1>7

-----------------------------------------------------------------------------
(* Connection::onmessage. *)

\* closeconnection leaves no pointer to the Connection it deletes: the client's
\* socket is off the ready list, and was nowhere else in the batch.
LEMMA ReadEndOK == ASSUME IInv, NEW c \in Client, ReadEnd(c) PROVE IInv'
<1> USE DEF IInv
<1>1. /\ ~killed /\ pc = "handle" /\ batch # <<>> /\ Head(batch) = c
      /\ batch' = Tail(batch) /\ read' = [read EXCEPT ![c] = arrived[c]]
      /\ connections' = [fd \in Fd |-> IF connections[fd] = c THEN None
                                       ELSE connections[fd]]
      /\ ready' = Filter(ready, Channel \ {c})
      /\ UNCHANGED <<limits, outside, backlog, arrived, fin, reset, unacked, parsed, pc,
                     killed, replies>>
  BY DEF ReadEnd, Handles, Close, BatchAfterClose, socket
<1>2. c # Listener /\ None \notin Client
  BY SingleReactorAssumption
<1>3. \A d \in Client : Live(d)' <=> Live(d) /\ d # c
  BY <1>1, <1>2 DEF Live
<1>4. /\ Tail(batch) \in Seq(Channel) /\ IsInjective(Tail(batch))
      /\ Range(batch) = Range(Tail(batch)) \cup {c} /\ c \notin Range(Tail(batch))
      /\ \A ch \in Range(Tail(batch)) : ch = Listener \/ Live(ch)
  BY <1>1, TailOfBatch
<1>5. /\ ready' \in Seq(Channel) /\ IsInjective(ready')
      /\ Range(ready') = Range(ready) \cap (Channel \ {c})
  BY <1>1, FilterElements DEF TypeOK, ReadyOK
<1>6. Range(ready) \subseteq Channel /\ Range(batch) \subseteq Channel
  BY DEF TypeOK, Range
<1>7. \A ch \in Channel : ch = Listener \/ ch \in Client
  BY DEF Channel
<1>8. TypeOK'
  <2>1. connections' \in [Fd -> Client \cup {None}]
    BY <1>1 DEF TypeOK
  <2>2. read' \in [Client -> Nat]
    BY <1>1 DEF TypeOK
  <2>3. \A d \in Client : /\ 2 * parsed'[d] <= read'[d] /\ read'[d] <= arrived'[d]
                          /\ arrived'[d] <= 2 * Last[d]
    <3>1. ASSUME NEW d \in Client
          PROVE  2 * parsed'[d] <= read'[d] /\ read'[d] <= arrived'[d]
      <4>1. /\ parsed[d] \in Nat /\ read[d] \in Nat /\ arrived[d] \in Nat
            /\ 2 * parsed[d] <= read[d] /\ read[d] <= arrived[d]
            /\ read'[d] = IF d = c THEN arrived[d] ELSE read[d]
        BY <1>1 DEF TypeOK
      <4>2. QED  BY <1>1, <4>1
    <3>2. QED  BY <1>1, <3>1 DEF TypeOK
  <2>4. QED  BY <1>1, <1>4, <1>5, <2>1, <2>2, <2>3 DEF TypeOK
<1>9. WaitOK' /\ ReplyOK'
  <2>1. outside \cup backlog \subseteq Client
    BY DEF TypeOK
  <2>2. QED  BY <1>1, <1>3, <2>1 DEF WaitOK, ReplyOK
<1>10. ReadyOK'
  BY <1>3, <1>5, <1>7 DEF ReadyOK
<1>11. HandleOK'
  <2>1. Listener \in Range(batch') => Listener \in Range(ready')
    BY <1>1, <1>2, <1>4, <1>5, <1>6 DEF HandleOK
  <2>2. QED  BY <1>1, <2>1 DEF HandleOK
<1>12. BatchIsLive'
  <2>1. \A ch \in Range(batch') : ch = Listener \/ Live(ch)'
    BY <1>1, <1>3, <1>4, <1>6, <1>7
  <2>2. \A i \in DOMAIN batch' : batch'[i] \in Range(batch')
    BY DEF Range
  <2>3. QED  BY <1>1, <1>4, <2>1, <2>2 DEF BatchIsLive, IsInjective
<1>13. InputIsReported'
  <2> SUFFICES ASSUME NEW ch \in Channel, Reportable(ch)', (ch = Listener \/ Live(ch))'
               PROVE  ch \in Range(ready') \cup Range(batch')
    BY <1>1 DEF InputIsReported
  <2>1. ch # c /\ (ch = Listener \/ Live(ch))
    BY <1>2, <1>3, <1>7
  <2>2. Reportable(ch)
    BY <1>1, <1>7, <2>1 DEF Reportable, TypeOK
  <2>3. ch \in Range(ready) \cup Range(batch)
    BY <1>1, <2>1, <2>2 DEF InputIsReported
  <2>4. QED  BY <1>1, <1>4, <1>5, <2>1, <2>3
<1>14. QED  BY <1>8, <1>9, <1>10, <1>11, <1>12, <1>13

\* When all is read and the connection has not ended, nothing is left to report.
LEMMA ReadAllOK == ASSUME IInv, NEW c \in Client, ReadAll(c) PROVE IInv'
<1> USE DEF IInv
<1>1. /\ ~killed /\ pc = "handle" /\ batch # <<>> /\ Head(batch) = c /\ ~Ended(c)
      /\ pc' = "reply" /\ read' = [read EXCEPT ![c] = arrived[c]]
      /\ UNCHANGED <<limits, outside, backlog, arrived, fin, reset, unacked, ready,
                     connections, parsed, batch, killed, replies>>
  BY DEF ReadAll, Handles, ReadUp, socket
<1>2. \A d : Live(d)' <=> Live(d)
  BY <1>1 DEF Live
<1>3. \A d \in Client : read'[d] = IF d = c THEN arrived[d] ELSE read[d]
  BY <1>1 DEF TypeOK
<1>4. TypeOK'
  <2>1. read' \in [Client -> Nat]
    BY <1>1 DEF TypeOK
  <2>2. \A d \in Client : /\ 2 * parsed'[d] <= read'[d] /\ read'[d] <= arrived'[d]
                          /\ arrived'[d] <= 2 * Last[d]
    <3>1. ASSUME NEW d \in Client
          PROVE  2 * parsed'[d] <= read'[d] /\ read'[d] <= arrived'[d]
      <4>1. /\ parsed[d] \in Nat /\ read[d] \in Nat /\ arrived[d] \in Nat
            /\ 2 * parsed[d] <= read[d] /\ read[d] <= arrived[d]
        BY DEF TypeOK
      <4>2. QED  BY <1>1, <1>3, <4>1
    <3>2. QED  BY <1>1, <3>1 DEF TypeOK
  <2>3. QED  BY <1>1, <2>1, <2>2 DEF TypeOK
<1>5. WaitOK' /\ ReplyOK' /\ ReadyOK' /\ BatchIsLive'
  BY <1>1, <1>2 DEF WaitOK, ReplyOK, ReadyOK, BatchIsLive
<1>6. HandleOK'
  BY <1>1 DEF HandleOK
<1>7. Range(batch) = Range(Tail(batch)) \cup {c}
  BY <1>1, TailOfBatch
<1>8. InputIsReported'
  <2> SUFFICES ASSUME NEW ch \in Channel, Reportable(ch)', ch = Listener \/ Live(ch)
               PROVE  ch \in Range(ready') \cup Range(Tail(batch'))
    BY <1>1, <1>2 DEF InputIsReported
  <2>1. ch # c
    <3>1. c # Listener /\ arrived[c] \in Nat
      BY SingleReactorAssumption DEF TypeOK
    <3>2. ~ (arrived'[c] > read'[c]) /\ c \notin fin' /\ reset'[c] = "none"
      BY <1>1, <1>3, <3>1 DEF Ended
    <3>3. QED  BY <3>1, <3>2 DEF Reportable
  <2>2. Reportable(ch)
    BY <1>1, <1>3, <2>1 DEF Reportable, Channel
  <2>3. ch \in Range(ready) \cup Range(batch)
    BY <1>1, <2>2 DEF InputIsReported
  <2>4. QED  BY <1>1, <1>7, <2>1, <2>3
<1>9. QED  BY <1>4, <1>5, <1>6, <1>8

\* What send() adds to replies and to the send buffer.
LEMMA SendOK ==
  ASSUME TypeOK, NEW c \in Client, NEW m \in Nat, send(c, m)
  PROVE  /\ killed' \in BOOLEAN /\ reset' \in [Client -> {"none", "ECONNRESET", "EPIPE"}]
         /\ \A d \in Client : reset'[d] # "none" => reset[d] # "none"
         /\ unacked' \in [Client -> 0 .. SndBuf]
         /\ \/ UNCHANGED replies
            \/ \E n \in {1, 2} : replies' = [replies EXCEPT ![c] = Append(@, <<m, n>>)]
<1>1. CASE /\ reset[c] = "none" /\ UNCHANGED <<reset, killed>>
           /\ LET n == Smaller(2, SndBuf - unacked[c])
              IN  /\ unacked' = [unacked EXCEPT ![c] = @ + n]
                  /\ replies' = IF n = 0 THEN replies
                                ELSE [replies EXCEPT ![c] = Append(@, <<m, n>>)]
  <2> DEFINE n == Smaller(2, SndBuf - unacked[c])
  <2>1. /\ unacked' = [unacked EXCEPT ![c] = @ + n]
        /\ replies' = IF n = 0 THEN replies
                      ELSE [replies EXCEPT ![c] = Append(@, <<m, n>>)]
    BY <1>1
  <2>2. SndBuf \in Nat /\ unacked[c] \in 0 .. SndBuf
    BY SingleReactorAssumption DEF TypeOK
  <2>3. n \in {0, 1, 2} /\ unacked[c] + n \in 0 .. SndBuf
    BY <2>2 DEF Smaller
  <2> HIDE DEF n
  <2>4. unacked' \in [Client -> 0 .. SndBuf]
    BY <2>1, <2>3 DEF TypeOK
  <2>5. \/ UNCHANGED replies
        \/ \E k \in {1, 2} : replies' = [replies EXCEPT ![c] = Append(@, <<m, k>>)]
    BY <2>1, <2>3
  <2>6. killed' \in BOOLEAN /\ reset' \in [Client -> {"none", "ECONNRESET", "EPIPE"}]
    BY <1>1 DEF TypeOK
  <2>7. QED  BY <1>1, <2>4, <2>5, <2>6
<1>2. CASE /\ reset[c] = "ECONNRESET" /\ reset' = [reset EXCEPT ![c] = "EPIPE"]
           /\ UNCHANGED <<unacked, replies, killed>>
  BY <1>2 DEF TypeOK
<1>3. CASE /\ reset[c] = "EPIPE" /\ killed' = TRUE
           /\ UNCHANGED <<unacked, replies, reset>>
  BY <1>3 DEF TypeOK
<1>4. QED  BY <1>1, <1>2, <1>3 DEF send

\* A message is answered, and taken out of the buffer.
LEMMA HandleMessageOK == ASSUME IInv, NEW c \in Client, HandleMessage(c) PROVE IInv'
<1> USE DEF IInv
<1> DEFINE m == parsed[c] + 1
<1>1. /\ ~killed /\ pc = "reply" /\ parsed[c] < Complete(c)
      /\ parsed' = [parsed EXCEPT ![c] = m] /\ send(c, m)
      /\ UNCHANGED <<limits, outside, backlog, arrived, fin, ready, connections, read,
                     batch, pc>>
  BY DEF HandleMessage, Replies, Erased, NextMessage
<1>2. m \in Nat /\ 2 * m <= read[c] /\ parsed[c] \in Nat
  BY <1>1 DEF TypeOK, Complete
<1>3. /\ killed' \in BOOLEAN /\ reset' \in [Client -> {"none", "ECONNRESET", "EPIPE"}]
      /\ \A d \in Client : reset'[d] # "none" => reset[d] # "none"
      /\ unacked' \in [Client -> 0 .. SndBuf]
      /\ \/ UNCHANGED replies
         \/ \E n \in {1, 2} : replies' = [replies EXCEPT ![c] = Append(@, <<m, n>>)]
  BY <1>1, <1>2, SendOK
<1>4. \A d \in Client : parsed'[d] = IF d = c THEN m ELSE parsed[d]
  BY <1>1 DEF TypeOK
<1> HIDE DEF m
<1>5. \A d : Live(d)' <=> Live(d)
  BY <1>1 DEF Live
<1>6. /\ replies' \in [Client -> Seq(Nat \X {1, 2})]
      /\ \A d \in Client : \A i \in DOMAIN replies'[d] :
           \/ i \in DOMAIN replies[d] /\ replies'[d][i] = replies[d][i]
           \/ d = c /\ replies'[d][i][1] = m
  <2>1. CASE UNCHANGED replies
    BY <2>1 DEF TypeOK
  <2>2. ASSUME NEW n \in {1, 2}, replies' = [replies EXCEPT ![c] = Append(@, <<m, n>>)]
        PROVE  /\ replies' \in [Client -> Seq(Nat \X {1, 2})]
               /\ \A d \in Client : \A i \in DOMAIN replies'[d] :
                    \/ i \in DOMAIN replies[d] /\ replies'[d][i] = replies[d][i]
                    \/ d = c /\ replies'[d][i][1] = m
    <3> DEFINE r == replies[c]
               x == <<m, n>>
    <3>1. r \in Seq(Nat \X {1, 2}) /\ x \in Nat \X {1, 2} /\ x[1] = m
      BY <1>2 DEF TypeOK
    <3>2. /\ replies' = [replies EXCEPT ![c] = Append(r, x)]
      BY <2>2
    <3> HIDE DEF x, r
    <3>3. /\ Append(r, x) \in Seq(Nat \X {1, 2})
          /\ \A i \in DOMAIN Append(r, x) :
               \/ i \in DOMAIN r /\ Append(r, x)[i] = r[i]
               \/ Append(r, x)[i] = x
      BY <3>1
    <3>4. \A d \in Client : replies'[d] = IF d = c THEN Append(r, x) ELSE replies[d]
      BY <3>2 DEF TypeOK
    <3>5. replies' \in [Client -> Seq(Nat \X {1, 2})]
      BY <3>2, <3>3 DEF TypeOK
    <3>6. QED  BY <3>1, <3>3, <3>4, <3>5 DEF r
  <2>3. QED  BY <1>3, <2>1, <2>2
<1>7. ReplyOK'
  <2>1. ASSUME NEW d \in Client, NEW i \in DOMAIN replies'[d]
        PROVE  replies'[d][i][1] <= parsed'[d]
    <3>1. CASE i \in DOMAIN replies[d] /\ replies'[d][i] = replies[d][i]
      <4>1. replies[d][i][1] \in Nat /\ replies[d][i][1] <= parsed[d] /\ parsed[d] \in Nat
        BY <3>1 DEF TypeOK, ReplyOK
      <4>2. parsed[d] <= parsed'[d] /\ parsed'[d] \in Nat
        BY <1>2, <1>4, <4>1 DEF m
      <4>3. QED  BY <3>1, <4>1, <4>2
    <3>2. CASE d = c /\ replies'[d][i][1] = m
      BY <1>2, <1>4, <3>2
    <3>3. QED  BY <1>6, <3>1, <3>2
  <2>2. QED  BY <2>1 DEF ReplyOK
<1>8. TypeOK'
  <2>1. parsed' \in [Client -> Nat]
    BY <1>1, <1>2 DEF TypeOK, m
  <2>2. \A d \in Client : /\ 2 * parsed'[d] <= read'[d] /\ read'[d] <= arrived'[d]
                          /\ arrived'[d] <= 2 * Last[d]
    BY <1>1, <1>2, <1>4 DEF TypeOK
  <2>3. QED  BY <1>1, <1>3, <1>6, <2>1, <2>2 DEF TypeOK
<1>9. WaitOK' /\ ReadyOK' /\ HandleOK' /\ BatchIsLive'
  BY <1>1, <1>5 DEF WaitOK, ReadyOK, HandleOK, BatchIsLive
<1>10. InputIsReported'
  <2>1. ASSUME NEW ch \in Channel, Reportable(ch)' PROVE Reportable(ch)
    BY <1>1, <1>3, <2>1 DEF Reportable, Channel
  <2>2. QED  BY <1>1, <1>5, <2>1 DEF InputIsReported
<1>11. QED  BY <1>7, <1>8, <1>9, <1>10

LEMMA StopParsingOK == ASSUME IInv, NEW c \in Client, StopParsing(c) PROVE IInv'
<1> USE DEF IInv
<1>1. /\ pc = "reply" /\ pc' = "handle" /\ batch' = Tail(batch) /\ batch # <<>>
      /\ Head(batch) = c
      /\ \/ UNCHANGED parsed
         \/ parsed[c] < Complete(c) /\ parsed' = [parsed EXCEPT ![c] = parsed[c] + 1]
      /\ UNCHANGED <<limits, outside, backlog, arrived, fin, reset, unacked, ready,
                     connections, read, killed, replies>>
  BY DEF StopParsing, Replies, HandleOK, socket
<1>2. /\ Tail(batch) \in Seq(Channel) /\ IsInjective(Tail(batch))
      /\ Range(batch) = Range(Tail(batch)) \cup {c}
      /\ \A ch \in Range(Tail(batch)) : ch = Listener \/ Live(ch)
  BY <1>1, TailOfBatch
<1>3. \A d : Live(d)' <=> Live(d)
  BY <1>1 DEF Live
<1>4. /\ parsed' \in [Client -> Nat]
      /\ \A d \in Client : parsed[d] <= parsed'[d] /\ 2 * parsed'[d] <= read[d]
  <2>1. \A d \in Client : parsed[d] \in Nat /\ read[d] \in Nat /\ 2 * parsed[d] <= read[d]
    BY DEF TypeOK
  <2>2. CASE UNCHANGED parsed
    BY <2>1, <2>2 DEF TypeOK
  <2>3. CASE parsed[c] < Complete(c) /\ parsed' = [parsed EXCEPT ![c] = parsed[c] + 1]
    <3>1. 2 * (parsed[c] + 1) <= read[c] /\ parsed[c] + 1 \in Nat
      BY <2>1, <2>3 DEF Complete
    <3>2. \A d \in Client : parsed'[d] = IF d = c THEN parsed[c] + 1 ELSE parsed[d]
      BY <2>3 DEF TypeOK
    <3>3. parsed' \in [Client -> Nat]
      BY <2>3, <3>1 DEF TypeOK
    <3>4. QED  BY <2>1, <3>1, <3>2, <3>3
  <2>4. QED  BY <1>1, <2>2, <2>3
<1>5. TypeOK'
  BY <1>1, <1>2, <1>4 DEF TypeOK
<1>6. ReplyOK'
  <2>1. ASSUME NEW d \in Client, NEW i \in DOMAIN replies[d]
        PROVE  replies[d][i][1] <= parsed'[d]
    <3>1. replies[d][i][1] \in Nat /\ parsed[d] \in Nat /\ replies[d][i][1] <= parsed[d]
      BY DEF TypeOK, ReplyOK
    <3>2. parsed'[d] \in Nat /\ parsed[d] <= parsed'[d]
      BY <1>4
    <3>3. QED  BY <3>1, <3>2
  <2>2. QED  BY <1>1, <2>1 DEF ReplyOK
<1>7. WaitOK' /\ ReadyOK' /\ HandleOK'
  BY <1>1, <1>2, <1>3 DEF WaitOK, ReadyOK, HandleOK
<1>8. BatchIsLive'
  <2>1. \A i \in DOMAIN batch' : batch'[i] \in Range(batch')
    BY DEF Range
  <2>2. QED  BY <1>1, <1>2, <1>3, <2>1 DEF BatchIsLive, IsInjective
<1>9. InputIsReported'
  BY <1>1, <1>3 DEF InputIsReported, Reportable
<1>10. QED  BY <1>5, <1>6, <1>7, <1>8, <1>9

LEMMA Stutter == ASSUME IInv, UNCHANGED vars PROVE IInv'
<1> USE DEF IInv, vars, socket, program, input
<1>1. \A d : Live(d)' <=> Live(d)
  BY DEF Live
<1>2. TypeOK' /\ WaitOK' /\ ReadyOK' /\ HandleOK' /\ ReplyOK'
  BY <1>1 DEF TypeOK, WaitOK, ReadyOK, HandleOK, ReplyOK
<1>3. BatchIsLive' /\ InputIsReported'
  BY <1>1 DEF BatchIsLive, InputIsReported, Reportable
<1>4. QED  BY <1>2, <1>3

LEMMA Inductive == IInv /\ [Next]_vars => IInv'
<1> SUFFICES ASSUME IInv, [Next]_vars PROVE IInv'
  OBVIOUS
<1>1. CASE ClientStep
  BY <1>1, ClientStepOK
<1>2. CASE Poll \/ Accept \/ AcceptFails
  BY <1>2, PollOK, AcceptOK, AcceptFailsOK
<1>3. ASSUME NEW c \in Client, ReadEnd(c) \/ ReadAll(c) \/ HandleMessage(c) \/ StopParsing(c)
      PROVE  IInv'
  BY <1>3, ReadEndOK, ReadAllOK, HandleMessageOK, StopParsingOK
<1>4. CASE UNCHANGED vars
  BY <1>4, Stutter
<1>5. QED  BY <1>1, <1>2, <1>3, <1>4 DEF Next, run

LEMMA Invariance == Spec => []IInv
BY InitOK, Inductive, PTL DEF Spec

-----------------------------------------------------------------------------
\* Every variable keeps its type; nothing is parsed before it is read, nor read
\* before it has arrived; the send buffer never holds more than it may.
THEOREM Typing == Spec => []TypeOK
BY Invariance, PTL DEF IInv

\* The channels of one epoll_wait are alive when their turn comes, whatever
\* handlers before them create or delete (closeconnection, EventLoop::run).
THEOREM NoDeadChannel == Spec => []BatchIsLive
BY Invariance, PTL DEF IInv

\* Edge-triggered input and waiting clients are never overlooked (Epoll::loop,
\* Connection::onmessage, Acceptor::newconnection).
THEOREM NoInputOverlooked == Spec => []InputIsReported
BY Invariance, PTL DEF IInv

\* What a client sees is what Echo promises: a unit that completes a message is
\* Echo's Ask, a reply its Answer, and every other step changes neither.
THEOREM EchoImplemented == Spec => ImplementsEcho
<1> DEFINE asked == [c \in Client |-> arrived[c] \div 2]
           answers == [c \in Client |-> [i \in DOMAIN replies[c] |-> replies[c][i][1]]]
<1>1. Init => E!Init
  <2> SUFFICES ASSUME Init PROVE E!Init
    OBVIOUS
  <2>1. asked = [c \in Client |-> 0]
    <3>1. \A c \in Client : arrived[c] \div 2 = 0
      BY DEF Init
    <3>2. QED  BY <3>1
  <2>2. answers = [c \in Client |-> <<>>]
    <3>1. ASSUME NEW c \in Client
          PROVE  [i \in DOMAIN replies[c] |-> replies[c][i][1]] = <<>>
      <4>1. DOMAIN replies[c] = {}
        BY DEF Init
      <4>2. QED  BY <4>1
    <3>2. QED  BY <3>1
  <2>3. QED  BY <2>1, <2>2 DEF E!Init
<1>2. ASSUME IInv, [Next]_vars PROVE [E!Next]_E!vars
  <2> USE <1>2
  <2>1. CASE UNCHANGED <<arrived, replies>>
    BY <2>1 DEF E!vars
  <2>2. ASSUME NEW c \in Client, Arrive(c) PROVE [E!Next]_E!vars
    <3>1. UNCHANGED replies /\ arrived' = [arrived EXCEPT ![c] = @ + 1]
      BY <2>2 DEF Arrive, program
    <3>2. \A d \in Client : /\ arrived[d] \in Nat
                            /\ arrived'[d] = IF d = c THEN arrived[c] + 1 ELSE arrived[d]
      BY <3>1 DEF IInv, TypeOK
    <3>3. answers' = answers
      BY <3>1
    <3>4. \/ arrived'[c] \div 2 = arrived[c] \div 2
          \/ arrived'[c] \div 2 = (arrived[c] \div 2) + 1
      BY <3>2
    <3>5. CASE arrived'[c] \div 2 = arrived[c] \div 2
      <4>1. asked' = asked
        BY <3>2, <3>5
      <4>2. QED  BY <3>3, <4>1 DEF E!vars
    <3>6. CASE arrived'[c] \div 2 = (arrived[c] \div 2) + 1
      <4>1. asked' = [asked EXCEPT ![c] = asked[c] + 1]
        BY <3>2, <3>6
      <4>2. E!Ask(c)
        BY <3>3, <4>1 DEF E!Ask
      <4>3. QED  BY <4>2 DEF E!Next
    <3>7. QED  BY <3>4, <3>5, <3>6
  <2>3. ASSUME NEW c \in Client, HandleMessage(c) PROVE [E!Next]_E!vars
    <3> DEFINE m == parsed[c] + 1
               r == replies[c]
               a == [i \in DOMAIN r |-> r[i][1]]
    <3>1. UNCHANGED arrived /\ parsed[c] < Complete(c) /\ send(c, m)
      BY <2>3 DEF HandleMessage, NextMessage
    <3>2. asked' = asked
      BY <3>1
    <3>3. /\ parsed[c] \in Nat /\ m \in 1 .. asked[c]
          /\ r \in Seq(Nat \X {1, 2}) /\ replies \in [Client -> Seq(Nat \X {1, 2})]
      <4>1. /\ parsed[c] \in Nat /\ read[c] \in Nat /\ arrived[c] \in Nat
            /\ read[c] <= arrived[c]
            /\ r \in Seq(Nat \X {1, 2}) /\ replies \in [Client -> Seq(Nat \X {1, 2})]
        BY DEF IInv, TypeOK
      <4>2. parsed[c] < arrived[c] \div 2 /\ asked[c] = arrived[c] \div 2
        BY <3>1, <4>1 DEF Complete
      <4>3. QED  BY <4>1, <4>2
    <3>4. \/ UNCHANGED replies
          \/ \E n \in {1, 2} : replies' = [replies EXCEPT ![c] = Append(@, <<m, n>>)]
      BY <3>1, <3>3, SendOK DEF IInv
    <3>5. CASE UNCHANGED replies
      BY <3>1, <3>5 DEF E!vars
    <3>6. ASSUME NEW n \in {1, 2}, replies' = [replies EXCEPT ![c] = Append(@, <<m, n>>)]
          PROVE  [E!Next]_E!vars
      <4> DEFINE x == <<m, n>>
                 b == [i \in DOMAIN Append(r, x) |-> Append(r, x)[i][1]]
      <4>1. \A i \in DOMAIN a : a[i] < m
        <5>1. \A i \in DOMAIN r : r[i][1] \in Nat /\ r[i][1] <= parsed[c]
          BY <3>3 DEF IInv, ReplyOK
        <5>2. QED  BY <3>3, <5>1
      <4>2. x[1] = m
        OBVIOUS
      <4>3. x \in Nat \X {1, 2}
        BY <3>3
      <4> HIDE DEF x, r, m
      <4>4. /\ Append(r, x) \in Seq(Nat \X {1, 2})
            /\ Len(Append(r, x)) = Len(r) + 1 /\ Len(r) \in Nat
            /\ DOMAIN r = 1 .. Len(r) /\ DOMAIN Append(r, x) = 1 .. Len(r) + 1
            /\ \A i \in 1 .. Len(r) : Append(r, x)[i] = r[i]
            /\ Append(r, x)[Len(r) + 1] = x
        BY <3>3, <4>3
      <4>5. a \in Seq(Nat) /\ Len(a) = Len(r) /\ m \in Nat
        BY <3>3, <4>4 DEF m
      <4>6. b = Append(a, m)
        <5>1. Append(a, m) = [i \in 1 .. Len(r) + 1 |-> IF i = Len(r) + 1 THEN m ELSE a[i]]
          BY <4>4, <4>5
        <5>2. b = [i \in 1 .. Len(r) + 1 |-> Append(r, x)[i][1]]
          BY <4>4
        <5>3. \A i \in 1 .. Len(r) + 1 :
                Append(r, x)[i][1] = IF i = Len(r) + 1 THEN m ELSE a[i]
          BY <4>2, <4>4
        <5>4. QED  BY <5>1, <5>2, <5>3
      <4>7. \A d \in Client : replies'[d] = IF d = c THEN Append(r, x) ELSE replies[d]
        BY <3>3, <3>6 DEF x, r, m
      <4>8. answers' = [answers EXCEPT ![c] = Append(answers[c], m)]
        <5>1. answers[c] = a
          BY DEF r
        <5>2. \A d \in Client : answers'[d] = IF d = c THEN b ELSE answers[d]
          BY <4>7
        <5>3. answers' = [d \in Client |-> answers'[d]]
          OBVIOUS
        <5> HIDE DEF a, b
        <5>4. QED  BY <4>6, <5>1, <5>2, <5>3
      <4>9. E!Answer(c)
        <5>1. answers[c] = a
          BY DEF r
        <5> HIDE DEF a, b
        <5>2. /\ m \in 1 .. asked[c] /\ \A i \in DOMAIN answers[c] : answers[c][i] < m
              /\ answers' = [answers EXCEPT ![c] = Append(answers[c], m)]
          BY <3>3, <4>1, <4>8, <5>1
        <5>3. QED  BY <3>2, <5>2 DEF E!Answer
      <4>10. QED  BY <4>9 DEF E!Next
    <3>7. QED  BY <3>4, <3>5, <3>6
  <2>4. ASSUME NEW c \in Client, Connect(c) \/ Fin(c) \/ Reset(c) \/ Ack(c)
        PROVE  UNCHANGED <<arrived, replies>>
    BY <2>4 DEF Connect, Fin, Reset, Ack, socket, program
  <2>5. ASSUME NEW c \in Client, ReadEnd(c) \/ ReadAll(c) \/ StopParsing(c)
        PROVE  UNCHANGED <<arrived, replies>>
    BY <2>5 DEF ReadEnd, ReadAll, StopParsing, socket
  <2>6. CASE Poll \/ Accept \/ AcceptFails \/ UNCHANGED vars
    BY <2>1, <2>6 DEF Poll, Accept, AcceptFails, vars, socket, program
  <2>7. CASE ClientStep
    BY <2>1, <2>2, <2>4, <2>7 DEF ClientStep
  <2>8. CASE run
    BY <2>1, <2>3, <2>5, <2>6, <2>8 DEF run
  <2>9. QED  BY <2>6, <2>7, <2>8 DEF Next
<1>3. QED
  BY <1>1, <1>2, Invariance, PTL DEF Spec, ImplementsEcho, E!Spec

-----------------------------------------------------------------------------
(* What Echo promises, carried over to the server. *)

Asked == [c \in Client |-> arrived[c] \div 2]
Answers == [c \in Client |-> [i \in DOMAIN replies[c] |-> replies[c][i][1]]]

\* The answers a client was sent: to messages it has sent, in their order, none
\* twice.
Kept(asked, answers) ==
  \A c \in Client : /\ answers[c] \in Seq(Nat) /\ Increasing(answers[c])
                    /\ asked[c] \in Nat /\ Range(answers[c]) \subseteq 1 .. asked[c]

AnswersKept == Kept(Asked, Answers)

\* A step of Echo keeps them so.
LEMMA AskKeeps ==
  ASSUME NEW asked, NEW answers, Kept(asked, answers), NEW c \in Client,
         NEW more, \A d \in Client : more[d] = IF d = c THEN asked[c] + 1 ELSE asked[d]
  PROVE  Kept(more, answers)
<1>1. ASSUME NEW d \in Client
      PROVE  more[d] \in Nat /\ 1 .. asked[d] \subseteq 1 .. more[d]
  <2>1. asked[d] \in Nat
    BY DEF Kept
  <2>2. more[d] = asked[d] + 1 \/ more[d] = asked[d]
    OBVIOUS
  <2>3. QED  BY <2>1, <2>2
<1>2. QED  BY <1>1 DEF Kept

LEMMA AnswerKeeps ==
  ASSUME NEW asked, NEW answers, Kept(asked, answers), NEW c \in Client,
         NEW m \in 1 .. asked[c], \A i \in DOMAIN answers[c] : answers[c][i] < m,
         NEW more,
         \A d \in Client : more[d] = IF d = c THEN Append(answers[c], m) ELSE answers[d]
  PROVE  Kept(asked, more)
<1> DEFINE a == answers[c]
<1>1. /\ a \in Seq(Nat) /\ Increasing(a) /\ Range(a) \subseteq 1 .. asked[c]
      /\ asked[c] \in Nat /\ m \in Nat /\ \A i \in DOMAIN a : a[i] < m
  BY DEF Kept
<1> HIDE DEF a
<1>2. Before(Range(a), {m})
  BY <1>1 DEF Before, Range
<1>3. /\ Append(a, m) \in Seq(Nat) /\ Increasing(Append(a, m))
      /\ Range(Append(a, m)) = Range(a) \cup {m}
  BY <1>1, <1>2, AppendElements, AppendOrder
<1>4. more[c] = Append(a, m) /\ \A d \in Client \ {c} : more[d] = answers[d]
  BY DEF a
<1>5. QED  BY <1>1, <1>3, <1>4 DEF Kept

LEMMA EchoKeeps ==
  AnswersKept /\ [E!Next]_E!vars => AnswersKept'
<1> SUFFICES ASSUME Kept(Asked, Answers), [E!Next]_E!vars
             PROVE  Kept(Asked', Answers')
  BY DEF AnswersKept, Kept, Asked, Answers
<1>1. CASE UNCHANGED E!vars
  <2>1. Asked' = Asked /\ Answers' = Answers
    BY <1>1 DEF E!vars, Asked, Answers
  <2>2. QED  BY <2>1
<1>2. ASSUME NEW c \in Client, E!Ask(c)
      PROVE  Kept(Asked', Answers')
  <2>1. Asked' = [Asked EXCEPT ![c] = @ + 1] /\ Answers' = Answers
    BY <1>2 DEF E!Ask, Asked, Answers
  <2>2. \A d \in Client : Asked'[d] = IF d = c THEN Asked[c] + 1 ELSE Asked[d]
    BY <2>1 DEF Asked
  <2>3. QED  BY <2>1, <2>2, AskKeeps
<1>3. ASSUME NEW c \in Client, E!Answer(c)
      PROVE  Kept(Asked', Answers')
  <2>1. /\ Asked' = Asked
        /\ \E m \in 1 .. Asked[c] :
             /\ \A i \in DOMAIN Answers[c] : Answers[c][i] < m
             /\ Answers' = [Answers EXCEPT ![c] = Append(@, m)]
    BY <1>3 DEF E!Answer, Asked, Answers
  <2>2. PICK m \in 1 .. Asked[c] : /\ \A i \in DOMAIN Answers[c] : Answers[c][i] < m
                                  /\ Answers' = [Answers EXCEPT ![c] = Append(@, m)]
    BY <2>1
  <2>3. \A d \in Client : Answers'[d] = IF d = c THEN Append(Answers[c], m) ELSE Answers[d]
    BY <2>2 DEF Answers
  <2> DEFINE more == Answers'
  <2>4. \A d \in Client : more[d] = IF d = c THEN Append(Answers[c], m) ELSE Answers[d]
    BY <2>3
  <2> HIDE DEF more
  <2>5. Kept(Asked, more)
    BY <2>2, <2>4, AnswerKeeps
  <2>6. QED  BY <2>1, <2>5 DEF more
<1>4. QED  BY <1>1, <1>2, <1>3 DEF E!Next

\* Each client of the single-threaded server is answered messages it has sent in
\* full, in the order it sent them and none twice (Connection::onmessage,
\* EchoServer's HandleMessage): an invariant of Echo, and so of what implements it.
THEOREM AnswersInOrder == Spec => []AnswersKept
<1>1. Init => AnswersKept
  <2> SUFFICES ASSUME Init
               PROVE  Kept(Asked, Answers)
    BY DEF AnswersKept
  <2>1. ASSUME NEW c \in Client
        PROVE  Answers[c] = <<>> /\ Asked[c] = 0
    <3>1. DOMAIN replies[c] = {} /\ arrived[c] = 0
      BY DEF Init
    <3>2. [i \in DOMAIN replies[c] |-> replies[c][i][1]] = <<>>
      BY <3>1
    <3>3. QED  BY <3>1, <3>2 DEF Answers, Asked
  <2>2. <<>> \in Seq(Nat) /\ Increasing(<<>>) /\ Range(<<>>) = {} /\ 0 \in Nat
    BY DEF Increasing, Range
  <2>3. QED  BY <2>1, <2>2 DEF Kept
<1>2. QED
  BY <1>1, EchoKeeps, EchoImplemented, PTL DEF Spec, ImplementsEcho, E!Spec
=============================================================================
