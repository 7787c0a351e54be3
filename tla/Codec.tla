------------------------------- MODULE Codec --------------------------------
(* The message format of both reactors and the two ends that speak it.  A    *)
(* message travels as a frame: its length in H bytes, least significant      *)
(* first, then its text.  TCP keeps the bytes and their order and forgets    *)
(* where a frame ends, so the server collects what it reads in a Buffer and  *)
(* cuts messages off its front (Buffer::getmessage), while the client        *)
(* (client.cpp) trusts each recv to return as many bytes as it asked for.    *)
(*                                                                           *)
(* The client is one of the repository's two: the one beside the threaded    *)
(* reactor sends a message and waits for the reply (window = 1), the one     *)
(* beside the single-threaded reactor sends all of them first (window =      *)
(* Count).  A message is answered where it is cut off, as it is by both      *)
(* reactors when there is no worker thread; Connection.tla has the workers.  *)
(* Byte values are 0 .. Base-1 in place of 0 .. 255.                         *)
EXTENDS Integers, Sequences, SequencesExt

CONSTANTS Base,     \* how many values a byte has
          Space,    \* the byte ' '
          Text,     \* the texts a client may send, sequences of bytes
          Prefix,   \* the bytes of "reply:"
          Count,    \* how many messages a client sends
          Windows   \* how many it sends ahead of the replies: subset of {1, Count}

H == 4                  \* sizeof(int), the length of a header
Byte == 0 .. Base - 1
Blank == <<Space>>      \* the string " "

(* A byte has more values than a header has bytes: with fewer, the header    *)
(* that an empty buffer yields could be that of a message of length -H.      *)
ASSUME BaseAssumption == Base \in Nat /\ Base > H /\ Base % 2 = 0
ASSUME TextAssumption == /\ Text \subseteq Seq(Byte)
                         /\ Prefix \in Seq(Byte) /\ Prefix # <<>>
                         /\ Space \in Byte
ASSUME CountAssumption == Count \in Nat \ {0} /\ Windows \subseteq {1, Count}

VARIABLES window,   \* which client
          cpc,      \* client: "send", "header", "body", "closed" or "lost"
          len,      \* client: the int len
          sent,     \* the texts it has sent
          got,      \* the texts it has received
          up,       \* bytes sent to the server and not yet read
          down,     \* bytes sent to the client and not yet received
          pc,       \* server: "idle", "parse" or "removed"
          buf,      \* server: Connection::inputbuffer_
          taken     \* the messages getmessage has cut off, blank ones too

client == <<window, cpc, len, sent, got>>
server == <<pc, buf, taken>>
vars == <<client, server, up, down>>

(* What each byte of an int counts, and how many ints there are.             *)
Place == <<1, Base, Base * Base, Base * Base * Base>>
Ints == Base * Place[H]

(* A length as the bytes of an int, and the int those bytes make.            *)
Encode(n) == [i \in 1 .. H |-> (n \div Place[i]) % Base]
Decode(h) ==
  LET n == h[1] + h[2] * Place[2] + h[3] * Place[3] + h[4] * Place[4]
  IN  IF n < Ints \div 2 THEN n ELSE n - Ints

Frame(m) == Encode(Len(m)) \o m
Stream(ms) == FlattenSeq([i \in DOMAIN ms |-> Frame(ms[i])])
Reply(m) == Prefix \o m

(* A mutant: the length is taken before "reply:" is put before the message.  *)
AnswerOldLength(m) == Encode(Len(m)) \o Reply(m)

(* The bytes Handledata hands to sendmessage.                                *)
Answer(m) == Frame(Reply(m))

(* A length is an int; the clients' buffers hold 1024 bytes.                 *)
ASSUME LengthAssumption == \A m \in Text : Len(Reply(m)) < Ints \div 2

-----------------------------------------------------------------------------
(* The server                                                                *)

(* A mutant: the buffer keeps no terminator behind its bytes.                *)
FetchedUnterminated(b) ==
  {[i \in 1 .. H |-> IF i <= Len(b) THEN b[i] ELSE stale[i]] :
     stale \in [Len(b) + 1 .. H -> Byte]}

(* What memcpy(&len, buf_.data(), 4) may put into len: the bytes of the      *)
(* buffer, the terminator a std::string keeps behind them, and behind that   *)
(* whatever the memory holds.                                                *)
Fetched(b) ==
  {[i \in 1 .. H |-> IF i <= Len(b) THEN b[i]
                     ELSE IF i = Len(b) + 1 THEN 0 ELSE stale[i]] :
     stale \in [Len(b) + 2 .. H -> Byte]}

(* The test buf_.size() < len + 4 fails.  It compares unsigned numbers: a    *)
(* negative sum is larger than any size.                                     *)
Complete(b, h) == Decode(h) + H \in 0 .. Len(b)

(* Mutants: the header is not skipped; it is left in the buffer.             *)
MessageFromHeader(b, h) == SubSeq(b, 1, Decode(h))
ErasedShort(b, h) == SubSeq(b, Decode(h) + 1, Len(b))

(* The message at the front, and what erase(0, len + 4) leaves.              *)
Message(b, h) == SubSeq(b, H + 1, H + Decode(h))
Erased(b, h) == SubSeq(b, H + Decode(h) + 1, Len(b))

(* onmessage reads until the socket has nothing more (EAGAIN), then parses.  *)
Read ==
  /\ pc = "idle"
  /\ \E n \in 1 .. Len(up) :
       /\ buf' = buf \o SubSeq(up, 1, n)
       /\ up' = SubSeq(up, n + 1, Len(up))
  /\ pc' = "parse"
  /\ UNCHANGED <<client, taken, down>>

(* The client has closed, and onmessage reads up to the end of the stream:   *)
(* the connection is removed, what the buffer holds is not looked at.        *)
ReadToEnd ==
  /\ pc = "idle" /\ cpc = "closed"
  /\ buf' = buf \o up /\ up' = <<>>
  /\ pc' = "removed"
  /\ UNCHANGED <<client, taken, down>>

(* getmessage returns " " because no message is complete: the pass is over.  *)
NoMessage ==
  /\ pc = "parse"
  /\ \E h \in Fetched(buf) : ~Complete(buf, h)
  /\ pc' = "idle"
  /\ UNCHANGED <<client, buf, taken, up, down>>

(* A mutant: one message a pass.                                             *)
OneAPass(m) == "idle"

(* After a message the loop asks for the next one, unless the text is " ".   *)
AfterMessage(m) == IF m = Blank THEN "idle" ELSE "parse"

(* getmessage cuts off a message and it is answered; a text of " " is cut    *)
(* off too, but onmessage takes it for the absence of a message.             *)
TakeMessage ==
  /\ pc = "parse"
  /\ \E h \in Fetched(buf) :
       /\ Complete(buf, h)
       /\ LET m == Message(buf, h) IN
            /\ taken' = Append(taken, m)
            /\ down' = IF m = Blank THEN down ELSE down \o Answer(m)
            /\ pc' = AfterMessage(m)
       /\ buf' = Erased(buf, h)
  /\ UNCHANGED <<client, up>>

-----------------------------------------------------------------------------
(* The client                                                                *)

(* send(sockfd, tmpbuf, len + 4): the frame, built in tmpbuf.                *)
Send ==
  /\ cpc = "send"
  /\ \E m \in Text :
       /\ sent' = Append(sent, m)
       /\ up' = up \o Frame(m)
       /\ len' = Len(m)
       /\ cpc' = IF Len(sent') - Len(got) < window /\ Len(sent') < Count
                 THEN "send" ELSE "header"
  /\ UNCHANGED <<window, got, server, down>>

(* recv(sockfd, &len, 4) returns all four bytes.                             *)
RecvHeader ==
  /\ cpc = "header" /\ Len(down) >= H
  /\ len' = Decode(SubSeq(down, 1, H))
  /\ down' = SubSeq(down, H + 1, Len(down))
  /\ cpc' = "body"
  /\ UNCHANGED <<window, sent, got, server, up>>

(* Behind a reply comes the next message, the next reply, or the end.        *)
AfterReply(n) == IF Len(sent) < Count THEN "send"
                 ELSE IF n < Count THEN "header" ELSE "closed"

(* recv(sockfd, buf, len) returns all of the reply.                          *)
RecvBody ==
  /\ cpc = "body" /\ Len(down) >= len
  /\ got' = Append(got, SubSeq(down, 1, len))
  /\ down' = SubSeq(down, len + 1, Len(down))
  /\ cpc' = AfterReply(Len(got'))
  /\ UNCHANGED <<window, len, sent, server, up>>

(* A recv comes back with a part of what it asked for, which the client does *)
(* not look at, or (SO_RCVTIMEO, only in the client that sends ahead) with   *)
(* nothing.  From here on the client takes bytes of texts for lengths; it is *)
(* not followed further.                                                     *)
RecvShort ==
  /\ \/ cpc = "header" /\ down # <<>>
     \/ cpc = "body" /\ down # <<>> /\ len > 1
     \/ cpc \in {"header", "body"} /\ down = <<>> /\ window > 1
  /\ cpc' = "lost"
  /\ UNCHANGED <<window, len, sent, got, server, up, down>>

-----------------------------------------------------------------------------
Init ==
  /\ window \in Windows
  /\ cpc = "send" /\ len = 0 /\ sent = <<>> /\ got = <<>>
  /\ up = <<>> /\ down = <<>>
  /\ pc = "idle" /\ buf = <<>> /\ taken = <<>>

Serve == Read \/ ReadToEnd \/ NoMessage \/ TakeMessage
Converse == Send \/ RecvHeader \/ RecvBody

Next == Serve \/ Converse \/ RecvShort

(* The loop of the server and the program of the client keep running; a      *)
(* short recv is never due.                                                  *)
Spec == Init /\ [][Next]_vars
FairSpec == Spec /\ WF_vars(Serve) /\ WF_vars(Converse)

-----------------------------------------------------------------------------
(* The values of the variables; the texts either side has taken off the      *)
(* stream are texts the other side sent.                                     *)
TypeOK ==
  /\ window \in Windows
  /\ cpc \in {"send", "header", "body", "closed", "lost"}
  /\ len \in {Len(m) : m \in Text} \cup {Len(Reply(m)) : m \in Text}
             \cup {0}
  /\ sent \in Seq(Text) /\ taken \in Seq(Text)
  /\ got \in Seq({Reply(m) : m \in Text})
  /\ {up, down, buf} \subseteq Seq(Byte)
  /\ pc \in {"idle", "parse", "removed"}

(* A header is believed only when all its bytes have come: the test that     *)
(* getmessage makes after it has read the header refuses every length that a *)
(* partial header and stale memory can make.                                 *)
HeaderIsGenuine ==
  \A h \in Fetched(buf) : Complete(buf, h) => Len(buf) >= H /\ Decode(h) >= 0

(* However the stream is cut into reads, no byte of it is lost, invented or  *)
(* read twice: the frames of the messages cut off, the input buffer and the  *)
(* bytes still on the way are the frames the client sent.                    *)
StaysInFrame ==
  /\ HeaderIsGenuine
  /\ Stream(sent) = Stream(taken) \o buf \o up

(* The replies that are due: one to each message that is not blank.          *)
RepliesTo(m) == IF m = Blank THEN <<>> ELSE <<Reply(m)>>
Replies(ms) == FlattenSeq([i \in DOMAIN ms |-> RepliesTo(ms[i])])

(* Unless a recv comes back short, the i-th reply a client receives answers  *)
(* its i-th message that is not blank, and when the server removes the       *)
(* connection, without a look at the buffer, every message had its reply.    *)
RepliesMatch ==
  /\ IsPrefix(got, Replies(sent))
  /\ pc = "removed" => buf = <<>> /\ got = Replies(sent)

(* Every client finds its replies and ends, and the server with it, unless a *)
(* recv came back short or a text was " ".                                   *)
AnswersArrive ==
  <>(pc = "removed" \/ cpc = "lost" \/ \E i \in DOMAIN sent : sent[i] = Blank)

=============================================================================
