--------------------------------- MODULE Echo ---------------------------------
(***************************************************************************)
(* What the clients of the echo server may rely on.  The answers to a      *)
(* client's messages come in the order of the messages, none twice and     *)
(* none before it was asked for.  (That each message is answered is not    *)
(* promised: connections end, and answers may be lost.)                    *)
(***************************************************************************)
EXTENDS Naturals, Sequences

CONSTANT Client

VARIABLES asked,      \* how many messages each client has sent in full
          answers     \* the numbers of those that it was answered, in order

vars == <<asked, answers>>

Init == asked = [c \in Client |-> 0] /\ answers = [c \in Client |-> <<>>]

Ask(c) == asked' = [asked EXCEPT ![c] = @ + 1] /\ UNCHANGED answers

Answer(c) ==
  /\ \E m \in 1 .. asked[c] :
       /\ \A i \in DOMAIN answers[c] : answers[c][i] < m
       /\ answers' = [answers EXCEPT ![c] = Append(@, m)]
  /\ UNCHANGED asked

Next == \E c \in Client : Ask(c) \/ Answer(c)

Spec == Init /\ [][Next]_vars
=============================================================================
