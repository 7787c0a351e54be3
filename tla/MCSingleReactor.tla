---------------------------- MODULE MCSingleReactor ----------------------------
(***************************************************************************)
(* SingleReactor with two clients: one sends two messages, the other the   *)
(* message " ".  There are descriptors for both or for one, and epoll_wait *)
(* returns two events at a time, or one, which is fewer than can be ready. *)
(***************************************************************************)
EXTENDS SingleReactor

CONSTANTS c1, c2

Lasts == [c \in {c1, c2} |-> IF c = c1 THEN 2 ELSE 1]
BlankMessage == {<<c2, 1>>}
SmallLimits == {<<1, 1>>, <<2, 1>>, <<2, 2>>}
=============================================================================
