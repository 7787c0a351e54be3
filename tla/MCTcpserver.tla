------------------------------ MODULE MCTcpserver ------------------------------
(***************************************************************************)
(* Tcpserver with two clients.  The two descriptors are shared out between *)
(* two loops, and there are two heap cells, or one: a descriptor or a cell *)
(* can be used again while pointers to the first owner are about.          *)
(*                                                                         *)
(* The runs with symmetry take the clients, cells and workers to be        *)
(* interchangeable: in these all may reset their connections, or none may. *)
(***************************************************************************)
EXTENDS Tcpserver, TLC

Symmetry ==
  Permutations(Addr) \cup Permutations(Client) \cup Permutations(Worker)
=============================================================================
