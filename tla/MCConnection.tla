----------------------------- MODULE MCConnection -----------------------------
(***************************************************************************)
(* Connection with two or three messages of two units each, no worker, one *)
(* or two, and a send buffer that takes one reply and half of the next.    *)
(***************************************************************************)
EXTENDS Connection
=============================================================================
