----------------------------- MODULE MCEventLoop -----------------------------
(***************************************************************************)
(* EventLoop with two callers, three closures and one stop: two closures   *)
(* can be announced by one reading of the eventfd while a third is on its  *)
(* way, and the stop can fall anywhere among them.                         *)
(***************************************************************************)
EXTENDS EventLoop
=============================================================================
