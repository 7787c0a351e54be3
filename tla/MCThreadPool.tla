----------------------------- MODULE MCThreadPool -----------------------------
(***************************************************************************)
(* ThreadPool with two workers, two producers and three closures: a        *)
(* notification can find a worker running, asleep or about to sleep while  *)
(* the other is elsewhere, and there are more closures than workers.       *)
(***************************************************************************)
EXTENDS ThreadPool
=============================================================================
