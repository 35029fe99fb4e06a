----------------------------- MODULE MCTaskQueue -----------------------------
(* Two producers and three keys: a key can be marked again while it is      *)
(* processed, while another waits before it, and by both producers at once. *)
(* Liveness is checked in the same run, so no symmetry is used.             *)
EXTENDS TaskQueue
=============================================================================
