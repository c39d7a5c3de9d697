----------------------------- MODULE MCTaskQueue -----------------------------
(* TaskQueue for TLC: the tasks a queue of the engine typically holds. *)
EXTENDS TaskQueue

CONSTANTS prefill, guid, save, fetch, none
=============================================================================
