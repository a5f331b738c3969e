------------------------- MODULE MCHandlerRunner -------------------------
(* One consumer with one handler key, and a rival for the worker lock. *)
EXTENDS HandlerRunner

CONSTANTS k1, k2
===========================================================================
