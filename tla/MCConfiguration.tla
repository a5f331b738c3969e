------------------------- MODULE MCConfiguration -------------------------
(* Two processes, two contents of the configuration. *)
EXTENDS Configuration

CONSTANTS p1, p2, d0, d1
===========================================================================
