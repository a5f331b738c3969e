----------------------------- MODULE MCSchedule -----------------------------
(* Two publishers and every combination of a few options. *)
EXTENDS Schedule

CONSTANTS p1, p2

MCCrons == {NoCron, BadCron, 2}
MCPeriods == {NoPeriod, 1}
=============================================================================
