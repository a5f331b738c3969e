----------------------------- MODULE Delivery -----------------------------
(***************************************************************************)
(* What the queue promises about each message, with no lists, scripts,     *)
(* consumers or faults: a message is delivered to one handler at a time,   *)
(* is decided once, is acknowledged only if a handler was done with it, is *)
(* dead-lettered only for a cause, and is not deleted under a handler.     *)
(***************************************************************************)
EXTENDS Naturals

CONSTANTS
    Messages,
    RetryThreshold,     \* deliveries after which a message may be given up
    Periodic,           \* messages that are never retried
    TTL                 \* messages that can expire

VARIABLES
    phase,              \* what became of each message
    tries,              \* how often each message was delivered
    handled,            \* messages a handler was done with
    late                \* messages that have expired

vars == <<phase, tries, handled, late>>

Init ==
    /\ phase = [m \in Messages |-> "new"]
    /\ tries = [m \in Messages |-> 0]
    /\ handled = {}
    /\ late = {}

Become(m, p) == phase' = [phase EXCEPT ![m] = p]

Undecided(m) == phase[m] \in {"waiting", "delivered"}

Submit(m) ==
    /\ phase[m] = "new"
    /\ Become(m, "waiting")
    /\ UNCHANGED <<tries, handled, late>>

(* Only a message that nobody works on is delivered. *)
Deliver(m) ==
    /\ phase[m] = "waiting"
    /\ Become(m, "delivered")
    /\ tries' = [tries EXCEPT ![m] = @ + 1]
    /\ UNCHANGED <<handled, late>>

(* A handler that was given the message is done, perhaps after the message was
   taken back from it. *)
Handle(m) ==
    /\ tries[m] > 0
    /\ handled' = handled \cup {m}
    /\ UNCHANGED <<phase, tries, late>>

Return(m) ==
    /\ phase[m] = "delivered"
    /\ Become(m, "waiting")
    /\ UNCHANGED <<tries, handled, late>>

Acknowledge(m) ==
    /\ Undecided(m)
    /\ m \in handled
    /\ Become(m, "acknowledged")
    /\ UNCHANGED <<tries, handled, late>>

DeadLetter(m) ==
    /\ Undecided(m)
    /\ m \in late \/ m \in Periodic \/ tries[m] >= RetryThreshold[m]
    /\ Become(m, "deadLettered")
    /\ UNCHANGED <<tries, handled, late>>

(* A message that a handler was given is not deleted. *)
Delete(m) ==
    /\ phase[m] \in {"waiting", "acknowledged", "deadLettered"}
    /\ Become(m, "deleted")
    /\ UNCHANGED <<tries, handled, late>>

Expire(m) ==
    /\ m \in TTL
    /\ phase[m] # "new"
    /\ late' = late \cup {m}
    /\ UNCHANGED <<phase, tries, handled>>

Next == \E m \in Messages :
    \/ Submit(m) \/ Deliver(m) \/ Handle(m) \/ Return(m) \/ Acknowledge(m)
    \/ DeadLetter(m) \/ Delete(m) \/ Expire(m)

Spec == Init /\ [][Next]_vars
===========================================================================
