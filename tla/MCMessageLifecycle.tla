------------------------ MODULE MCMessageLifecycle ------------------------
(* Small instances of MessageLifecycle: one or two messages and
   consumers. *)
EXTENDS MessageLifecycle, TLC

CONSTANTS m1, m2, c1, c2

OneRetry == [m \in Messages |-> 1]
TwoAttempts == [m \in Messages |-> 2]

(* For the run in which no consumer is singled out. *)
ConsumerSymmetry == Permutations(Consumers)
===========================================================================
