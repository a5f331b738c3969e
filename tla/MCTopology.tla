----------------------------- MODULE MCTopology -----------------------------
EXTENDS Topology, TLC

CONSTANTS c1, c2, q1, q2, x

(* Two patterns that share a key.                                          *)
MCPatterns == {<<"a", "#">>, <<"*", "b">>}
MCMessages == {<<"a", "b">>}
MCKeys == {<<"a", "b">>}

(* Clients are interchangeable, and so are queues of one kind.             *)
Interchangeable == Permutations(Clients) \union Permutations(Queues)

Small(n, S) == UNION {[1..k -> S] : k \in 0..n}

(* The matching algorithm does what patterns mean.                         *)
ASSUME MatchingIsRight ==
    \A r \in Small(3, {"a", "b"}), p \in Small(3, {"a", "b", "*", "#"}) :
        matchTopicTokens(r, p) <=> Fits(r, p)
=============================================================================
