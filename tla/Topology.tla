------------------------------ MODULE Topology ------------------------------
(***************************************************************************)
(* Queues, exchanges and the namespace they live in (internal/exchange,    *)
(* internal/queue/store.go, internal/namespace), and the part of the       *)
(* producer that routes a message through an exchange.                     *)
(*                                                                         *)
(* Creating a queue and deleting one are single Lua scripts.  Everything   *)
(* an exchange store does is an optimistic transaction: WATCH some keys,   *)
(* read, and EXEC a list of writes that Redis drops when a watched key was *)
(* touched since (redis.WithTransaction, which then tries again).  What    *)
(* the transaction reads and does not watch, and what it read before the   *)
(* WATCH, may be stale when the writes are executed.  The exchange manager *)
(* and the namespace manager delete with plain reads and a pipeline.       *)
(*                                                                         *)
(* The model has one namespace.  An exchange is a name with the type the   *)
(* caller gives it: the two together are the exchange parameters, which is *)
(* what the registries store, while the properties belong to the name.     *)
(* Routing keys and binding patterns are sequences of tokens; a fanout     *)
(* exchange has one set of queues, kept here under the empty key.          *)
(***************************************************************************)
EXTENDS Integers, Sequences, FiniteSets

CONSTANTS Clients,      \* goroutines or processes that call the managers
          Queues,       \* queue names
          Names,        \* exchange names
          Types,        \* exchange types in use, of direct, topic, fanout
          RoutingKeys,  \* keys that direct exchanges are bound with
          Patterns,     \* patterns that topic exchanges are bound with
          Messages,     \* routing keys of the messages that are produced
          Literals,     \* tokens that are words
          Prioritised,  \* the queues that are priority queues
          MaxAttempts,  \* attempts of a transaction (3 or 5 in the code)
          MaxCalls,     \* calls of the managers and of the producer
          MaxLife       \* queues created and deleted

ASSUME TopologyAssumption ==
    /\ Types \subseteq {"direct", "topic", "fanout"}
    /\ RoutingKeys \union Patterns \union Messages \subseteq Seq(STRING)
    /\ IsFiniteSet(Queues)

VARIABLES
    queues,    \* queues that exist (AllQueues, the properties hash)
    busy,      \* queues with messages, consumers or a lock
    namespace, \* the namespace is in the registry (AllNamespaces)
    props,     \* type and policy of each exchange name, or Absent
    listed,    \* exchange parameters in the registries (AllExchanges)
    keys,      \* routing keys or patterns of an exchange (a set key)
    bound,     \* queues bound under each key (a set key per key)
    bindings,  \* exchanges that a queue is bound to (ExchangeBindings)
    op,        \* the call each client is in
    dirty,     \* clients one of whose watched keys was touched
    lost,      \* history: keys whose bindings a deletion overlooked
    steady,    \* history: bindings in force all through a call
    ever,      \* history: bindings in force at some moment of it
    calls, life

store == <<queues, busy, namespace, props, listed, keys, bound, bindings>>
vars == <<queues, busy, namespace, props, listed, keys, bound, bindings,
          op, dirty, lost, steady, ever, calls, life>>

None == "none"
Absent == [type |-> None, policy |-> None]
NoKey == <<>>
Keys == {NoKey} \union RoutingKeys \union Patterns
Params == Names \X Types
Policies == {"standard", "priority"}
Idle == [call |-> "idle", phase |-> "idle", watch |-> {}]

KProps(e) == <<"props", e>>
KKeys(p) == <<"keys", p>>
KBound(p, k) == <<"bound", p, k>>
KBindings(q) == <<"bindings", q>>
KAll == <<"all">>

Init ==
    /\ queues = {}
    /\ busy = {}
    /\ namespace = FALSE
    /\ props = [e \in Names |-> Absent]
    /\ listed = {}
    /\ keys = [p \in Params |-> {}]
    /\ bound = [p \in Params |-> [k \in Keys |-> {}]]
    /\ bindings = [q \in Queues |-> {}]
    /\ op = [c \in Clients |-> Idle]
    /\ dirty = {}
    /\ lost = {}
    /\ steady = [c \in Clients |-> {}]
    /\ ever = [c \in Clients |-> {}]
    /\ calls = 0
    /\ life = 0

-----------------------------------------------------------------------------
(* Optimistic transactions.                                                *)

(* The keys of the exchange stores that a step changes.                    *)
Modified ==
    {KProps(e) : e \in {n \in Names : props'[n] # props[n]}}
        \union {KKeys(p) : p \in {x \in Params : keys'[x] # keys[x]}}
        \union {KBound(pk[1], pk[2]) : pk \in
                {x \in Params \X Keys :
                    bound'[x[1]][x[2]] # bound[x[1]][x[2]]}}
        \union {KBindings(q) : q \in
                {x \in Queues : bindings'[x] # bindings[x]}}
        \union (IF listed' # listed THEN {KAll} ELSE {})

(* Redis marks the connections that watch a key which is written.  HSET    *)
(* writes the hash whether or not the value is new: rewritten says which.  *)
Signal(rewritten) ==
    dirty' = {c \in Clients :
                /\ op'[c] = op[c]
                /\ \/ c \in dirty
                   \/ op[c].watch \intersect (Modified \union rewritten) # {}}

Become(c, r) == op' = [op EXCEPT ![c] = r]
Return(c) == Become(c, Idle)

(* A call begins, or a transaction that was refused begins again.          *)
Enters(c, call, args) ==
    \/ /\ op[c] = Idle
       /\ calls < MaxCalls
       /\ calls' = calls + 1
    \/ /\ op[c].phase = "watch" /\ op[c].call = call /\ op[c].args = args
       /\ UNCHANGED calls

(* The function that WithTransaction runs, up to its EXEC: it watches,     *)
(* reads, and returns early unless the reads allow the writes; seen is     *)
(* what it read and uses for the writes.  (A first attempt that returns    *)
(* early changes nothing and is left out.)                                 *)
Transaction(c, call, args, allowed, seen, watch) ==
    /\ Enters(c, call, args)
    /\ IF allowed
       THEN Become(c, [call |-> call, args |-> args, phase |-> "exec",
                       seen |-> seen, watch |-> watch,
                       attempt |-> IF op[c] = Idle THEN 1
                                                   ELSE op[c].attempt])
       ELSE op[c] # Idle /\ Return(c)
    /\ UNCHANGED <<store, lost, life>>
    /\ Signal({})

Executes(c, call) ==
    op[c].call = call /\ op[c].phase = "exec" /\ c \notin dirty

(* EXEC is refused: WithTransaction tries again, a few times.              *)
Conflict(c) ==
    /\ op[c].phase = "exec" /\ c \in dirty
    /\ IF op[c].attempt = MaxAttempts
       THEN Return(c)
       ELSE Become(c, [op[c] EXCEPT !.phase = "watch", !.watch = {},
                                    !.attempt = @ + 1])
    /\ UNCHANGED <<store, lost, calls, life>>
    /\ Signal({})

-----------------------------------------------------------------------------
(* Topic patterns.                                                         *)

(* Not empty, and every token is a wildcard or a word.                     *)
validateTopicPattern(p) ==
    p # <<>> /\ \A i \in DOMAIN p : p[i] \in Literals \union {"*", "#"}

(* The backtracking of matchTopicTokens: match[j] are the places of r from *)
(* which its tokens match those of p from j on.                            *)
matchTopicTokens(r, p) ==
    LET match[j \in 1..(Len(p) + 1)] ==
            {i \in 1..(Len(r) + 1) :
                IF j > Len(p) THEN i > Len(r)
                ELSE IF i > Len(r) THEN \A n \in j..Len(p) : p[n] = "#"
                ELSE IF p[j] = "#"
                     THEN \E n \in i..(Len(r) + 1) : n \in match[j + 1]
                     ELSE p[j] \in {"*", r[i]} /\ i + 1 \in match[j + 1]}
    IN 1 \in match[1]

(* What a pattern means: its tokens cut the key into consecutive pieces, a *)
(* '*' or a word taking one token and a '#' any number of them.            *)
Fits(r, p) ==
    \E cut \in [0..Len(p) -> 0..Len(r)] :
        /\ cut[0] = 0 /\ cut[Len(p)] = Len(r)
        /\ \A j \in 1..Len(p) :
            \/ p[j] = "#" /\ cut[j - 1] =< cut[j]
            \/ cut[j] = cut[j - 1] + 1 /\ p[j] \in {"*", r[cut[j]]}

-----------------------------------------------------------------------------
(* Queues.                                                                 *)

(* Save: the create-queue script.                                          *)
CreateQueue(q) ==
    /\ q \notin queues /\ life < MaxLife
    /\ life' = life + 1
    /\ queues' = queues \union {q}
    /\ namespace' = TRUE
    /\ UNCHANGED <<busy, props, listed, keys, bound, bindings, op, lost, calls>>
    /\ Signal({})

\* Mutant of Deletable: bound exchanges are not counted.
DeletableBound(q) == q \in queues \ busy

(* The conditions of the delete-queue script: the queue exists, has no     *)
(* messages, no consumers and no lock, and is bound to no exchange.        *)
Deletable(q) == q \in queues \ busy /\ bindings[q] = {}

(* What it deletes: ExchangeBindings among the rest.                       *)
Removed(q) ==
    /\ queues' = queues \ {q}
    /\ bindings' = [bindings EXCEPT ![q] = {}]

DeleteQueue(q) ==
    /\ Deletable(q)
    /\ Removed(q)
    /\ UNCHANGED <<busy, namespace, props, listed, keys, bound, op, lost,
                   calls, life>>
    /\ Signal({})

(* The messages of a queue are consumed and deleted, its lock released.    *)
Drain(q) ==
    /\ q \in busy
    /\ busy' = busy \ {q}
    /\ UNCHANGED <<queues, namespace, props, listed, keys, bound, bindings, op,
                   lost, calls, life>>
    /\ Signal({})

-----------------------------------------------------------------------------
(* The exchange store.                                                     *)

(* Load finds the properties of the name, ValidateType also their type.    *)
Exists(e) == props[e] # Absent
ValidateType(p) == Exists(p[1]) /\ props[p[1]].type = p[2]

(* checkPolicy: a standard exchange takes FIFO and LIFO queues, a priority *)
(* exchange takes priority queues.                                         *)
checkPolicy(policy, q) == (policy = "priority") <=> (q \in Prioritised)

(* ValidateQueueBinding: the queue exists; an exchange that does not exist *)
(* yet will be created by the binding, any other must be of the right type *)
(* and policy.                                                             *)
ValidateQueueBinding(p, q) ==
    /\ q \in queues
    /\ Exists(p[1]) => ValidateType(p) /\ checkPolicy(props[p[1]].policy, q)

\* Mutant of Save: the properties are read without watching them.
SaveUnwatched(c, p, policy) ==
    Transaction(c, "save", [p |-> p, policy |-> policy], ~Exists(p[1]), None, {})

(* Save (Create): the properties with the policy, and the registries.      *)
Save(c, p, policy) ==
    Transaction(c, "save", [p |-> p, policy |-> policy], ~Exists(p[1]), None,
                {KProps(p[1]), KAll})

SaveExec(c) ==
    /\ Executes(c, "save")
    /\ LET p == op[c].args.p IN
        /\ props' = [props EXCEPT ![p[1]] =
                        [type |-> p[2], policy |-> op[c].args.policy]]
        /\ listed' = listed \union {p}
        /\ namespace' = TRUE
        /\ Return(c)
        /\ UNCHANGED <<queues, busy, keys, bound, bindings, lost, calls, life>>
        /\ Signal({KProps(p[1])})

-----------------------------------------------------------------------------
(* Bindings.                                                               *)

BindArgs(p, k, q) == [p |-> p, k |-> k, q |-> q]

Bindable(p, k, q) == ValidateQueueBinding(p, q) /\ q \notin bound[p][k]

DirectBindQueue(c, q, e, k) ==
    LET p == <<e, "direct">> IN
    Transaction(c, "bind", BindArgs(p, k, q), Bindable(p, k, q), None,
                {KProps(e), KKeys(p), KBound(p, k), KBindings(q), KAll})

TopicBindQueue(c, q, e, k) ==
    LET p == <<e, "topic">> IN
    /\ validateTopicPattern(k)
    /\ Transaction(c, "bind", BindArgs(p, k, q), Bindable(p, k, q), None,
                   {KProps(e), KKeys(p), KBound(p, k), KBindings(q), KAll})

FanoutBindQueue(c, q, e) ==
    LET p == <<e, "fanout">> IN
    Transaction(c, "bind", BindArgs(p, NoKey, q), Bindable(p, NoKey, q), None,
                {KProps(e), KBound(p, NoKey), KBindings(q), KAll})

(* The writes of a binding.  HSET of the type alone creates an exchange    *)
(* that does not exist, without a policy: it decodes as standard.          *)
BindExec(c) ==
    /\ Executes(c, "bind")
    /\ LET a == op[c].args IN
        /\ props' = [props EXCEPT ![a.p[1]] =
                IF @ = Absent THEN [type |-> a.p[2], policy |-> "standard"]
                            ELSE [@ EXCEPT !.type = a.p[2]]]
        /\ listed' = listed \union {a.p}
        /\ keys' = [keys EXCEPT ![a.p] = @ \union ({a.k} \ {NoKey})]
        /\ bound' = [bound EXCEPT ![a.p][a.k] = @ \union {a.q}]
        /\ bindings' = [bindings EXCEPT ![a.q] = @ \union {a.p}]
        /\ Return(c)
        /\ UNCHANGED <<queues, busy, namespace, lost, calls, life>>
        /\ Signal({KProps(a.p[1])})

(* An unbinding needs the binding.  It reads whether the queue is bound    *)
(* under another key of the exchange, keys it does not watch, and whether  *)
(* it is the last queue of this one.                                       *)
Unbindable(p, k, q) == ValidateType(p) /\ q \in bound[p][k]
UnbindReads(p, k, q) ==
    [stillBound |-> \E o \in keys[p] \ {k} : q \in bound[p][o],
     last |-> Cardinality(bound[p][k]) = 1]

DirectUnbindQueue(c, q, e, k) ==
    LET p == <<e, "direct">> IN
    Transaction(c, "unbind", BindArgs(p, k, q), Unbindable(p, k, q),
                UnbindReads(p, k, q), {KKeys(p), KBound(p, k), KBindings(q)})

\* Mutant of TopicUnbindQueue: the queues of the pattern are not watched.
TopicUnbindUnwatched(c, q, e, k) ==
    LET p == <<e, "topic">> IN
    /\ validateTopicPattern(k)
    /\ Transaction(c, "unbind", BindArgs(p, k, q), Unbindable(p, k, q),
                   UnbindReads(p, k, q), {KKeys(p), KBindings(q)})

TopicUnbindQueue(c, q, e, k) ==
    LET p == <<e, "topic">> IN
    /\ validateTopicPattern(k)
    /\ Transaction(c, "unbind", BindArgs(p, k, q), Unbindable(p, k, q),
                   UnbindReads(p, k, q),
                   {KKeys(p), KBound(p, k), KBindings(q)})

FanoutUnbindQueue(c, q, e) ==
    LET p == <<e, "fanout">> IN
    Transaction(c, "unbind", BindArgs(p, NoKey, q), Unbindable(p, NoKey, q),
                [stillBound |-> FALSE, last |-> FALSE],
                {KBound(p, NoKey), KBindings(q)})

UnbindExec(c) ==
    /\ Executes(c, "unbind")
    /\ LET a == op[c].args
           r == op[c].seen
       IN
        /\ bound' = [bound EXCEPT ![a.p][a.k] = @ \ {a.q}]
        /\ keys' = [keys EXCEPT ![a.p] = IF r.last THEN @ \ {a.k} ELSE @]
        /\ bindings' = [bindings EXCEPT ![a.q] =
                            IF r.stillBound THEN @ ELSE @ \ {a.p}]
        /\ Return(c)
    /\ UNCHANGED <<queues, busy, namespace, props, listed, lost, calls, life>>
    /\ Signal({})

-----------------------------------------------------------------------------
(* Deletion by the store of the exchange's type.                           *)

(* History: the keys of the name, not in ks, that still have bindings.     *)
Overlooked(e, ks) ==
    {x \in Params \X Keys :
        x[1][1] = e /\ x[2] \notin ks /\ bound[x[1]][x[2]] # {}}

(* Direct and topic: the keys are listed first, outside the transaction.   *)
Lists(c, p) ==
    /\ Enters(c, "none", {})
    /\ Become(c, [call |-> "delete", args |-> [p |-> p, all |-> keys[p]],
                  phase |-> "watch", watch |-> {}, attempt |-> 1])
    /\ UNCHANGED <<store, lost, life>>
    /\ Signal({})

DirectDelete(c, e) == ValidateType(<<e, "direct">>) /\ Lists(c, <<e, "direct">>)

TopicDelete(c, e) == Lists(c, <<e, "topic">>)

(* Then the keys of that list, and no other, are watched and must have no  *)
(* queues.                                                                 *)
Delete(c, p, all) ==
    Transaction(c, "delete", [p |-> p, all |-> all],
                ValidateType(p) /\ \A k \in all : bound[p][k] = {}, None,
                {KKeys(p), KAll} \union {KBound(p, k) : k \in all})

DeleteListed(c) ==
    /\ op[c].call = "delete" /\ op[c].phase = "watch"
    /\ Delete(c, op[c].args.p, op[c].args.all)

FanoutDelete(c, e) ==
    op[c] = Idle /\ Delete(c, <<e, "fanout">>, {NoKey})

DeleteExec(c) ==
    /\ Executes(c, "delete")
    /\ LET a == op[c].args IN
        /\ props' = [props EXCEPT ![a.p[1]] = Absent]
        /\ listed' = listed \ {a.p}
        /\ keys' = [keys EXCEPT ![a.p] = {}]
        /\ bound' = [bound EXCEPT ![a.p] =
                        [k \in Keys |-> IF k \in a.all THEN {} ELSE @[k]]]
        /\ lost' = lost \union Overlooked(a.p[1], a.all)
        /\ Return(c)
    /\ UNCHANGED <<queues, busy, namespace, bindings, calls, life>>
    /\ Signal({})

-----------------------------------------------------------------------------
(* Deletion by the exchange manager and of the namespace: no transaction.  *)

(* Store.Delete looks at the name only, lists the keys of the type it is   *)
(* given, ...                                                              *)
Delisting(p, caller, todo) ==
    [call |-> "remove", p |-> p, caller |-> caller, todo |-> todo, watch |-> {},
     all |-> IF p[2] = "fanout" THEN {NoKey} ELSE keys[p], phase |-> "count"]

ManagerDelete(c, p) ==
    /\ Exists(p[1])
    /\ Enters(c, "none", {})
    /\ Become(c, Delisting(p, "user", {}))
    /\ UNCHANGED <<store, lost, life>>
    /\ Signal({})

(* ... refuses if one of them has queues, ...                              *)
RemoveCount(c) ==
    /\ op[c].call = "remove" /\ op[c].phase = "count"
    /\ IF \E k \in op[c].all : bound[op[c].p][k] # {}
       THEN Return(c)
       ELSE Become(c, [op[c] EXCEPT !.phase = "remove"])
    /\ UNCHANGED <<store, lost, calls, life>>
    /\ Signal({})

(* ... and sends the deletions in one pipeline.  The queue sets of direct  *)
(* and topic keys are not among them.                                      *)
Remove(c) ==
    /\ op[c].call = "remove" /\ op[c].phase = "remove"
    /\ LET p == op[c].p IN
        /\ props' = [props EXCEPT ![p[1]] = Absent]
        /\ listed' = listed \ {p}
        /\ keys' = [keys EXCEPT ![p] = {}]
        /\ bound' = IF p[2] = "fanout" THEN [bound EXCEPT ![p][NoKey] = {}]
                                       ELSE bound
        /\ lost' = lost \union Overlooked(p[1], {})
        /\ IF op[c].caller = "user"
           THEN Return(c)
           ELSE Become(c, [call |-> "namespace", phase |-> "exchanges",
                           todo |-> op[c].todo \ {p}, watch |-> {}])
    /\ UNCHANGED <<queues, busy, namespace, bindings, calls, life>>
    /\ Signal({})

(* Manager.Delete of the namespace: the queues of the namespace, one after *)
(* the other, ...                                                          *)
NamespaceDelete(c) ==
    /\ namespace
    /\ Enters(c, "none", {})
    /\ Become(c, [call |-> "namespace", phase |-> "queues", todo |-> queues,
                  watch |-> {}])
    /\ UNCHANGED <<store, lost, life>>
    /\ Signal({})

(* ... giving up at the first that cannot be deleted.  (One that is gone   *)
(* is such a queue: the error the loop tolerates is the namespace's own.)  *)
NamespaceQueue(c, q) ==
    /\ op[c].phase = "queues" /\ q \in op[c].todo
    /\ IF Deletable(q)
       THEN Removed(q) /\ Become(c, [op[c] EXCEPT !.todo = @ \ {q}])
       ELSE UNCHANGED <<queues, bindings>> /\ Return(c)
    /\ UNCHANGED <<busy, namespace, props, listed, keys, bound, lost, calls,
                   life>>
    /\ Signal({})

NamespaceExchanges(c) ==
    /\ op[c].phase = "queues" /\ op[c].todo = {}
    /\ Become(c, [op[c] EXCEPT !.phase = "exchanges", !.todo = listed])
    /\ UNCHANGED <<store, lost, calls, life>>
    /\ Signal({})

NamespaceExchange(c, p) ==
    /\ op[c].phase = "exchanges" /\ p \in op[c].todo
    /\ IF Exists(p[1]) THEN Become(c, Delisting(p, "namespace", op[c].todo))
                       ELSE Return(c)
    /\ UNCHANGED <<store, lost, calls, life>>
    /\ Signal({})

(* At last the namespace leaves the registry.                              *)
NamespaceRemove(c) ==
    /\ op[c].phase = "exchanges" /\ op[c].todo = {}
    /\ namespace' = FALSE
    /\ Return(c)
    /\ UNCHANGED <<queues, busy, props, listed, keys, bound, bindings, lost,
                   calls, life>>
    /\ Signal({})

-----------------------------------------------------------------------------
(* The producer: a message for an exchange goes to the queues it matches.  *)

Producing(p, m, todo, matched, phase) ==
    [call |-> "produce", p |-> p, m |-> m, todo |-> todo, left |-> matched,
     got |-> [q \in Queues |-> 0], phase |-> phase, watch |-> {}]

Once(qs) == [q \in Queues |-> IF q \in qs THEN 1 ELSE 0]

Produces(c, p, r) ==
    /\ ValidateType(p)
    /\ Enters(c, "none", {})
    /\ Become(c, r)
    /\ UNCHANGED <<store, lost, life>>
    /\ Signal({})

(* MatchQueues of the stores.  Without a queue to send to the call fails.  *)
DirectMatchQueues(c, e, m) ==
    LET p == <<e, "direct">> IN
    /\ m \in RoutingKeys /\ bound[p][m] # {}
    /\ Produces(c, p, Producing(p, m, {}, Once(bound[p][m]), "send"))

FanoutMatchQueues(c, e, m) ==
    LET p == <<e, "fanout">> IN
    /\ bound[p][NoKey] # {}
    /\ Produces(c, p, Producing(p, m, {}, Once(bound[p][NoKey]), "send"))

(* A topic exchange lists its patterns, ...                                *)
TopicMatchQueues(c, e, m) ==
    LET p == <<e, "topic">>
        matched == {k \in keys[p] : matchTopicTokens(m, k)}
    IN
    /\ matched # {}
    /\ Produces(c, p, Producing(p, m, matched, Once({}), "match"))

\* Mutant of Seen: a queue that two patterns name is added twice.
SeenTwice(left, qs) ==
    [q \in Queues |-> IF q \in qs THEN left[q] + 1 ELSE left[q]]

(* ... and reads the queues of those that match one pattern at a time; a   *)
(* queue it has seen is not added again.                                   *)
Seen(left, qs) == [q \in Queues |-> IF q \in qs THEN 1 ELSE left[q]]

TopicBoundQueues(c, k) ==
    /\ op[c].phase = "match" /\ k \in op[c].todo
    /\ LET left == Seen(op[c].left, bound[op[c].p][k])
           todo == op[c].todo \ {k}
       IN IF todo = {} /\ left = Once({})
          THEN Return(c)
          ELSE Become(c, [op[c] EXCEPT !.todo = todo, !.left = left,
                            !.phase = IF todo = {} THEN "send" ELSE @])
    /\ UNCHANGED <<store, lost, calls, life>>
    /\ Signal({})

(* produceToExchange: one queue after the other.                           *)
ProduceToQueue(c, q) ==
    /\ op[c].phase = "send" /\ op[c].left[q] > 0
    /\ q \in queues
    /\ busy' = busy \union {q}
    /\ LET left == [op[c].left EXCEPT ![q] = @ - 1] IN
       Become(c, [op[c] EXCEPT !.left = left, !.got[q] = @ + 1,
                        !.phase = IF left = Once({}) THEN "sent" ELSE @])
    /\ UNCHANGED <<queues, namespace, props, listed, keys, bound, bindings,
                   lost, calls, life>>
    /\ Signal({})

(* The first queue that is gone, or refuses the message, ends the call     *)
(* with an error; the queues served before keep their copies.              *)
ProduceFails(c) ==
    /\ op[c].phase = "send"
    /\ Return(c)
    /\ UNCHANGED <<store, lost, calls, life>>
    /\ Signal({})

ProduceReturns(c) ==
    /\ op[c].phase = "sent"
    /\ Return(c)
    /\ UNCHANGED <<store, lost, calls, life>>
    /\ Signal({})

(* History: the bindings by which p should serve m, going by what patterns *)
(* mean.                                                                   *)
Routes(p, m) ==
    {r \in Keys \X Queues :
        /\ r[2] \in bound[p][r[1]]
        /\ \/ p[2] = "direct" /\ r[1] = m
           \/ p[2] = "fanout" /\ r[1] = NoKey
           \/ p[2] = "topic" /\ r[1] \in keys[p] /\ Fits(m, r[1])}

Observe ==
    LET now(c) == Routes(op[c].p, op[c].m)'
        producing(c) == op'[c].call = "produce"
        starts(c) == op[c].call # "produce"
    IN
    /\ steady' = [c \in Clients |->
            IF ~producing(c) THEN {}
            ELSE IF starts(c) THEN now(c) ELSE steady[c] \intersect now(c)]
    /\ ever' = [c \in Clients |->
            IF ~producing(c) THEN {}
            ELSE IF starts(c) THEN now(c) ELSE ever[c] \union now(c)]

-----------------------------------------------------------------------------
Named(t) == IF t \in Types THEN Names ELSE {}

Direct(c) == \E e \in Named("direct") :
    \/ \E q \in Queues, k \in RoutingKeys :
        DirectBindQueue(c, q, e, k) \/ DirectUnbindQueue(c, q, e, k)
    \/ DirectDelete(c, e)
    \/ \E m \in Messages : DirectMatchQueues(c, e, m)

Topic(c) == \E e \in Named("topic") :
    \/ \E q \in Queues, k \in Patterns :
        TopicBindQueue(c, q, e, k) \/ TopicUnbindQueue(c, q, e, k)
    \/ TopicDelete(c, e)
    \/ \E m \in Messages : TopicMatchQueues(c, e, m)

Fanout(c) == \E e \in Named("fanout") :
    \/ \E q \in Queues : FanoutBindQueue(c, q, e) \/ FanoutUnbindQueue(c, q, e)
    \/ FanoutDelete(c, e)
    \/ \E m \in Messages : FanoutMatchQueues(c, e, m)

Manager(c) ==
    \/ \E p \in Params, policy \in Policies : Save(c, p, policy)
    \/ \E p \in Params : ManagerDelete(c, p) \/ NamespaceExchange(c, p)
    \/ RemoveCount(c) \/ Remove(c)
    \/ NamespaceDelete(c) \/ NamespaceExchanges(c) \/ NamespaceRemove(c)
    \/ \E q \in Queues : NamespaceQueue(c, q)

Exec(c) ==
    \/ Conflict(c) \/ DeleteListed(c)
    \/ SaveExec(c) \/ BindExec(c) \/ UnbindExec(c) \/ DeleteExec(c)

Producer(c) ==
    \/ \E k \in Patterns : TopicBoundQueues(c, k)
    \/ \E q \in Queues : ProduceToQueue(c, q)
    \/ ProduceFails(c) \/ ProduceReturns(c)

Next ==
    /\ \/ \E c \in Clients : \/ Direct(c) \/ Topic(c) \/ Fanout(c)
                             \/ Manager(c) \/ Exec(c) \/ Producer(c)
       \/ \E q \in Queues : CreateQueue(q) \/ DeleteQueue(q) \/ Drain(q)
    /\ Observe

Spec == Init /\ [][Next]_vars

-----------------------------------------------------------------------------
(* The type and the policy of an exchange never change while it exists:    *)
(* not even when several clients create it at once, explicitly with        *)
(* different types and policies or by binding a queue to it.               *)
PropertiesFixed ==
    [][\A e \in Names :
        props[e] # Absent /\ props'[e] # Absent => props'[e] = props[e]]_vars

(* An exchange lists exactly the routing keys or patterns that have queues *)
(* bound, however bindings and unbindings overlap: a key nobody is bound   *)
(* under does not linger, and a binding is missing from the list only      *)
(* where a deletion of the exchange overlooked it.                         *)
KeysExact ==
    \A p \in Params :
        LET used == {k \in Keys \ {NoKey} : bound[p][k] # {}} IN
        /\ keys[p] \subseteq used
        /\ \A k \in used \ keys[p] : <<p, k>> \in lost

(* A queue bound to a fanout exchange has the exchange in its own record,  *)
(* which is what keeps the queue from being deleted.                       *)
FanoutRecorded ==
    \A p \in Params, q \in Queues :
        p[2] = "fanout" /\ q \in bound[p][NoKey] => p \in bindings[q]

(* A message that was produced to an exchange without an error is in every *)
(* queue with a binding that fitted it, by the meaning of the patterns,    *)
(* from the beginning of the call to its end, in no queue without such a   *)
(* binding at some moment of the call, and in none of them twice.          *)
RoutedRight ==
    \A c \in Clients : op[c].phase = "sent" =>
        /\ \A r \in steady[c] : op[c].got[r[2]] = 1
        /\ \A q \in Queues :
            /\ op[c].got[q] =< 1
            /\ op[c].got[q] = 1 => \E r \in ever[c] : r[2] = q

=============================================================================
