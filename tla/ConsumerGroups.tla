--------------------------- MODULE ConsumerGroups ---------------------------
(***************************************************************************)
(* The consumer groups of one active pub/sub queue, the consumers that     *)
(* join and leave them, the reaper that cleans up after dead consumers,    *)
(* and a producer, whose resolver keeps a copy of the set of groups up to  *)
(* date from events and which publishes one copy of a message to each.     *)
(*                                                                         *)
(* A consumer that gives no group id uses an ephemeral group of its own,   *)
(* named after it: the group of the anonymous consumer c is c itself.      *)
(*                                                                         *)
(* The resolver hands its slice of groups to Produce without copying it.   *)
(* A slice is an array (cells), a length and a capacity; RemoveGroup moves  *)
(* cells in place and Add writes after the last one while there is room,   *)
(* so that a running Produce, which keeps the length it started with,      *)
(* reads cells that change under it.                                       *)
(***************************************************************************)
EXTENDS Integers, FiniteSets, Sequences, Functions

CONSTANTS
    Consumers,
    Anonymous,       \* consumers that give no group id
    Named,           \* groups the application manages
    Home,            \* the named group the other consumers join
    MaxCalls,        \* calls of Produce
    MaxEdits,        \* groups created, deleted, consumers started and stopped
    MaxFaults,       \* consumers that die or are taken for dead
    Nobody

Groups == Named \cup Anonymous
GroupOf(c) == IF c \in Anonymous THEN c ELSE Home

ASSUME GroupsAssumption ==
    /\ IsFiniteSet(Consumers) /\ IsFiniteSet(Named)
    /\ Anonymous \subseteq Consumers
    /\ Named \cap Consumers = {}
    /\ Consumers # Anonymous => Home \in Named
    /\ MaxCalls \in Nat /\ MaxEdits \in Nat /\ MaxFaults \in Nat
    /\ Nobody \notin Consumers \cup Named

VARIABLES
    groups,      \* the set of groups of the queue
    members,     \* group -> its member consumers
    registered,  \* consumers of the queue
    pending,     \* group -> number of messages in its pending list
    ungrouped,   \* messages in the pending list without a group
    processing,  \* consumer -> number of messages it holds
    retrying,    \* group -> messages waiting to be requeued
    consumer,    \* consumer -> state of its handler
    dead,        \* consumers without a heartbeat
    reaping,     \* the consumer a reaper cleans up after, and how far it is
    unpublished, \* events a process is about to publish
    wire,        \* events on their way to the producer
    producer,    \* "down", "loaded", "created", "running"
    cells, len, cap,  \* the slice of the resolver
    call,        \* the call of Produce
    calls, edits, faults,
    missed,      \* history: groups of which the producer missed an event
    crossed      \* history: groups with two events under way at once

groupVars == <<groups, members, registered>>
messageVars == <<pending, ungrouped, processing, retrying>>
consumerVars == <<consumer, dead, reaping>>
resolverVars == <<producer, cells, len, cap>>
bounds == <<calls, edits, faults>>
vars == <<groupVars, messageVars, consumerVars, unpublished, wire,
          resolverVars, call, bounds, missed, crossed>>

NoCall == [own |-> FALSE, cells |-> <<>>, n |-> 0, i |-> 1,
           start |-> {}, given |-> [g \in Groups |-> 0],
           moved |-> FALSE, failed |-> FALSE]

\* The loop of Produce goes on.
Calling == call.i <= call.n /\ ~call.failed

NotReaping == [who |-> Nobody, step |-> "unack", grouped |-> FALSE]

Event(kind, g) == [kind |-> kind, group |-> g]
Cached == {cells[i] : i \in 1..len}

Init ==
    /\ groups = {}
    /\ members = [g \in Groups |-> {}]
    /\ registered = {}
    /\ pending = [g \in Groups |-> 0]
    /\ retrying = [g \in Groups |-> 0]
    /\ ungrouped = 0
    /\ processing = [c \in Consumers |-> 0]
    /\ consumer = [c \in Consumers |-> "off"]
    /\ dead = {}
    /\ reaping = NotReaping
    /\ unpublished = {} /\ wire = <<>>
    /\ producer = "down"
    /\ cells = <<>> /\ len = 0 /\ cap = 0
    /\ call = NoCall
    /\ calls = 0 /\ edits = 0 /\ faults = 0
    /\ missed = {} /\ crossed = {}

-----------------------------------------------------------------------------
(* Groups.                                                                 *)

\* A process has changed the group and not yet published the event.
Announcing(g) ==
    \/ \E e \in unpublished : e.group = g
    \/ \E c \in Consumers : consumer[c] = "announcing" /\ GroupOf(c) = g

\* An event about g becomes due while another one is.
Crossing(g) ==
    crossed' = IF Announcing(g) THEN crossed \cup {g} ELSE crossed

(* delete-consumer-group.lua, given the number of messages in the pending  *)
(* list it is told to look at.  Its test for a locked queue compares a     *)
(* name with a number and never holds.                                     *)
Deletable(g, waiting) == members[g] = {} /\ waiting = 0

EditBudget == edits < MaxEdits /\ edits' = edits + 1

(* ConsumerGroupStore.Save: SADD, and an event if the group is new. *)
Save(g) ==
    /\ EditBudget
    /\ groups' = groups \cup {g}
    /\ IF g \in groups THEN UNCHANGED <<unpublished, crossed>>
       ELSE unpublished' = unpublished \cup {Event("created", g)} /\ Crossing(g)
    /\ UNCHANGED <<members, registered, messageVars, consumerVars, wire,
                   resolverVars, call, calls, faults, missed>>

(* ConsumerGroupStore.Delete passes the pending list of the queue, not the *)
(* one of the group, and a group is deleted whatever waits in its own.     *)
Delete(g) ==
    /\ EditBudget
    /\ Deletable(g, ungrouped)
    /\ groups' = groups \ {g}
    /\ unpublished' = unpublished \cup {Event("deleted", g)}
    /\ Crossing(g)
    /\ UNCHANGED <<members, registered, messageVars, consumerVars, wire,
                   resolverVars, call, calls, faults, missed>>

\* Whether the resolver is subscribed to the event.
Heard(kind) == producer \in (IF kind = "created" THEN {"created", "running"}
                             ELSE {"running"})

(* Redis passes an event to the subscribers of the moment. *)
Publish(e) ==
    /\ wire' = IF Heard(e.kind) THEN Append(wire, e) ELSE wire
    /\ missed' = IF Heard(e.kind) \/ producer = "down" THEN missed
                 ELSE missed \cup {e.group}

(* PublishConsumerGroupCreated, PublishConsumerGroupDeleted. *)
PublishEvent(e) ==
    /\ e \in unpublished
    /\ unpublished' = unpublished \ {e}
    /\ Publish(e)
    /\ UNCHANGED <<groupVars, messageVars, consumerVars, resolverVars, call,
                   bounds, crossed>>

-----------------------------------------------------------------------------
(* Consumers.                                                              *)

Goto(c, pc) == consumer' = [consumer EXCEPT ![c] = pc]

(* Run of the handler up to createConsumerGroup. *)
PrepareConsumerGroup(c) ==
    LET g == GroupOf(c) IN
    /\ EditBudget
    /\ consumer[c] = "off" /\ c \notin dead
    /\ groups' = groups \cup {g}
    /\ IF g \in groups THEN Goto(c, "prepared") /\ UNCHANGED crossed
       ELSE Goto(c, "announcing") /\ Crossing(g)
    /\ UNCHANGED <<members, registered, messageVars, dead, reaping,
                   unpublished, wire, resolverVars, call, calls, faults,
                   missed>>

Announce(c) ==
    /\ consumer[c] = "announcing"
    /\ Goto(c, "prepared")
    /\ Publish(Event("created", GroupOf(c)))
    /\ UNCHANGED <<groupVars, messageVars, dead, reaping, unpublished,
                   resolverVars, call, bounds, crossed>>

\* Mutant of SubscribeConsumer: the group is not told of its member.
SubscribeGroupless(c) ==
    /\ consumer[c] = "prepared"
    /\ Goto(c, "running")
    /\ registered' = registered \cup {c}
    /\ UNCHANGED <<groups, members, messageVars, dead, reaping, unpublished,
                   wire, resolverVars, call, bounds, missed, crossed>>

(* subscribe-consumer.lua returns early for a consumer that is registered. *)
SubscribeConsumer(c) ==
    /\ consumer[c] = "prepared"
    /\ Goto(c, "running")
    /\ registered' = registered \cup {c}
    /\ members' = IF c \in registered THEN members
                  ELSE [members EXCEPT ![GroupOf(c)] = @ \cup {c}]
    /\ UNCHANGED <<groups, messageVars, dead, reaping, unpublished, wire,
                   resolverVars, call, bounds, missed, crossed>>

\* Mutant of Unsubscribed: messages in the processing list do not matter.
UnsubscribedAnyway(c, M) ==
    /\ registered' = registered \ {c}
    /\ members' = [g \in Groups |-> IF g \in M THEN members[g] \ {c}
                                    ELSE members[g]]

(* unsubscribe-consumer.lua: refused while the consumer holds messages.    *)
(* The membership is removed from the groups M it is called with.          *)
Unsubscribed(c, M) ==
    IF processing[c] > 0 THEN UNCHANGED <<registered, members>>
    ELSE /\ registered' = registered \ {c}
         /\ members' = [g \in Groups |-> IF g \in M THEN members[g] \ {c}
                                         ELSE members[g]]

(* Shutdown of the handler: UnsubscribeConsumer, whose refusal is logged,  *)
UnsubscribeConsumer(c) ==
    /\ EditBudget
    /\ consumer[c] = "running"
    /\ Goto(c, "leaving")
    /\ Unsubscribed(c, {GroupOf(c)})
    /\ UNCHANGED <<groups, messageVars, dead, reaping, unpublished, wire,
                   resolverVars, call, calls, faults, missed, crossed>>

(* and then DeleteEphemeralConsumerGroup, which publishes no event. *)
DeleteEphemeral(c) ==
    /\ consumer[c] = "leaving"
    /\ Goto(c, "off")
    /\ groups' = IF c \in Anonymous /\ Deletable(c, pending[c])
                 THEN groups \ {c} ELSE groups
    /\ UNCHANGED <<members, registered, messageVars, dead, reaping,
                   unpublished, wire, resolverVars, call, bounds, missed,
                   crossed>>

(* The dequeue loop: a message of the group is taken, and acknowledged or  *)
(* given back to be retried.  A handler that is leaving may still finish.  *)
Take(c) ==
    LET g == GroupOf(c) IN
    /\ consumer[c] = "running"
    /\ pending[g] > 0
    /\ pending' = [pending EXCEPT ![g] = @ - 1]
    /\ processing' = [processing EXCEPT ![c] = @ + 1]
    /\ UNCHANGED <<groupVars, ungrouped, retrying, consumerVars, unpublished,
                   wire, resolverVars, call, bounds, missed, crossed>>

Settle(c) ==
    /\ consumer[c] # "off"
    /\ processing[c] > 0
    /\ processing' = [processing EXCEPT ![c] = @ - 1]
    /\ \/ UNCHANGED retrying
       \/ retrying' = [retrying EXCEPT ![GroupOf(c)] = @ + 1]
    /\ UNCHANGED <<groupVars, pending, ungrouped, consumerVars, unpublished,
                   wire, resolverVars, call, bounds, missed, crossed>>

(* The requeuers: a message whose group is gone is dead-lettered. *)
Requeue(g) ==
    /\ retrying[g] > 0
    /\ retrying' = [retrying EXCEPT ![g] = @ - 1]
    /\ pending' = IF g \in groups THEN [pending EXCEPT ![g] = @ + 1]
                  ELSE pending
    /\ UNCHANGED <<groupVars, ungrouped, processing, consumerVars,
                   unpublished, wire, resolverVars, call, bounds, missed,
                   crossed>>

FaultBudget == faults < MaxFaults /\ faults' = faults + 1

(* The process of c dies, before it told of its group perhaps, or c is     *)
(* slow and its heartbeat expires.                                         *)
Die(c) ==
    /\ FaultBudget
    /\ consumer[c] # "off" /\ c \notin dead
    /\ dead' = dead \cup {c}
    /\ \/ /\ Goto(c, "off")
          /\ missed' = IF consumer[c] = "announcing"
                       THEN missed \cup {GroupOf(c)} ELSE missed
       \/ UNCHANGED <<consumer, missed>>
    /\ UNCHANGED <<groupVars, messageVars, reaping, unpublished, wire,
                   resolverVars, call, calls, edits, crossed>>

-----------------------------------------------------------------------------
(* recoverConsumer, by the reaper of another consumer.                     *)

Reap(c) ==
    /\ reaping = NotReaping
    /\ c \in dead \cap registered
    /\ \E d \in Consumers \ {c} : consumer[d] = "running"
    /\ reaping' = [NotReaping EXCEPT !.who = c]
    /\ UNCHANGED <<groupVars, messageVars, consumer, dead, unpublished, wire,
                   resolverVars, call, bounds, missed, crossed>>

ReapMessages ==
    LET c == reaping.who IN
    /\ c # Nobody /\ reaping.step = "unack"
    /\ processing' = [processing EXCEPT ![c] = 0]
    /\ retrying' = [retrying EXCEPT ![GroupOf(c)] = @ + processing[c]]
    /\ reaping' = [reaping EXCEPT !.step = "group"]
    /\ UNCHANGED <<groupVars, pending, ungrouped, consumer, dead, unpublished,
                   wire, resolverVars, call, bounds, missed, crossed>>

(* The ephemeral group is deleted while the dead consumer is a member.     *)
ReapGroup ==
    LET c == reaping.who IN
    /\ c # Nobody /\ reaping.step = "group"
    /\ reaping' = [reaping EXCEPT !.step = "leave", !.grouped = c \in groups]
    /\ groups' = IF c \in groups /\ Deletable(c, pending[c])
                 THEN groups \ {c} ELSE groups
    /\ UNCHANGED <<members, registered, messageVars, consumer, dead,
                   unpublished, wire, resolverVars, call, bounds, missed,
                   crossed>>

(* A consumer of a named group is not taken out of that group. *)
ReapRegistration ==
    LET c == reaping.who IN
    /\ c # Nobody /\ reaping.step = "leave"
    /\ reaping' = NotReaping
    /\ Unsubscribed(c, IF reaping.grouped THEN {c} ELSE {})
    /\ UNCHANGED <<groups, messageVars, consumer, dead, unpublished, wire,
                   resolverVars, call, bounds, missed, crossed>>

-----------------------------------------------------------------------------
(* The resolver of the producer.                                           *)

\* A running call keeps the array it has when the resolver takes another.
Freeze == call' = IF Calling /\ ~call.own
                  THEN [call EXCEPT !.own = TRUE, !.cells = cells] ELSE call

(* Load reads the groups, *)
Load ==
    /\ EditBudget
    /\ producer = "down"
    /\ producer' = "loaded"
    /\ cells' \in Injection(1..Cardinality(groups), groups)
    /\ len' = Cardinality(groups) /\ cap' = Cardinality(groups)
    /\ missed' = {}
    /\ UNCHANGED <<groupVars, messageVars, consumerVars, unpublished, wire,
                   call, calls, faults, crossed>>

(* and subscribes to one event after the other. *)
Subscribe ==
    /\ producer \in {"loaded", "created"}
    /\ producer' = IF producer = "loaded" THEN "created" ELSE "running"
    /\ UNCHANGED <<groupVars, messageVars, consumerVars, unpublished, wire,
                   cells, len, cap, call, bounds, missed, crossed>>

(* Shutdown and Clear. *)
Clear ==
    /\ EditBudget
    /\ producer = "running"
    /\ producer' = "down"
    /\ cells' = <<>> /\ len' = 0 /\ cap' = 0
    /\ wire' = <<>>
    /\ Freeze
    /\ UNCHANGED <<groupVars, messageVars, consumerVars, unpublished, calls,
                   faults, missed, crossed>>

\* Mutant of AddGroup: a group that is there is added again.
AddGroupAgain(g) ==
    /\ len' = len + 1
    /\ cap' = len + 1
    /\ cells' = Append(SubSeq(cells, 1, len), g)
    /\ Freeze

(* append: in place while there is room, else in a new array. *)
AddGroup(g) ==
    IF g \in Cached THEN UNCHANGED <<cells, len, cap, call>>
    ELSE /\ len' = len + 1
         /\ IF len < cap
            THEN cells' = [cells EXCEPT ![len + 1] = g] /\ UNCHANGED <<cap, call>>
            ELSE /\ cap' = IF cap = 0 THEN 1 ELSE 2 * cap
                 /\ cells' = [i \in 1..cap' |-> CASE i <= len -> cells[i]
                                                 [] i = len + 1 -> g
                                                 [] OTHER -> Nobody]
                 /\ Freeze

\* Mutant of RemoveGroup: one cell too many is dropped.
RemoveTwo(g) ==
    IF g \notin Cached THEN UNCHANGED <<cells, len, cap, call>>
    ELSE LET i == CHOOSE k \in 1..len : cells[k] = g
         IN /\ len' = IF i = len THEN len - 1 ELSE len - 2
            /\ cells' = [k \in 1..cap |-> IF k >= i /\ k < len - 1
                                          THEN cells[k + 2] ELSE cells[k]]
            /\ call' = IF Calling /\ ~call.own
                       THEN [call EXCEPT !.moved = TRUE] ELSE call
            /\ UNCHANGED cap

(* append(groups[:i], groups[i+1:]...): the cells after i move down, and   *)
(* the last one keeps its content.                                         *)
RemoveGroup(g) ==
    IF g \notin Cached THEN UNCHANGED <<cells, len, cap, call>>
    ELSE LET i == CHOOSE k \in 1..len : cells[k] = g
         IN /\ len' = len - 1
            /\ cells' = [k \in 1..cap |-> IF k >= i /\ k < len
                                          THEN cells[k + 1] ELSE cells[k]]
            /\ call' = IF Calling /\ ~call.own
                       THEN [call EXCEPT !.moved = TRUE] ELSE call
            /\ UNCHANGED cap

(* onConsumerGroupCreated, onConsumerGroupDeleted. *)
Deliver ==
    /\ wire # <<>>
    /\ wire' = Tail(wire)
    /\ IF Head(wire).kind = "created" THEN AddGroup(Head(wire).group)
       ELSE RemoveGroup(Head(wire).group)
    /\ UNCHANGED <<groupVars, messageVars, consumerVars, unpublished,
                   producer, bounds, missed, crossed>>

(* The connection breaks and an event is not delivered. *)
LoseEvent ==
    /\ FaultBudget
    /\ wire # <<>>
    /\ wire' = Tail(wire)
    /\ missed' = missed \cup {Head(wire).group}
    /\ UNCHANGED <<groupVars, messageVars, consumerVars, unpublished,
                   resolverVars, call, calls, edits, crossed>>

-----------------------------------------------------------------------------
(* Produce, for a message without an exchange.                             *)

(* Resolve hands out the slice; without targets the message goes to the    *)
(* pending list of the queue, which the consumers of groups do not read.   *)
Produce ==
    /\ producer = "running" /\ ~Calling
    /\ calls < MaxCalls
    /\ calls' = calls + 1
    /\ call' = [NoCall EXCEPT !.n = len, !.start = Cached]
    /\ ungrouped' = IF len = 0 THEN ungrouped + 1 ELSE ungrouped
    /\ UNCHANGED <<groupVars, pending, processing, retrying, consumerVars,
                   unpublished, wire, resolverVars, edits, faults, missed,
                   crossed>>

\* The group in the next cell of the slice the loop walks over.
Target == IF call.own THEN call.cells[call.i] ELSE cells[call.i]

(* One turn of the loop: dispatch to the group in the next cell.  An error *)
(* ends the call.                                                          *)
Dispatch ==
    /\ Calling
    /\ IF Target \in groups
       THEN /\ pending' = [pending EXCEPT ![Target] = @ + 1]
            /\ call' = [call EXCEPT
                           !.given = [call.given EXCEPT ![Target] = @ + 1],
                           !.i = @ + 1]
       ELSE /\ call' = [call EXCEPT !.failed = TRUE]
            /\ UNCHANGED pending
    /\ UNCHANGED <<groupVars, ungrouped, processing, retrying, consumerVars,
                   unpublished, wire, resolverVars, bounds, missed, crossed>>

(* A cell is read while it is moved: half of a group id is no group.       *)
DispatchTorn ==
    /\ Calling /\ call.moved /\ ~call.own
    /\ call' = [call EXCEPT !.failed = TRUE]
    /\ UNCHANGED <<groupVars, messageVars, consumerVars, unpublished, wire,
                   resolverVars, bounds, missed, crossed>>

-----------------------------------------------------------------------------
Next ==
    \/ \E g \in Named : Save(g) \/ Delete(g)
    \/ \E e \in unpublished : PublishEvent(e)
    \/ \E c \in Consumers :
          \/ PrepareConsumerGroup(c) \/ Announce(c) \/ SubscribeConsumer(c)
          \/ UnsubscribeConsumer(c) \/ DeleteEphemeral(c)
          \/ Take(c) \/ Settle(c) \/ Die(c) \/ Reap(c)
    \/ \E g \in Groups : Requeue(g)
    \/ ReapMessages \/ ReapGroup \/ ReapRegistration
    \/ Load \/ Subscribe \/ Clear \/ Deliver \/ LoseEvent
    \/ Produce \/ Dispatch \/ DispatchTorn

Spec == Init /\ [][Next]_vars

-----------------------------------------------------------------------------
(* While no group is removed from the cache under it, Produce gives each   *)
(* group it found in the cache one copy at most and nobody else any, and   *)
(* each of them exactly one if it returns without error, however the cache *)
(* grows meanwhile (produceToQueue iterates over the live slice).          *)
FanOut ==
    ~call.moved =>
        \A g \in Groups :
            /\ call.given[g] <= IF g \in call.start THEN 1 ELSE 0
            /\ ~Calling /\ ~call.failed /\ g \in call.start
                => call.given[g] = 1

(* When no event about a group is under way, the cache of a running        *)
(* producer has the group if and only if it exists, apart from the ways    *)
(* the code has to lose track: an event was missed between Load and        *)
(* subscribe, on the wire or because its sender died, two events about the *)
(* group were under way at once, or an ephemeral group was deleted, which  *)
(* nobody is told.                                                         *)
CacheAgrees ==
    \A g \in Groups :
        /\ producer = "running"
        /\ ~Announcing(g)
        /\ \A i \in 1..Len(wire) : wire[i].group # g
        /\ g \notin missed \cup crossed
        => /\ g \in groups => g \in Cached
           /\ g \in Cached => g \in groups \cup Anonymous

(* A running consumer that nobody took for dead is a member of its group,  *)
(* so that the group is not deleted under it, and its ephemeral group      *)
(* exists: shutting down, restarting and reaping leave it alone.           *)
RunningIsServed ==
    \A c \in Consumers :
        consumer[c] = "running" /\ c \notin dead =>
            /\ c \in members[GroupOf(c)]
            /\ c \in Anonymous => c \in groups

(* An ephemeral group outlives the messages in its pending list, and those *)
(* its consumer holds unless that consumer was taken for dead: they come   *)
(* back to the group when they are retried.                                *)
EphemeralKept ==
    \A c \in Anonymous :
        \/ pending[c] > 0
        \/ processing[c] > 0 /\ c \notin dead
        => c \in groups

-----------------------------------------------------------------------------
=============================================================================
