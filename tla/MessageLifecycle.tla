------------------------- MODULE MessageLifecycle -------------------------
(***************************************************************************)
(* The life of the messages of one queue, from publication to              *)
(* acknowledgement, dead-lettering or deletion.                            *)
(*                                                                         *)
(* Redis runs one command or Lua script at a time, so every script is one  *)
(* action here.  What the Go code does between two scripts is not atomic:  *)
(* a consumer pops a message (RPOPLPUSH) and checks it out later, an       *)
(* acknowledgement is a call that is in flight for a while, and the reaper *)
(* decides on what it read earlier.  Consumers crash, are shut down, lose  *)
(* replies, and may be too slow to renew their heartbeat.                  *)
(*                                                                         *)
(* A Redis list is the number of occurrences of each message id in it, so  *)
(* that an id pushed twice shows; the order of the pending list is left    *)
(* out.  A sorted set holds an id at most once.                            *)
(***************************************************************************)
EXTENDS Integers, FiniteSets

CONSTANTS
    Messages,           \* message ids; an id is a UUID, it is published once
    Consumers,          \* consumer ids
    RetryThreshold,     \* RetryThreshold[m], the retry budget of m
    RetryDelay,         \* the messages with RetryDelay > 0
    Scheduled,          \* the messages produced with a schedule
    Periodic,           \* the messages with a CRON or a repeat schedule
    TTL,                \* the messages with a TTL
    ConsumeTimeout,     \* the messages with a consume timeout
    StoreAcknowledged,  \* MessageAudit.AcknowledgedMessages.Enabled
    StoreDeadLettered,  \* MessageAudit.DeadLetteredMessages.Enabled
    MayCrash,           \* consumers whose process may die
    MayShutdown,        \* consumers that may be shut down
    MayStall,           \* live consumers whose heartbeat may lapse
    MayLoseReply,       \* consumers whose connection may fail
    MayDelete,          \* messages a user or a purge job may delete
    MayRequeue,         \* messages a user may requeue
    MaxStateChanges,    \* bound on the changes of the operational state
    NoMessage

OperationalStates == {"ACTIVE", "PAUSED", "STOPPED", "LOCKED"}

(* allowedTransitions of pkg/queue/state.go. *)
AllowedTransitions ==
    [ACTIVE  |-> {"PAUSED", "LOCKED", "STOPPED"},
     PAUSED  |-> {"ACTIVE", "STOPPED", "LOCKED"},
     STOPPED |-> {"ACTIVE"},
     LOCKED  |-> {"ACTIVE", "STOPPED"}]

(* The status field of the message hash.  "New" is a message that was not
   published yet; "Deleted" stands for a hash that is gone. *)
Statuses == {"New", "Pending", "Processing", "Scheduled", "Acknowledged",
             "UnackRequeuing", "UnackDelaying", "DeadLettered", "Deleted"}

SortedSets == {"delayed", "scheduled"}
QueueLists == {"pending", "requeued", "acknowledged", "deadLettered"} \cup SortedSets

(* Where a message id can be: a list of the queue, or the processing list
   of a consumer, which goes by the id of the consumer. *)
Places == QueueLists \cup Consumers
Keys == Places \cup {"published"}

Counters == {"messages", "pending", "processing", "requeued", "delayed",
             "scheduled", "acknowledged", "deadLettered"}

Causes == {"TTL_EXPIRED", "TIMEOUT", "UNACKNOWLEDGED", "OFFLINE_CONSUMER",
           "QUEUE_STATE", "ACK_FAILED"}

ASSUME ConstantsAssumption ==
    /\ RetryThreshold \in [Messages -> Nat]
    /\ RetryDelay \subseteq Messages
    /\ Scheduled \subseteq Messages
    /\ Periodic \subseteq Scheduled
    /\ TTL \subseteq Messages
    /\ ConsumeTimeout \subseteq Messages
    /\ StoreAcknowledged \in BOOLEAN
    /\ StoreDeadLettered \in BOOLEAN
    /\ MayCrash \subseteq Consumers
    /\ MayShutdown \subseteq Consumers
    /\ MayStall \subseteq Consumers
    /\ MayLoseReply \subseteq Consumers
    /\ MayDelete \subseteq Messages
    /\ MayRequeue \subseteq Messages
    /\ MaxStateChanges \in Nat
    /\ NoMessage \notin Messages
    /\ Consumers \cap (QueueLists \cup {"published"}) = {}

(* The counters count them. *)
ASSUME FiniteMessages == IsFiniteSet(Messages)

VARIABLES
    qstate,         \* operational state of the queue
    stateChanges,   \* how often it changed
    lists,          \* lists[k][m]: occurrences of m under key k
    status,         \* status field of each message hash
    attempts,       \* attempts field of each message hash
    ghost,          \* hashes that hold no message, written after a DEL
    count,          \* counters in the queue properties hash
    registered,     \* consumers hash (and processing queues hash) of the queue
    heartbeat,      \* consumers whose heartbeat key exists
    consumer,       \* "new", "up", "down" (shut down) or "crashed"
    handler,        \* message handler: "running", "closing" or "stopped"
    pc,             \* dequeue loop: "off", "idle", "popped" or "handling"
    envelope,       \* the message the loop holds, as it was checked out
    timedOut,       \* the forced timer of the running handler has fired
    ackCalls,       \* acknowledgements on their way to Redis
    unackCalls,     \* unacknowledgements on their way to Redis
    reap,           \* the dead consumer each reaper is recovering
    expired,        \* messages whose TTL has elapsed
    succeeded,      \* history: messages for which a handler returned nil
    suspected       \* history: consumers reaped while they could still act

store == <<lists, status, attempts, ghost, count>>
queue == <<qstate, stateChanges>>
members == <<registered, heartbeat>>
loop == <<consumer, handler, pc, envelope, timedOut>>
calls == <<ackCalls, unackCalls>>
history == <<succeeded, suspected>>

vars == <<queue, store, members, loop, calls, reap, expired, history>>
---------------------------------------------------------------------------
(* Helpers. *)

(* LPUSH, RPUSH and ZADD; LREM with count 1 and ZREM. *)
Add(L, k, m) == [L EXCEPT ![k][m] = IF k \in SortedSets THEN 1 ELSE @ + 1]
Rem(L, k, m) == [L EXCEPT ![k][m] = IF @ > 0 THEN @ - 1 ELSE 0]
Move(L, k, l, m) == Add(Rem(L, k, m), l, m)

(* HINCRBY on the queue properties. *)
Incr(C, k) == [C EXCEPT ![k] = @ + 1]
Decr(C, k) == [C EXCEPT ![k] = @ - 1]

(* The state check of every script that publishes or settles a message. *)
Open == qstate \in {"ACTIVE", "PAUSED"}

Exists(m) == status[m] \notin {"New", "Deleted"}

(* DecodeEnvelope needs the body, which a ghost hash does not have. *)
Decodable(m) == Exists(m) /\ m \notin ghost

NoEnvelope == [msg |-> NoMessage, attempts |-> 0]
NoTarget(w) == [target |-> w, phase |-> "idle"]

AckCall(c, m) == [owner |-> c, msg |-> m]

(* Unacknowledging m in the processing list of consumer `owner'. *)
UnackCall(from, owner, m, n, cause) ==
    [from |-> from, owner |-> owner, msg |-> m, attempts |-> n, cause |-> cause]

(* Mutant of ResolveUnackAction: one attempt too many. *)
ResolveGenerous(call, late) ==
    IF call.cause # "TTL_EXPIRED" /\ call.attempts <= RetryThreshold[call.msg]
    THEN "REQUEUE" ELSE "DEAD_LETTER"

(* HasRetryThresholdExceeded and resolveUnackAction: what happens to a message
   that is unacknowledged.  A message popped from a queue that turns out to be
   stopped or locked travels in a blank envelope: no attempt, default options.
   Delay and requeue are one case, the script treats them alike.  `late' says
   that the TTL has run out since the envelope was decoded: rebuildMessage does
   not restore the creation time of the message. *)
ResolveUnackAction(call, late) ==
    IF call.cause = "QUEUE_STATE" THEN "REQUEUE"
    ELSE IF \/ call.cause = "TTL_EXPIRED"
            \/ late
            \/ call.msg \in Periodic
            \/ call.attempts >= RetryThreshold[call.msg]
         THEN "DEAD_LETTER"
         ELSE "REQUEUE"

(* subscribe-consumer.lua; a consumer that is registered already stays so. *)
SubscribeScript(c) ==
    /\ qstate = "ACTIVE"
    /\ registered' = registered \cup {c}

(* Mutant of UnsubscribeScript: without looking at the processing list. *)
UnsubscribeBlind(c) == registered' = registered \ {c}

(* unsubscribe-consumer.lua refuses while the processing list has an entry. *)
ProcessingEmpty(c) == \A m \in Messages : lists[c][m] = 0
UnsubscribeScript(c) ==
    registered' = IF ProcessingEmpty(c) THEN registered \ {c} ELSE registered

(* The background workers of a running handler. *)
WorkerRuns(w) == consumer[w] = "up" /\ handler[w] = "running"

Init ==
    /\ qstate = "ACTIVE"
    /\ stateChanges = 0
    /\ lists = [k \in Keys |-> [m \in Messages |-> 0]]
    /\ status = [m \in Messages |-> "New"]
    /\ attempts = [m \in Messages |-> 0]
    /\ ghost = {}
    /\ count = [k \in Counters |-> 0]
    /\ registered = {}
    /\ heartbeat = {}
    /\ consumer = [c \in Consumers |-> "new"]
    /\ handler = [c \in Consumers |-> "stopped"]
    /\ pc = [c \in Consumers |-> "off"]
    /\ envelope = [c \in Consumers |-> NoEnvelope]
    /\ timedOut = [c \in Consumers |-> FALSE]
    /\ ackCalls = {}
    /\ unackCalls = {}
    /\ reap = [c \in Consumers |-> NoTarget(c)]
    /\ expired = {}
    /\ succeeded = {}
    /\ suspected = {}
---------------------------------------------------------------------------
(* Producers and users. *)

(* publish_message for a new id m, stored with status st. *)
PublishScript(m, st) ==
    LET key == IF st = "Pending" THEN "pending" ELSE "scheduled"
    IN  /\ lists' = Add(Add(lists, key, m), "published", m)
        /\ status' = [status EXCEPT ![m] = st]
        /\ attempts' = [attempts EXCEPT ![m] = 0]
        /\ count' = Incr(Incr(count, key), "messages")

(* Producer.Produce: the queue must be active or paused. *)
Publish(m) ==
    /\ status[m] = "New"
    /\ Open
    /\ PublishScript(m, IF m \in Scheduled THEN "Scheduled" ELSE "Pending")
    /\ UNCHANGED <<ghost, queue, members, loop, calls, reap, expired, history>>

(* requeue-message.lua publishes the copy m if the hash of o has an id. *)
RequeueMessageScript(o, m) ==
    /\ Decodable(o)
    /\ Open
    /\ PublishScript(m, "Pending")

(* Store.RequeueMessage: a copy m of the settled message o, with a new id and
   without a schedule. *)
RequeueMessage(o, m) ==
    /\ o \in MayRequeue
    /\ status[o] \in {"Acknowledged", "DeadLettered"}
    /\ status[m] = "New"
    /\ m \notin Scheduled
    /\ RequeueMessageScript(o, m)
    /\ UNCHANGED <<ghost, queue, members, loop, calls, reap, expired, history>>

(* Mutant of HomeOf: a message waiting for its retry is looked for in pending. *)
HomeOfConfused ==
    [Pending |-> "pending", Scheduled |-> "scheduled", Acknowledged |-> "acknowledged",
     DeadLettered |-> "deadLettered", UnackRequeuing |-> "pending", UnackDelaying |-> "delayed"]

(* Mutant of HomeOf: a message that a handler works on can be deleted. *)
HomeOfEverything ==
    [Pending |-> "pending", Processing |-> "pending", Scheduled |-> "scheduled",
     Acknowledged |-> "acknowledged", DeadLettered |-> "deadLettered",
     UnackRequeuing |-> "requeued", UnackDelaying |-> "delayed"]

(* The list and the counter that delete-message.lua touches for each status. *)
HomeOf == [Pending |-> "pending", Scheduled |-> "scheduled",
           Acknowledged |-> "acknowledged", DeadLettered |-> "deadLettered",
           UnackRequeuing |-> "requeued", UnackDelaying |-> "delayed"]

(* delete-message.lua: a message being processed is refused.  LREM on the sorted
   set of delayed messages is a Redis error, which ends the script before the
   message is deleted. *)
DeleteMessageScript(m) ==
    /\ status[m] \in DOMAIN HomeOf
    /\ IF status[m] = "UnackDelaying"
       THEN UNCHANGED store
       ELSE /\ lists' = Rem(Rem(lists, HomeOf[status[m]], m), "published", m)
            /\ status' = [status EXCEPT ![m] = "Deleted"]
            /\ count' = Decr(Decr(count, HomeOf[status[m]]), "messages")
            /\ UNCHANGED <<attempts, ghost>>

(* Store.DeleteMessages.  A locked queue accepts the holder of the lock (the
   purge job). *)
DeleteMessage(m) ==
    /\ m \in MayDelete
    /\ Decodable(m)
    /\ DeleteMessageScript(m)
    /\ UNCHANGED <<queue, members, loop, calls, reap, expired, history>>

(* set-queue-state.lua compares the state with the one its caller has read. *)
SetQueueStateScript(from, s) ==
    /\ qstate = from
    /\ qstate' = s

(* State.transitionTo, acquireLock and releaseLock: a transition that the table
   allows, made with the right lock id. *)
SetQueueState(s) ==
    /\ s \in AllowedTransitions[qstate]
    /\ stateChanges < MaxStateChanges
    /\ SetQueueStateScript(qstate, s)
    /\ stateChanges' = stateChanges + 1
    /\ UNCHANGED <<store, members, loop, calls, reap, expired, history>>

(* Time passes: the TTL of a message elapses. *)
ExpireTTL(m) ==
    /\ m \in TTL \ expired
    /\ Exists(m)
    /\ expired' = expired \cup {m}
    /\ UNCHANGED <<queue, store, members, loop, calls, reap, history>>
---------------------------------------------------------------------------
(* Lifecycle of a consumer and of its message handler. *)

(* MessageHandler.Run: the consumer subscribes, then the loop and the workers
   start. *)
RunHandler(c) ==
    /\ handler[c] = "stopped"
    /\ pc[c] = "off"
    /\ SubscribeScript(c)
    /\ handler' = [handler EXCEPT ![c] = "running"]
    /\ pc' = [pc EXCEPT ![c] = "idle"]
    /\ UNCHANGED <<heartbeat, envelope, timedOut, queue, store, calls, reap, expired, history>>

(* Consumer.Run: the handlers run before the first heartbeat is written. *)
StartConsumer(c) ==
    /\ consumer[c] = "new"
    /\ RunHandler(c)
    /\ consumer' = [consumer EXCEPT ![c] = "up"]

(* StartHandler: the queue is active again. *)
RestartHandler(c) ==
    /\ consumer[c] = "up"
    /\ RunHandler(c)
    /\ UNCHANGED consumer

(* Heartbeat.beat *)
Beat(c) ==
    /\ consumer[c] = "up"
    /\ c \notin heartbeat
    /\ heartbeat' = heartbeat \cup {c}
    /\ UNCHANGED <<registered, queue, store, loop, calls, reap, expired, history>>

(* The heartbeat key expires: nobody renewed it in time. *)
HeartbeatExpires(c) ==
    /\ c \in heartbeat
    /\ consumer[c] = "crashed" \/ c \in MayStall
    /\ heartbeat' = heartbeat \ {c}
    /\ UNCHANGED <<registered, queue, store, loop, calls, reap, expired, history>>

(* StopHandler, on the event of a state change that may arrive late. *)
StopHandler(c) ==
    /\ consumer[c] = "up"
    /\ handler[c] = "running"
    /\ stateChanges > 0
    /\ handler' = [handler EXCEPT ![c] = "closing"]
    /\ reap' = [reap EXCEPT ![c] = NoTarget(c)]
    /\ UNCHANGED <<consumer, pc, envelope, timedOut, queue, store, members, calls, expired, history>>

(* Consumer.Shutdown: the heartbeat goes first, then the handler. *)
ShutdownConsumer(c) ==
    /\ c \in MayShutdown
    /\ consumer[c] = "up"
    /\ consumer' = [consumer EXCEPT ![c] = "down"]
    /\ heartbeat' = heartbeat \ {c}
    /\ handler' = [handler EXCEPT ![c] = IF @ = "running" THEN "closing" ELSE @]
    /\ reap' = [reap EXCEPT ![c] = NoTarget(c)]
    /\ UNCHANGED <<registered, pc, envelope, timedOut, queue, store, calls, expired, history>>

(* Mutant of CloseHandler: a handler that closes gives its messages back, while
   a handler function may still work on one. *)
CloseReturns(c) ==
    /\ handler[c] = "closing"
    /\ unackCalls' = unackCalls \cup
           {UnackCall(c, c, m, attempts[m], "UNACKNOWLEDGED") : m \in {n \in Messages : lists[c][n] > 0}}
    /\ handler' = [handler EXCEPT ![c] = "stopped"]
    /\ UNCHANGED <<registered, heartbeat, consumer, pc, envelope, timedOut, queue, store, ackCalls,
                   reap, expired, history>>

(* The rest of MessageHandler.Shutdown: the batches have been flushed, then
   unsubscribe-consumer.lua refuses while the processing list has an entry.
   A handler function that still runs is not waited for. *)
CloseHandler(c) ==
    /\ handler[c] = "closing"
    /\ \A call \in ackCalls : call.owner # c
    /\ \A call \in unackCalls : call.from # c \/ call.owner # c
    /\ UnsubscribeScript(c)
    /\ handler' = [handler EXCEPT ![c] = "stopped"]
    /\ UNCHANGED <<heartbeat, consumer, pc, envelope, timedOut, queue, store, calls, reap, expired, history>>

(* The loop sees its context cancelled, between two messages or when the
   checkout of the popped message fails for that reason. *)
LoopExit(c) ==
    /\ handler[c] # "running"
    /\ pc[c] \in {"idle", "popped"}
    /\ pc' = [pc EXCEPT ![c] = "off"]
    /\ envelope' = [envelope EXCEPT ![c] = NoEnvelope]
    /\ UNCHANGED <<consumer, handler, timedOut, queue, store, members, calls, reap, expired, history>>

(* The process dies and its calls with it. *)
Crash(c) ==
    /\ c \in MayCrash
    /\ consumer[c] \in {"up", "down"}
    /\ consumer' = [consumer EXCEPT ![c] = "crashed"]
    /\ handler' = [handler EXCEPT ![c] = "stopped"]
    /\ pc' = [pc EXCEPT ![c] = "off"]
    /\ envelope' = [envelope EXCEPT ![c] = NoEnvelope]
    /\ timedOut' = [timedOut EXCEPT ![c] = FALSE]
    /\ ackCalls' = {call \in ackCalls : call.owner # c}
    /\ unackCalls' = {call \in unackCalls : call.from # c}
    /\ reap' = [reap EXCEPT ![c] = NoTarget(c)]
    /\ UNCHANGED <<queue, store, members, expired, history>>
---------------------------------------------------------------------------
(* The dequeue loop: pop, check out, handle. *)

(* Mutant of Pop: RPOP, the message is then only in the memory of the consumer. *)
PopPlain(c, m) ==
    /\ handler[c] = "running"
    /\ pc[c] = "idle"
    /\ lists["pending"][m] > 0
    /\ lists' = Rem(lists, "pending", m)
    /\ pc' = [pc EXCEPT ![c] = "popped"]
    /\ envelope' = [envelope EXCEPT ![c] = [msg |-> m, attempts |-> 0]]
    /\ UNCHANGED <<status, attempts, ghost, count, consumer, handler, timedOut,
                   queue, members, calls, reap, expired, history>>

(* DequeueMessage.pop: RPOPLPUSH from pending to the processing list.  When
   the reply is lost, popFIFO reports an empty queue and the loop goes on. *)
Pop(c, m) ==
    /\ handler[c] = "running"
    /\ pc[c] = "idle"
    /\ lists["pending"][m] > 0
    /\ lists' = Move(lists, "pending", c, m)
    /\ \/ /\ pc' = [pc EXCEPT ![c] = "popped"]
          /\ envelope' = [envelope EXCEPT ![c] = [msg |-> m, attempts |-> 0]]
       \/ /\ c \in MayLoseReply
          /\ UNCHANGED <<pc, envelope>>
    /\ UNCHANGED <<status, attempts, ghost, count, consumer, handler, timedOut,
                   queue, members, calls, reap, expired, history>>

(* checkout-message.lua on a stopped or locked queue: the popped message is
   unacknowledged and the handler shuts itself down. *)
CheckoutRejected(c) ==
    /\ pc[c] = "popped"
    /\ handler[c] = "running"
    /\ ~Open
    /\ unackCalls' = unackCalls \cup {UnackCall(c, c, envelope[c].msg, 0, "QUEUE_STATE")}
    /\ handler' = [handler EXCEPT ![c] = "closing"]
    /\ pc' = [pc EXCEPT ![c] = "off"]
    /\ envelope' = [envelope EXCEPT ![c] = NoEnvelope]
    /\ reap' = [reap EXCEPT ![c] = NoTarget(c)]
    /\ UNCHANGED <<consumer, timedOut, ackCalls, queue, store, members, expired, history>>

(* MESSAGE_NOT_FOUND and MESSAGE_NOT_PENDING, or a connection error before the
   script is executed: the loop takes the next message; nothing takes this one
   out of the processing list. *)
CheckoutMissed(c) ==
    /\ pc[c] = "popped"
    /\ \/ Open /\ status[envelope[c].msg] # "Pending"
       \/ c \in MayLoseReply
    /\ pc' = [pc EXCEPT ![c] = "idle"]
    /\ envelope' = [envelope EXCEPT ![c] = NoEnvelope]
    /\ UNCHANGED <<consumer, handler, timedOut, queue, store, members, calls, reap, expired, history>>

(* What the script changes when it claims m. *)
CheckoutScript(m) ==
    /\ status' = [status EXCEPT ![m] = "Processing"]
    /\ attempts' = [attempts EXCEPT ![m] = @ + 1]
    /\ count' = Incr(Decr(count, "pending"), "processing")

(* The script claims the message and Consume starts with it: it goes back at once
   if its TTL runs out between DecodeEnvelope, which starts the TTL afresh, and the
   check, and is given to the handler function otherwise, however old it is.  When
   the reply is lost, the loop goes on without the message. *)
Checkout(c) ==
    LET m == envelope[c].msg IN
    /\ pc[c] = "popped"
    /\ Open
    /\ status[m] = "Pending"
    /\ CheckoutScript(m)
    /\ \/ /\ pc' = [pc EXCEPT ![c] = "handling"]
          /\ envelope' = [envelope EXCEPT ![c] = [msg |-> m, attempts |-> attempts'[m]]]
          /\ timedOut' = [timedOut EXCEPT ![c] = FALSE]
          /\ UNCHANGED unackCalls
       \/ /\ m \in expired
          /\ pc' = [pc EXCEPT ![c] = "idle"]
          /\ envelope' = [envelope EXCEPT ![c] = NoEnvelope]
          /\ unackCalls' = unackCalls \cup {UnackCall(c, c, m, attempts'[m], "TTL_EXPIRED")}
          /\ UNCHANGED timedOut
       \/ /\ c \in MayLoseReply
          /\ pc' = [pc EXCEPT ![c] = "idle"]
          /\ envelope' = [envelope EXCEPT ![c] = NoEnvelope]
          /\ UNCHANGED <<timedOut, unackCalls>>
    /\ UNCHANGED <<lists, ghost, consumer, handler, ackCalls, queue, members, reap, expired, history>>

(* The forced timer fires while the handler function runs. *)
Timeout(c) ==
    /\ pc[c] = "handling"
    /\ handler[c] = "running"
    /\ envelope[c].msg \in ConsumeTimeout
    /\ ~timedOut[c]
    /\ timedOut' = [timedOut EXCEPT ![c] = TRUE]
    /\ unackCalls' = unackCalls \cup
           {UnackCall(c, c, envelope[c].msg, envelope[c].attempts, "TIMEOUT")}
    /\ UNCHANGED <<consumer, handler, pc, envelope, ackCalls, queue, store, members, reap, expired, history>>

(* The calls of the timer goroutine when it wakes between the check of
   timedOut and the return of Consume: the message is settled twice. *)
LateTimer(c) ==
    IF handler[c] = "running" /\ envelope[c].msg \in ConsumeTimeout
    THEN {{}, {UnackCall(c, c, envelope[c].msg, envelope[c].attempts, "TIMEOUT")}}
    ELSE {{}}

(* The handler function returns nil. *)
HandlerSucceeds(c) ==
    LET m == envelope[c].msg IN
    /\ pc[c] = "handling"
    /\ succeeded' = succeeded \cup {m}
    /\ \/ timedOut[c] /\ UNCHANGED calls
       \/ /\ ~timedOut[c]
          /\ ackCalls' = ackCalls \cup {AckCall(c, m)}
          /\ \E late \in LateTimer(c) : unackCalls' = unackCalls \cup late
    /\ pc' = [pc EXCEPT ![c] = "idle"]
    /\ envelope' = [envelope EXCEPT ![c] = NoEnvelope]
    /\ timedOut' = [timedOut EXCEPT ![c] = FALSE]
    /\ UNCHANGED <<consumer, handler, queue, store, members, reap, expired, suspected>>

(* The handler function returns an error or panics. *)
HandlerFails(c) ==
    LET m == envelope[c].msg IN
    /\ pc[c] = "handling"
    /\ \/ timedOut[c] /\ UNCHANGED unackCalls
       \/ /\ ~timedOut[c]
          /\ \E late \in LateTimer(c) : unackCalls' = unackCalls \cup late \cup
                 {UnackCall(c, c, m, envelope[c].attempts, "UNACKNOWLEDGED")}
    /\ pc' = [pc EXCEPT ![c] = "idle"]
    /\ envelope' = [envelope EXCEPT ![c] = NoEnvelope]
    /\ timedOut' = [timedOut EXCEPT ![c] = FALSE]
    /\ UNCHANGED <<consumer, handler, ackCalls, queue, store, members, reap, expired, history>>
---------------------------------------------------------------------------
(* Settling a message. *)

(* HSET on a message hash that was deleted creates one without a body. *)
Touched(m) == IF status[m] = "Deleted" THEN ghost \cup {m} ELSE ghost

(* Mutant of AcknowledgeScript: the counters change whatever LREM returned. *)
AckMiscounted(c, m) ==
    /\ lists' = Rem(lists, c, m)
    /\ IF lists[c][m] > 0
       THEN status' = [status EXCEPT ![m] = "Acknowledged"] /\ ghost' = Touched(m)
       ELSE UNCHANGED <<status, ghost>>
    /\ count' = Incr(Decr(count, "processing"), "acknowledged")
    /\ UNCHANGED attempts

(* acknowledge-message.lua for one message. *)
AcknowledgeScript(c, m) ==
    IF lists[c][m] > 0
    THEN /\ lists' = IF StoreAcknowledged THEN Move(lists, c, "acknowledged", m)
                                          ELSE Rem(lists, c, m)
         /\ status' = [status EXCEPT ![m] = "Acknowledged"]
         /\ ghost' = Touched(m)
         /\ count' = Incr(Decr(count, "processing"), "acknowledged")
         /\ UNCHANGED attempts
    ELSE UNCHANGED store

Acknowledge(call) ==
    /\ Open
    /\ AcknowledgeScript(call.owner, call.msg)
    /\ ackCalls' = ackCalls \ {call}
    /\ UNCHANGED <<unackCalls, queue, members, loop, reap, expired, history>>

(* BatchAcker.unacknowledgeFailed, after the script refused (the queue is
   stopped or locked) or the call failed before or after it was executed. *)
AcknowledgeFails(call) ==
    /\ \/ ~Open /\ UNCHANGED store
       \/ call.owner \in MayLoseReply /\ UNCHANGED store
       \/ call.owner \in MayLoseReply /\ Open /\ AcknowledgeScript(call.owner, call.msg)
    /\ ackCalls' = ackCalls \ {call}
    /\ unackCalls' =
         IF Decodable(call.msg)
         THEN unackCalls \cup {UnackCall(call.owner, call.owner, call.msg,
                                         attempts[call.msg], "ACK_FAILED")}
         ELSE unackCalls
    /\ UNCHANGED <<queue, members, loop, reap, expired, history>>

(* Mutant of UnacknowledgeScript: without the test of what LREM returned. *)
UnackUntested(call) ==
    /\ lists' = Move(lists, call.owner, "requeued", call.msg)
    /\ status' = [status EXCEPT ![call.msg] = "UnackRequeuing"]
    /\ count' = Incr(Decr(count, "processing"), "requeued")
    /\ ghost' = Touched(call.msg)
    /\ UNCHANGED attempts

(* unacknowledge-message.lua for one message. *)
UnacknowledgeScript(call) ==
    LET c == call.owner
        m == call.msg
    IN  IF lists[c][m] > 0
        THEN /\ \E late \in {FALSE, (m \in expired)} :
                  IF ResolveUnackAction(call, late) = "DEAD_LETTER"
                  THEN /\ lists' = IF StoreDeadLettered THEN Move(lists, c, "deadLettered", m)
                                                        ELSE Rem(lists, c, m)
                       /\ status' = [status EXCEPT ![m] = "DeadLettered"]
                       /\ count' = Incr(Decr(count, "processing"), "deadLettered")
                  ELSE /\ lists' = Move(lists, c, "requeued", m)
                       /\ status' = [status EXCEPT ![m] = "UnackRequeuing"]
                       /\ count' = Incr(Decr(count, "processing"), "requeued")
             /\ ghost' = Touched(m)
             /\ UNCHANGED attempts
        ELSE UNCHANGED store

(* The script refuses a stopped or locked queue; the caller ignores that. *)
Unacknowledge(call) ==
    /\ IF Open THEN UnacknowledgeScript(call) ELSE UNCHANGED store
    /\ unackCalls' = unackCalls \ {call}
    /\ UNCHANGED <<ackCalls, queue, members, loop, reap, expired, history>>

(* The call never reaches Redis: the connection fails, or the context of the
   handler it was made in is cancelled.  It is not repeated. *)
UnacknowledgeFails(call) ==
    /\ \/ call.from \in MayLoseReply
       \/ call.cause \in {"QUEUE_STATE", "OFFLINE_CONSUMER"} /\ handler[call.from] # "running"
    /\ unackCalls' = unackCalls \ {call}
    /\ UNCHANGED <<ackCalls, queue, store, members, loop, reap, expired, history>>
---------------------------------------------------------------------------
(* Background workers. *)

(* requeue-immediate.lua: to the pending list, or to the delayed set. *)
RequeueImmediateScript(m) ==
    /\ Open
    /\ lists["requeued"][m] > 0
    /\ LET key == IF m \in RetryDelay THEN "delayed" ELSE "pending"
       IN  /\ lists' = Move(lists, "requeued", key, m)
           /\ status' = [status EXCEPT ![m] = IF m \in RetryDelay THEN "UnackDelaying" ELSE "Pending"]
           /\ count' = Incr(Decr(count, "requeued"), key)

(* ImmediateRequeuer, for a message it can decode. *)
RequeueImmediate(m) ==
    /\ \E w \in Consumers : WorkerRuns(w)
    /\ Decodable(m)
    /\ RequeueImmediateScript(m)
    /\ UNCHANGED <<attempts, ghost, queue, members, loop, calls, reap, expired, history>>

(* requeue-delayed.lua *)
RequeueDelayedScript(m) ==
    /\ Open
    /\ lists["delayed"][m] > 0
    /\ lists' = Move(lists, "delayed", "pending", m)
    /\ status' = [status EXCEPT ![m] = "Pending"]
    /\ count' = Incr(Decr(count, "delayed"), "pending")

(* DelayedRequeuer: the retry delay is over. *)
RequeueDelayed(m) ==
    /\ \E w \in Consumers : WorkerRuns(w)
    /\ Decodable(m)
    /\ RequeueDelayedScript(m)
    /\ UNCHANGED <<attempts, ghost, queue, members, loop, calls, reap, expired, history>>

(* publish-scheduled.lua, for a message without a further delivery. *)
PublishScheduledScript(m) ==
    /\ Open
    /\ lists["scheduled"][m] > 0
    /\ lists' = Move(lists, "scheduled", "pending", m)
    /\ status' = [status EXCEPT ![m] = "Pending"]
    /\ count' = Incr(Decr(count, "scheduled"), "pending")

(* ScheduledPublisher: a message with a single delivery is due. *)
PublishScheduled(m) ==
    /\ \E w \in Consumers : WorkerRuns(w)
    /\ Decodable(m)
    /\ PublishScheduledScript(m)
    /\ UNCHANGED <<attempts, ghost, queue, members, loop, calls, reap, expired, history>>

(* A consumer that can still act on the messages in its processing list. *)
Alive(c) == consumer[c] = "up" \/ pc[c] # "off"

(* Bound: a live consumer is mistaken for dead at most once.  Every mistake can
   move the counters a little further, without end. *)
SuspicionBound(c) == Alive(c) => c \notin suspected

(* ReapConsumers.reap: a registered consumer has no heartbeat. *)
ReapDetect(w, c) ==
    /\ w # c
    /\ WorkerRuns(w)
    /\ reap[w].phase = "idle"
    /\ c \in registered \ heartbeat
    /\ SuspicionBound(c)
    /\ reap' = [reap EXCEPT ![w] = [target |-> c, phase |-> "detected"]]
    /\ UNCHANGED <<queue, store, members, loop, calls, expired, history>>

(* Mutant of ReapLoad: nothing is recovered. *)
ReapNothing(w) ==
    /\ reap[w].phase = "detected"
    /\ reap' = [reap EXCEPT ![w].phase = "unacking"]
    /\ suspected' = IF Alive(reap[w].target) THEN suspected \cup {reap[w].target}
                                            ELSE suspected
    /\ UNCHANGED <<calls, queue, store, members, loop, expired, succeeded>>

(* UnacknowledgeProcessingQueue: read the processing list of the consumer and
   unacknowledge every message in it that can be decoded. *)
ReapLoad(w) ==
    LET c == reap[w].target IN
    /\ reap[w].phase = "detected"
    /\ reap' = [reap EXCEPT ![w].phase = "unacking"]
    /\ unackCalls' = unackCalls \cup
           {UnackCall(w, c, m, attempts[m], "OFFLINE_CONSUMER") :
                m \in {n \in Messages : lists[c][n] > 0 /\ Decodable(n)}}
    /\ suspected' = IF Alive(c)
                    THEN suspected \cup {c} ELSE suspected
    /\ UNCHANGED <<ackCalls, queue, store, members, loop, expired, succeeded>>

(* Mutant of ReapUnsubscribe: the dead consumer stays registered. *)
ReapKeep(w) ==
    /\ reap[w].phase = "unacking"
    /\ \A call \in unackCalls : call.from # w \/ call.owner # reap[w].target
    /\ reap' = [reap EXCEPT ![w] = NoTarget(w)]
    /\ UNCHANGED <<registered, heartbeat, queue, store, loop, calls, expired, history>>

(* UnsubscribeConsumer for the dead consumer, after the script. *)
ReapUnsubscribe(w) ==
    LET c == reap[w].target IN
    /\ reap[w].phase = "unacking"
    /\ \A call \in unackCalls : call.from # w \/ call.owner # c
    /\ UnsubscribeScript(c)
    /\ reap' = [reap EXCEPT ![w] = NoTarget(w)]
    /\ UNCHANGED <<heartbeat, queue, store, loop, calls, expired, history>>
---------------------------------------------------------------------------
UserStep ==
    \/ \E m \in Messages : Publish(m) \/ DeleteMessage(m) \/ ExpireTTL(m)
    \/ \E o, m \in Messages : RequeueMessage(o, m)
    \/ \E s \in OperationalStates : SetQueueState(s)

ConsumerStep(c) ==
    \/ StartConsumer(c) \/ RestartHandler(c) \/ Beat(c) \/ HeartbeatExpires(c)
    \/ StopHandler(c) \/ ShutdownConsumer(c) \/ CloseHandler(c) \/ LoopExit(c) \/ Crash(c)

LoopStep(c) ==
    \/ \E m \in Messages : Pop(c, m)
    \/ CheckoutRejected(c) \/ CheckoutMissed(c) \/ Checkout(c)
    \/ Timeout(c) \/ HandlerSucceeds(c) \/ HandlerFails(c)

CallStep ==
    \/ \E call \in ackCalls : Acknowledge(call) \/ AcknowledgeFails(call)
    \/ \E call \in unackCalls : Unacknowledge(call) \/ UnacknowledgeFails(call)

WorkerStep ==
    \/ \E m \in Messages : RequeueImmediate(m) \/ RequeueDelayed(m) \/ PublishScheduled(m)
    \/ \E w, c \in Consumers : ReapDetect(w, c)
    \/ \E w \in Consumers : ReapLoad(w) \/ ReapUnsubscribe(w)

Next ==
    \/ UserStep
    \/ \E c \in Consumers : ConsumerStep(c) \/ LoopStep(c)
    \/ CallStep
    \/ WorkerStep

Spec == Init /\ [][Next]_vars

(* What the Go runtime and Redis keep running: loops, timers' tickers, calls
   under way and handler functions that return.  Nobody is obliged to publish,
   delete, change the state, stop, crash, stall or lose a reply. *)
Fairness ==
    /\ \A c \in Consumers :
         /\ WF_vars(StartConsumer(c)) /\ WF_vars(RestartHandler(c)) /\ WF_vars(Beat(c))
         /\ WF_vars(HeartbeatExpires(c) /\ consumer[c] = "crashed")
         /\ WF_vars(CloseHandler(c)) /\ WF_vars(LoopExit(c))
         /\ WF_vars(\E m \in Messages : Pop(c, m))
         /\ WF_vars(CheckoutRejected(c) \/ CheckoutMissed(c) \/ Checkout(c))
         /\ WF_vars(HandlerSucceeds(c) \/ HandlerFails(c))
         /\ WF_vars(ReapLoad(c)) /\ WF_vars(ReapUnsubscribe(c))
         /\ WF_vars(\E d \in Consumers : ReapDetect(c, d))
    /\ \A m \in Messages :
         /\ WF_vars(RequeueImmediate(m)) /\ WF_vars(RequeueDelayed(m))
         /\ WF_vars(PublishScheduled(m))
    /\ WF_vars(CallStep)

FairSpec == Spec /\ Fairness
---------------------------------------------------------------------------
(* Properties. *)

(* The values the Redis keys and the Go fields can have. *)
TypeOK ==
    /\ qstate \in OperationalStates
    /\ stateChanges \in Nat
    /\ lists \in [Keys -> [Messages -> Nat]]
    /\ status \in [Messages -> Statuses]
    /\ attempts \in [Messages -> Nat]
    /\ ghost \subseteq Messages
    /\ count \in [Counters -> Int]
    /\ registered \subseteq Consumers
    /\ heartbeat \subseteq Consumers
    /\ consumer \in [Consumers -> {"new", "up", "down", "crashed"}]
    /\ handler \in [Consumers -> {"stopped", "running", "closing"}]
    /\ pc \in [Consumers -> {"off", "idle", "popped", "handling"}]
    /\ envelope \in [Consumers -> [msg : Messages \cup {NoMessage}, attempts : Nat]]
    /\ \A c \in Consumers : pc[c] \in {"popped", "handling"} => envelope[c].msg \in Messages
    /\ timedOut \in [Consumers -> BOOLEAN]
    /\ ackCalls \subseteq [owner : Consumers, msg : Messages]
    /\ unackCalls \subseteq [from : Consumers, owner : Consumers, msg : Messages,
                             attempts : Nat, cause : Causes]
    /\ reap \in [Consumers -> [target : Consumers, phase : {"idle", "detected", "unacking"}]]
    /\ expired \subseteq Messages
    /\ succeeded \subseteq Messages
    /\ suspected \subseteq Consumers

Holds(k, m) == lists[k][m] > 0

(* No interleaving of pops, acknowledgements, late unacknowledgements, reapers,
   requeuers and deletions puts a message id in two of the queue's lists, or
   twice in one: the LREM and ZREM guards of the scripts move it, never copy it. *)
SingleLocation ==
    /\ \A k \in Places, m \in Messages : lists[k][m] <= 1
    /\ \A k, l \in Places, m \in Messages : Holds(k, m) /\ Holds(l, m) => k = l

Settled == {"Acknowledged", "DeadLettered"}

(* The places a worker or a consumer still takes messages from. *)
WorkPlaces == {"pending", "requeued", "delayed", "scheduled"} \cup Consumers

(* "No messages are lost": whatever crashes, stops, times out or is refused, the
   id of a message that is not settled or deleted is in one of the lists the
   system works from; a settled one is in none of them, so that it cannot be
   delivered again. *)
NothingLost ==
    \A m \in Messages :
        /\ Exists(m) /\ status[m] \notin Settled => \E k \in WorkPlaces : Holds(k, m)
        /\ status[m] \in Settled => \A k \in WorkPlaces : ~Holds(k, m)

(* A message whose status says it waits for a retry or for its schedule is in
   the list the worker for that status reads, and nothing else is there: the
   delete and requeue scripts choose the list by the status. *)
WaitingIsWhereItSays ==
    \A m \in Messages :
        /\ Holds("requeued", m) <=> status[m] = "UnackRequeuing"
        /\ Holds("delayed", m) <=> status[m] = "UnackDelaying"
        /\ Holds("scheduled", m) <=> status[m] = "Scheduled"

(* The status scripts write is final once it says acknowledged or dead-lettered:
   a late acknowledgement, unacknowledgement or checkout does not change it, only
   a deletion does. *)
SettledIsFinal ==
    [][\A m \in Messages :
          status[m] \in Settled => status'[m] \in {status[m], "Deleted"}]_vars

(* Only a message for which some handler function returned nil is recorded as
   acknowledged; no failed, timed-out or abandoned delivery is. *)
AcknowledgedOnlyIfHandled ==
    \A m \in Messages : status[m] = "Acknowledged" => m \in succeeded

(* A message is dead-lettered only when it is expired or periodic, or its retry
   budget is used up, even if the unacknowledgement that does it is stale. *)
DeadLetteredForCause ==
    \A m \in Messages :
        status[m] = "DeadLettered" =>
            m \in expired \/ m \in Periodic \/ attempts[m] >= RetryThreshold[m]

(* RetryThreshold bounds the deliveries of a message, as long as no live consumer
   was reaped and no forced timer can unacknowledge a delivery twice.  A message
   that must not be retried is still delivered once. *)
AttemptsBounded ==
    suspected = {} => \A m \in Messages \ ConsumeTimeout :
        attempts[m] <= IF RetryThreshold[m] = 0 THEN 1 ELSE RetryThreshold[m]

(* While a handler function works on a message, the message stays in the
   processing list of its consumer, where a reaper finds it after a crash.  The
   exceptions are a consumer that was reaped alive and a forced timer. *)
HandledIsHeld ==
    \A c \in Consumers \ suspected :
        pc[c] = "handling" /\ envelope[c].msg \notin ConsumeTimeout
            => Holds(c, envelope[c].msg) /\ status[envelope[c].msg] = "Processing"

(* Two handler functions work on the same message at once only after one of the
   consumers was reaped alive, or for a message with a forced timer. *)
NoConcurrentHandling ==
    \A c, d \in Consumers \ suspected :
        /\ pc[c] = "handling" /\ pc[d] = "handling"
        /\ envelope[c].msg = envelope[d].msg
        /\ envelope[c].msg \notin ConsumeTimeout
        => c = d

(* A processing list with messages in it belongs to a registered consumer, so the
   reaper of any other consumer will look at it: unsubscribing never orphans a
   list.  The exception is a consumer that was reaped alive and pops again. *)
InFlightRecoverable ==
    \A c \in Consumers \ suspected, m \in Messages : Holds(c, m) => c \in registered

WithStatus(st) == {m \in Messages : status[m] \in st}

(* The counters in the queue properties agree with the messages.  Pending and
   processing agree only in their sum, and a hash that was recreated after its
   deletion was subtracted once too often. *)
CountersConserved ==
    /\ count["pending"] + count["processing"]
         = Cardinality(WithStatus({"Pending", "Processing"})) - Cardinality(ghost)
    /\ count["requeued"] = Cardinality(WithStatus({"UnackRequeuing"}))
    /\ count["delayed"] = Cardinality(WithStatus({"UnackDelaying"}))
    /\ count["scheduled"] = Cardinality(WithStatus({"Scheduled"}))
    /\ count["acknowledged"] = Cardinality(WithStatus({"Acknowledged"}))
    /\ count["deadLettered"] = Cardinality(WithStatus({"DeadLettered"}))
    /\ count["messages"] = Cardinality({m \in Messages : Exists(m)}) - Cardinality(ghost)

(* A published message is acknowledged, dead-lettered or deleted in the end,
   though consumers crash or shut down, if one consumer stays and none is reaped
   alive. *)
EventuallySettled ==
    \A m \in Messages :
        Exists(m) ~> (status[m] \in Settled \cup {"Deleted"} \/ suspected # {})

(* The reaper removes a crashed consumer from the queue for good, whatever it
   had in its processing list. *)
CrashedIsForgotten ==
    \A c \in Consumers :
        consumer[c] = "crashed" ~> (c \notin registered \/ suspected # {})
---------------------------------------------------------------------------
(* What the lists, scripts and workers amount to for one message. *)
PhaseOf(m) ==
    IF m \in ghost THEN "deleted"
    ELSE IF status[m] = "New" THEN "new"
    ELSE IF status[m] = "Processing" THEN "delivered"
    ELSE IF status[m] = "Acknowledged" THEN "acknowledged"
    ELSE IF status[m] = "DeadLettered" THEN "deadLettered"
    ELSE IF status[m] = "Deleted" THEN "deleted"
    ELSE "waiting"
Phases == [m \in Messages |-> PhaseOf(m)]

Abstract == INSTANCE Delivery WITH
    phase <- Phases,
    tries <- attempts,
    handled <- succeeded,
    late <- expired

(* The queue implements Delivery: seen through the status of the messages, the
   scripts, consumers, late calls and reapers do nothing but submit, deliver,
   return, acknowledge, dead-letter and delete, each where Delivery allows it. *)
ImplementsDelivery == Abstract!Spec
---------------------------------------------------------------------------
(* What comments and documents say of the code, and the code does not do. *)

(* The unacknowledgement of a popped message takes it out of the processing list. *)
PoppedMessageReturned ==
    [][\A call \in unackCalls :
          call.cause = "QUEUE_STATE" /\ call \notin unackCalls'
              => lists'[call.owner][call.msg] = 0]_vars
===========================================================================
