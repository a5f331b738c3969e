------------------------------ MODULE Schedule ------------------------------
(* A scheduled message: Envelope.NextScheduledTimestamp, which decides when a
   message with a delay, a CRON expression or repeats is due, and the scheduled
   publisher, which puts due messages on the pending list of their queue.  The
   publisher is a background worker of a message handler; one handler at a time
   has the worker lock of the queue, until the lock lapses under a worker that
   goes on.  The rounds of a publisher treat messages one by one: one message,
   with any options, stands for all of them. *)
EXTENDS Integers, Sequences, FiniteSets

CONSTANTS
    Publishers,     \* the message handlers of the queue
    Delays,         \* scheduled delays, 0 for none
    Crons,          \* distances between two CRON ticks, NoCron or BadCron
    Repeats,        \* numbers of repeats, 0 for none
    Periods,        \* repeat periods, or NoPeriod
    MaxTime,        \* the clock stops here
    MaxFaults       \* changes of worker, of queue or group, and network faults

NoCron == 0
BadCron == -1       \* an expression that ParseCron rejects
NoPeriod == -1

ASSUME OptionsAreTimes ==
    /\ Delays \subseteq Nat /\ Repeats \subseteq Nat
    /\ Crons \subseteq Nat \cup {BadCron}
    /\ Periods \subseteq (Nat \ {0}) \cup {NoPeriod}

ASSUME PublishersFinite == IsFiniteSet(Publishers)

VARIABLES
    plan,           \* options of the message, set by its producer
    now,            \* time.Now()
    score,          \* its score in the scheduled set, 0 if it is not there
    hash,           \* its hash in Redis
    counter,        \* scheduledMessagesCount of the queue
    open,           \* the queue is ACTIVE or PAUSED, not STOPPED nor LOCKED
    group,          \* the consumer group of the message exists
    workers,        \* handlers whose publisher runs
    round,          \* what the publisher of a handler is doing
    faults,
    published,      \* history: when each message put on the pending list was built
    overlapped,     \* history: two publishers ran at a time
    resent,         \* history: a script was executed twice
    deletion        \* history: rounds under way and length of published at deletion

message == <<plan, score, hash, counter>>
queue == <<open, group>>
history == <<overlapped, resent, deletion>>
vars == <<message, queue, now, workers, round, faults, published, history>>

Idle == [pc |-> "idle"]
NoDeletion == [flying |-> -1, published |-> 0]
Missing == [status |-> "none", body |-> FALSE, count |-> 0, fired |-> FALSE]

Init ==
    /\ plan \in [delay : Delays, cron : Crons, repeat : Repeats, period : Periods]
    /\ now = 1
    /\ score = 0
    /\ hash = [Missing EXCEPT !.status = "new"]
    /\ counter = 0
    /\ open = TRUE
    /\ group = TRUE
    /\ workers = {CHOOSE p \in Publishers : TRUE}
    /\ round = [p \in Publishers |-> Idle]
    /\ faults = 0
    /\ published = <<>>
    /\ overlapped = FALSE
    /\ resent = FALSE
    /\ deletion = NoDeletion

Fault == faults < MaxFaults /\ faults' = faults + 1

Tick ==
    /\ now < MaxTime
    /\ now' = now + 1
    /\ UNCHANGED <<message, queue, workers, round, faults, published, history>>
-----------------------------------------------------------------------------
(* When a message is due. *)

IsPeriodic == plan.cron # NoCron \/ plan.repeat > 0

(* gronx.NextTickAfter: the first tick after t, 0 without a valid expression. *)
NextTick(t) == IF plan.cron > 0 THEN (t \div plan.cron + 1) * plan.cron ELSE 0

(* Mutant of RepeatTimestamp: one repeat too many. *)
RepeatOnceMore(s, t) ==
    IF plan.repeat > 0 /\ s.count <= plan.repeat /\ plan.period # NoPeriod
    THEN t + plan.period ELSE 0

(* Repeats follow the first CRON tick.  Without CRON the first one is immediate. *)
RepeatTimestamp(s, t) ==
    IF /\ s.count < plan.repeat
       /\ plan.cron = NoCron \/ s.fired
       /\ plan.period # NoPeriod
    THEN IF plan.cron = NoCron /\ s.count = 0 THEN t ELSE t + plan.period
    ELSE 0

(* Mutants of NextScheduledTimestamp: a tick is used again, the period is not waited
   for. *)
NextSameTick(s, t) ==
    IF NextTick(t) > 0
    THEN [at |-> IF s.fired THEN NextTick(t - 1) ELSE NextTick(t),
          state |-> [s EXCEPT !.count = 0, !.fired = TRUE]]
    ELSE [at |-> 0, state |-> s]
NextAtOnce(s, t) ==
    IF RepeatTimestamp(s, t) > 0
    THEN [at |-> t, state |-> [s EXCEPT !.count = @ + 1]]
    ELSE [at |-> 0, state |-> s]

(* A delay comes first, then the earlier of repeat and CRON tick, which starts the
   repeats again; 0 if the schedule has ended.  The state changes with the call. *)
NextScheduledTimestamp(s, t) ==
    LET cron == NextTick(t)
        repeat == RepeatTimestamp(s, t)
    IN  IF s.delay > 0
        THEN [at |-> t + s.delay, state |-> [s EXCEPT !.delay = 0]]
        ELSE IF repeat > 0 /\ (cron = 0 \/ repeat < cron)
        THEN [at |-> repeat, state |-> [s EXCEPT !.count = @ + 1]]
        ELSE IF cron > 0
        THEN [at |-> cron, state |-> [s EXCEPT !.count = 0, !.fired = TRUE]]
        ELSE [at |-> 0, state |-> s]

(* NewEnvelope and DecodeEnvelope.  Both take the delay from the options of the
   message: effectiveScheduledDelay, which the hash holds as 0 once the delay has
   been used, is overwritten when the message is read back. *)
NewState == [count |-> 0, fired |-> FALSE, delay |-> plan.delay]
DecodeState == [count |-> hash.count, fired |-> hash.fired, delay |-> plan.delay]
-----------------------------------------------------------------------------
(* The producer dispatches the message, to the scheduled set or at once. *)
Produce ==
    LET next == NextScheduledTimestamp(NewState, now)
        stored == [hash EXCEPT !.body = TRUE, !.count = next.state.count,
                               !.fired = next.state.fired]
    IN  /\ hash.status = "new"
        /\ open /\ group
        /\ IF next.at > 0
           THEN /\ score' = next.at
                /\ counter' = counter + 1
                /\ hash' = [stored EXCEPT !.status = "Scheduled"]
                /\ UNCHANGED published
           ELSE /\ published' = <<now>>
                /\ hash' = [stored EXCEPT !.status = "Pending"]
                /\ UNCHANGED <<score, counter>>
        /\ UNCHANGED <<plan, queue, now, workers, round, faults, history>>

(* Somebody deletes the message while it is scheduled. *)
DeleteMessage ==
    /\ hash.status = "Scheduled" /\ score > 0
    /\ score' = 0
    /\ counter' = counter - 1
    /\ hash' = Missing
    /\ deletion' = [flying |-> Cardinality({p \in Publishers :
                                             round[p].pc \in {"loaded", "sent"}}),
                    published |-> Len(published)]
    /\ UNCHANGED <<plan, queue, now, workers, round, faults, published,
                   overlapped, resent>>

(* The queue is stopped, locked or opened again; the group is deleted. *)
ChangeQueue ==
    /\ Fault
    /\ \/ open' = ~open /\ UNCHANGED group
       \/ group /\ group' = FALSE /\ UNCHANGED open
    /\ UNCHANGED <<message, now, workers, round, published, history>>
-----------------------------------------------------------------------------
(* A round of the publisher. *)

(* publishDue: ZRANGEBYSCORE finds the message. *)
FetchDue(p) ==
    /\ p \in workers
    /\ round[p] = Idle
    /\ score \in 1..now
    /\ round' = [round EXCEPT ![p] = [pc |-> "fetched"]]
    /\ UNCHANGED <<message, queue, now, workers, faults, published, history>>

(* publishDue: a hash that is gone, or has no body to decode, is skipped. *)
LoadMessage(p) ==
    /\ round[p].pc = "fetched"
    /\ round' = [round EXCEPT ![p] =
                   IF hash.body THEN [pc |-> "loaded", state |-> DecodeState] ELSE Idle]
    /\ UNCHANGED <<message, queue, now, workers, faults, published, history>>

(* Mutant of EnqueueScheduled: a message without a next occurrence is left out. *)
EnqueueRepeating(p) ==
    LET next == NextScheduledTimestamp(round[p].state, now) IN
    /\ round[p].pc = "loaded"
    /\ round' = [round EXCEPT ![p] =
                   IF next.at = 0 THEN Idle
                   ELSE [pc |-> "sent", at |-> now, next |-> next.at,
                         state |-> next.state, repeating |-> IsPeriodic]]
    /\ UNCHANGED <<message, queue, now, workers, faults, published, history>>

(* enqueueScheduled: the arguments of the script. *)
EnqueueScheduled(p) ==
    LET next == NextScheduledTimestamp(round[p].state, now) IN
    /\ round[p].pc = "loaded"
    /\ round' = [round EXCEPT ![p] =
                   [pc |-> "sent", at |-> now, next |-> next.at, state |-> next.state,
                    repeating |-> next.at > 0 /\ IsPeriodic]]
    /\ UNCHANGED <<message, queue, now, workers, faults, published, history>>

(* HSET of the counters of the message, on a hash that need not exist any more. *)
Touched(s, status) ==
    [hash EXCEPT !.status = status, !.count = s.count, !.fired = s.fired]

(* Mutants: a simple message is moved whether or not ZREM found it; a deleted
   message is written again with its body. *)
MoveSimpleUntested(r) ==
    /\ score' = 0
    /\ counter' = counter - 1
    /\ published' = Append(published, r.at)
    /\ hash' = Touched(r.state, "Pending")
RepublishDeleted(r) ==
    /\ score' = r.next
    /\ hash' = [Touched(r.state, hash.status) EXCEPT !.body = TRUE]
    /\ published' = Append(published, r.at)
    /\ UNCHANGED counter

(* publish-scheduled.lua, a simple message: to the pending list, or to the
   dead-letter list if its group is gone, unless somebody else took it. *)
MoveSimple(r) ==
    IF score > 0
    THEN /\ score' = 0
         /\ counter' = counter - 1
         /\ IF group
            THEN /\ published' = Append(published, r.at)
                 /\ hash' = Touched(r.state, "Pending")
            ELSE /\ hash' = [hash EXCEPT !.status = "DeadLettered"]
                 /\ UNCHANGED published
    ELSE UNCHANGED <<score, counter, hash, published>>

(* publish-scheduled.lua, a repeating message: a clone is published and the message
   is put back with its next score, wherever it is now. *)
Republish(r) ==
    \/ /\ group
       /\ score' = r.next
       /\ hash' = Touched(r.state, hash.status)
       /\ published' = Append(published, r.at)
       /\ UNCHANGED counter
    \/ /\ ~group /\ score > 0
       /\ score' = 0
       /\ hash' = [hash EXCEPT !.status = "DeadLettered"]
       /\ counter' = counter - 1
       /\ UNCHANGED published
    \/ /\ ~group /\ score = 0
       /\ UNCHANGED <<score, counter, hash, published>>

(* The script does nothing on a queue that is stopped or locked. *)
PublishScheduledScript(r) ==
    IF ~open THEN UNCHANGED <<score, counter, hash, published>>
    ELSE IF r.repeating THEN Republish(r) ELSE MoveSimple(r)

PublishScheduled(p) ==
    /\ round[p].pc = "sent"
    /\ PublishScheduledScript(round[p])
    /\ round' = [round EXCEPT ![p] = Idle]
    /\ UNCHANGED <<plan, queue, now, workers, faults, history>>

(* The reply is lost and the Redis client sends the script once more. *)
Resend(p) ==
    /\ Fault
    /\ round[p].pc = "sent"
    /\ PublishScheduledScript(round[p])
    /\ resent' = TRUE
    /\ UNCHANGED <<plan, queue, now, workers, round, overlapped, deletion>>

(* The script cannot be sent: the next round tries again. *)
SendFails(p) ==
    /\ Fault
    /\ round[p].pc # "idle"
    /\ round' = [round EXCEPT ![p] = Idle]
    /\ UNCHANGED <<message, queue, now, workers, published, history>>

(* The handler with the worker lock stops or crashes and another one takes over. *)
TakeOver(p) ==
    /\ Fault
    /\ p \notin workers
    /\ workers' = {p}
    /\ round' = [q \in Publishers |-> Idle]
    /\ UNCHANGED <<message, queue, now, published, history>>

(* The worker lock lapses while its owner goes on. *)
Overlap(p) ==
    /\ Fault
    /\ p \notin workers
    /\ workers' = workers \cup {p}
    /\ overlapped' = TRUE
    /\ UNCHANGED <<message, queue, now, round, published, resent, deletion>>

Round(p) == FetchDue(p) \/ LoadMessage(p) \/ EnqueueScheduled(p) \/ PublishScheduled(p)

Next ==
    \/ Tick \/ Produce \/ DeleteMessage \/ ChangeQueue
    \/ \E p \in Publishers :
         Round(p) \/ Resend(p) \/ SendFails(p) \/ TakeOver(p) \/ Overlap(p)

Spec == Init /\ [][Next]_vars

(* The ticker of a running publisher starts a round every five seconds, and a round
   waits for nothing but Redis. *)
FairSpec == Spec /\ \A p \in Publishers : WF_vars(Round(p))
-----------------------------------------------------------------------------
(* One publisher at a time, and every script executed once. *)
Undisturbed == ~overlapped /\ ~resent

(* Without a delay, a message with R repeats and a period is put on the pending
   list exactly R times, the last time itself, and any other message without CRON
   exactly once, whatever the pace of the rounds, the changes of worker, the
   failed calls and the times the queue is closed (NextScheduledTimestamp,
   enqueueScheduled). *)
ExactDeliveries ==
    LET times == IF /\ plan.cron = NoCron
                    /\ plan.repeat > 0 /\ plan.period # NoPeriod
                 THEN plan.repeat ELSE 1
    IN  Undisturbed /\ plan.cron <= 0 /\ (plan.delay = 0 \/ ~IsPeriodic) =>
            /\ Len(published) <= times
            /\ hash.status = "Pending" => Len(published) = times

(* Between two CRON ticks a message is published once for the tick, if it is late
   for it, and once for every repeat: ticks that were missed while the queue was
   closed or no publisher ran are not made up for. *)
OnePerTick ==
    Undisturbed /\ plan.cron > 0 /\ plan.delay = 0 =>
        \A tick \in 0..MaxTime :
            Cardinality({i \in 1..Len(published) : published[i] \div plan.cron = tick})
                <= 1 + plan.repeat

(* Two repeats are never closer than the period, or than the delay of a message
   that has one, however late the rounds come. *)
Spaced ==
    Undisturbed /\ plan.cron = NoCron =>
        \A i \in 1..(Len(published) - 1) :
            published[i + 1] - published[i] >=
                IF plan.delay > 0 THEN plan.delay ELSE plan.period

(* A message that does not repeat is published at most once even by two publishers
   at a time and by scripts that are executed twice: publish-scheduled.lua moves
   what ZREM removed. *)
SimpleOnce == ~IsPeriodic => Len(published) <= 1

(* After the deletion of a repeating message only the rounds that had read it
   publish it once more; the hash they leave behind cannot be decoded. *)
DeletedStops ==
    ~resent /\ deletion # NoDeletion =>
        Len(published) - deletion.published <= deletion.flying

(* The scheduled counter of the queue counts the message while it is scheduled and
   has its hash. *)
CounterAgrees ==
    Undisturbed => counter = IF score > 0 /\ hash.body THEN 1 ELSE 0

(* A due message is published or scheduled anew, unless its queue is closed or its
   hash was deleted. *)
DueIsPublished ==
    score \in 1..now ~> score \notin 1..now \/ ~open \/ ~hash.body

(* What the documentation says of a message with a delay and repeats: "Repeat 5
   times after the first delivery". *)
RepeatsEnd ==
    Undisturbed /\ plan.cron = NoCron => Len(published) <= plan.repeat + 1
=============================================================================
