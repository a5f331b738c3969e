--------------------------- MODULE HandlerRunner ---------------------------
(***************************************************************************)
(* The message handlers of one consumer on one queue, while the            *)
(* operational state of the queue changes (internal/consumer: Consumer,    *)
(* MessageHandlerRunner, QueueStateTracker, MessageHandler).               *)
(*                                                                         *)
(* Three parties start and stop handlers: the application (Run, Consume,   *)
(* Cancel, Shutdown), the event bus listener (the callbacks of the         *)
(* tracker) and the reconcile loop.  r.mu protects the list of instances;  *)
(* Run and reconcile, though, start a handler outside of it and append it  *)
(* to the list afterwards.  A step that holds r.mu throughout is one       *)
(* action.  A handler key stands for a queue and a consumer group.         *)
(***************************************************************************)
EXTENDS WorkerLock, Sequences

CONSTANTS
    Keys,           \* keys an application may consume with
    States,         \* operational states the queue is put in
    MaxChanges,     \* bound on the changes of the operational state and the
                    \* faults of the worker lock
    MaxRuns,        \* bound on the calls of Consumer.Run
    MaxCalls        \* bound on the calls of Consume, Cancel, Run and Shutdown

OperationalStates == {"ACTIVE", "PAUSED", "STOPPED", "LOCKED"}

(* allowedTransitions of pkg/queue/state.go. *)
AllowedTransitions ==
    [ACTIVE  |-> {"PAUSED", "LOCKED", "STOPPED"},
     PAUSED  |-> {"ACTIVE", "STOPPED", "LOCKED"},
     STOPPED |-> {"ACTIVE"},
     LOCKED  |-> {"ACTIVE", "STOPPED"}]

Reconcilers == 1..MaxRuns

ASSUME RunnerAssumption ==
    /\ States \subseteq OperationalStates
    /\ MaxChanges \in Nat
    /\ MaxRuns \in Nat
    /\ MaxCalls \in Nat

VARIABLES
    qstate,         \* operational state of the queue in Redis
    changes,        \* how often it changed
    unpublished,    \* states saved whose event is not published yet
    lastEvent,      \* the state of the last event published
    wire,           \* events on their way to this process
    tracker,        \* what the tracker knows; "none" before the first Run,
                    \* "closed" after Shutdown
    poisoned,       \* t.mu is locked for good: a handler panicked under it
    listener,       \* the event bus listener inside handleStateChange
    consumer,       \* "down", "starting" or "up" (cons.running)
    goroutines,     \* pending calls of Shutdown by <-cons.ctx.Done()
    stuck,          \* a call holds r.mu for good
    configs,        \* r.handlers
    starts,         \* calls of Consume that go on to StartHandler
    instances,      \* r.instances
    inst,           \* the handlers: their key and their phase
    boot,           \* the loop of MessageHandlerRunner.Run
    rec,            \* the reconcile loops
    runs, calls,    \* how often Run, and any of the four, was called
    overlap,        \* history: keys touched by somebody else between the
                    \* time Run or reconcile chose and appended a handler
    shadow          \* history: keys of a handler appended behind a stopped
                    \* one that was still in r.instances

queueVars == <<qstate, changes, unpublished, lastEvent>>
trackerVars == <<wire, tracker, poisoned, listener>>
consumerVars == <<consumer, goroutines, stuck, runs>>
handlerVars == <<configs, instances, inst>>
appVars == <<starts, calls>>
history == <<overlap, shadow>>
vars == <<lockVars, queueVars, trackerVars, consumerVars, handlerVars, appVars,
          boot, rec, history>>

(* "free": an unused slot; "live": running, the dequeue loop goes on;
   "stopped": shut down; "cut": running, but its context is cancelled. *)
NoHandler == [key |-> "none", phase |-> "free"]
Idle == [pc |-> "idle", todo |-> {}, key |-> "none", id |-> 0]
NotListening == [pc |-> "idle", state |-> "none", todo |-> {}, old |-> FALSE]

Init ==
    /\ LockInit
    /\ qstate = "ACTIVE" /\ changes = 0
    /\ unpublished = <<>> /\ lastEvent = "ACTIVE"
    /\ wire = <<>> /\ tracker = "none" /\ poisoned = FALSE
    /\ listener = NotListening
    /\ consumer = "down" /\ goroutines = 0 /\ stuck = FALSE
    /\ configs \in SUBSET Keys /\ starts = {} /\ instances = <<>>
    /\ inst = [i \in Instances |-> NoHandler]
    /\ boot = Idle /\ rec = [j \in Reconcilers |-> [Idle EXCEPT !.pc = "off"]]
    /\ runs = 0 /\ calls = 0
    /\ overlap = {} /\ shadow = {}
---------------------------------------------------------------------------
(* The sequence s without its n-th element. *)
Without(s, n) == [m \in 1..(Len(s) - 1) |-> IF m < n THEN s[m] ELSE s[m + 1]]

Live(i) == inst[i].phase = "live"
Listed(i) == \E j \in 1..Len(instances) : instances[j] = i
OfKey(k) == {i \in Instances : inst[i].phase # "free" /\ inst[i].key = k}

(* The keys that Run or reconcile is about to start or to append. *)
InHand(p) == p.todo \cup (IF p.pc = "append" THEN {p.key} ELSE {})
Busy == InHand(boot) \cup UNION {InHand(rec[j]) : j \in Reconcilers}
Touch(K) == overlap' = overlap \cup (K \cap Busy) /\ UNCHANGED shadow

(* Handlers held by nobody any more; their slot is used again. *)
Pending(i) == (boot.pc = "append" /\ boot.id = i)
              \/ \E j \in Reconcilers : rec[j].pc = "append" /\ rec[j].id = i
Spare == {i \in Instances :
            ~Live(i) /\ ~Listed(i) /\ ~Pending(i) /\ lk[i] = "off"}

(* MessageHandler.Run: the consumer can subscribe to the queue only while it
   is ACTIVE, and not with a cancelled context. *)
CanRun == qstate = "ACTIVE" /\ consumer # "down"
StartInstance(i, k) ==
    /\ i \in Spare
    /\ \A j \in Spare : i <= j
    /\ inst' = [inst EXCEPT ![i] = [key |-> k, phase |-> "live"]]
    /\ lk' = [lk EXCEPT ![i] = "trying"]
    /\ UNCHANGED <<lockOwner, rivalWorks, faults>>

(* The first instance of key k in the list, as the loops with a break find
   it, or none. *)
FirstAt(k) ==
    {n \in 1..Len(instances) :
        /\ inst[instances[n]].key = k
        /\ \A h \in 1..(n - 1) : inst[instances[h]].key # k}

(* Run and reconcile append the handler they started. *)
AppendInstance(p) ==
    /\ instances' = Append(instances, p.id)
    /\ shadow' = IF FirstAt(p.key) = {} THEN shadow ELSE shadow \cup {p.key}
    /\ UNCHANGED overlap

(* MessageHandler.Shutdown of the instances S: nothing for those that are not
   running.  Those that are off the list then are forgotten. *)
Shut(S, forget) ==
    LET R == {i \in S : inst[i].phase \in {"live", "cut"}}
    IN  /\ inst' = [i \in Instances |->
                      IF i \in S /\ forget THEN NoHandler
                      ELSE IF i \in R THEN [inst[i] EXCEPT !.phase = "stopped"]
                      ELSE inst[i]]
        /\ Release(R, changes + faults < MaxChanges)

(* Mutant of StopFirst: the handler is taken off the list, not shut down. *)
DropFirst(k) ==
    IF FirstAt(k) = {} THEN UNCHANGED <<inst, instances, lockVars>>
    ELSE \E n \in FirstAt(k) :
            instances' = Without(instances, n) /\ UNCHANGED <<inst, lockVars>>

(* StopHandler, and the same loop in AddHandler and RemoveHandler. *)
StopFirst(k) ==
    IF FirstAt(k) = {} THEN UNCHANGED <<inst, instances, lockVars>>
    ELSE \E n \in FirstAt(k) :
            Shut({instances[n]}, TRUE) /\ instances' = Without(instances, n)

(* Mutant of StartHandler: it does not look for an instance of the key. *)
StartHandlerAlways(k) ==
    IF k \in configs /\ CanRun
    THEN \E i \in Instances :
            StartInstance(i, k) /\ instances' = Append(instances, i)
    ELSE UNCHANGED <<inst, instances, lockVars>>

StartHandler(k) ==
    IF k \in configs /\ FirstAt(k) = {} /\ CanRun
    THEN \E i \in Instances :
            StartInstance(i, k) /\ instances' = Append(instances, i)
    ELSE UNCHANGED <<inst, instances, lockVars>>
---------------------------------------------------------------------------
(* Queue state. *)

(* saveState: the script changes the state, the event is published later. *)
ChangeState(s) ==
    /\ changes + faults < MaxChanges
    /\ s \in AllowedTransitions[qstate]
    /\ qstate' = s
    /\ changes' = changes + 1
    /\ unpublished' = Append(unpublished, s)
    /\ UNCHANGED <<lockVars, lastEvent, trackerVars, consumerVars, handlerVars,
                   appVars, boot, rec, history>>

(* OrphanedLockRecoverer.unlockQueue publishes no event. *)
RecoverOrphanedLock ==
    /\ changes + faults < MaxChanges
    /\ qstate = "LOCKED"
    /\ qstate' = "ACTIVE"
    /\ changes' = changes + 1
    /\ UNCHANGED <<lockVars, unpublished, lastEvent, trackerVars, consumerVars,
                   handlerVars, appVars, boot, rec, history>>

(* PublishStateChanged: two administrators may publish out of order.  The bus
   keeps its Redis subscription after a handler unsubscribed. *)
PublishState(n) ==
    /\ lastEvent' = unpublished[n]
    /\ unpublished' = Without(unpublished, n)
    /\ wire' = IF tracker = "none" THEN wire ELSE Append(wire, unpublished[n])
    /\ UNCHANGED <<lockVars, qstate, changes, tracker, poisoned, listener,
                   consumerVars, handlerVars, appVars, boot, rec, history>>
---------------------------------------------------------------------------
(* The tracker, on the listener goroutine of the event bus. *)

(* EventBus.dispatch copies the handlers, then calls them. *)
Dispatch ==
    /\ listener.pc = "idle"
    /\ wire # <<>>
    /\ wire' = Tail(wire)
    /\ listener' = IF tracker \in OperationalStates
                   THEN [NotListening EXCEPT !.pc = "update", !.state = Head(wire)]
                   ELSE listener
    /\ UNCHANGED <<lockVars, queueVars, tracker, poisoned, consumerVars,
                   handlerVars, appVars, boot, rec, history>>

(* Mutant of HandleStateChange: returns early on ACTIVE. *)
HandleStateChangeNotActive ==
    /\ listener.pc = "update"
    /\ ~poisoned
    /\ IF listener.state = "ACTIVE" \/ tracker = "closed" \/ listener.old
       THEN listener' = NotListening /\ UNCHANGED tracker
       ELSE /\ tracker' = listener.state
            /\ listener' = [listener EXCEPT !.pc = "callback", !.todo = configs]
    /\ UNCHANGED <<lockVars, queueVars, wire, poisoned, consumerVars,
                   handlerVars, appVars, boot, rec, history>>

(* handleStateChange up to the end of the loop that collects the handlers of
   the queue.  After Shutdown the maps are nil: a write panics with t.mu
   locked, and safeCall recovers. *)
HandleStateChange ==
    /\ listener.pc = "update"
    /\ poisoned => listener.old
    /\ LET nil == tracker = "closed" \/ listener.old
       IN  IF nil /\ listener.state # "ACTIVE"
           THEN /\ poisoned' = (poisoned \/ ~listener.old)
                /\ listener' = NotListening
                /\ UNCHANGED tracker
           ELSE /\ ~stuck
                /\ tracker' = IF nil THEN tracker ELSE listener.state
                /\ listener' = [listener EXCEPT !.pc = "callback", !.todo = configs]
                /\ UNCHANGED poisoned
    /\ UNCHANGED <<lockVars, queueVars, wire, consumerVars, handlerVars, appVars,
                   boot, rec, history>>

(* onQueueActive, onQueueStopped, onQueuePaused, onQueueLocked. *)
Callback(k) ==
    /\ listener.pc = "callback"
    /\ k \in listener.todo
    /\ ~stuck
    /\ listener' = [listener EXCEPT !.todo = @ \ {k}]
    /\ IF listener.state = "ACTIVE" THEN StartHandler(k) ELSE StopFirst(k)
    /\ Touch({k})
    /\ UNCHANGED <<queueVars, wire, tracker, poisoned, consumerVars, configs,
                   appVars, boot, rec>>

CallbackDone ==
    /\ listener.pc = "callback"
    /\ listener.todo = {}
    /\ listener' = NotListening
    /\ UNCHANGED <<lockVars, queueVars, wire, tracker, poisoned, consumerVars,
                   handlerVars, appVars, boot, rec, history>>
---------------------------------------------------------------------------
(* The application. *)

(* Consume, ConsumeWithGroup: AddHandler, then StartHandler if running; Run
   and Shutdown hold cons.mu, which IsRunning waits for. *)
Consume(k) ==
    /\ calls < MaxCalls
    /\ ~stuck
    /\ calls' = calls + 1
    /\ configs' = configs \cup {k}
    /\ IF k \in configs THEN StopFirst(k)
                        ELSE UNCHANGED <<inst, instances, lockVars>>
    /\ starts' = starts \cup {k}
    /\ Touch({k})
    /\ UNCHANGED <<queueVars, trackerVars, consumerVars, boot, rec>>

ConsumeStart(k) ==
    /\ k \in starts
    /\ ~stuck
    /\ consumer # "starting"
    /\ starts' = starts \ {k}
    /\ IF consumer = "up"
       THEN StartHandler(k) /\ Touch({k})
       ELSE UNCHANGED <<inst, instances, lockVars, history>>
    /\ UNCHANGED <<queueVars, trackerVars, consumerVars, configs, calls, boot,
                   rec>>

(* Cancel, CancelWithGroup. *)
Cancel(k) ==
    /\ calls < MaxCalls
    /\ ~stuck
    /\ k \in configs
    /\ calls' = calls + 1
    /\ configs' = configs \ {k}
    /\ StopFirst(k)
    /\ Touch({k})
    /\ UNCHANGED <<queueVars, trackerVars, consumerVars, starts, boot, rec>>

(* Consumer.Run and MessageHandlerRunner.Run, up to the first handler: a new
   context and a new tracker, which knows no inactive queue. *)
Run ==
    /\ consumer = "down"
    /\ ~stuck
    /\ runs < MaxRuns
    /\ calls < MaxCalls
    /\ configs # {}
    /\ runs' = runs + 1
    /\ calls' = calls + 1
    /\ consumer' = "starting"
    /\ tracker' = "ACTIVE"
    /\ poisoned' = FALSE
    /\ listener' = IF listener.pc = "update" THEN [listener EXCEPT !.old = TRUE]
                                             ELSE listener
    /\ boot' = [Idle EXCEPT !.pc = "next", !.todo = configs]
    /\ Touch(configs)
    /\ UNCHANGED <<lockVars, queueVars, wire, goroutines, stuck, handlerVars,
                   starts, rec>>

(* isQueueActive for the next handler of the list. *)
RunCheck(k) ==
    /\ boot.pc = "next"
    /\ k \in boot.todo
    /\ boot' = IF qstate = "ACTIVE"
               THEN [boot EXCEPT !.pc = "start", !.key = k]
               ELSE [boot EXCEPT !.todo = @ \ {k}]
    /\ UNCHANGED <<lockVars, queueVars, trackerVars, consumerVars, handlerVars,
                   appVars, rec, history>>

(* Mutants of ShutdownRunner: the context is not cancelled, or that is all. *)
ShutdownListed ==
    /\ Shut({i \in Instances : Listed(i)}, TRUE)
    /\ instances' = <<>>
    /\ tracker' = IF tracker = "none" \/ poisoned THEN tracker ELSE "closed"
    /\ stuck' = poisoned
    /\ Touch(Keys)

ShutdownContext ==
    /\ inst' = [i \in Instances |->
                  IF Live(i) THEN [inst[i] EXCEPT !.phase = "cut"] ELSE inst[i]]
    /\ instances' = <<>>
    /\ tracker' = IF tracker = "none" \/ poisoned THEN tracker ELSE "closed"
    /\ stuck' = poisoned
    /\ Touch(Keys)
    /\ UNCHANGED lockVars

(* r.shutdownLocked: the contexts of all handlers are cancelled, the listed
   ones are shut down, the tracker is closed.  A poisoned tracker stops it
   for good. *)
ShutdownRunner ==
    LET listed == {i \in Instances : Listed(i)}
    IN  /\ inst' = [i \in Instances |->
                      IF i \in listed THEN NoHandler
                      ELSE IF Live(i) THEN [inst[i] EXCEPT !.phase = "cut"]
                      ELSE inst[i]]
        /\ Release({i \in listed : inst[i].phase \in {"live", "cut"}},
                   changes + faults < MaxChanges)
        /\ instances' = <<>>
        /\ tracker' = IF tracker = "none" \/ poisoned THEN tracker ELSE "closed"
        /\ stuck' = poisoned
        /\ Touch(Keys)

(* mh.Run, without r.mu.  An error ends Run. *)
RunStart ==
    /\ boot.pc = "start"
    /\ IF CanRun
       THEN /\ \E i \in Instances :
                 /\ StartInstance(i, boot.key)
                 /\ boot' = [boot EXCEPT !.pc = "append", !.id = i,
                                         !.todo = @ \ {boot.key}]
            /\ UNCHANGED <<instances, tracker, stuck, consumer, history>>
       ELSE /\ boot' = Idle
            /\ consumer' = "down"
            /\ ShutdownRunner
    /\ UNCHANGED <<queueVars, wire, poisoned, listener, goroutines, runs,
                   configs, appVars, rec>>

RunAppend ==
    /\ boot.pc = "append"
    /\ ~stuck
    /\ AppendInstance(boot)
    /\ boot' = [boot EXCEPT !.pc = "next", !.id = 1]
    /\ UNCHANGED <<lockVars, queueVars, trackerVars, consumerVars, configs, inst,
                   appVars, rec>>

(* The end of Run: it fails if no handler was started (boot.id is 0 still);
   otherwise the reconcile loop starts and cons.running is set. *)
RunDone ==
    /\ boot.pc = "next"
    /\ boot.todo = {}
    /\ boot' = Idle
    /\ IF boot.id = 0
       THEN /\ consumer' = "down"
            /\ ShutdownRunner
            /\ UNCHANGED rec
       ELSE /\ consumer' = "up"
            /\ rec' = [rec EXCEPT ![runs] = Idle]
            /\ UNCHANGED <<inst, instances, lockVars, tracker, stuck, history>>
    /\ UNCHANGED <<queueVars, wire, poisoned, listener, goroutines, runs,
                   configs, appVars>>

(* Consumer.Shutdown.  It cancels cons.ctx, so that the goroutine of Run
   calls Shutdown once more, whenever it is scheduled. *)
Shutdown ==
    /\ consumer = "up"
    /\ ~stuck
    /\ calls < MaxCalls
    /\ calls' = calls + 1
    /\ consumer' = "down"
    /\ goroutines' = goroutines + 1
    /\ ShutdownRunner
    /\ UNCHANGED <<queueVars, wire, poisoned, listener, runs, configs, starts,
                   boot, rec>>

(* The second call: cleaning up, or the shutdown of the next run. *)
ShutdownByContext ==
    /\ goroutines > 0
    /\ consumer # "starting"
    /\ ~stuck
    /\ consumer' = "down"
    /\ goroutines' = IF consumer = "up" THEN goroutines ELSE goroutines - 1
    /\ ShutdownRunner
    /\ UNCHANGED <<queueVars, wire, poisoned, listener, runs, configs, appVars,
                   boot, rec>>
---------------------------------------------------------------------------
(* Message handlers and the reconcile loop. *)

(* The dequeue loop finds the queue stopped or locked when it checks out a
   message, and shuts its handler down.  It stays in r.instances. *)
SelfStop(i) ==
    /\ Live(i)
    /\ qstate \in {"STOPPED", "LOCKED"}
    /\ Shut({i}, FALSE)
    /\ UNCHANGED <<queueVars, trackerVars, consumerVars, configs, instances,
                   appVars, boot, rec, history>>

(* acquireWorkerLock: the lock, then the workers; an error if the context is
   done.  A handler shut down meanwhile has released the lock. *)
AcquireLock(i) ==
    /\ TryAcquire(i)
    /\ Live(i)
    /\ UNCHANGED <<queueVars, trackerVars, consumerVars, handlerVars, appVars,
                   boot, rec, history>>

AcquireGivesUp(i) ==
    /\ lk[i] = "trying"
    /\ ~Live(i)
    /\ lk' = [lk EXCEPT ![i] = "off"]
    /\ UNCHANGED <<lockOwner, rivalWorks, faults, queueVars, trackerVars,
                   consumerVars, handlerVars, appVars, boot, rec, history>>

LockStep ==
    /\ \/ changes + faults < MaxChanges /\ Lapse
       \/ Expire \/ RivalAcquire \/ RivalRelease
    /\ UNCHANGED <<queueVars, trackerVars, consumerVars, handlerVars, appVars,
                   boot, rec, history>>

(* The ticker of reconcileLoop, or the end of the context of the run. *)
ReconcileExit(j) ==
    /\ rec[j].pc = "idle"
    /\ consumer = "down"
    /\ rec' = [rec EXCEPT ![j].pc = "off"]
    /\ UNCHANGED <<lockVars, queueVars, trackerVars, consumerVars, handlerVars,
                   appVars, boot, history>>

(* IsActive of the tracker; it has no entries once it is closed. *)
IsActive == tracker \in {"ACTIVE", "closed"}

(* reconcile: the handlers that should run and have no running instance. *)
ToStart ==
    {k \in configs : \A n \in 1..Len(instances) :
        inst[instances[n]].key = k =>
            inst[instances[n]].phase \notin {"live", "cut"}}

(* The first half of reconcile, with r.mu read-locked; it waits for t.mu. *)
Reconcile(j) ==
    /\ rec[j].pc = "idle"
    /\ ~stuck
    /\ IF poisoned
       THEN stuck' = TRUE /\ UNCHANGED rec
       ELSE /\ IsActive
            /\ ToStart # {}
            /\ rec' = [rec EXCEPT ![j] =
                          [Idle EXCEPT !.pc = "next", !.todo = ToStart]]
            /\ UNCHANGED stuck
    /\ Touch(ToStart)
    /\ UNCHANGED <<lockVars, queueVars, trackerVars, consumer, goroutines, runs,
                   handlerVars, appVars, boot>>

(* mh.Run, without r.mu; an error is logged. *)
ReconcileStart(j, k) ==
    /\ rec[j].pc = "next"
    /\ k \in rec[j].todo
    /\ IF CanRun
       THEN \E i \in Instances :
              /\ StartInstance(i, k)
              /\ rec' = [rec EXCEPT ![j] = [pc |-> "append", key |-> k, id |-> i,
                                            todo |-> rec[j].todo \ {k}]]
       ELSE /\ rec' = [rec EXCEPT ![j].todo = @ \ {k}]
            /\ UNCHANGED <<inst, lockVars>>
    /\ UNCHANGED <<queueVars, trackerVars, consumerVars, configs, instances,
                   appVars, boot, history>>

ReconcileAppend(j) ==
    /\ rec[j].pc = "append"
    /\ ~stuck
    /\ AppendInstance(rec[j])
    /\ rec' = [rec EXCEPT ![j] = [Idle EXCEPT !.pc = "next", !.todo = rec[j].todo]]
    /\ UNCHANGED <<lockVars, queueVars, trackerVars, consumerVars, configs, inst,
                   appVars, boot>>

ReconcileDone(j) ==
    /\ rec[j].pc = "next"
    /\ rec[j].todo = {}
    /\ rec' = [rec EXCEPT ![j] = Idle]
    /\ UNCHANGED <<lockVars, queueVars, trackerVars, consumerVars, handlerVars,
                   appVars, boot, history>>
---------------------------------------------------------------------------
Listen == Dispatch \/ HandleStateChange \/ CallbackDone
          \/ \E k \in Keys : Callback(k)
Boot == RunStart \/ RunAppend \/ RunDone \/ \E k \in Keys : RunCheck(k)
ReconcileStep(j) ==
    \/ ReconcileExit(j) \/ Reconcile(j) \/ ReconcileAppend(j) \/ ReconcileDone(j)
    \/ \E k \in Keys : ReconcileStart(j, k)
Publish == \E n \in 1..Len(unpublished) : PublishState(n)

Next ==
    \/ \E s \in States : ChangeState(s)
    \/ RecoverOrphanedLock \/ Publish
    \/ Listen \/ Boot \/ Run \/ Shutdown \/ ShutdownByContext
    \/ \E k \in Keys : Consume(k) \/ ConsumeStart(k) \/ Cancel(k)
    \/ \E i \in Instances :
        SelfStop(i) \/ AcquireLock(i) \/ AcquireGivesUp(i)
    \/ LockStep
    \/ \E j \in Reconcilers : ReconcileStep(j)

Spec == Init /\ [][Next]_vars
FairSpec ==
    /\ Spec
    /\ WF_vars(Publish)
    /\ WF_vars(Listen)
    /\ WF_vars(Boot)
    /\ \A k \in Keys : WF_vars(ConsumeStart(k))
    /\ \A j \in Reconcilers : WF_vars(ReconcileStep(j))
---------------------------------------------------------------------------
Loops(k) == {i \in OfKey(k) : Live(i)}

(* A key has two dequeue loops only if somebody started or stopped a handler
   of the key while Run or reconcile had chosen one and not yet appended it
   to r.instances. *)
OneLoopPerHandler ==
    \A k \in Keys : Cardinality(Loops(k)) <= 1 \/ k \in overlap

(* Once the event of a pause, a stop or a lock is dealt with, no dequeue loop
   runs on the queue, and a cancelled key has none once Cancel returned. Both
   except the keys of such an overlap and those whose handler was appended
   behind a stopped one: StopHandler and RemoveHandler take the first instance
   of the key for the one to stop. *)
Settled ==
    /\ unpublished = <<>> /\ wire = <<>> /\ listener.pc = "idle" /\ Busy = {}
    /\ tracker = qstate
QuietWhenUnwanted ==
    /\ Settled /\ qstate # "ACTIVE" =>
           \A i \in Instances : Live(i) => inst[i].key \in overlap \cup shadow
    /\ \A k \in Keys \ (configs \cup overlap \cup shadow) : Loops(k) = {}

(* Every dequeue loop can be reached by StopHandler and Shutdown: it is in
   r.instances, or Run or reconcile is about to append it; and none is left
   when the consumer is down. *)
LoopsReachable ==
    \A i \in Instances : Live(i) => (Listed(i) \/ Pending(i)) /\ consumer # "down"

(* The background workers of the queue run in one consumer, and once in it,
   unless the lock expired under its holder or could not be released. *)
Working == {i \in Instances : lk[i] = "held" /\ Live(i)}
ExclusiveWorkers ==
    faults = 0 => Cardinality(Working) + (IF rivalWorks THEN 1 ELSE 0) <= 1

(* A consumer that is down does not keep the worker lock: no handler is left
   that extends it, except one that was started across the shutdown. *)
LockGivenBack ==
    consumer = "down" /\ Busy = {} =>
        \A i \in Instances : Acquired(i) => inst[i].key \in overlap

(* While the queue is active and the last event says so, a handler of a
   running consumer gets its dequeue loop, also after a loop stopped by
   itself or an event found a stale instance in the list. *)
Stable(k) ==
    /\ consumer = "up" /\ ~stuck /\ k \in configs /\ k \notin overlap
    /\ qstate = "ACTIVE" /\ unpublished = <<>> /\ lastEvent = "ACTIVE"
ActiveIsServed ==
    \A k \in Keys : []<>(~Stable(k) \/ Loops(k) # {})
===========================================================================
