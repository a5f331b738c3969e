------------------------------ MODULE PurgeJobs ------------------------------
(***************************************************************************)
(* Purge jobs, the lock a job holds on its queue, and the two recoveries:  *)
(* the search for stuck jobs when a purge worker starts, and the orphaned  *)
(* lock recoverer, a background worker of a running message handler.       *)
(*                                                                         *)
(* One queue and one category of its messages.  category is the Redis list *)
(* of that category, head first; stored holds the messages whose hash has  *)
(* the status of the category.  A FIFO queue is pushed at the head and     *)
(* consumed at the tail, and a purge works from the head.                  *)
(*                                                                         *)
(* The state of a queue is changed by a read followed by a script that     *)
(* compares the state (and, on unlock, the lock id) with what was read.    *)
(* The pair succeeds only if the comparison holds when the script runs, so *)
(* it is one action here; that it may fail when somebody else comes        *)
(* between is one of the errors Faulted allows.                            *)
(***************************************************************************)
EXTENDS Integers, FiniteSets, Sequences, Functions

CONSTANTS
    Jobs,            \* the ids of the jobs that may be enqueued
    Workers,         \* incarnations of purge workers, each with its own id
    Messages,        \* the messages the category may ever hold
    InitialMessages, \* those it holds at first
    BatchSize,       \* PurgeJob.BatchSize
    MaxDisturbances, \* cancellations, state changes, publications, calls that
                     \* fail and processes that die, together
    NoJob

ASSUME PurgeAssumption ==
    /\ IsFiniteSet(Jobs) /\ IsFiniteSet(Workers) /\ IsFiniteSet(Messages)
    /\ InitialMessages \subseteq Messages
    /\ BatchSize \in Nat \ {0}
    /\ MaxDisturbances \in Nat
    /\ NoJob \notin Jobs

VARIABLES
    state,       \* operational state of the queue
    lock,        \* id of the purge job that holds the lock, or NoJob
    category, stored,
    status,      \* job -> status of its record, "none" before Create
    pendingJobs, \* job -> how often it is on the list of pending jobs
    activeJobs,  \* the jobs on the list of active jobs
    jobWorker,   \* job -> worker linked to it
    heartbeats,  \* workers whose heartbeat key exists
    worker,      \* worker -> where its goroutine is, its job and its batch
    client,      \* job -> where the call of Enqueue is
    canceller,   \* job -> where a call of Cancel is
    handler,     \* whether a message handler of the queue runs its workers
    recovering,  \* the lock the recoverer is about to release
    disturbed,   \* number of disturbances so far
    hurt         \* history: jobs on whose behalf a call failed or died

queueVars == <<state, lock>>
messageVars == <<category, stored>>
jobVars == <<status, pendingJobs, activeJobs, jobWorker>>
appVars == <<client, canceller>>
hostVars == <<handler, recovering>>
vars == <<queueVars, messageVars, jobVars, heartbeats, worker, appVars,
          hostVars, disturbed, hurt>>

NoWorker == "none"
Terminal == {"COMPLETED", "FAILED", "CANCELED"}

\* Where a call that returns an error leads execute and purgeMessages.
AfterError ==
    [get |-> "idle", start |-> "fail", fetch |-> "fail", delete |-> "fail",
     trim |-> "fail", save |-> "fetch", final |-> "complete",
     complete |-> "unlock", fail |-> "unlock", unlock |-> "idle"]

Disturb == disturbed < MaxDisturbances /\ disturbed' = disturbed + 1

At(pc, j, ids) == [pc |-> pc, job |-> j, ids |-> ids]
Down == At("down", NoJob, <<>>)
Idle == At("idle", NoJob, <<>>)
Running(w) == worker[w].pc \notin {"new", "down"}
Executing(w, j) == worker[w].job = j
LockedBy(j) == state = "LOCKED" /\ lock = j

AnyOrder(S) == CHOOSE order \in Injection(1..Cardinality(S), S) : TRUE

Init ==
    /\ state = "ACTIVE" /\ lock = NoJob
    /\ category = AnyOrder(InitialMessages)
    /\ stored = InitialMessages
    /\ status = [j \in Jobs |-> "none"]
    /\ pendingJobs = [j \in Jobs |-> 0] /\ activeJobs = {}
    /\ jobWorker = [j \in Jobs |-> NoWorker]
    /\ heartbeats = {}
    /\ worker = [w \in Workers |-> At("new", NoJob, <<>>)]
    /\ client = [j \in Jobs |-> "new"]
    /\ canceller = [j \in Jobs |-> "idle"]
    /\ handler = TRUE /\ recovering = NoJob
    /\ disturbed = 0
    /\ hurt = {}

-----------------------------------------------------------------------------
(* The queue state: TransitionTo, acquireLock, releaseLock, saveState.     *)

AllowedTransitions ==
    [ACTIVE  |-> {"PAUSED", "LOCKED", "STOPPED"},
     PAUSED  |-> {"ACTIVE", "STOPPED", "LOCKED"},
     STOPPED |-> {"ACTIVE"},
     LOCKED  |-> {"ACTIVE", "STOPPED"}]

(* Pause, Resume and Stop of the state manager.  They pass no lock id, and *)
(* without one the script does not let go of a locked queue.               *)
TransitionTo(target) ==
    /\ Disturb
    /\ target \in AllowedTransitions[state] \ {"LOCKED"}
    /\ state # "LOCKED"
    /\ state' = target
    /\ UNCHANGED <<lock, messageVars, jobVars, heartbeats, worker, client,
                   canceller, hostVars, hurt>>

AcquireLock(j) ==
    /\ "LOCKED" \in AllowedTransitions[state]
    /\ state' = "LOCKED"
    /\ lock' = j

\* Mutant of ReleaseLock: the id of the lock is not compared.
ReleaseLockAny(j) ==
    IF state = "LOCKED"
    THEN state' = "ACTIVE" /\ lock' = NoJob
    ELSE UNCHANGED queueVars

(* releaseLock for the job j, and the unlock script of the recoverer: a    *)
(* lock with another id, or none, is left alone.  The queue becomes ACTIVE *)
(* whatever its state was before it was locked.                            *)
ReleaseLock(j) ==
    IF LockedBy(j)
    THEN state' = "ACTIVE" /\ lock' = NoJob
    ELSE UNCHANGED queueVars

-----------------------------------------------------------------------------
(* The scripts on job records.                                             *)

CreateJob(j) ==
    /\ status' = [status EXCEPT ![j] = "PENDING"]
    /\ pendingJobs' = [pendingJobs EXCEPT ![j] = @ + 1]
    /\ UNCHANGED <<activeJobs, jobWorker>>

Startable(j) ==
    status[j] = "PROCESSING" \/ (status[j] = "PENDING" /\ j \in activeJobs)

StartJob(j, w) ==
    IF status[j] = "PENDING" /\ j \in activeJobs
    THEN /\ status' = [status EXCEPT ![j] = "PROCESSING"]
         /\ jobWorker' = [jobWorker EXCEPT ![j] = w]
         /\ UNCHANGED <<pendingJobs, activeJobs>>
    ELSE UNCHANGED jobVars

\* Mutant of EndJob: the record is not written.
EndJobUnwritten(j, s) ==
    /\ activeJobs' = activeJobs \ {j}
    /\ jobWorker' = [jobWorker EXCEPT ![j] = NoWorker]
    /\ UNCHANGED <<status, pendingJobs>>

(* complete-job and fail-job: a job that is not PROCESSING keeps its       *)
(* status, but one that has ended leaves the active list all the same.     *)
EndJob(j, s) ==
    IF status[j] \in {"PROCESSING"} \cup Terminal
    THEN /\ status' = [status EXCEPT ![j] = IF @ = "PROCESSING" THEN s ELSE @]
         /\ activeJobs' = activeJobs \ {j}
         /\ jobWorker' = [jobWorker EXCEPT ![j] = NoWorker]
         /\ UNCHANGED pendingJobs
    ELSE UNCHANGED jobVars

\* Mutant of CancelJob: the job stays on the list of pending jobs.
CancelJobListed(j) ==
    /\ status' = [status EXCEPT
                   ![j] = IF @ \in Terminal THEN @ ELSE "CANCELED"]
    /\ activeJobs' = activeJobs \ {j}
    /\ jobWorker' = [jobWorker EXCEPT ![j] = NoWorker]
    /\ UNCHANGED pendingJobs

CancelJob(j) ==
    /\ status' = [status EXCEPT
                   ![j] = IF @ \in Terminal THEN @ ELSE "CANCELED"]
    /\ pendingJobs' = [pendingJobs EXCEPT ![j] = 0]
    /\ activeJobs' = activeJobs \ {j}
    /\ jobWorker' = [jobWorker EXCEPT ![j] = NoWorker]

-----------------------------------------------------------------------------
(* The application: Enqueue and Cancel.                                    *)

Enqueue(j) ==
    /\ client[j] = "new"
    /\ AcquireLock(j)
    /\ client' = [client EXCEPT ![j] = "locked"]
    /\ UNCHANGED <<messageVars, jobVars, heartbeats, worker, canceller,
                   hostVars, disturbed, hurt>>

(* jobStore.Create.  An error, which may hide that the script ran, makes   *)
(* Enqueue give the lock back.                                             *)
Create(j) ==
    /\ client[j] = "locked"
    /\ \/ /\ CreateJob(j)
          /\ client' = [client EXCEPT ![j] = "done"]
          /\ UNCHANGED <<disturbed, hurt>>
       \/ /\ Disturb
          /\ CreateJob(j) \/ UNCHANGED jobVars
          /\ client' = [client EXCEPT ![j] = "rollback"]
          /\ hurt' = hurt \cup {j}
    /\ UNCHANGED <<queueVars, messageVars, heartbeats, worker, canceller,
                   hostVars>>

Rollback(j) ==
    /\ client[j] = "rollback"
    /\ client' = [client EXCEPT ![j] = "done"]
    /\ ReleaseLock(j)
    /\ UNCHANGED <<messageVars, jobVars, heartbeats, worker, canceller,
                   hostVars, disturbed, hurt>>

\* Mutant of Cancel: the queue is not unlocked.
CancelOnly(j) ==
    /\ canceller[j] = "idle"
    /\ status[j] # "none"
    /\ Disturb
    /\ CancelJob(j)
    /\ canceller' = [canceller EXCEPT ![j] = "done"]
    /\ UNCHANGED <<queueVars, messageVars, heartbeats, worker, client,
                   hostVars, hurt>>

(* jobStore.Get and jobStore.Cancel.  The queue is unlocked unless the job *)
(* had ended in another way.                                               *)
Cancel(j) ==
    /\ canceller[j] = "idle"
    /\ status[j] # "none"
    /\ Disturb
    /\ CancelJob(j)
    /\ canceller' = [canceller EXCEPT
          ![j] = IF status[j] \in {"COMPLETED", "FAILED"}
                 THEN "done" ELSE "unlock"]
    /\ UNCHANGED <<queueVars, messageVars, heartbeats, worker, client,
                   hostVars, hurt>>

CancelUnlock(j) ==
    /\ canceller[j] = "unlock"
    /\ canceller' = [canceller EXCEPT ![j] = "done"]
    /\ ReleaseLock(j)
    /\ UNCHANGED <<messageVars, jobVars, heartbeats, worker, client,
                   hostVars, disturbed, hurt>>

(* The process of the application dies between two calls.                  *)
CallerDies(j) ==
    /\ Disturb
    /\ \/ client[j] \in {"locked", "rollback"}
       \/ canceller[j] = "unlock"
    /\ client' = [client EXCEPT ![j] = "done"]
    /\ canceller' = [canceller EXCEPT ![j] = "done"]
    /\ hurt' = hurt \cup {j}
    /\ UNCHANGED <<queueVars, messageVars, jobVars, heartbeats, worker,
                   hostVars>>

-----------------------------------------------------------------------------
(* The purge worker.                                                       *)

IsWorkerAlive(j) == jobWorker[j] \in heartbeats

(* The jobs recoverStuckJobs finds.  It reads the members of a set from the *)
(* key of the active jobs, which is a list unless it is empty: Redis        *)
(* answers with an error, or with no members.                               *)
StuckJobs == {}

RecoverJobs(S) ==
    LET again == {j \in S : status[j] = "PROCESSING"}
        ended == {j \in S : status[j] \in Terminal}
    IN /\ status' = [j \in Jobs |-> IF j \in again THEN "PENDING" ELSE status[j]]
       /\ pendingJobs' = [j \in Jobs |-> IF j \in again THEN pendingJobs[j] + 1
                                         ELSE pendingJobs[j]]
       /\ activeJobs' = activeJobs \ (again \cup ended)
       /\ jobWorker' = [j \in Jobs |-> IF j \in again \cup ended THEN NoWorker
                                       ELSE jobWorker[j]]

(* Start, and the first statement of work. *)
StartWorker(w) ==
    /\ worker[w].pc = "new"
    /\ worker' = [worker EXCEPT ![w] = Idle]
    /\ RecoverJobs(StuckJobs)
    /\ UNCHANGED <<queueVars, messageVars, heartbeats, appVars, hostVars,
                   disturbed, hurt>>

(* stop cancels the context of the worker, and every call after that fails: *)
(* what is under way is left as a crash leaves it.                          *)
StopWorker(w) ==
    /\ Disturb
    /\ Running(w)
    /\ worker' = [worker EXCEPT ![w] = Down]
    /\ hurt' = hurt \cup ({worker[w].job} \ {NoJob})
    /\ UNCHANGED <<queueVars, messageVars, jobVars, heartbeats, appVars,
                   hostVars>>

(* heartbeatLoop: the first beat comes one interval after the start. *)
Beat(w) ==
    /\ Running(w)
    /\ w \notin heartbeats
    /\ heartbeats' = heartbeats \cup {w}
    /\ UNCHANGED <<queueVars, messageVars, jobVars, worker, appVars, hostVars,
                   disturbed, hurt>>

(* The key of a worker that stopped expires. *)
Expire(w) ==
    /\ ~Running(w)
    /\ w \in heartbeats
    /\ heartbeats' = heartbeats \ {w}
    /\ UNCHANGED <<queueVars, messageVars, jobVars, worker, appVars, hostVars,
                   disturbed, hurt>>

\* Mutant of Acquire: the job is read and left on the list.
AcquirePeek(w, j) ==
    /\ worker[w].pc = "idle"
    /\ pendingJobs[j] > 0
    /\ worker' = [worker EXCEPT ![w] = At("get", j, <<>>)]
    /\ activeJobs' = activeJobs \cup {j}
    /\ UNCHANGED <<queueVars, messageVars, status, pendingJobs, jobWorker,
                   heartbeats, appVars, hostVars, disturbed, hurt>>

(* BRPOPLPUSH from the pending to the active jobs.  Which of the waiting   *)
(* jobs comes first is left open.                                          *)
Acquire(w, j) ==
    /\ worker[w].pc = "idle"
    /\ pendingJobs[j] > 0
    /\ worker' = [worker EXCEPT ![w] = At("get", j, <<>>)]
    /\ pendingJobs' = [pendingJobs EXCEPT ![j] = @ - 1]
    /\ activeJobs' = activeJobs \cup {j}
    /\ UNCHANGED <<queueVars, messageVars, status, jobWorker, heartbeats,
                   appVars, hostVars, disturbed, hurt>>

Moved(w, pc) ==
    worker' = [worker EXCEPT ![w] =
        IF pc = "idle" THEN Idle
        ELSE At(pc, @.job, IF pc = "fetch" THEN <<>> ELSE @.ids)]

(* The call at which w stands returns an error. *)
Faulted(w) ==
    /\ Disturb
    /\ Moved(w, AfterError[worker[w].pc])
    /\ hurt' = hurt \cup {worker[w].job}

(* The reply is as the script says, or it is lost on the way. *)
Replied(w, pc) == (Moved(w, pc) /\ UNCHANGED <<disturbed, hurt>>) \/ Faulted(w)

(* The request is lost on the way: nothing has changed but the caller. *)
CallFails(w) ==
    /\ worker[w].pc \in DOMAIN AfterError
    /\ Faulted(w)
    /\ UNCHANGED <<queueVars, messageVars, jobVars, heartbeats, appVars,
                   hostVars>>

(* execute up to the first batch. *)
Get(w) ==
    /\ worker[w].pc = "get"
    /\ Moved(w, "start")
    /\ UNCHANGED <<queueVars, messageVars, jobVars, heartbeats, appVars,
                   hostVars, disturbed, hurt>>

Start(w) ==
    LET j == worker[w].job IN
    /\ worker[w].pc = "start"
    /\ StartJob(j, w)
    /\ Replied(w, IF Startable(j) THEN "fetch" ELSE "fail")
    /\ UNCHANGED <<queueVars, messageVars, heartbeats, appVars, hostVars>>

(* One round of purgeMessages: the test for a cancellation and the read of *)
(* a batch;                                                                *)
FetchBatch(w) ==
    LET ids == SubSeq(category, 1,
                      IF Len(category) < BatchSize THEN Len(category)
                      ELSE BatchSize)
    IN /\ worker[w].pc = "fetch"
       /\ IF status[worker[w].job] = "CANCELED" \/ ids = <<>>
          THEN Moved(w, "final")
          ELSE worker' = [worker EXCEPT ![w] = At("delete", @.job, ids)]
       /\ UNCHANGED <<queueVars, messageVars, jobVars, heartbeats, appVars,
                      hostVars, disturbed, hurt>>

(* DeleteMessages with the id of the job as lock id: refused while the     *)
(* queue is locked by somebody else.  A message that is gone or has been   *)
(* popped is left out; the others leave the list and lose their hash;      *)
DeleteMessages(w) ==
    LET ids == worker[w].ids
        gone == {m \in stored : \E n \in 1..Len(ids) : ids[n] = m} IN
    /\ worker[w].pc = "delete"
    /\ IF state = "LOCKED" /\ lock # worker[w].job
       THEN /\ Moved(w, "fail")
            /\ UNCHANGED <<messageVars, disturbed, hurt>>
       ELSE /\ stored' = stored \ gone
            /\ category' = SelectSeq(category, LAMBDA m : m \notin gone)
            /\ Replied(w, "trim")
    /\ UNCHANGED <<queueVars, jobVars, heartbeats, appVars, hostVars>>

(* trimCategory drops as many entries from the head as the batch had;      *)
TrimCategory(w) ==
    /\ worker[w].pc = "trim"
    /\ category' = SubSeq(category, Len(worker[w].ids) + 1, Len(category))
    /\ Replied(w, "save")
    /\ UNCHANGED <<queueVars, stored, jobVars, heartbeats, appVars, hostVars>>

(* and the record is written back with the status PROCESSING.  An error is *)
(* logged.                                                                 *)
SaveProgress(w) ==
    /\ worker[w].pc = "save"
    /\ status' = [status EXCEPT ![worker[w].job] = "PROCESSING"]
    /\ Replied(w, "fetch")
    /\ UNCHANGED <<queueVars, messageVars, pendingJobs, activeJobs, jobWorker,
                   heartbeats, appVars, hostVars>>

(* The test after the last batch: whoever cancelled the job unlocks. *)
FinalCheck(w) ==
    /\ worker[w].pc = "final"
    /\ Moved(w, IF status[worker[w].job] = "CANCELED" THEN "idle"
                ELSE "complete")
    /\ UNCHANGED <<queueVars, messageVars, jobVars, heartbeats, appVars,
                   hostVars, disturbed, hurt>>

\* Mutant of End: returns without unlocking the queue.
EndLocked(w) ==
    /\ worker[w].pc \in {"complete", "fail"}
    /\ EndJob(worker[w].job,
              IF worker[w].pc = "complete" THEN "COMPLETED" ELSE "FAILED")
    /\ Replied(w, "idle")
    /\ UNCHANGED <<queueVars, messageVars, heartbeats, appVars, hostVars>>

(* Complete or Fail; their errors are logged. *)
End(w) ==
    /\ worker[w].pc \in {"complete", "fail"}
    /\ EndJob(worker[w].job,
              IF worker[w].pc = "complete" THEN "COMPLETED" ELSE "FAILED")
    /\ Replied(w, "unlock")
    /\ UNCHANGED <<queueVars, messageVars, heartbeats, appVars, hostVars>>

Unlock(w) ==
    /\ worker[w].pc = "unlock"
    /\ ReleaseLock(worker[w].job)
    /\ Replied(w, "idle")
    /\ UNCHANGED <<messageVars, jobVars, heartbeats, appVars, hostVars>>

Execute(w) ==
    \/ Get(w) \/ Start(w) \/ FetchBatch(w) \/ DeleteMessages(w)
    \/ TrimCategory(w) \/ SaveProgress(w) \/ FinalCheck(w) \/ End(w)
    \/ Unlock(w)

-----------------------------------------------------------------------------
(* The orphaned lock recoverer.  It belongs to a running handler, and the  *)
(* handlers stop when they learn that the queue is not active.             *)

HandlerStops ==
    /\ handler /\ state # "ACTIVE"
    /\ handler' = FALSE
    /\ UNCHANGED <<queueVars, messageVars, jobVars, heartbeats, worker,
                   appVars, recovering, disturbed, hurt>>

HandlerStarts ==
    /\ ~handler /\ state = "ACTIVE"
    /\ handler' = TRUE
    /\ UNCHANGED <<queueVars, messageVars, jobVars, heartbeats, worker,
                   appVars, recovering, disturbed, hurt>>

(* recover: a lock of a purge job none of whose workers is known alive.    *)
(* That holds for a job nobody has started yet.                            *)
RecoverLock ==
    /\ handler /\ recovering = NoJob
    /\ state = "LOCKED" /\ ~IsWorkerAlive(lock)
    /\ recovering' = lock
    /\ UNCHANGED <<queueVars, messageVars, jobVars, heartbeats, worker,
                   appVars, handler, disturbed, hurt>>

(* unlockQueue, the script that was under way when the handler stopped     *)
(* included. *)
RecoverUnlock ==
    /\ recovering # NoJob
    /\ ReleaseLock(recovering)
    /\ recovering' = NoJob
    /\ UNCHANGED <<messageVars, jobVars, heartbeats, worker, appVars, handler,
                   disturbed, hurt>>

-----------------------------------------------------------------------------
(* The messages of the category: publication and consumption.              *)

Publish(m) ==
    /\ state \in {"ACTIVE", "PAUSED"}
    /\ m \notin stored
    /\ m \notin InitialMessages
    /\ Disturb
    /\ category' = <<m>> \o category
    /\ stored' = stored \cup {m}
    /\ UNCHANGED <<queueVars, jobVars, heartbeats, worker, client, canceller,
                   hostVars, hurt>>

Pop ==
    /\ handler /\ state = "ACTIVE"
    /\ category # <<>>
    /\ category' = SubSeq(category, 1, Len(category) - 1)
    /\ stored' = stored \ {category[Len(category)]}
    /\ UNCHANGED <<queueVars, jobVars, heartbeats, worker, appVars, hostVars,
                   disturbed, hurt>>

-----------------------------------------------------------------------------
Next ==
    \/ \E s \in {"ACTIVE", "PAUSED", "STOPPED"} : TransitionTo(s)
    \/ \E j \in Jobs : \/ Enqueue(j) \/ Create(j) \/ Rollback(j) \/ Cancel(j)
                       \/ CancelUnlock(j) \/ CallerDies(j)
    \/ \E w \in Workers : \/ StartWorker(w) \/ StopWorker(w) \/ Beat(w)
                          \/ Expire(w) \/ CallFails(w) \/ Execute(w)
                          \/ \E j \in Jobs : Acquire(w, j)
    \/ HandlerStops \/ HandlerStarts \/ RecoverLock \/ RecoverUnlock
    \/ \E m \in Messages : Publish(m)
    \/ Pop

Spec == Init /\ [][Next]_vars

(* A process with a purge worker is started and its goroutine goes on, as  *)
(* do the calls of the application.  Nothing is asked of the heartbeat,    *)
(* the handlers and the recoverer.                                         *)
Fairness ==
    /\ \A w \in Workers :
           WF_vars(StartWorker(w) \/ Execute(w) \/ \E j \in Jobs : Acquire(w, j))
    /\ \A j \in Jobs : WF_vars(Create(j) \/ Rollback(j) \/ CancelUnlock(j))

FairSpec == Spec /\ Fairness

-----------------------------------------------------------------------------
(* A job is executed by one worker at most, however the workers start,     *)
(* stop and recover (purge_worker.go, acquire; start-job.lua).             *)
OneExecutor ==
    \A v, w \in Workers, j \in Jobs : Executing(v, j) /\ Executing(w, j) => v = w

(* A job that waits is on exactly one of the two lists, once, and every    *)
(* job on the pending list waits: no call, in whatever order the calls of  *)
(* application and workers come, loses a job or lets one be taken twice.   *)
JobsAccounted ==
    \A j \in Jobs :
        /\ pendingJobs[j] <= 1
        /\ status[j] = "PENDING" => pendingJobs[j] = 1 \/ j \in activeJobs
        /\ pendingJobs[j] = 1 => status[j] = "PENDING" /\ j \notin activeJobs

(* The lock of a job that is no longer waiting or at work is about to be   *)
(* released, unless a call on behalf of the job failed or its process died *)
(* (Enqueue, Cancel and execute each unlock on every path they return by). *)
LockHasOwner ==
    \A j \in Jobs :
        LockedBy(j) =>
            \/ client[j] \in {"locked", "rollback"}
            \/ status[j] \in {"PENDING", "PROCESSING"}
            \/ canceller[j] = "unlock"
            \/ \E w \in Workers : Executing(w, j)
            \/ j \in hurt

(* The lock of a job is released by somebody who acts for that job: its    *)
(* caller, its canceller, its worker, or the recoverer when it found this  *)
(* lock.  A late unlock never hits the lock of the next job (releaseLock,  *)
(* unlockQueue, set-queue-state.lua).                                      *)
OnlyItsOwnLock ==
    [][\A j \in Jobs :
         LockedBy(j) /\ lock' # j =>
             \/ client[j] = "rollback"
             \/ canceller[j] = "unlock"
             \/ recovering = j
             \/ \E w \in Workers : Executing(w, j) /\ worker[w].pc = "unlock"]_vars

(* The queue does not stay locked: whichever purge job holds the lock lets *)
(* it go, provided no call on its behalf failed and a worker is running.   *)
LockReleased ==
    []<>(\/ state # "LOCKED"
         \/ lock \in hurt
         \/ \A w \in Workers : worker[w] = Down)

(* Every job ends, for good, under the same provisos; one that was         *)
(* cancelled and is put back to PROCESSING by SaveProgress ends as well.   *)
JobEnds ==
    <>[](\/ \A j \in Jobs : status[j] \in {"none"} \cup Terminal \/ j \in hurt
         \/ \A w \in Workers : worker[w] = Down)
=============================================================================
