--------------------------- MODULE PurgeJobsProofs ---------------------------
(***************************************************************************)
(* The safety properties of the purge jobs, for any number of jobs,        *)
(* workers and messages and any number of disturbances.                    *)
(*                                                                         *)
(* A job is in one of the stages a job goes through, and the inductive     *)
(* invariant says for each stage who may refer to the job: nobody before   *)
(* it is created (Unborn), the pending list only while it waits (Waiting), *)
(* one worker once it is taken (Taken), and after that whoever is to       *)
(* release its lock (Ending).                                              *)
(***************************************************************************)
EXTENDS PurgeJobs, TLAPS

USE ZenonT(30)

Statuses == {"none", "PENDING", "PROCESSING"} \cup Terminal
Points == {"new", "down", "idle"} \cup DOMAIN AfterError

\* The record of a worker; it has a job exactly while it executes one.
WorkerShape ==
    /\ worker = [w \in Workers |-> worker[w]]
    /\ \A w \in Workers :
          /\ worker[w] = At(worker[w].pc, worker[w].job, worker[w].ids)
          /\ worker[w].pc \in Points
          /\ worker[w].job \in Jobs \cup {NoJob}
          /\ worker[w].job = NoJob <=> worker[w].pc \in {"new", "down", "idle"}

JobShape ==
    /\ status \in [Jobs -> Statuses]
    /\ pendingJobs \in [Jobs -> Nat]
    /\ activeJobs \subseteq Jobs
    /\ client \in [Jobs -> {"new", "locked", "rollback", "done"}]
    /\ canceller \in [Jobs -> {"idle", "unlock", "done"}]

\* A job that has no record is known to its caller only.
Unborn(j) ==
    /\ client[j] \in {"new", "locked"} =>
          status[j] = "none" /\ canceller[j] = "idle"
    /\ status[j] = "none" =>
          /\ pendingJobs[j] = 0 /\ j \notin activeJobs
          /\ \A w \in Workers : ~Executing(w, j)

\* A job on the pending list waits, is there once and is in nobody's hands.
Waiting(j) ==
    /\ pendingJobs[j] <= 1
    /\ pendingJobs[j] = 1 =>
          /\ status[j] = "PENDING" /\ j \notin activeJobs
          /\ \A w \in Workers : ~Executing(w, j)
    /\ status[j] = "PENDING" => pendingJobs[j] = 1 \/ j \in activeJobs

\* One worker has it, and once the job has ended is about to unlock.
Taken(j) ==
    /\ \A v, w \in Workers : Executing(v, j) /\ Executing(w, j) => v = w
    /\ \A w \in Workers :
          Executing(w, j) /\ status[j] \in {"COMPLETED", "FAILED"}
             => worker[w].pc = "unlock"

\* Whoever cancels a job releases its lock.
Ending(j) ==
    /\ status[j] = "CANCELED" => canceller[j] # "idle"
    /\ canceller[j] = "done" /\ LockedBy(j) =>
          status[j] \in {"COMPLETED", "FAILED"} \/ j \in hurt

JobInv(j) == Unborn(j) /\ Waiting(j) /\ Taken(j) /\ Ending(j)

PurgeInv ==
    /\ WorkerShape /\ JobShape
    /\ \A j \in Jobs : JobInv(j)
    /\ LockHasOwner

-----------------------------------------------------------------------------
(* What the pieces of an action do.                                        *)

\* Worker w goes to p, and keeps its job unless it becomes idle.
Step(w, p) ==
    /\ WorkerShape'
    /\ \A v \in Workers \ {w} : worker'[v] = worker[v]
    /\ worker'[w].pc = p
    /\ worker'[w].job = IF p = "idle" THEN NoJob ELSE worker[w].job

\* Nobody acquires a lock, and no call is forgotten to have failed.
NoNewLock ==
    /\ \A j \in Jobs : LockedBy(j)' => LockedBy(j)
    /\ hurt \subseteq hurt'

(* The worker moves on with its job, or without one to the next round.     *)
LEMMA MovedSteps ==
    ASSUME WorkerShape, NEW w \in Workers, NEW p \in Points \ {"new", "down"},
           worker[w].job \in Jobs, Moved(w, p)
    PROVE  Step(w, p)
  <1>1. CASE p = "idle"
    BY <1>1, PurgeAssumption DEF WorkerShape, Moved, Idle, At, Step, Points
  <1>2. CASE p # "idle"
    <2>1. worker'[w] = At(p, worker[w].job,
                          IF p = "fetch" THEN <<>> ELSE worker[w].ids)
      BY <1>2 DEF WorkerShape, Moved
    <2>2. \A v \in Workers \ {w} : worker'[v] = worker[v]
      BY DEF WorkerShape, Moved
    <2>3. worker' = [v \in Workers |-> worker'[v]]
      BY DEF WorkerShape, Moved
    <2> QED
      BY <1>2, <2>1, <2>2, <2>3, PurgeAssumption, SMTT(30) DEF WorkerShape, Step, At
  <1> QED
    BY <1>1, <1>2

(* An error leads to a later point of the same execution, or ends it.      *)
LEMMA ErrorsLead ==
    ASSUME NEW p \in DOMAIN AfterError
    PROVE  /\ AfterError[p] \in Points \ {"new", "down"}
           /\ p = "unlock" => AfterError[p] = "idle"
  BY SMTT(30) DEF AfterError, Points

(* A worker at a point of execute has a job.                               *)
LEMMA AtWork ==
    ASSUME WorkerShape, NEW w \in Workers, worker[w].pc \in DOMAIN AfterError
    PROVE  worker[w].job \in Jobs
  BY DEF WorkerShape, AfterError

(* A reply, or its loss, in terms of the worker.                           *)
LEMMA RepliedSteps ==
    ASSUME WorkerShape, NEW w \in Workers, NEW p \in Points \ {"new", "down"},
           worker[w].pc \in DOMAIN AfterError, Replied(w, p)
    PROVE  \/ Step(w, p) /\ hurt' = hurt
           \/ Step(w, AfterError[worker[w].pc])
              /\ hurt' = hurt \cup {worker[w].job}
  BY MovedSteps, AtWork, ErrorsLead DEF Replied, Faulted

(* ReleaseLock(k) can take the lock from k only.                           *)
LEMMA ReleaseFacts ==
    ASSUME NEW k, ReleaseLock(k)
    PROVE  /\ \A j \in Jobs : LockedBy(j)' => LockedBy(j)
           /\ k \in Jobs => ~LockedBy(k)'
           /\ \A j \in Jobs : LockedBy(j) /\ lock' # j => j = k
  BY PurgeAssumption DEF ReleaseLock, LockedBy, queueVars

(* What the jobs are to the invariant does not change.                     *)
LEMMA Frame ==
    ASSUME PurgeInv, NoNewLock, UNCHANGED <<status, pendingJobs, activeJobs>>,
           UNCHANGED <<worker, client, canceller>>
    PROVE  PurgeInv'
  BY SMTT(30) DEF PurgeInv, NoNewLock, WorkerShape, JobShape, JobInv, Unborn, Waiting,
         Taken, Ending, LockHasOwner, Executing, LockedBy

(* A worker goes on, and nothing happens to the jobs.  It may drop its job *)
(* if the lock is gone, a call failed, or the job was cancelled.           *)
LEMMA WorkerGoesOn ==
    ASSUME PurgeInv, NoNewLock, UNCHANGED <<status, pendingJobs, activeJobs>>,
           UNCHANGED <<client, canceller>>,
           NEW w \in Workers, NEW j \in Jobs, worker[w].job = j,
           NEW p, Step(w, p),
           p # "idle" /\ status[j] \in {"COMPLETED", "FAILED"} => p = "unlock",
           p = "idle" =>
              \/ ~LockedBy(j)' \/ j \in hurt' \/ status[j] = "CANCELED"
    PROVE  PurgeInv'
  <1>1. \A v \in Workers, k \in Jobs : Executing(v, k)' => Executing(v, k)
    BY PurgeAssumption DEF Executing, Step
  <1>2. \A v \in Workers, k \in Jobs :
            Executing(v, k) => Executing(v, k)' \/ (v = w /\ k = j /\ p = "idle")
    BY DEF Executing, Step
  <1>3. WorkerShape' /\ JobShape'
    BY DEF PurgeInv, JobShape, Step
  <1>4. ASSUME NEW k \in Jobs PROVE JobInv(k)'
    <2>1. Unborn(k)' /\ Waiting(k)' /\ Ending(k)'
      BY <1>1 DEF PurgeInv, JobInv, Unborn, Waiting, Ending, NoNewLock
    <2>2. Taken(k)'
      <3>1. \A v, u \in Workers : Executing(v, k)' /\ Executing(u, k)' => v = u
        BY <1>1 DEF PurgeInv, JobInv, Taken
      <3>2. ASSUME NEW v \in Workers, Executing(v, k)',
                   status[k] \in {"COMPLETED", "FAILED"}
            PROVE  worker'[v].pc = "unlock"
        <4>1. Executing(v, k) /\ worker[v].pc = "unlock"
          BY <1>1, <3>2 DEF PurgeInv, JobInv, Taken
        <4>2. CASE v = w
          BY <4>1, <4>2, <3>2, PurgeAssumption DEF Step, Executing
        <4>3. CASE v # w
          BY <4>1, <4>3 DEF Step
        <4> QED
          BY <4>2, <4>3
      <3> QED
        BY <3>1, <3>2 DEF Taken
    <2> QED
      BY <2>1, <2>2 DEF JobInv
  <1>5. LockHasOwner'
    <2> SUFFICES ASSUME NEW k \in Jobs, LockedBy(k)',
                        ~(client[k] \in {"locked", "rollback"}),
                        ~(status[k] \in {"PENDING", "PROCESSING"}),
                        canceller[k] # "unlock", k \notin hurt'
                 PROVE  \E v \in Workers : Executing(v, k)'
      BY DEF LockHasOwner
    <2>1. LockedBy(k) /\ k \notin hurt
      BY DEF NoNewLock
    <2>2. PICK v \in Workers : Executing(v, k)
      BY <2>1 DEF PurgeInv, LockHasOwner
    <2>3. CASE v = w /\ p = "idle"
      <3>1. k = j /\ status[k] = "CANCELED"
        BY <2>2, <2>3 DEF Executing
      <3>2. canceller[k] = "done"
        BY <3>1 DEF PurgeInv, JobInv, Ending, JobShape
      <3> QED
        BY <2>1, <3>1, <3>2 DEF PurgeInv, JobInv, Ending
    <2>4. CASE ~(v = w /\ p = "idle")
      BY <1>2, <2>2, <2>4
    <2> QED
      BY <2>3, <2>4
  <1> QED
    BY <1>3, <1>4, <1>5 DEF PurgeInv

-----------------------------------------------------------------------------
(* The application.                                                        *)

(* Everything but job j is as it was, apart from locks that were released. *)
LEMMA OthersKeep ==
    ASSUME PurgeInv, NEW j \in Jobs, UNCHANGED worker,
           hurt \subseteq hurt',
           \A k \in Jobs \ {j} :
              /\ LockedBy(k)' => LockedBy(k)
              /\ status'[k] = status[k] /\ pendingJobs'[k] = pendingJobs[k]
              /\ k \in activeJobs' <=> k \in activeJobs
              /\ client'[k] = client[k] /\ canceller'[k] = canceller[k],
           JobShape', JobInv(j)',
           LockedBy(j)' =>
              \/ client'[j] \in {"locked", "rollback"}
              \/ status'[j] \in {"PENDING", "PROCESSING"}
              \/ canceller'[j] = "unlock"
              \/ \E w \in Workers : Executing(w, j)
              \/ j \in hurt'
    PROVE  PurgeInv'
  <1>1. WorkerShape'
    BY DEF PurgeInv, WorkerShape
  <1>2. ASSUME NEW k \in Jobs \ {j} PROVE JobInv(k)'
    BY <1>2, SMTT(30) DEF PurgeInv, JobInv, Unborn, Waiting, Taken, Ending, Executing
  <1>3. LockHasOwner'
    BY DEF PurgeInv, LockHasOwner, Executing
  <1> QED
    BY <1>1, <1>2, <1>3 DEF PurgeInv

LEMMA EnqueueKeeps ==
    ASSUME PurgeInv, NEW j \in Jobs, Enqueue(j)
    PROVE  PurgeInv'
  <1>1. JobShape'
    BY DEF PurgeInv, JobShape, Enqueue, jobVars
  <1>2. JobInv(j)'
    BY SMTT(30) DEF PurgeInv, JobShape, JobInv, Unborn, Waiting, Taken, Ending,
           Executing, Enqueue, jobVars
  <1>3. \A k \in Jobs \ {j} : ~LockedBy(k)'
    BY DEF Enqueue, AcquireLock, LockedBy
  <1> QED
    BY <1>1, <1>2, <1>3, OthersKeep DEF PurgeInv, JobShape, Enqueue, jobVars

LEMMA CreateKeeps ==
    ASSUME PurgeInv, NEW j \in Jobs, Create(j)
    PROVE  PurgeInv'
  <1>1. /\ status[j] = "none" /\ pendingJobs[j] = 0 /\ j \notin activeJobs
        /\ canceller[j] = "idle" /\ \A w \in Workers : ~Executing(w, j)
    BY DEF PurgeInv, JobInv, Unborn, Create
  <1>2. \A k \in Jobs : LockedBy(k)' <=> LockedBy(k)
    BY DEF Create, LockedBy, queueVars
  <1>3. CASE CreateJob(j)
    <2>1. JobShape'
      BY <1>3, SMTT(30) DEF PurgeInv, JobShape, Create, CreateJob, Statuses
    <2>2. JobInv(j)'
      BY <1>1, <1>3, SMTT(30) DEF PurgeInv, JobShape, JobInv, Unborn, Waiting, Taken,
           Ending, Executing, Create, CreateJob
    <2> QED
      BY <1>2, <1>3, <2>1, <2>2, OthersKeep
      DEF PurgeInv, JobShape, Create, CreateJob
  <1>4. CASE UNCHANGED jobVars /\ client' = [client EXCEPT ![j] = "rollback"]
    <2>1. JobShape'
      BY <1>4 DEF PurgeInv, JobShape, Create, jobVars
    <2>2. JobInv(j)'
      BY <1>1, <1>4 DEF PurgeInv, JobShape, JobInv, Unborn, Waiting, Taken,
           Ending, Executing, Create, jobVars
    <2> QED
      BY <1>2, <1>4, <2>1, <2>2, OthersKeep
      DEF PurgeInv, JobShape, Create, jobVars
  <1> QED
    BY <1>3, <1>4 DEF Create

LEMMA RollbackKeeps ==
    ASSUME PurgeInv, NEW j \in Jobs, Rollback(j)
    PROVE  PurgeInv'
  <1>1. (\A k \in Jobs : LockedBy(k)' => LockedBy(k)) /\ ~LockedBy(j)'
    BY ReleaseFacts DEF Rollback
  <1>2. JobShape'
    BY DEF PurgeInv, JobShape, Rollback, jobVars
  <1>3. JobInv(j)'
    BY <1>1, SMTT(30) DEF PurgeInv, JobShape, JobInv, Unborn, Waiting, Taken, Ending,
           Executing, Rollback, jobVars
  <1> QED
    BY <1>1, <1>2, <1>3, OthersKeep DEF PurgeInv, JobShape, Rollback, jobVars

LEMMA CancelKeeps ==
    ASSUME PurgeInv, NEW j \in Jobs, Cancel(j)
    PROVE  PurgeInv'
  <1>1. \A k \in Jobs : LockedBy(k)' <=> LockedBy(k)
    BY DEF Cancel, LockedBy, queueVars
  <1>2. JobShape'
    BY DEF PurgeInv, JobShape, Cancel, CancelJob, Statuses, Terminal
  <1>3. /\ status[j] \in {"COMPLETED", "FAILED"} =>
              status'[j] = status[j] /\ canceller'[j] = "done"
        /\ status[j] \notin {"COMPLETED", "FAILED"} =>
              status'[j] = "CANCELED" /\ canceller'[j] = "unlock"
        /\ pendingJobs'[j] = 0 /\ j \notin activeJobs'
    BY DEF PurgeInv, JobShape, Cancel, CancelJob, Terminal
  <1>4. JobInv(j)'
    BY <1>3, SMTT(30) DEF PurgeInv, JobShape, JobInv, Unborn, Waiting, Taken, Ending,
           Executing, Cancel
  <1>5. LockedBy(j) /\ status[j] \in {"COMPLETED", "FAILED"} =>
          \/ client[j] \in {"locked", "rollback"}
          \/ \E w \in Workers : Executing(w, j)
          \/ j \in hurt
    BY DEF PurgeInv, LockHasOwner, Cancel
  <1> QED
    BY <1>1, <1>2, <1>3, <1>4, <1>5, OthersKeep
    DEF PurgeInv, JobShape, Cancel, CancelJob

LEMMA CancelUnlockKeeps ==
    ASSUME PurgeInv, NEW j \in Jobs, CancelUnlock(j)
    PROVE  PurgeInv'
  <1>1. (\A k \in Jobs : LockedBy(k)' => LockedBy(k)) /\ ~LockedBy(j)'
    BY ReleaseFacts DEF CancelUnlock
  <1>2. JobShape'
    BY DEF PurgeInv, JobShape, CancelUnlock, jobVars
  <1>3. JobInv(j)'
    BY <1>1, SMTT(30) DEF PurgeInv, JobShape, JobInv, Unborn, Waiting, Taken, Ending,
           Executing, CancelUnlock, jobVars
  <1> QED
    BY <1>1, <1>2, <1>3, OthersKeep
    DEF PurgeInv, JobShape, CancelUnlock, jobVars

LEMMA CallerDiesKeeps ==
    ASSUME PurgeInv, NEW j \in Jobs, CallerDies(j)
    PROVE  PurgeInv'
  <1>1. \A k \in Jobs : LockedBy(k)' <=> LockedBy(k)
    BY DEF CallerDies, LockedBy, queueVars
  <1>2. JobShape'
    BY DEF PurgeInv, JobShape, CallerDies, jobVars
  <1>3. JobInv(j)'
    BY SMTT(30) DEF PurgeInv, JobShape, JobInv, Unborn, Waiting, Taken, Ending,
           Executing, CallerDies, jobVars
  <1> QED
    BY <1>1, <1>2, <1>3, OthersKeep
    DEF PurgeInv, JobShape, CallerDies, jobVars

-----------------------------------------------------------------------------
(* The purge worker.                                                       *)

(* A worker writes the record of its own job and keeps the job.            *)
LEMMA WorkerWrites ==
    ASSUME PurgeInv, NoNewLock, UNCHANGED <<pendingJobs, client, canceller>>,
           NEW w \in Workers, NEW j \in Jobs, worker[w].job = j,
           NEW p, Step(w, p), p # "idle",
           \A k \in Jobs \ {j} : /\ status'[k] = status[k]
                                 /\ k \in activeJobs' <=> k \in activeJobs,
           JobShape', status'[j] # "none",
           status'[j] = "PENDING" => j \in activeJobs',
           status'[j] = "CANCELED" => status[j] = "CANCELED",
           status'[j] \in {"COMPLETED", "FAILED"} => p = "unlock",
           status[j] \in {"COMPLETED", "FAILED"} => status'[j] = status[j]
    PROVE  PurgeInv'
  <1>1. \A v \in Workers, k \in Jobs : Executing(v, k)' <=> Executing(v, k)
    BY DEF Executing, Step
  <1>2. WorkerShape'
    BY DEF Step
  <1>3. Executing(w, j) /\ pendingJobs[j] = 0
    <2>1. Executing(w, j)
      BY DEF Executing
    <2>2. pendingJobs[j] \in Nat /\ pendingJobs[j] <= 1 /\ pendingJobs[j] # 1
      BY <2>1 DEF PurgeInv, JobShape, JobInv, Waiting
    <2> QED
      BY <2>1, <2>2, SMTT(30)
  <1>4. JobInv(j)'
    <2>1. status[j] # "none"
      BY <1>3 DEF PurgeInv, JobInv, Unborn
    <2>2. Unborn(j)' /\ Waiting(j)' /\ Ending(j)'
      BY <1>3, <2>1 DEF PurgeInv, JobInv, Unborn, Waiting, Ending, NoNewLock
    <2>3. \A v \in Workers : Executing(v, j) => v = w
      BY <1>3 DEF PurgeInv, JobInv, Taken
    <2>4. Taken(j)'
      BY <1>1, <2>3 DEF Taken, Step
    <2> QED
      BY <2>2, <2>4 DEF JobInv
  <1>5. ASSUME NEW k \in Jobs \ {j} PROVE JobInv(k)'
    <2>1. Unborn(k)' /\ Waiting(k)' /\ Ending(k)'
      BY <1>1, <1>5, SMTT(30) DEF PurgeInv, JobInv, Unborn, Waiting, Ending, NoNewLock
    <2>2. \A v \in Workers : Executing(v, k) => v # w
      BY <1>5 DEF Executing
    <2>3. Taken(k)'
      BY <1>1, <1>5, <2>2, SMTT(30) DEF PurgeInv, JobInv, Taken, Step
    <2> QED
      BY <2>1, <2>3 DEF JobInv
  <1>6. LockHasOwner'
    BY <1>1, <1>3 DEF PurgeInv, LockHasOwner, NoNewLock
  <1> QED
    BY <1>2, <1>4, <1>5, <1>6 DEF PurgeInv

LEMMA StartKeeps ==
    ASSUME PurgeInv, NEW w \in Workers, Start(w)
    PROVE  PurgeInv'
  <1> DEFINE j == worker[w].job
  <1>1. j \in Jobs /\ worker[w].pc = "start" /\ "start" \in DOMAIN AfterError
    BY AtWork DEF Start, PurgeInv, AfterError
  <1>2. AfterError["start"] = "fail" /\ {"fetch", "fail"} \subseteq Points \ {"new", "down"}
    BY DEF AfterError, Points
  <1>3. PICK p \in {"fetch", "fail"} : Step(w, p)
    BY <1>1, <1>2, RepliedSteps DEF Start, PurgeInv
  <1>4. NoNewLock
    BY <1>1, <1>2, RepliedSteps DEF Start, PurgeInv, NoNewLock, LockedBy, queueVars
  <1>5. status[j] \notin {"none", "COMPLETED", "FAILED"}
        /\ (status[j] = "PENDING" => j \in activeJobs)
    BY <1>1 DEF PurgeInv, JobInv, Unborn, Taken, Waiting, Executing
  <1>6. JobShape'
    BY <1>1 DEF Start, StartJob, PurgeInv, JobShape, jobVars, appVars, Statuses
  <1>7. UNCHANGED <<pendingJobs, activeJobs, client, canceller>>
        /\ (\A k \in Jobs \ {j} : status'[k] = status[k])
        /\ (status'[j] = IF status[j] = "PENDING" THEN "PROCESSING" ELSE status[j])
    BY <1>1, <1>5 DEF Start, StartJob, PurgeInv, JobShape, jobVars, appVars
  <1> HIDE DEF j
  <1> QED
    BY <1>1, <1>3, <1>4, <1>5, <1>6, <1>7, WorkerWrites DEF j

LEMMA SaveProgressKeeps ==
    ASSUME PurgeInv, NEW w \in Workers, SaveProgress(w)
    PROVE  PurgeInv'
  <1> DEFINE j == worker[w].job
  <1>1. j \in Jobs /\ worker[w].pc = "save" /\ "save" \in DOMAIN AfterError
    BY AtWork DEF SaveProgress, PurgeInv, AfterError
  <1>2. AfterError["save"] = "fetch" /\ "fetch" \in Points \ {"new", "down"}
    BY DEF AfterError, Points
  <1>3. Step(w, "fetch")
    BY <1>1, <1>2, RepliedSteps DEF SaveProgress, PurgeInv
  <1>4. NoNewLock
    BY <1>1, <1>2, RepliedSteps
    DEF SaveProgress, PurgeInv, NoNewLock, LockedBy, queueVars
  <1>5. status[j] \notin {"none", "COMPLETED", "FAILED"}
    BY <1>1 DEF PurgeInv, JobInv, Unborn, Taken, Executing
  <1>6. JobShape'
    BY <1>1 DEF SaveProgress, PurgeInv, JobShape, appVars, Statuses
  <1>7. UNCHANGED <<pendingJobs, activeJobs, client, canceller>>
        /\ (\A k \in Jobs \ {j} : status'[k] = status[k])
        /\ status'[j] = "PROCESSING"
    BY <1>1 DEF SaveProgress, PurgeInv, JobShape, appVars
  <1> HIDE DEF j
  <1> QED
    BY <1>1, <1>3, <1>4, <1>5, <1>6, <1>7, WorkerWrites DEF j

LEMMA EndKeeps ==
    ASSUME PurgeInv, NEW w \in Workers, End(w)
    PROVE  PurgeInv'
  <1> DEFINE j == worker[w].job
  <1>1. j \in Jobs /\ worker[w].pc \in {"complete", "fail"}
        /\ {"complete", "fail"} \subseteq DOMAIN AfterError
    BY AtWork DEF End, PurgeInv, AfterError
  <1>2. AfterError["complete"] = "unlock" /\ AfterError["fail"] = "unlock"
        /\ "unlock" \in Points \ {"new", "down"}
    BY DEF AfterError, Points
  <1>3. Step(w, "unlock")
    BY <1>1, <1>2, RepliedSteps DEF End, PurgeInv
  <1>4. NoNewLock
    BY <1>1, <1>2, RepliedSteps DEF End, PurgeInv, NoNewLock, LockedBy, queueVars
  <1>5. status[j] \notin {"none", "COMPLETED", "FAILED"}
        /\ (status[j] = "PENDING" => j \in activeJobs)
    BY <1>1 DEF PurgeInv, JobInv, Unborn, Taken, Waiting, Executing
  <1>6. PICK s \in {"COMPLETED", "FAILED"} : EndJob(j, s)
    BY DEF End
  <1>7. JobShape'
    BY <1>1, <1>6 DEF End, EndJob, PurgeInv, JobShape, jobVars, appVars,
                      Statuses, Terminal
  <1>8. UNCHANGED <<pendingJobs, client, canceller>>
        /\ (\A k \in Jobs \ {j} : /\ status'[k] = status[k]
                                  /\ k \in activeJobs' <=> k \in activeJobs)
    BY <1>1, <1>6 DEF End, EndJob, PurgeInv, JobShape, jobVars, appVars
  <1>9. /\ status[j] = "PROCESSING" => status'[j] = s
        /\ status[j] # "PROCESSING" => status'[j] = status[j]
        /\ status[j] = "PENDING" => activeJobs' = activeJobs
    BY <1>1, <1>6 DEF EndJob, PurgeInv, JobShape, jobVars, Terminal
  <1> HIDE DEF j
  <1> QED
    BY <1>1, <1>3, <1>4, <1>5, <1>7, <1>8, <1>9, WorkerWrites DEF j

(* The job leaves the pending list for the hands of one idle worker.       *)
LEMMA AcquireKeeps ==
    ASSUME PurgeInv, NEW w \in Workers, NEW j \in Jobs, Acquire(w, j)
    PROVE  PurgeInv'
  <1>1. pendingJobs[j] = 1 /\ status[j] = "PENDING" /\ j \notin activeJobs
        /\ (\A v \in Workers : ~Executing(v, j))
    BY SMTT(30) DEF PurgeInv, JobShape, JobInv, Waiting, Acquire
  <1>2. /\ worker'[w] = At("get", j, <<>>)
        /\ \A v \in Workers \ {w} : worker'[v] = worker[v]
        /\ worker' = [v \in Workers |-> worker'[v]]
    BY DEF PurgeInv, WorkerShape, Acquire
  <1>3. WorkerShape'
    BY <1>2, PurgeAssumption, SMTT(30) DEF PurgeInv, WorkerShape, At, Points, AfterError
  <1>4. JobShape' /\ pendingJobs'[j] = 0 /\ activeJobs' = activeJobs \cup {j}
        /\ (\A k \in Jobs \ {j} : pendingJobs'[k] = pendingJobs[k])
        /\ UNCHANGED <<status, client, canceller, hurt>>
    BY <1>1, SMTT(30) DEF PurgeInv, JobShape, Acquire, appVars
  <1>5. \A k \in Jobs : LockedBy(k)' <=> LockedBy(k)
    BY DEF Acquire, LockedBy, queueVars
  <1>6. worker[w].job = NoJob
    BY DEF Acquire, PurgeInv, WorkerShape
  <1>7. \A v \in Workers, k \in Jobs :
            Executing(v, k)' <=> Executing(v, k) \/ (v = w /\ k = j)
    BY <1>2, <1>6, PurgeAssumption, SMTT(30) DEF Executing, At
  <1>8. JobInv(j)'
    BY <1>1, <1>4, <1>5, <1>7, SMTT(30)
    DEF PurgeInv, JobInv, Unborn, Waiting, Taken, Ending
  <1>9. ASSUME NEW k \in Jobs \ {j} PROVE JobInv(k)'
    <2>1. Unborn(k)' /\ Waiting(k)' /\ Ending(k)'
      BY <1>4, <1>5, <1>7, <1>9 DEF PurgeInv, JobInv, Unborn, Waiting, Ending
    <2>2. \A v \in Workers : Executing(v, k) => v # w
      BY <1>6, <1>9, PurgeAssumption DEF Executing
    <2>3. Taken(k)'
      BY <1>2, <1>4, <1>7, <1>9, <2>2 DEF PurgeInv, JobInv, Taken
    <2> QED
      BY <2>1, <2>3 DEF JobInv
  <1>10. LockHasOwner'
    BY <1>4, <1>5, <1>7 DEF PurgeInv, LockHasOwner
  <1> QED
    BY <1>3, <1>4, <1>8, <1>9, <1>10 DEF PurgeInv

(* recoverStuckJobs finds nothing, so that a start changes no job.         *)
LEMMA NothingStuck ==
    ASSUME JobShape, RecoverJobs(StuckJobs)
    PROVE  UNCHANGED <<status, pendingJobs, activeJobs>>
  BY DEF JobShape, RecoverJobs, StuckJobs

\* Worker w comes to a point where it has no job.
Resting(w) ==
    /\ \A v \in Workers \ {w} : worker'[v] = worker[v]
    /\ worker'[w].job = NoJob
    /\ WorkerShape'

(* Starting and stopping a worker: a job is given up only if it is marked  *)
(* as hurt.                                                                *)
LEMMA WorkerRests ==
    ASSUME PurgeInv, NoNewLock, UNCHANGED <<status, pendingJobs, activeJobs>>,
           UNCHANGED <<client, canceller>>, NEW w \in Workers, Resting(w),
           worker[w].job = NoJob \/ worker[w].job \in hurt'
    PROVE  PurgeInv'
  <1>1. \A v \in Workers, k \in Jobs :
            Executing(v, k)' => Executing(v, k) /\ worker'[v] = worker[v]
    BY PurgeAssumption DEF Executing, Resting
  <1>2. \A v \in Workers, k \in Jobs :
            Executing(v, k) => Executing(v, k)' \/ k \in hurt'
    BY PurgeAssumption DEF Executing, Resting
  <1>3. JobShape'
    BY DEF PurgeInv, JobShape
  <1>4. ASSUME NEW k \in Jobs PROVE JobInv(k)'
    <2>1. Unborn(k)' /\ Waiting(k)' /\ Ending(k)'
      BY <1>1 DEF PurgeInv, JobInv, Unborn, Waiting, Ending, NoNewLock
    <2>2. Taken(k)'
      BY <1>1 DEF PurgeInv, JobInv, Taken
    <2> QED
      BY <2>1, <2>2 DEF JobInv
  <1>5. LockHasOwner'
    BY <1>2 DEF PurgeInv, LockHasOwner, NoNewLock
  <1> QED
    BY <1>3, <1>4, <1>5 DEF PurgeInv, Resting

LEMMA StartStopKeeps ==
    ASSUME PurgeInv, NEW w \in Workers, StartWorker(w) \/ StopWorker(w)
    PROVE  PurgeInv'
  <1>1. CASE StartWorker(w)
    <2>1. Resting(w) /\ worker[w].job = NoJob
      BY <1>1 DEF PurgeInv, WorkerShape, StartWorker, Resting, Idle, At, Points
    <2>2. UNCHANGED <<status, pendingJobs, activeJobs, client, canceller>>
      BY <1>1, NothingStuck DEF StartWorker, PurgeInv, appVars
    <2>3. NoNewLock
      BY <1>1 DEF StartWorker, NoNewLock, LockedBy, queueVars
    <2> QED
      BY <2>1, <2>2, <2>3, WorkerRests
  <1>2. CASE StopWorker(w)
    <2>1. Resting(w)
      BY <1>2 DEF PurgeInv, WorkerShape, StopWorker, Resting, Down, At, Points
    <2>2. UNCHANGED <<status, pendingJobs, activeJobs, client, canceller>>
      BY <1>2 DEF StopWorker, jobVars, appVars
    <2>3. NoNewLock /\ (worker[w].job = NoJob \/ worker[w].job \in hurt')
      BY <1>2 DEF StopWorker, NoNewLock, LockedBy, queueVars
    <2> QED
      BY <2>1, <2>2, <2>3, WorkerRests
  <1> QED
    BY <1>1, <1>2

(* The request is lost: the worker goes where an error leads it.           *)
LEMMA CallFailsKeeps ==
    ASSUME PurgeInv, NEW w \in Workers, CallFails(w)
    PROVE  PurgeInv'
  <1> DEFINE j == worker[w].job
             p == AfterError[worker[w].pc]
  <1>1. j \in Jobs /\ Step(w, p) /\ j \in hurt'
    BY AtWork, MovedSteps, ErrorsLead DEF CallFails, Faulted, PurgeInv
  <1>2. NoNewLock
    BY DEF CallFails, Faulted, NoNewLock, LockedBy, queueVars
  <1>3. UNCHANGED <<status, pendingJobs, activeJobs, client, canceller>>
    BY DEF CallFails, jobVars, appVars
  <1>4. status[j] \in {"COMPLETED", "FAILED"} => p = "idle"
    BY <1>1, ErrorsLead DEF CallFails, PurgeInv, JobInv, Taken, Executing
  <1> HIDE DEF j, p
  <1> QED
    BY <1>1, <1>2, <1>3, <1>4, WorkerGoesOn DEF j

(* The steps of execute that write no job record, up to the unlock.        *)
LEMMA QuietStepsKeep ==
    ASSUME PurgeInv, NEW w \in Workers,
           \/ Get(w) \/ FetchBatch(w) \/ DeleteMessages(w) \/ TrimCategory(w)
           \/ FinalCheck(w)
    PROVE  PurgeInv'
  <1> DEFINE j == worker[w].job
  <1>1. worker[w].pc \in {"get", "fetch", "delete", "trim", "final"}
    BY DEF Get, FetchBatch, DeleteMessages, TrimCategory, FinalCheck
  <1>2. worker[w].pc \in DOMAIN AfterError
    BY <1>1 DEF AfterError
  <1>3. j \in Jobs /\ status[j] \notin {"COMPLETED", "FAILED"}
    BY <1>1, <1>2, AtWork DEF PurgeInv, JobInv, Taken, Executing
  <1>4. UNCHANGED <<status, pendingJobs, activeJobs, client, canceller>>
        /\ UNCHANGED queueVars
    BY DEF Get, FetchBatch, DeleteMessages, TrimCategory, FinalCheck, jobVars,
           appVars
  <1>5. /\ {"start", "final", "fail", "trim", "save", "complete", "idle",
            "delete"} \subseteq Points \ {"new", "down"}
        /\ AfterError["delete"] = "fail" /\ AfterError["trim"] = "fail"
    BY DEF AfterError, Points
  <1>6. \E p : /\ Step(w, p) /\ hurt \subseteq hurt'
               /\ p = "idle" => status[j] = "CANCELED"
    <2>1. CASE Get(w)
      <3>1. Step(w, "start")
        BY <1>3, <1>5, <2>1, MovedSteps DEF Get, PurgeInv
      <3> QED
        BY <2>1, <3>1, SMTT(30) DEF Get
    <2>2. CASE FetchBatch(w) /\ Moved(w, "final")
      <3>1. Step(w, "final")
        BY <1>3, <1>5, <2>2, MovedSteps DEF PurgeInv
      <3> QED
        BY <2>2, <3>1, SMTT(30) DEF FetchBatch
    <2>3. CASE FetchBatch(w) /\ ~Moved(w, "final")
      <3>1. PICK ids : worker' = [worker EXCEPT
                                     ![w] = At("delete", worker[w].job, ids)]
        BY <2>3 DEF FetchBatch
      <3>2. worker'[w] = At("delete", j, ids)
        BY <3>1 DEF PurgeInv, WorkerShape
      <3>3. /\ \A v \in Workers \ {w} : worker'[v] = worker[v]
            /\ worker' = [v \in Workers |-> worker'[v]]
        BY <3>1 DEF PurgeInv, WorkerShape
      <3>4. Step(w, "delete")
        BY <1>3, <1>5, <3>2, <3>3, PurgeAssumption, SMTT(30)
        DEF PurgeInv, WorkerShape, Step, At
      <3> QED
        BY <2>3, <3>4, SMTT(30) DEF FetchBatch
    <2>4. CASE DeleteMessages(w) /\ Moved(w, "fail") /\ UNCHANGED hurt
      <3>1. Step(w, "fail")
        BY <1>3, <1>5, <2>4, MovedSteps DEF PurgeInv
      <3> QED
        BY <2>4, <3>1, SMTT(30)
    <2>5. CASE DeleteMessages(w) /\ Replied(w, "trim")
      <3>1. \/ Step(w, "trim") /\ hurt' = hurt
            \/ Step(w, "fail") /\ hurt' = hurt \cup {j}
        BY <1>2, <1>5, <2>5, RepliedSteps DEF PurgeInv, DeleteMessages
      <3> QED
        BY <3>1, SMTT(30)
    <2>6. CASE TrimCategory(w)
      <3>1. \/ Step(w, "save") /\ hurt' = hurt
            \/ Step(w, "fail") /\ hurt' = hurt \cup {j}
        BY <1>2, <1>5, <2>6, RepliedSteps DEF PurgeInv, TrimCategory
      <3> QED
        BY <3>1, SMTT(30)
    <2>7. CASE FinalCheck(w)
      <3>1. CASE status[j] = "CANCELED"
        <4>1. Step(w, "idle")
          BY <1>3, <1>5, <2>7, <3>1, MovedSteps DEF PurgeInv, FinalCheck
        <4> QED
          BY <2>7, <3>1, <4>1 DEF FinalCheck
      <3>2. CASE status[j] # "CANCELED"
        <4>1. Step(w, "complete")
          BY <1>3, <1>5, <2>7, <3>2, MovedSteps DEF PurgeInv, FinalCheck
        <4> QED
          BY <2>7, <4>1, SMTT(30) DEF FinalCheck
      <3> QED
        BY <3>1, <3>2
    <2>8. DeleteMessages(w) => (Moved(w, "fail") /\ UNCHANGED hurt)
                               \/ Replied(w, "trim")
      BY DEF DeleteMessages
    <2> QED
      BY <2>1, <2>2, <2>3, <2>4, <2>5, <2>6, <2>7, <2>8
  <1>7. NoNewLock
    BY <1>4, <1>6 DEF NoNewLock, LockedBy, queueVars
  <1> HIDE DEF j
  <1> QED
    BY <1>3, <1>4, <1>6, <1>7, WorkerGoesOn DEF j

LEMMA UnlockKeeps ==
    ASSUME PurgeInv, NEW w \in Workers, Unlock(w)
    PROVE  PurgeInv'
  <1>0. worker[w].pc = "unlock" /\ "unlock" \in DOMAIN AfterError
    BY DEF Unlock, AfterError
  <1>1. PICK j \in Jobs : worker[w].job = j
    BY <1>0, AtWork DEF PurgeInv
  <1>2. AfterError["unlock"] = "idle" /\ "idle" \in Points \ {"new", "down"}
    BY DEF AfterError, Points
  <1>3. Step(w, "idle") /\ hurt \subseteq hurt'
    BY <1>0, <1>2, RepliedSteps DEF Unlock, PurgeInv
  <1>4. NoNewLock /\ ~LockedBy(j)'
    BY <1>1, <1>3, ReleaseFacts DEF Unlock, NoNewLock
  <1>5. UNCHANGED <<status, pendingJobs, activeJobs, client, canceller>>
    BY DEF Unlock, jobVars, appVars
  <1> QED
    BY <1>1, <1>3, <1>4, <1>5, WorkerGoesOn

-----------------------------------------------------------------------------
(* The steps that concern neither jobs nor workers.                        *)
LEMMA BackgroundKeeps ==
    ASSUME PurgeInv,
           \/ \E s \in {"ACTIVE", "PAUSED", "STOPPED"} : TransitionTo(s)
           \/ \E w \in Workers : Beat(w) \/ Expire(w)
           \/ HandlerStops \/ HandlerStarts \/ RecoverLock \/ RecoverUnlock
           \/ (\E m \in Messages : Publish(m)) \/ Pop
           \/ UNCHANGED vars
    PROVE  PurgeInv'
  <1>1. UNCHANGED <<status, pendingJobs, activeJobs>>
        /\ UNCHANGED <<worker, client, canceller, hurt>>
    BY DEF TransitionTo, Beat, Expire, HandlerStops, HandlerStarts,
           RecoverLock, RecoverUnlock, Publish, Pop, vars, jobVars, appVars
  <1>2. \A j \in Jobs : LockedBy(j)' => LockedBy(j)
    <2>1. CASE \E s \in {"ACTIVE", "PAUSED", "STOPPED"} : TransitionTo(s)
      BY <2>1 DEF TransitionTo, LockedBy
    <2>2. CASE RecoverUnlock
      BY <2>2, ReleaseFacts DEF RecoverUnlock
    <2>3. CASE UNCHANGED queueVars
      BY <2>3 DEF queueVars, LockedBy
    <2> QED
      BY <2>1, <2>2, <2>3 DEF Beat, Expire, HandlerStops, HandlerStarts,
         RecoverLock, Publish, Pop, vars
  <1> QED
    BY <1>1, <1>2, Frame DEF NoNewLock

LEMMA InitPurge == Init => PurgeInv
  <1> SUFFICES ASSUME Init PROVE PurgeInv
    OBVIOUS
  <1>1. WorkerShape /\ JobShape
    BY DEF Init, WorkerShape, JobShape, At, Points, Statuses
  <1>2. \A j \in Jobs : JobInv(j)
    BY PurgeAssumption, SMTT(30) DEF Init, JobInv, Unborn, Waiting, Taken, Ending,
       Executing, LockedBy, At
  <1>3. LockHasOwner
    BY DEF Init, LockHasOwner, LockedBy
  <1> QED
    BY <1>1, <1>2, <1>3 DEF PurgeInv

LEMMA NextPurge == PurgeInv /\ [Next]_vars => PurgeInv'
  BY EnqueueKeeps, CreateKeeps, RollbackKeeps, CancelKeeps, CancelUnlockKeeps,
     CallerDiesKeeps, StartStopKeeps, CallFailsKeeps, AcquireKeeps, StartKeeps,
     QuietStepsKeep, SaveProgressKeeps, EndKeeps, UnlockKeeps, BackgroundKeeps
  DEF Next, Execute

(* The inductive invariant of the purge jobs.                              *)
THEOREM PurgeInvariant == Spec => []PurgeInv
  BY InitPurge, NextPurge, PTL DEF Spec

(* However many workers start, stop and lose replies, BRPOPLPUSH and the   *)
(* job scripts give a job to one of them at most.                          *)
THEOREM JobHasOneExecutor == Spec => []OneExecutor
  <1>1. PurgeInv => OneExecutor
    BY DEF PurgeInv, JobInv, Taken, OneExecutor
  <1> QED
    BY <1>1, PurgeInvariant, PTL

(* create-job, cancel-job, BRPOPLPUSH and the ends of a job keep the       *)
(* record of a job and the two lists in step.                              *)
THEOREM JobsStayAccounted == Spec => []JobsAccounted
  <1>1. PurgeInv => JobsAccounted
    BY DEF PurgeInv, JobInv, Waiting, JobsAccounted
  <1> QED
    BY <1>1, PurgeInvariant, PTL

(* Every way Enqueue, Cancel and execute end without an error gives the    *)
(* lock of the queue back.                                                 *)
THEOREM LockKeepsOwner == Spec => []LockHasOwner
  <1>1. PurgeInv => LockHasOwner
    BY DEF PurgeInv
  <1> QED
    BY <1>1, PurgeInvariant, PTL

(* No unlock, however late, takes the lock of another job.                 *)
THEOREM LocksStayApart == Spec => OnlyItsOwnLock
  <1> DEFINE Own == \A j \in Jobs :
         LockedBy(j) /\ lock' # j =>
             \/ client[j] = "rollback"
             \/ canceller[j] = "unlock"
             \/ recovering = j
             \/ \E w \in Workers : Executing(w, j) /\ worker[w].pc = "unlock"
  <1>1. ASSUME Next PROVE Own
    <2>1. CASE \E k \in Jobs : Rollback(k)
      BY <2>1, ReleaseFacts DEF Rollback
    <2>2. CASE \E k \in Jobs : CancelUnlock(k)
      BY <2>2, ReleaseFacts DEF CancelUnlock
    <2>3. CASE \E w \in Workers : Unlock(w)
      BY <2>3, ReleaseFacts DEF Unlock, Executing
    <2>4. CASE RecoverUnlock
      BY <2>4, ReleaseFacts DEF RecoverUnlock
    <2>5. CASE \E k \in Jobs : Enqueue(k)
      BY <2>5, SMTT(30) DEF Enqueue, AcquireLock, AllowedTransitions, LockedBy
    <2>6. CASE UNCHANGED lock
      BY <2>6 DEF LockedBy
    <2> QED
      BY <1>1, <2>1, <2>2, <2>3, <2>4, <2>5, <2>6
      DEF Next, Execute, TransitionTo, Create, Cancel, CallerDies,
          StartWorker, StopWorker, Beat, Expire, CallFails, Acquire, Get,
          Start, FetchBatch, DeleteMessages, TrimCategory, SaveProgress,
          FinalCheck, End, HandlerStops, HandlerStarts, RecoverLock, Publish,
          Pop, queueVars
  <1>2. [Next]_vars => [Own]_vars
    BY <1>1
  <1> QED
    BY <1>2, PTL DEF Spec, OnlyItsOwnLock
=============================================================================
