---------------------------- MODULE WorkerLock ----------------------------
(***************************************************************************)
(* The lock of a queue that lets one consumer run the background workers   *)
(* of the queue (internal/util/lock, acquireWorkerLock).  A Lock object    *)
(* belongs to a message handler, but the owner written to Redis is the id  *)
(* of the consumer: all handlers that a consumer ever has on a queue own   *)
(* the same key.  The refresher extends the TTL every 10 s of 30 s, so the *)
(* key expires under a holder only if the process or the connection is     *)
(* stuck for that long, or if a release failed: these are the faults.      *)
(***************************************************************************)
EXTENDS Integers, FiniteSets

CONSTANT
    MaxInstances    \* bound on the message handlers alive at a time

Instances == 1..MaxInstances

ASSUME WorkerLockAssumption == MaxInstances \in Nat

VARIABLES
    lockOwner,      \* value of the key: "none", "self" or "rival"
    lk,             \* the Lock object of each handler and its goroutine: "off"
                    \* (not acquired, none), "trying" (in Acquire) or "held"
                    \* (the workers run as long as the handler's context)
    rivalWorks,     \* another consumer runs the workers
    faults          \* how often the key expired under a holder or a release
                    \* failed

lockVars == <<lockOwner, lk, rivalWorks, faults>>

LockInit ==
    /\ lockOwner = "none"
    /\ lk = [i \in Instances |-> "off"]
    /\ rivalWorks = FALSE
    /\ faults = 0

Acquired(i) == lk[i] = "held"

(* Mutant of TryAcquire: SET without NX. *)
TryAcquireBlind(i) ==
    /\ lk[i] = "trying"
    /\ lockOwner' = "self"
    /\ lk' = [lk EXCEPT ![i] = "held"]
    /\ UNCHANGED <<rivalWorks, faults>>

(* A successful SET NX in the retry loop of Acquire. *)
TryAcquire(i) ==
    /\ lk[i] = "trying"
    /\ lockOwner = "none"
    /\ lockOwner' = "self"
    /\ lk' = [lk EXCEPT ![i] = "held"]
    /\ UNCHANGED <<rivalWorks, faults>>

(* The key after the handlers S released their locks: release-lock.lua
   deletes it if the owner matches, whichever handler acquired it. *)
OwnerAfterRelease(S) ==
    IF lockOwner = "self" /\ \E i \in S : Acquired(i) THEN "none" ELSE lockOwner

(* Release for the handlers S; Acquire gives up, its context is done.  The
   script may fail: the key stays until it expires. *)
Release(S, mayFail) ==
    /\ lk' = [i \in Instances |-> IF i \in S THEN "off" ELSE lk[i]]
    /\ \/ lockOwner' = OwnerAfterRelease(S) /\ UNCHANGED faults
       \/ /\ OwnerAfterRelease(S) # lockOwner
          /\ mayFail
          /\ faults' = faults + 1
          /\ UNCHANGED lockOwner
    /\ UNCHANGED rivalWorks

(* The key expires under a holder that could not extend it. *)
Lapse ==
    /\ lockOwner # "none"
    /\ lockOwner' = "none"
    /\ faults' = faults + 1
    /\ UNCHANGED <<lk, rivalWorks>>

(* It expires because nobody extends it any more. *)
Expire ==
    /\ lockOwner = "self"
    /\ \A i \in Instances : ~Acquired(i)
    /\ lockOwner' = "none"
    /\ UNCHANGED <<lk, rivalWorks, faults>>

(* The other consumer, which does the same with its own id. *)
RivalAcquire ==
    /\ ~rivalWorks
    /\ lockOwner = "none"
    /\ lockOwner' = "rival"
    /\ rivalWorks' = TRUE
    /\ UNCHANGED <<lk, faults>>

RivalRelease ==
    /\ rivalWorks
    /\ rivalWorks' = FALSE
    /\ lockOwner' = IF lockOwner = "rival" THEN "none" ELSE lockOwner
    /\ UNCHANGED <<lk, faults>>
===========================================================================
