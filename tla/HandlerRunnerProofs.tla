------------------------ MODULE HandlerRunnerProofs ------------------------
(***************************************************************************)
(* The safety properties of the handlers of a consumer and of the worker   *)
(* lock, for any keys and any number of handlers, runs, calls, changes of  *)
(* the queue state and faults of the lock.                                 *)
(***************************************************************************)
EXTENDS HandlerRunner, TLAPS

USE ZenonT(30)

(* Run and the reconcile loops, which choose a handler, start it and append *)
(* it to the list in separate steps.                                        *)
Agents == 0..MaxRuns
Agent(a) == IF a = 0 THEN boot ELSE rec[a]

-----------------------------------------------------------------------------
(* The handlers, the list and the agents.                                  *)

HandlerShape ==
    /\ inst = [i \in Instances |-> [key |-> inst[i].key, phase |-> inst[i].phase]]
    /\ \A i \in Instances : inst[i].phase # "free" => inst[i].key \in Keys
    /\ lk \in [Instances -> {"off", "trying", "held"}]
    /\ instances \in Seq(Instances)

AgentShape ==
    /\ boot = [pc |-> boot.pc, todo |-> boot.todo, key |-> boot.key, id |-> boot.id]
    /\ rec = [j \in Reconcilers |-> [pc |-> rec[j].pc, todo |-> rec[j].todo,
                                     key |-> rec[j].key, id |-> rec[j].id]]
    /\ \A a \in Agents : Agent(a).todo \subseteq Keys
    /\ configs \subseteq Keys /\ starts \subseteq Keys
    /\ runs \in Nat

\* What an agent is about to do.
Plans(a) ==
    /\ Agent(a).pc \in {"idle", "off"} => Agent(a).todo = {}
    /\ Agent(a).pc = "start" => Agent(a).key \in Agent(a).todo
    /\ Agent(a).pc = "append" =>
          /\ Agent(a).id \in Instances /\ ~Listed(Agent(a).id)
          /\ Agent(a).key \in Keys \ Agent(a).todo
          /\ inst[Agent(a).id].phase # "free"
          /\ inst[Agent(a).id].key = Agent(a).key

\* Run is called when the consumer is down, and starts a new reconcile loop.
Flow ==
    /\ boot.pc = "idle" <=> consumer # "starting"
    /\ \A j \in Reconcilers :
          runs < j \/ (runs = j /\ consumer = "starting") => rec[j].pc = "off"

\* A handler is listed once, and by one of those that know of it.
Lists ==
    /\ \A m, n \in 1..Len(instances) : instances[m] = instances[n] => m = n
    /\ \A n \in 1..Len(instances) : inst[instances[n]].phase # "free"
    /\ \A a, b \in Agents :
          /\ Agent(a).pc = "append" /\ Agent(b).pc = "append"
          /\ Agent(a).id = Agent(b).id
          => a = b

CoreInv ==
    /\ HandlerShape /\ AgentShape /\ Flow /\ Lists
    /\ \A a \in Agents : Plans(a)
    /\ LoopsReachable

-----------------------------------------------------------------------------
(* The worker lock.                                                        *)

LockInv ==
    /\ faults \in Nat
    /\ \A i \in Instances : lk[i] = "held" => inst[i].phase \in {"live", "cut"}
    /\ faults = 0 =>
          /\ \A i, j \in Instances : lk[i] = "held" /\ lk[j] = "held" => i = j
          /\ \A i \in Instances : lk[i] = "held" => lockOwner = "self"
          /\ rivalWorks => lockOwner = "rival"

\* A handler that lost its context had not been appended yet.
CutInv == \A i \in Instances : inst[i].phase = "cut" => inst[i].key \in overlap

-----------------------------------------------------------------------------
(* The handlers of one key.                                                *)

LiveOf(i, k) == inst[i].phase = "live" /\ inst[i].key = k

OneLoop(k) ==
    /\ \A i, l \in Instances : LiveOf(i, k) /\ LiveOf(l, k) => i = l
    /\ \A a \in Agents : k \in Agent(a).todo => \A i \in Instances : ~LiveOf(i, k)
    /\ \A a, b \in Agents : k \in InHand(Agent(a)) /\ k \in InHand(Agent(b)) => a = b

LoopInv == \A k \in Keys \ overlap : OneLoop(k)

ListedOnce(k) ==
    \A m, n \in 1..Len(instances) :
        inst[instances[m]].key = k /\ inst[instances[n]].key = k => m = n

\* The first instance of the key is the only one, and wanted.
Wanted(k) ==
    /\ ListedOnce(k)
    /\ \A i \in Instances : LiveOf(i, k) => k \in configs
    /\ \A a \in Agents : k \in InHand(Agent(a)) => k \in configs

WantedInv == \A k \in Keys \ (overlap \cup shadow) : Wanted(k)

\* An event or a callback that will stop the handler of k is under way.
Due(k) ==
    \/ \E n \in 1..Len(unpublished) : unpublished[n] # "ACTIVE"
    \/ \E n \in 1..Len(wire) : wire[n] # "ACTIVE"
    \/ listener.pc = "update" /\ ~listener.old /\ listener.state # "ACTIVE"
    \/ /\ listener.pc = "callback" /\ listener.state # "ACTIVE"
       /\ k \in listener.todo
    \/ tracker # qstate

EventShape ==
    /\ qstate \in OperationalStates
    /\ unpublished \in Seq(OperationalStates)
    /\ wire \in Seq(OperationalStates)
    /\ listener = [pc |-> listener.pc, state |-> listener.state,
                   todo |-> listener.todo, old |-> listener.old]

Quiet(k) == \A i \in Instances : LiveOf(i, k) /\ qstate # "ACTIVE" => Due(k)

EventInv == EventShape /\ \A k \in Keys \ (overlap \cup shadow) : Quiet(k)

-----------------------------------------------------------------------------
(* Facts about agents, lists and slots.                                    *)

LEMMA AgentFacts ==
    /\ 0 \in Agents
    /\ \A a \in Agents : a = 0 \/ a \in Reconcilers
    /\ \A j \in Reconcilers : j \in Agents /\ j # 0
    /\ Agent(0) = boot /\ Agent(0)' = boot'
    /\ \A j \in Reconcilers : Agent(j) = rec[j] /\ Agent(j)' = rec'[j]
  BY RunnerAssumption, SMTT(30) DEF Agents, Agent, Reconcilers

LEMMA Pendings ==
    \A i : Pending(i) <=> \E a \in Agents : Agent(a).pc = "append" /\ Agent(a).id = i
  BY AgentFacts DEF Pending

LEMMA Busyness ==
    \A k : k \in Busy <=> \E a \in Agents : k \in InHand(Agent(a))
  BY AgentFacts DEF Busy

(* A key that some listed handler has is found by the loops over the list;  *)
(* CoreFinds, below, shows it.                                              *)
Found ==
    \A k : \A n \in 1..Len(instances) : inst[instances[n]].key = k => FirstAt(k) # {}

LEMMA WithoutFacts ==
    ASSUME NEW S, NEW s \in Seq(S), NEW n \in 1..Len(s)
    PROVE  /\ Without(s, n) \in Seq(S)
           /\ Len(Without(s, n)) = Len(s) - 1
           /\ \A m \in 1..(Len(s) - 1) :
                 Without(s, n)[m] = IF m < n THEN s[m] ELSE s[m + 1]
  <1>1. Len(s) \in Nat /\ Len(s) - 1 \in Nat
    BY SMTT(30)
  <1>2. Without(s, n) \in [1..(Len(s) - 1) -> S]
    BY <1>1, SMTT(30) DEF Without
  <1>3. Without(s, n) \in Seq(S) /\ Len(Without(s, n)) = Len(s) - 1
    BY <1>1, <1>2, SMTT(30)
  <1> QED
    BY <1>1, <1>3 DEF Without

LEMMA AppendFacts ==
    ASSUME NEW S, NEW s \in Seq(S), NEW x \in S
    PROVE  /\ Append(s, x) \in Seq(S)
           /\ Len(Append(s, x)) = Len(s) + 1 /\ Len(s) \in Nat
           /\ \A m \in 1..Len(s) : Append(s, x)[m] = s[m]
           /\ Append(s, x)[Len(s) + 1] = x
  BY SMTT(30)

-----------------------------------------------------------------------------
(* What a step does to the handlers, the list and the agents.  Every step   *)
(* of the runner is one of these.                                           *)

Others(a) == \A b \in Agents \ {a} : Agent(b)' = Agent(b)

AgentStarts(a, k, i) ==
    /\ CanRun /\ k \in Agent(a).todo /\ Agent(a).pc # "append"
    /\ StartInstance(i, k)
    /\ Agent(a)' = [pc |-> "append", todo |-> Agent(a).todo \ {k},
                    key |-> k, id |-> i]
    /\ Others(a)
    /\ UNCHANGED <<instances, consumer, configs, overlap, shadow>>

AgentLists(a) ==
    /\ Agent(a).pc = "append"
    /\ AppendInstance(Agent(a))
    /\ Agent(a)'.pc = "next" /\ Agent(a)'.todo = Agent(a).todo
    /\ Others(a)
    /\ UNCHANGED <<inst, lockVars, consumer, configs>>

AgentChooses(a, K) ==
    /\ Agent(a).pc = "idle"
    /\ K \subseteq configs /\ (consumer = "down" \/ K = ToStart)
    /\ Agent(a)' = [pc |-> "next", todo |-> K, key |-> "none", id |-> 0]
    /\ Others(a)
    /\ Touch(K)
    /\ consumer # "down" => consumer' # "down"
    /\ UNCHANGED <<inst, instances, lockVars, configs>>

AgentTurns(a) ==
    /\ Agent(a).pc # "append" /\ Agent(a)'.pc # "append"
    /\ Agent(a)'.todo \subseteq Agent(a).todo
    /\ Agent(a)'.pc \in {"idle", "off"} => Agent(a)'.todo = {}
    /\ Agent(a)'.pc = "start" => Agent(a)'.key \in Agent(a)'.todo

HandlersStay ==
    /\ \A a \in Agents : Agent(a)' = Agent(a) \/ AgentTurns(a)
    /\ overlap \subseteq overlap' /\ configs \subseteq configs'
    /\ consumer # "down" => consumer' # "down"
    /\ \/ UNCHANGED lockVars
       \/ LockStep
       \/ \E i \in Instances : AcquireLock(i) \/ AcquireGivesUp(i)
    /\ UNCHANGED <<inst, instances, shadow>>

StartsAndLists(k, i) ==
    /\ CanRun /\ k \in configs /\ FirstAt(k) = {}
    /\ StartInstance(i, k)
    /\ instances' = Append(instances, i)
    /\ Touch({k})
    /\ UNCHANGED <<boot, rec, consumer, configs>>

StopsFirst(k) ==
    /\ StopFirst(k)
    /\ Touch({k})
    /\ \A h \in Keys \ {k} : h \in configs => h \in configs'
    /\ UNCHANGED <<boot, rec, consumer>>

StopsItself(i) ==
    /\ Live(i)
    /\ Shut({i}, FALSE)
    /\ UNCHANGED <<instances, boot, rec, consumer, configs, overlap, shadow>>

ShutsDown ==
    /\ ShutdownRunner
    /\ consumer' = "down"
    /\ boot' = boot \/ (boot' = Idle /\ boot.pc # "append")
    /\ UNCHANGED <<rec, configs>>

HandlerStep ==
    \/ \E a \in Agents, k \in Keys, i \in Instances : AgentStarts(a, k, i)
    \/ \E a \in Agents : AgentLists(a)
    \/ \E a \in Agents, K \in SUBSET Keys : AgentChooses(a, K)
    \/ HandlersStay
    \/ \E k \in Keys, i \in Instances : StartsAndLists(k, i)
    \/ \E k \in Keys : StopsFirst(k)
    \/ \E i \in Instances : StopsItself(i)
    \/ ShutsDown

LEMMA QuietIsStay ==
    ASSUME UNCHANGED <<inst, instances, lockVars, boot, rec, consumer, configs,
                       shadow>>,
           overlap \subseteq overlap'
    PROVE  HandlersStay
  BY AgentFacts DEF HandlersStay

LEMMA QueueCases ==
    ASSUME CoreInv,
           \/ \E s \in States : ChangeState(s)
           \/ RecoverOrphanedLock \/ Publish
           \/ Dispatch \/ HandleStateChange \/ CallbackDone
           \/ UNCHANGED vars
    PROVE  HandlersStay
  <1>1. /\ UNCHANGED <<inst, instances, lockVars, boot, rec, consumer, configs,
                       shadow, overlap>>
    BY DEF ChangeState, RecoverOrphanedLock, Publish, PublishState, Dispatch,
           HandleStateChange, CallbackDone, vars, consumerVars, handlerVars,
           history
  <1> QED
    BY <1>1, QuietIsStay

LEMMA StartCases ==
    ASSUME CoreInv, NEW k \in Keys, StartHandler(k), Touch({k}),
           UNCHANGED <<boot, rec, consumer, configs>>
    PROVE  HandlerStep
  <1>1. CASE k \in configs /\ FirstAt(k) = {} /\ CanRun
    <2>1. PICK i \in Instances :
             StartInstance(i, k) /\ instances' = Append(instances, i)
      BY <1>1 DEF StartHandler
    <2>2. StartsAndLists(k, i)
      BY <1>1, <2>1 DEF StartsAndLists
    <2> QED
      BY <2>2 DEF HandlerStep
  <1>2. CASE ~(k \in configs /\ FirstAt(k) = {} /\ CanRun)
    <2>1. UNCHANGED <<inst, instances, lockVars>>
      BY <1>2 DEF StartHandler
    <2>2. HandlersStay
      BY <2>1, QuietIsStay DEF Touch
    <2> QED
      BY <2>2 DEF HandlerStep
  <1> QED
    BY <1>1, <1>2

LEMMA ListenCases ==
    ASSUME CoreInv, NEW k \in Keys, Callback(k)
    PROVE  HandlerStep
  <1>1. UNCHANGED <<boot, rec, consumer, configs>> /\ Touch({k})
    BY DEF Callback, consumerVars
  <1>2. CASE listener.state = "ACTIVE"
    <2>1. StartHandler(k)
      BY <1>2 DEF Callback
    <2> QED
      BY <1>1, <2>1, StartCases
  <1>3. CASE listener.state # "ACTIVE"
    <2>1. StopFirst(k)
      BY <1>3 DEF Callback
    <2>2. StopsFirst(k)
      BY <1>1, <2>1 DEF StopsFirst
    <2> QED
      BY <2>2 DEF HandlerStep
  <1> QED
    BY <1>2, <1>3

LEMMA ApplicationCases ==
    ASSUME CoreInv, NEW k \in Keys, Consume(k) \/ ConsumeStart(k) \/ Cancel(k)
    PROVE  HandlerStep
  <1>1. CASE Consume(k)
    <2>1. CASE k \in configs
      <3>1. StopsFirst(k)
        BY <1>1, <2>1 DEF Consume, StopsFirst, consumerVars
      <3> QED
        BY <3>1 DEF HandlerStep
    <2>2. CASE k \notin configs
      <3>1. HandlersStay
        BY <1>1, <2>2, AgentFacts DEF Consume, HandlersStay, consumerVars, Touch
      <3> QED
        BY <3>1 DEF HandlerStep
    <2> QED
      BY <2>1, <2>2
  <1>2. CASE ConsumeStart(k)
    <2>1. UNCHANGED <<boot, rec, consumer, configs>>
      BY <1>2 DEF ConsumeStart, consumerVars
    <2>2. CASE consumer = "up"
      <3>1. StartHandler(k) /\ Touch({k})
        BY <1>2, <2>2 DEF ConsumeStart
      <3> QED
        BY <2>1, <3>1, StartCases
    <2>3. CASE consumer # "up"
      <3>1. HandlersStay
        BY <1>2, <2>1, <2>3, QuietIsStay DEF ConsumeStart, history
      <3> QED
        BY <3>1 DEF HandlerStep
    <2> QED
      BY <2>2, <2>3
  <1>3. CASE Cancel(k)
    <2>1. StopsFirst(k)
      BY <1>3 DEF Cancel, StopsFirst, consumerVars
    <2> QED
      BY <2>1 DEF HandlerStep
  <1> QED
    BY <1>1, <1>2, <1>3

LEMMA NextOne ==
    \A K : [Idle EXCEPT !.pc = "next", !.todo = K] =
               [pc |-> "next", todo |-> K, key |-> "none", id |-> 0]
  <1> SUFFICES ASSUME NEW K
               PROVE  [Idle EXCEPT !.pc = "next", !.todo = K] =
                         [pc |-> "next", todo |-> K, key |-> "none", id |-> 0]
    OBVIOUS
  <1> DEFINE p == [pc |-> "next", todo |-> {}, key |-> "none", id |-> 0]
  <1>1. [Idle EXCEPT !.pc = "next"] = p
    BY SMTT(30) DEF Idle
  <1>2. [p EXCEPT !.todo = K] = [pc |-> "next", todo |-> K, key |-> "none", id |-> 0]
    BY SMTT(30)
  <1> QED
    BY <1>1, <1>2

LEMMA RunCases ==
    ASSUME CoreInv, Run
    PROVE  HandlerStep
  <1>1. Agent(0).pc = "idle"
    BY AgentFacts DEF Run, CoreInv, Flow
  <1>2. Agent(0)' = [pc |-> "next", todo |-> configs, key |-> "none", id |-> 0]
    BY AgentFacts, NextOne DEF Run
  <1>3. Others(0)
    BY AgentFacts DEF Run, Others
  <1>4. AgentChooses(0, configs)
    BY <1>1, <1>2, <1>3 DEF AgentChooses, Run, handlerVars
  <1>5. configs \in SUBSET Keys
    BY DEF CoreInv, AgentShape
  <1> QED
    BY <1>4, <1>5, AgentFacts DEF HandlerStep

LEMMA BootCases ==
    ASSUME CoreInv, RunStart \/ RunAppend \/ RunDone \/ \E k \in Keys : RunCheck(k)
    PROVE  HandlerStep
  <1>0. boot = [pc |-> boot.pc, todo |-> boot.todo, key |-> boot.key, id |-> boot.id]
    BY DEF CoreInv, AgentShape
  <1>1. CASE RunStart /\ CanRun
    <2>1. PICK i \in Instances :
             /\ StartInstance(i, boot.key)
             /\ boot' = [boot EXCEPT !.pc = "append", !.id = i,
                                     !.todo = @ \ {boot.key}]
      BY <1>1 DEF RunStart
    <2>2. boot' = [pc |-> "append", todo |-> boot.todo \ {boot.key},
                   key |-> boot.key, id |-> i]
      BY <1>0, <2>1
    <2>3. boot.key \in boot.todo /\ boot.key \in Keys
      BY <1>1, AgentFacts DEF RunStart, CoreInv, Plans, AgentShape
    <2>4. AgentStarts(0, boot.key, i)
      BY <1>1, <2>1, <2>2, <2>3, AgentFacts
      DEF AgentStarts, RunStart, Others, history
    <2> QED
      BY <2>3, <2>4, AgentFacts DEF HandlerStep
  <1>2. CASE RunStart /\ ~CanRun
    <2>1. ShutsDown
      BY <1>2 DEF RunStart, ShutsDown
    <2> QED
      BY <2>1 DEF HandlerStep
  <1>3. CASE RunAppend
    <2>1. boot'.pc = "next" /\ boot'.todo = boot.todo
      BY <1>0, <1>3 DEF RunAppend
    <2>2. AgentLists(0)
      BY <1>3, <2>1, AgentFacts DEF AgentLists, RunAppend, Others, consumerVars
    <2> QED
      BY <2>2, AgentFacts DEF HandlerStep
  <1>4. CASE RunDone /\ boot.id = 0
    <2>1. ShutsDown
      BY <1>4 DEF RunDone, ShutsDown
    <2> QED
      BY <2>1 DEF HandlerStep
  <1>5. CASE RunDone /\ boot.id # 0
    <2>1. consumer = "starting"
      BY <1>5 DEF RunDone, CoreInv, Flow
    <2>2. AgentTurns(0)
      BY <1>5, AgentFacts, SMTT(30) DEF RunDone, AgentTurns, Idle
    <2>3. ASSUME NEW j \in Reconcilers
          PROVE  Agent(j)' = Agent(j) \/ AgentTurns(j)
      <3>1. CASE j = runs
        <4>1. rec[j].pc = "off" /\ rec[j].todo = {}
          BY <2>1, <3>1, AgentFacts DEF CoreInv, Flow, Plans
        <4>2. rec'[j] = Idle
          BY <1>5, <3>1 DEF RunDone, CoreInv, AgentShape
        <4> QED
          BY <4>1, <4>2, AgentFacts, SMTT(30) DEF AgentTurns, Idle
      <3>2. CASE j # runs
        BY <1>5, <3>2, AgentFacts, SMTT(30) DEF RunDone, CoreInv, AgentShape
      <3> QED
        BY <3>1, <3>2
    <2>4. HandlersStay
      BY <1>5, <2>1, <2>2, <2>3, AgentFacts DEF RunDone, HandlersStay, history
    <2> QED
      BY <2>4 DEF HandlerStep
  <1>6. ASSUME NEW k \in Keys, RunCheck(k) PROVE HandlerStep
    <2>0. boot' = [pc |-> boot'.pc, todo |-> boot'.todo, key |-> boot'.key,
                   id |-> boot'.id]
          /\ \/ boot'.pc = "start" /\ boot'.todo = boot.todo /\ boot'.key = k
             \/ boot'.pc = "next" /\ boot'.todo = boot.todo \ {k}
          /\ boot.pc = "next" /\ k \in boot.todo
      BY <1>0, <1>6 DEF RunCheck
    <2>1. AgentTurns(0)
      BY <2>0, AgentFacts DEF AgentTurns
    <2>2. HandlersStay
      BY <1>6, <2>1, AgentFacts
      DEF RunCheck, HandlersStay, consumerVars, handlerVars, history
    <2> QED
      BY <2>2 DEF HandlerStep
  <1> QED
    BY <1>1, <1>2, <1>3, <1>4, <1>5, <1>6

LEMMA ReconcileCases ==
    ASSUME CoreInv, NEW j \in Reconcilers, ReconcileStep(j)
    PROVE  HandlerStep
  <1>0. /\ rec = [h \in Reconcilers |-> [pc |-> rec[h].pc, todo |-> rec[h].todo,
                                         key |-> rec[h].key, id |-> rec[h].id]]
        /\ DOMAIN rec = Reconcilers
        /\ rec[j] = [pc |-> rec[j].pc, todo |-> rec[j].todo,
                     key |-> rec[j].key, id |-> rec[j].id]
    BY DEF CoreInv, AgentShape
  <1>a. ASSUME NEW r, rec' = [rec EXCEPT ![j] = r], boot' = boot
        PROVE  Agent(j)' = r /\ Others(j)
    BY <1>0, <1>a, AgentFacts DEF Others
  <1>1. CASE ReconcileExit(j)
    <2>1. rec' = [rec EXCEPT ![j] = [rec[j] EXCEPT !.pc = "off"]] /\ boot' = boot
      BY <1>1 DEF ReconcileExit
    <2>2. Agent(j)' = [rec[j] EXCEPT !.pc = "off"] /\ Others(j)
      BY <1>a, <2>1
    <2>3. Agent(j)'.pc = "off" /\ Agent(j)'.todo = rec[j].todo
      BY <1>0, <2>2
    <2>4. rec[j].pc = "idle" /\ rec[j].todo = {}
      BY <1>1, AgentFacts DEF ReconcileExit, CoreInv, Plans
    <2>5. AgentTurns(j)
      BY <2>3, <2>4, AgentFacts DEF AgentTurns
    <2>6. HandlersStay
      BY <1>1, <2>2, <2>5, AgentFacts
      DEF HandlersStay, ReconcileExit, Others, consumerVars, handlerVars, history
    <2> QED
      BY <2>6 DEF HandlerStep
  <1>2. CASE Reconcile(j) /\ poisoned
    <2>1. HandlersStay
      BY <1>2, AgentFacts DEF Reconcile, HandlersStay, handlerVars, Touch
    <2> QED
      BY <2>1 DEF HandlerStep
  <1>3. CASE Reconcile(j) /\ ~poisoned
    <2>1. rec' = [rec EXCEPT ![j] = [pc |-> "next", todo |-> ToStart,
                                     key |-> "none", id |-> 0]]
          /\ boot' = boot
      BY <1>3, NextOne DEF Reconcile
    <2>2. Agent(j)' = [pc |-> "next", todo |-> ToStart, key |-> "none", id |-> 0]
          /\ Others(j)
      BY <1>a, <2>1
    <2>3. ToStart \subseteq configs
      BY DEF ToStart
    <2>4. AgentChooses(j, ToStart)
      BY <1>3, <2>2, <2>3, AgentFacts DEF AgentChooses, Reconcile, handlerVars
    <2>5. ToStart \in SUBSET Keys
      BY <2>3 DEF CoreInv, AgentShape
    <2> QED
      BY <2>4, <2>5, AgentFacts DEF HandlerStep
  <1>4. ASSUME NEW k \in Keys, ReconcileStart(j, k), CanRun PROVE HandlerStep
    <2>1. PICK i \in Instances :
             /\ StartInstance(i, k)
             /\ rec' = [rec EXCEPT ![j] = [pc |-> "append", key |-> k, id |-> i,
                                           todo |-> rec[j].todo \ {k}]]
      BY <1>4 DEF ReconcileStart
    <2>2. Agent(j)' = [pc |-> "append", todo |-> rec[j].todo \ {k},
                       key |-> k, id |-> i]
          /\ Others(j)
      BY <1>4, <1>a, <2>1 DEF ReconcileStart
    <2>3. AgentStarts(j, k, i)
      BY <1>4, <2>1, <2>2, AgentFacts
      DEF AgentStarts, ReconcileStart, consumerVars, history
    <2> QED
      BY <2>3, AgentFacts DEF HandlerStep
  <1>5. ASSUME NEW k \in Keys, ReconcileStart(j, k), ~CanRun PROVE HandlerStep
    <2>1. rec' = [rec EXCEPT ![j] = [rec[j] EXCEPT !.todo = rec[j].todo \ {k}]]
          /\ boot' = boot
      BY <1>5 DEF ReconcileStart
    <2>2. Agent(j)' = [rec[j] EXCEPT !.todo = rec[j].todo \ {k}] /\ Others(j)
      BY <1>a, <2>1
    <2>3. Agent(j)'.pc = rec[j].pc /\ Agent(j)'.todo = rec[j].todo \ {k}
      BY <1>0, <2>2
    <2>4. AgentTurns(j)
      BY <1>5, <2>3, AgentFacts DEF AgentTurns, ReconcileStart
    <2>5. HandlersStay
      BY <1>5, <2>2, <2>4, AgentFacts
      DEF HandlersStay, ReconcileStart, Others, consumerVars, history
    <2> QED
      BY <2>5 DEF HandlerStep
  <1>6. CASE ReconcileAppend(j)
    <2>1. rec' = [rec EXCEPT ![j] = [pc |-> "next", todo |-> rec[j].todo,
                                     key |-> "none", id |-> 0]]
          /\ boot' = boot
      BY <1>6, NextOne DEF ReconcileAppend
    <2>2. Agent(j)' = [pc |-> "next", todo |-> rec[j].todo, key |-> "none", id |-> 0]
          /\ Others(j)
      BY <1>a, <2>1
    <2>3. AgentLists(j)
      BY <1>6, <2>2, AgentFacts, SMTT(30) DEF AgentLists, ReconcileAppend, consumerVars
    <2> QED
      BY <2>3, AgentFacts DEF HandlerStep
  <1>7. CASE ReconcileDone(j)
    <2>1. Agent(j)' = Idle /\ Others(j)
      BY <1>7, <1>a DEF ReconcileDone
    <2>2. AgentTurns(j)
      BY <1>7, <2>1, AgentFacts, SMTT(30) DEF AgentTurns, ReconcileDone, Idle
    <2>3. HandlersStay
      BY <1>7, <2>1, <2>2, AgentFacts
      DEF HandlersStay, ReconcileDone, Others, consumerVars, handlerVars, history
    <2> QED
      BY <2>3 DEF HandlerStep
  <1> QED
    BY <1>1, <1>2, <1>3, <1>4, <1>5, <1>6, <1>7 DEF ReconcileStep

LEMMA LockCases ==
    ASSUME CoreInv,
           LockStep \/ \E i \in Instances : AcquireLock(i) \/ AcquireGivesUp(i)
    PROVE  HandlersStay
  <1>1. UNCHANGED <<inst, instances, boot, rec, consumer, configs, overlap, shadow>>
    BY DEF LockStep, AcquireLock, AcquireGivesUp, consumerVars, handlerVars, history
  <1> QED
    BY <1>1, AgentFacts DEF HandlersStay

LEMMA HandlerCases == CoreInv /\ [Next]_vars => HandlerStep
  <1> SUFFICES ASSUME CoreInv, [Next]_vars PROVE HandlerStep
    OBVIOUS
  <1>1. CASE \/ \E s \in States : ChangeState(s)
             \/ RecoverOrphanedLock \/ Publish
             \/ Dispatch \/ HandleStateChange \/ CallbackDone
             \/ UNCHANGED vars
    BY <1>1, QueueCases DEF HandlerStep
  <1>2. ASSUME NEW k \in Keys, Callback(k) PROVE HandlerStep
    BY <1>2, ListenCases
  <1>3. CASE Boot
    BY <1>3, BootCases DEF Boot
  <1>4. CASE Run
    BY <1>4, RunCases
  <1>5. CASE Shutdown \/ ShutdownByContext
    <2>1. ShutsDown
      BY <1>5 DEF Shutdown, ShutdownByContext, ShutsDown
    <2> QED
      BY <2>1 DEF HandlerStep
  <1>6. ASSUME NEW k \in Keys, Consume(k) \/ ConsumeStart(k) \/ Cancel(k)
        PROVE  HandlerStep
    BY <1>6, ApplicationCases
  <1>7. ASSUME NEW i \in Instances, SelfStop(i) PROVE HandlerStep
    <2>1. StopsItself(i)
      BY <1>7 DEF SelfStop, StopsItself, consumerVars, history
    <2> QED
      BY <2>1 DEF HandlerStep
  <1>8. CASE LockStep \/ \E i \in Instances : AcquireLock(i) \/ AcquireGivesUp(i)
    BY <1>8, LockCases DEF HandlerStep
  <1>9. ASSUME NEW j \in Reconcilers, ReconcileStep(j) PROVE HandlerStep
    BY <1>9, ReconcileCases
  <1> QED
    BY <1>1, <1>2, <1>3, <1>4, <1>5, <1>6, <1>7, <1>8, <1>9 DEF Next, Listen

-----------------------------------------------------------------------------
(* The agents keep their shape, and Run and reconcile their order.         *)

LEMMA TodoStep ==
    ASSUME CoreInv, HandlerStep
    PROVE  \A a \in Agents : Agent(a)'.todo \subseteq Keys
  <1>0. \A a \in Agents : Agent(a).todo \subseteq Keys
    BY DEF CoreInv, AgentShape
  <1>1. ASSUME NEW a \in Agents, NEW k \in Keys, NEW i \in Instances,
               AgentStarts(a, k, i), NEW b \in Agents
        PROVE  Agent(b)'.todo \subseteq Keys
    BY <1>0, <1>1, SMTT(30) DEF AgentStarts, Others
  <1>2. ASSUME NEW a \in Agents, AgentLists(a), NEW b \in Agents
        PROVE  Agent(b)'.todo \subseteq Keys
    BY <1>0, <1>2 DEF AgentLists, Others
  <1>3. ASSUME NEW a \in Agents, NEW K \in SUBSET Keys, AgentChooses(a, K),
               NEW b \in Agents
        PROVE  Agent(b)'.todo \subseteq Keys
    BY <1>0, <1>3, SMTT(30) DEF AgentChooses, Others
  <1>4. CASE HandlersStay
    BY <1>0, <1>4 DEF HandlersStay, AgentTurns
  <1>5. CASE ShutsDown
    BY <1>0, <1>5, AgentFacts, SMTT(30) DEF ShutsDown, Idle
  <1>6. CASE UNCHANGED <<boot, rec>>
    BY <1>0, <1>6, AgentFacts
  <1> QED
    BY <1>1, <1>2, <1>3, <1>4, <1>5, <1>6
    DEF HandlerStep, StartsAndLists, StopsFirst, StopsItself

RecordShape(p) == p = [pc |-> p.pc, todo |-> p.todo, key |-> p.key, id |-> p.id]

LEMMA Shaped ==
    \A c, t, k, n : RecordShape([pc |-> c, todo |-> t, key |-> k, id |-> n])
  BY DEF RecordShape

LEMMA BootShape ==
    ASSUME CoreInv, [Next]_vars
    PROVE  RecordShape(boot)' /\ configs' \subseteq Keys /\ starts' \subseteq Keys
           /\ runs' \in Nat
  <1>0. RecordShape(boot) /\ configs \subseteq Keys /\ starts \subseteq Keys
        /\ runs \in Nat
    BY DEF CoreInv, AgentShape, RecordShape
  <1>1. CASE UNCHANGED <<boot, configs, starts, runs>>
    BY <1>0, <1>1 DEF RecordShape
  <1>2. CASE Run
    <2>1. boot' = [pc |-> "next", todo |-> configs, key |-> "none", id |-> 0]
      BY <1>2, NextOne DEF Run
    <2>2. UNCHANGED <<configs, starts>> /\ runs' = runs + 1
      BY <1>2 DEF Run, handlerVars
    <2> QED
      BY <1>0, <2>1, <2>2, SMTT(30) DEF RecordShape
  <1>3. CASE Boot
    <2>1. UNCHANGED <<configs, starts, runs>>
      BY <1>3
      DEF Boot, RunStart, RunAppend, RunDone, RunCheck, consumerVars, appVars,
          handlerVars
    <2>2. RecordShape(boot)'
      <3>0. CASE boot' = Idle
        BY <3>0, Shaped DEF Idle
      <3>1. ASSUME NEW i,
                   boot' = [boot EXCEPT !.pc = "append", !.id = i,
                                        !.todo = @ \ {boot.key}]
            PROVE  RecordShape(boot)'
        <4>1. boot' = [pc |-> "append", todo |-> boot.todo \ {boot.key},
                       key |-> boot.key, id |-> i]
          BY <1>0, <3>1 DEF RecordShape
        <4> QED
          BY <4>1, Shaped
      <3>2. CASE RunAppend
        <4>1. boot' = [pc |-> "next", todo |-> boot.todo, key |-> boot.key, id |-> 1]
          BY <1>0, <3>2 DEF RunAppend, RecordShape
        <4> QED
          BY <4>1, Shaped
      <3>4. ASSUME NEW k \in Keys, RunCheck(k) PROVE RecordShape(boot)'
        <4>1. boot' = [pc |-> boot'.pc, todo |-> boot'.todo, key |-> boot'.key,
                       id |-> boot'.id]
          BY <1>0, <3>4 DEF RunCheck, RecordShape
        <4> QED
          BY <4>1 DEF RecordShape
      <3> QED
        BY <1>3, <3>0, <3>1, <3>2, <3>4 DEF Boot, RunStart, RunDone
    <2> QED
      BY <1>0, <2>1, <2>2
  <1>4. ASSUME NEW k \in Keys, Consume(k) \/ ConsumeStart(k) \/ Cancel(k)
        PROVE  /\ boot' = boot /\ runs' = runs
               /\ configs' \subseteq Keys /\ starts' \subseteq Keys
    BY <1>0, <1>4 DEF Consume, ConsumeStart, Cancel, consumerVars
  <1>5. ASSUME NEW k \in Keys, Callback(k)
        PROVE  UNCHANGED <<boot, configs, starts, runs>>
    BY <1>5 DEF Callback, consumerVars, appVars
  <1>6. CASE \/ \E s \in States : ChangeState(s)
             \/ RecoverOrphanedLock \/ Publish
             \/ Dispatch \/ HandleStateChange \/ CallbackDone
             \/ Shutdown \/ ShutdownByContext
             \/ UNCHANGED vars
    <2>1. UNCHANGED <<boot, configs, starts, runs>>
      BY <1>6
      DEF ChangeState, RecoverOrphanedLock, Publish, PublishState, Dispatch,
          HandleStateChange, CallbackDone, Shutdown, ShutdownByContext,
          vars, consumerVars, handlerVars, appVars
    <2> QED
      BY <1>1, <2>1
  <1>7. CASE \/ \E i \in Instances :
                   SelfStop(i) \/ AcquireLock(i) \/ AcquireGivesUp(i)
             \/ LockStep
    <2>1. UNCHANGED <<boot, configs, starts, runs>>
      BY <1>7
      DEF SelfStop, AcquireLock, AcquireGivesUp, LockStep, consumerVars,
          handlerVars, appVars
    <2> QED
      BY <1>1, <2>1
  <1>8. ASSUME NEW j \in Reconcilers, ReconcileStep(j)
        PROVE  UNCHANGED <<boot, configs, starts, runs>>
    BY <1>8
    DEF ReconcileStep, ReconcileExit, Reconcile, ReconcileStart, ReconcileAppend,
        ReconcileDone, consumerVars, handlerVars, appVars
  <1> QED
    BY <1>0, <1>1, <1>2, <1>3, <1>4, <1>5, <1>6, <1>7, <1>8
    DEF Next, Listen, RecordShape

LEMMA RecKept ==
    ASSUME NEW j, NEW r, RecordShape(r), rec' = [rec EXCEPT ![j] = r],
           rec = [h \in Reconcilers |-> rec[h]],
           \A h \in Reconcilers : RecordShape(rec[h])
    PROVE  rec' = [h \in Reconcilers |-> rec'[h]] /\ \A h \in Reconcilers : RecordShape(rec[h])'
  <1>1. rec' = [h \in Reconcilers |-> rec'[h]]
    OBVIOUS
  <1>2. \A h \in Reconcilers : rec'[h] = r \/ rec'[h] = rec[h]
    OBVIOUS
  <1> QED
    BY <1>1, <1>2 DEF RecordShape

LEMMA RecShape ==
    ASSUME CoreInv, [Next]_vars
    PROVE  (rec = [j \in Reconcilers |-> [pc |-> rec[j].pc, todo |-> rec[j].todo,
                                          key |-> rec[j].key, id |-> rec[j].id]])'
  <1>0. rec = [j \in Reconcilers |-> [pc |-> rec[j].pc, todo |-> rec[j].todo,
                                      key |-> rec[j].key, id |-> rec[j].id]]
    BY DEF CoreInv, AgentShape
  <1>1. rec = [h \in Reconcilers |-> rec[h]] /\ \A h \in Reconcilers : RecordShape(rec[h])
    BY <1>0 DEF RecordShape
  <1> SUFFICES rec' = [h \in Reconcilers |-> rec'[h]] /\ \A h \in Reconcilers : RecordShape(rec[h])'
    BY <1>0 DEF RecordShape
  <1>2. CASE rec' = rec
    BY <1>1, <1>2 DEF RecordShape
  <1>3. CASE RunDone
    <2>1. rec' = rec \/ rec' = [rec EXCEPT ![runs] = Idle]
      BY <1>3 DEF RunDone
    <2>2. RecordShape(Idle)
      BY Shaped DEF Idle
    <2> QED
      BY <1>1, <1>2, <2>1, <2>2, RecKept
  <1>4. ASSUME NEW j \in Reconcilers, ReconcileStep(j)
        PROVE  rec' = rec \/ \E r : RecordShape(r) /\ rec' = [rec EXCEPT ![j] = r]
    <2> DEFINE Kept == rec' = rec \/ \E r : /\ RecordShape(r)
                                            /\ rec' = [rec EXCEPT ![j] = r]
    <2> SUFFICES Kept
      OBVIOUS
    <2>0. RecordShape(Idle)
      BY Shaped DEF Idle
    <2>1. CASE ReconcileExit(j)
      <3>1. rec' = [rec EXCEPT ![j] = [rec[j] EXCEPT !.pc = "off"]]
        BY <2>1 DEF ReconcileExit
      <3>2. [rec[j] EXCEPT !.pc = "off"] =
               [pc |-> "off", todo |-> rec[j].todo, key |-> rec[j].key,
                id |-> rec[j].id]
        BY <1>1, SMTT(30) DEF RecordShape
      <3> QED
        BY <3>1, <3>2, Shaped
    <2>2. CASE Reconcile(j)
      <3>1. \/ rec' = rec
            \/ rec' = [rec EXCEPT ![j] = [pc |-> "next", todo |-> ToStart,
                                         key |-> "none", id |-> 0]]
        BY <2>2, NextOne DEF Reconcile
      <3> QED
        BY <3>1, Shaped
    <2>3. CASE ReconcileAppend(j)
      BY <2>3, NextOne, Shaped DEF ReconcileAppend
    <2>4. CASE ReconcileDone(j)
      BY <2>0, <2>4 DEF ReconcileDone
    <2>5. ASSUME NEW k \in Keys, ReconcileStart(j, k)
          PROVE  Kept
      <3>1. ASSUME NEW i, NEW T
            PROVE  RecordShape([pc |-> "append", key |-> k, id |-> i, todo |-> T])
        BY DEF RecordShape
      <3>2. rec[j] = [pc |-> rec[j].pc, todo |-> rec[j].todo,
                      key |-> rec[j].key, id |-> rec[j].id]
        BY <1>1 DEF RecordShape
      <3>3. [rec[j] EXCEPT !.todo = rec[j].todo \ {k}] =
               [pc |-> rec[j].pc, todo |-> rec[j].todo \ {k}, key |-> rec[j].key,
                id |-> rec[j].id]
        BY <3>2, SMTT(30)
      <3>5. CASE CanRun
        BY <2>5, <3>1, <3>5 DEF ReconcileStart
      <3>6. CASE ~CanRun
        <4>1. rec' = [rec EXCEPT ![j] = [rec[j] EXCEPT !.todo = rec[j].todo \ {k}]]
          BY <2>5, <3>6 DEF ReconcileStart
        <4>2. rec' = [rec EXCEPT ![j] =
                 [pc |-> rec[j].pc, todo |-> rec[j].todo \ {k}, key |-> rec[j].key,
                  id |-> rec[j].id]]
          BY <3>3, <4>1
        <4> QED
          BY <4>2, Shaped
      <3> QED
        BY <3>5, <3>6
    <2> HIDE DEF Kept
    <2> QED
      BY <1>4, <2>1, <2>2, <2>3, <2>4, <2>5 DEF ReconcileStep
  <1>5. CASE ~(RunDone \/ \E j \in Reconcilers : ReconcileStep(j))
    <2>1. rec' = rec
      BY <1>5
      DEF Next, ChangeState, RecoverOrphanedLock, Publish, PublishState, Listen,
          Dispatch, HandleStateChange, CallbackDone, Callback, Boot, RunStart,
          RunAppend, RunCheck, Run, Shutdown, ShutdownByContext, Consume,
          ConsumeStart, Cancel, SelfStop, AcquireLock, AcquireGivesUp, LockStep, vars
    <2> QED
      BY <1>2, <2>1
  <1> QED
    BY <1>1, <1>2, <1>3, <1>4, <1>5, RecKept

LEMMA AgentShapeStep == CoreInv /\ [Next]_vars => AgentShape'
  BY HandlerCases, TodoStep, BootShape, RecShape DEF AgentShape, RecordShape

LEMMA FlowStep == CoreInv /\ [Next]_vars => Flow'
  <1> SUFFICES ASSUME CoreInv, [Next]_vars PROVE Flow'
    OBVIOUS
  <1>0. /\ boot.pc = "idle" <=> consumer # "starting"
        /\ \A j \in Reconcilers :
              runs < j \/ (runs = j /\ consumer = "starting") => rec[j].pc = "off"
        /\ RecordShape(boot) /\ runs \in Nat
        /\ \A j \in Reconcilers : j \in Nat
        /\ DOMAIN rec = Reconcilers
    BY RunnerAssumption, SMTT(30) DEF CoreInv, Flow, AgentShape, RecordShape, Reconcilers
  <1>1. CASE UNCHANGED <<boot, rec, consumer, runs>>
    BY <1>0, <1>1 DEF Flow
  <1>2. CASE Run
    <2>1. boot'.pc = "next" /\ consumer' = "starting"
      BY <1>2, NextOne DEF Run
    <2>2. runs' = runs + 1 /\ rec' = rec
      BY <1>2 DEF Run
    <2> QED
      BY <1>0, <2>1, <2>2, SMTT(30) DEF Flow
  <1>3. CASE RunStart \/ RunAppend \/ \E k \in Keys : RunCheck(k)
    <2>1. boot.pc # "idle" /\ consumer = "starting"
      BY <1>0, <1>3 DEF RunStart, RunAppend, RunCheck
    <2>2. \/ boot'.pc # "idle" /\ consumer' = consumer
          \/ boot'.pc = "idle" /\ consumer' = "down"
      <3>1. CASE RunStart
        <4>1. CASE CanRun
          BY <1>0, <3>1, <4>1 DEF RunStart, RecordShape
        <4>2. CASE ~CanRun
          BY <3>1, <4>2, SMTT(30) DEF RunStart, Idle
        <4> QED
          BY <4>1, <4>2
      <3>2. CASE RunAppend
        BY <1>0, <3>2 DEF RunAppend, RecordShape, consumerVars
      <3>3. ASSUME NEW k \in Keys, RunCheck(k)
            PROVE  boot'.pc # "idle" /\ consumer' = consumer
        BY <1>0, <3>3 DEF RunCheck, RecordShape, consumerVars
      <3> QED
        BY <1>3, <3>1, <3>2, <3>3
    <2>3. UNCHANGED <<rec, runs>>
      BY <1>3 DEF RunStart, RunAppend, RunCheck, consumerVars
    <2> QED
      BY <1>0, <2>1, <2>2, <2>3 DEF Flow
  <1>4. CASE RunDone
    <2>1. boot'.pc = "idle" /\ consumer' \in {"up", "down"} /\ runs' = runs
      BY <1>4 DEF RunDone, Idle
    <2>2. \A j \in Reconcilers : j # runs => rec'[j] = rec[j]
      BY <1>0, <1>4 DEF RunDone
    <2> QED
      BY <1>0, <2>1, <2>2, SMTT(30) DEF Flow
  <1>5. CASE Shutdown \/ ShutdownByContext
    <2>1. consumer # "starting" /\ consumer' = "down" /\ UNCHANGED <<boot, rec, runs>>
      BY <1>5 DEF Shutdown, ShutdownByContext
    <2> QED
      BY <1>0, <2>1 DEF Flow
  <1>6. ASSUME NEW j \in Reconcilers, ReconcileStep(j) PROVE Flow'
    <2>1. UNCHANGED <<boot, consumer, runs>>
      BY <1>6
      DEF ReconcileStep, ReconcileExit, Reconcile, ReconcileStart, ReconcileAppend,
          ReconcileDone, consumerVars
    <2>2. rec[j].pc # "off" /\ \A h \in Reconcilers : h # j => rec'[h] = rec[h]
      BY <1>0, <1>6
      DEF ReconcileStep, ReconcileExit, Reconcile, ReconcileStart, ReconcileAppend,
          ReconcileDone
    <2> QED
      BY <1>0, <2>1, <2>2 DEF Flow
  <1>7. CASE \/ \E s \in States : ChangeState(s)
             \/ RecoverOrphanedLock \/ Publish
             \/ Dispatch \/ HandleStateChange \/ CallbackDone
             \/ \E k \in Keys : \/ Callback(k) \/ Consume(k) \/ ConsumeStart(k)
                                \/ Cancel(k)
             \/ \E i \in Instances :
                   SelfStop(i) \/ AcquireLock(i) \/ AcquireGivesUp(i)
             \/ LockStep
             \/ UNCHANGED vars
    <2>1. UNCHANGED <<boot, rec, consumer, runs>>
      BY <1>7
      DEF ChangeState, RecoverOrphanedLock, Publish, PublishState, Dispatch,
          HandleStateChange, CallbackDone, Callback, Consume, ConsumeStart, Cancel,
          SelfStop, AcquireLock, AcquireGivesUp, LockStep, vars, consumerVars
    <2> QED
      BY <1>1, <2>1
  <1> QED
    BY <1>1, <1>2, <1>3, <1>4, <1>5, <1>6, <1>7 DEF Next, Listen, Boot

-----------------------------------------------------------------------------
(* The handlers and the list.                                              *)

LEMMA LockShape ==
    ASSUME CoreInv, HandlerStep
    PROVE  lk' \in [Instances -> {"off", "trying", "held"}]
  <1>0. lk \in [Instances -> {"off", "trying", "held"}]
    BY DEF CoreInv, HandlerShape
  <1>1. ASSUME NEW i, NEW k, StartInstance(i, k)
        PROVE  lk' \in [Instances -> {"off", "trying", "held"}]
    BY <1>0, <1>1 DEF StartInstance
  <1>2. ASSUME NEW S, NEW f, Release(S, f)
        PROVE  lk' \in [Instances -> {"off", "trying", "held"}]
    BY <1>0, <1>2 DEF Release
  <1>3. CASE UNCHANGED lockVars
    BY <1>0, <1>3 DEF lockVars
  <1>4. CASE LockStep \/ \E i \in Instances : AcquireLock(i) \/ AcquireGivesUp(i)
    BY <1>0, <1>4
    DEF LockStep, AcquireLock, AcquireGivesUp, TryAcquire, Lapse, Expire,
        RivalAcquire, RivalRelease
  <1>5. ASSUME NEW k \in Keys, NEW i \in Instances, StartsAndLists(k, i)
        PROVE  lk' \in [Instances -> {"off", "trying", "held"}]
    BY <1>1, <1>5 DEF StartsAndLists
  <1>6. ASSUME NEW k \in Keys, StopsFirst(k)
        PROVE  lk' \in [Instances -> {"off", "trying", "held"}]
    BY <1>2, <1>3, <1>6 DEF StopsFirst, StopFirst, Shut, lockVars
  <1>7. ASSUME NEW i \in Instances, StopsItself(i)
        PROVE  lk' \in [Instances -> {"off", "trying", "held"}]
    BY <1>2, <1>7 DEF StopsItself, Shut
  <1>8. CASE ShutsDown
    BY <1>2, <1>8 DEF ShutsDown, ShutdownRunner
  <1>9. ASSUME NEW a \in Agents, NEW k \in Keys, NEW i \in Instances,
               AgentStarts(a, k, i)
        PROVE  lk' \in [Instances -> {"off", "trying", "held"}]
    BY <1>1, <1>9 DEF AgentStarts
  <1> QED
    BY <1>3, <1>4, <1>5, <1>6, <1>7, <1>8, <1>9
    DEF HandlerStep, AgentLists, AgentChooses, HandlersStay

LEMMA Started ==
    ASSUME CoreInv, NEW k \in Keys, NEW i \in Instances, StartInstance(i, k)
    PROVE  /\ inst'[i] = [key |-> k, phase |-> "live"]
           /\ \A l \in Instances : l # i => inst'[l] = inst[l]
           /\ ~Live(i) /\ ~Listed(i) /\ ~Pending(i) /\ lk[i] = "off"
           /\ inst' = [l \in Instances |-> [key |-> inst'[l].key,
                                            phase |-> inst'[l].phase]]
           /\ \A l \in Instances : inst'[l].phase # "free" => inst'[l].key \in Keys
  <1>1. /\ inst = [l \in Instances |-> [key |-> inst[l].key, phase |-> inst[l].phase]]
        /\ \A l \in Instances : inst[l].phase # "free" => inst[l].key \in Keys
    BY DEF CoreInv, HandlerShape
  <1>2. inst' = [inst EXCEPT ![i] = [key |-> k, phase |-> "live"]]
    BY DEF StartInstance
  <1>3. ~Live(i) /\ ~Listed(i) /\ ~Pending(i) /\ lk[i] = "off"
    BY DEF StartInstance, Spare
  <1> QED
    BY <1>1, <1>2, <1>3

LEMMA StopEffect ==
    ASSUME CoreInv, NEW k \in Keys, StopFirst(k)
    PROVE  \/ FirstAt(k) = {} /\ UNCHANGED <<inst, instances, lockVars>>
           \/ \E n \in FirstAt(k) :
                 /\ instances' = Without(instances, n)
                 /\ inst' = [i \in Instances |-> IF i = instances[n] THEN NoHandler
                                                 ELSE inst[i]]
                 /\ Release({i \in {instances[n]} : inst[i].phase \in {"live", "cut"}},
                            changes + faults < MaxChanges)
  <1>1. CASE FirstAt(k) = {}
    BY <1>1 DEF StopFirst
  <1>2. CASE FirstAt(k) # {}
    <2>1. PICK n \in FirstAt(k) :
             Shut({instances[n]}, TRUE) /\ instances' = Without(instances, n)
      BY <1>2 DEF StopFirst
    <2>2. inst' = [i \in Instances |-> IF i = instances[n] THEN NoHandler
                                       ELSE inst[i]]
      BY <2>1 DEF Shut
    <2>3. Release({i \in {instances[n]} : inst[i].phase \in {"live", "cut"}},
                  changes + faults < MaxChanges)
      BY <2>1 DEF Shut
    <2> QED
      BY <2>1, <2>2, <2>3
  <1> QED
    BY <1>1, <1>2

LEMMA SelfEffect ==
    ASSUME CoreInv, NEW i \in Instances, StopsItself(i)
    PROVE  /\ inst' = [l \in Instances |->
                          IF l = i THEN [key |-> inst[i].key, phase |-> "stopped"]
                          ELSE inst[l]]
           /\ Live(i)
           /\ Release({i}, changes + faults < MaxChanges)
  <1>1. inst[i] = [key |-> inst[i].key, phase |-> inst[i].phase]
    BY DEF CoreInv, HandlerShape
  <1>2. [inst[i] EXCEPT !.phase = "stopped"] =
           [key |-> inst[i].key, phase |-> "stopped"]
    BY <1>1, SMTT(30)
  <1>3. Live(i) /\ {l \in {i} : inst[l].phase \in {"live", "cut"}} = {i}
    BY DEF StopsItself, Live
  <1> QED
    BY <1>2, <1>3 DEF StopsItself, Shut

LEMMA ShutEffect ==
    ASSUME CoreInv, ShutdownRunner
    PROVE  /\ inst' = [i \in Instances |->
                          IF Listed(i) THEN NoHandler
                          ELSE IF Live(i) THEN [key |-> inst[i].key, phase |-> "cut"]
                          ELSE inst[i]]
           /\ instances' = <<>>
  <1>1. \A i \in Instances :
           /\ inst[i] = [key |-> inst[i].key, phase |-> inst[i].phase]
           /\ [inst[i] EXCEPT !.phase = "cut"] = [key |-> inst[i].key, phase |-> "cut"]
    BY SMTT(30) DEF CoreInv, HandlerShape
  <1> QED
    BY <1>1 DEF ShutdownRunner

(* The list after append, and after the slice without one element.         *)
LEMMA ListedAppend ==
    ASSUME instances \in Seq(Instances), NEW x \in Instances,
           instances' = Append(instances, x)
    PROVE  /\ instances' \in Seq(Instances)
           /\ \A l : Listed(l)' <=> Listed(l) \/ l = x
  <1>1. /\ instances' \in Seq(Instances) /\ Len(instances) \in Nat
        /\ Len(instances') = Len(instances) + 1
        /\ \A m \in 1..Len(instances) : instances'[m] = instances[m]
        /\ instances'[Len(instances) + 1] = x
    BY AppendFacts, SMTT(30)
  <1>2. \A m \in 1..(Len(instances) + 1) : m \in 1..Len(instances)
                                           \/ m = Len(instances) + 1
    BY <1>1, SMTT(30)
  <1>3. \A m \in 1..Len(instances) : m \in 1..(Len(instances) + 1)
    BY <1>1, SMTT(30)
  <1>4. Len(instances) + 1 \in 1..(Len(instances) + 1)
    BY <1>1, SMTT(30)
  <1>5. \A l : Listed(l)' => Listed(l) \/ l = x
    BY <1>1, <1>2 DEF Listed
  <1>6. \A l : Listed(l) \/ l = x => Listed(l)'
    BY <1>1, <1>3, <1>4 DEF Listed
  <1> QED
    BY <1>1, <1>5, <1>6

LEMMA ListedWithout ==
    ASSUME instances \in Seq(Instances), NEW n \in 1..Len(instances),
           \A g, h \in 1..Len(instances) : instances[g] = instances[h] => g = h,
           instances' = Without(instances, n)
    PROVE  /\ instances' \in Seq(Instances)
           /\ \A l : Listed(l)' <=> Listed(l) /\ l # instances[n]
           /\ \A g, h \in 1..Len(instances') : instances'[g] = instances'[h] => g = h
           /\ \A g \in 1..Len(instances') : \E h \in 1..Len(instances) :
                 instances'[g] = instances[h] /\ h # n
  <1>1. /\ instances' \in Seq(Instances) /\ Len(instances) \in Nat
        /\ Len(instances') = Len(instances) - 1
        /\ \A m \in 1..(Len(instances) - 1) :
              instances'[m] = IF m < n THEN instances[m] ELSE instances[m + 1]
    <2>1. Len(instances) \in Nat
      BY SMTT(30)
    <2>2. /\ Without(instances, n) \in Seq(Instances)
          /\ Len(Without(instances, n)) = Len(instances) - 1
          /\ \A m \in 1..(Len(instances) - 1) :
                Without(instances, n)[m] = IF m < n THEN instances[m]
                                                   ELSE instances[m + 1]
      BY WithoutFacts
    <2> QED
      BY <2>1, <2>2
  <1> DEFINE from(m) == IF m < n THEN m ELSE m + 1
  <1>2. \A m \in 1..(Len(instances) - 1) :
           from(m) \in 1..Len(instances) /\ from(m) # n
           /\ instances'[m] = instances[from(m)]
    BY <1>1, SMTT(30)
  <1>3. \A g, h \in 1..(Len(instances) - 1) : from(g) = from(h) => g = h
    BY <1>1, SMTT(30)
  <1>4. \A m \in 1..Len(instances) :
           m # n => \E g \in 1..(Len(instances) - 1) : from(g) = m
    <2> SUFFICES ASSUME NEW m \in 1..Len(instances), m # n
                 PROVE  \E g \in 1..(Len(instances) - 1) : from(g) = m
      OBVIOUS
    <2>1. CASE m < n
      BY <1>1, <2>1, SMTT(30)
    <2>2. CASE m > n
      <3>1. m - 1 \in 1..(Len(instances) - 1) /\ from(m - 1) = m
        BY <1>1, <2>2, SMTT(30)
      <3> QED
        BY <3>1
    <2> QED
      BY <1>1, <2>1, <2>2, SMTT(30)
  <1> HIDE DEF from
  <1>5. \A l : Listed(l)' => Listed(l) /\ l # instances[n]
    BY <1>1, <1>2, SMTT(30) DEF Listed
  <1>6. \A l : Listed(l) /\ l # instances[n] => Listed(l)'
    <2> SUFFICES ASSUME NEW l, NEW m \in 1..Len(instances), instances[m] = l,
                        l # instances[n]
                 PROVE  Listed(l)'
      BY DEF Listed
    <2>1. PICK g \in 1..(Len(instances) - 1) : from(g) = m
      BY <1>4
    <2>2. instances'[g] = l /\ g \in 1..Len(instances')
      BY <1>1, <1>2, <2>1
    <2> QED
      BY <2>2 DEF Listed
  <1>7. \A g, h \in 1..Len(instances') : instances'[g] = instances'[h] => g = h
    BY <1>1, <1>2, <1>3, SMTT(30)
  <1> QED
    BY <1>1, <1>2, <1>5, <1>6, <1>7

LEMMA HandlerShapeStep ==
    ASSUME CoreInv, HandlerStep
    PROVE  HandlerShape'
  <1> DEFINE Good(f) == /\ f = [i \in Instances |-> [key |-> f[i].key,
                                                    phase |-> f[i].phase]]
                        /\ \A i \in Instances : f[i].phase # "free" => f[i].key \in Keys
  <1>0. Good(inst) /\ instances \in Seq(Instances)
    BY DEF CoreInv, HandlerShape
  <1>1. CASE UNCHANGED <<inst, instances>>
    BY <1>0, <1>1, LockShape DEF HandlerShape
  <1>2. ASSUME NEW a \in Agents, NEW k \in Keys, NEW i \in Instances,
               AgentStarts(a, k, i)
        PROVE  Good(inst') /\ instances' \in Seq(Instances)
    BY <1>0, <1>2, Started DEF AgentStarts
  <1>3. ASSUME NEW a \in Agents, AgentLists(a)
        PROVE  Good(inst') /\ instances' \in Seq(Instances)
    <2>1. Agent(a).id \in Instances /\ inst' = inst
          /\ instances' = Append(instances, Agent(a).id)
      BY <1>3 DEF AgentLists, AppendInstance, CoreInv, Plans
    <2> QED
      BY <1>0, <2>1, ListedAppend
  <1>4. ASSUME NEW k \in Keys, NEW i \in Instances, StartsAndLists(k, i)
        PROVE  Good(inst') /\ instances' \in Seq(Instances)
    BY <1>0, <1>4, Started, ListedAppend DEF StartsAndLists
  <1>5. ASSUME NEW k \in Keys, StopsFirst(k)
        PROVE  Good(inst') /\ instances' \in Seq(Instances)
    <2>1. StopFirst(k)
      BY <1>5 DEF StopsFirst
    <2>2. CASE UNCHANGED <<inst, instances>>
      BY <1>0, <2>2
    <2>3. ASSUME NEW n \in FirstAt(k), instances' = Without(instances, n),
                 inst' = [i \in Instances |-> IF i = instances[n] THEN NoHandler
                                              ELSE inst[i]]
          PROVE  Good(inst') /\ instances' \in Seq(Instances)
      <3>1. n \in 1..Len(instances)
        BY DEF FirstAt
      <3>2. instances' \in Seq(Instances)
        BY <1>0, <2>3, <3>1, WithoutFacts
      <3>3. Good(inst')
        BY <1>0, <2>3 DEF NoHandler
      <3> QED
        BY <3>2, <3>3
    <2> QED
      BY <2>1, <2>2, <2>3, StopEffect
  <1>6. ASSUME NEW i \in Instances, StopsItself(i)
        PROVE  Good(inst') /\ instances' \in Seq(Instances)
    <2>1. inst' = [l \in Instances |->
                      IF l = i THEN [key |-> inst[i].key, phase |-> "stopped"]
                      ELSE inst[l]]
          /\ inst[i].phase = "live" /\ instances' = instances
      BY <1>6, SelfEffect DEF StopsItself, Live
    <2> QED
      BY <1>0, <2>1
  <1>7. CASE ShutsDown
    <2>1. inst' = [i \in Instances |->
                      IF Listed(i) THEN NoHandler
                      ELSE IF Live(i) THEN [key |-> inst[i].key, phase |-> "cut"]
                      ELSE inst[i]]
          /\ instances' = <<>>
      BY <1>7, ShutEffect DEF ShutsDown
    <2>2. Good(inst') /\ instances' \in Seq(Instances)
      BY <1>0, <2>1, SMTT(30) DEF NoHandler, Live
    <2> QED
      BY <2>2, LockShape DEF HandlerShape
  <1> HIDE DEF Good
  <1>8. Good(inst') /\ instances' \in Seq(Instances) => HandlerShape'
    BY LockShape DEF HandlerShape, Good
  <1> QED
    BY <1>1, <1>2, <1>3, <1>4, <1>5, <1>6, <1>7, <1>8
    DEF HandlerStep, AgentChooses, HandlersStay

Ordered == Lists /\ (\A a \in Agents : Plans(a)) /\ LoopsReachable

LEMMA PendingsNext ==
    \A i : Pending(i)' <=>
              \E a \in Agents : Agent(a)'.pc = "append" /\ Agent(a)'.id = i
  BY AgentFacts DEF Pending

LEMMA AgentStartsOrdered ==
    ASSUME CoreInv, NEW a \in Agents, NEW k \in Keys, NEW i \in Instances,
           AgentStarts(a, k, i)
    PROVE  Ordered'
  <1>1. /\ inst'[i] = [key |-> k, phase |-> "live"]
        /\ \A l \in Instances : l # i => inst'[l] = inst[l]
        /\ ~Live(i) /\ ~Listed(i) /\ ~Pending(i)
    BY Started DEF AgentStarts
  <1>2. /\ instances' = instances /\ consumer' = consumer /\ consumer # "down"
        /\ Agent(a)'.pc = "append" /\ Agent(a)'.todo = Agent(a).todo \ {k}
        /\ Agent(a)'.key = k /\ Agent(a)'.id = i
        /\ Agent(a).pc # "append"
        /\ \A b \in Agents : b # a => Agent(b)' = Agent(b)
    BY SMTT(30) DEF AgentStarts, Others, CanRun
  <1>3. \A b \in Agents : Agent(b).pc = "append" => Agent(b).id # i
    BY <1>1, Pendings
  <1>4. \A n \in 1..Len(instances) : instances[n] \in Instances /\ instances[n] # i
    BY <1>1, SMTT(30) DEF CoreInv, HandlerShape, Listed
  <1>5. Lists'
    BY <1>1, <1>2, <1>3, <1>4, SMTT(30) DEF CoreInv, Lists
  <1>6. \A b \in Agents : Plans(b)'
    <2>1. Plans(a)'
      BY <1>1, <1>2, SMTT(30) DEF Plans, Listed
    <2>2. ASSUME NEW b \in Agents, b # a PROVE Plans(b)'
      BY <1>1, <1>2, <1>3, <2>2, SMTT(30) DEF CoreInv, Plans, Listed
    <2> QED
      BY <2>1, <2>2
  <1>7. LoopsReachable'
    <2>1. Pending(i)'
      BY <1>2, PendingsNext
    <2>2. ASSUME NEW l \in Instances, l # i, Live(l)' PROVE Listed(l)' \/ Pending(l)'
      <3>1. Listed(l) \/ Pending(l)
        BY <1>1, <2>2 DEF CoreInv, LoopsReachable, Live
      <3>2. Listed(l) => Listed(l)'
        BY <1>2 DEF Listed
      <3>3. Pending(l) => Pending(l)'
        BY <1>2, Pendings, PendingsNext
      <3> QED
        BY <3>1, <3>2, <3>3
    <2> QED
      BY <1>2, <2>1, <2>2 DEF LoopsReachable
  <1> QED
    BY <1>5, <1>6, <1>7 DEF Ordered

LEMMA AgentListsOrdered ==
    ASSUME CoreInv, NEW a \in Agents, AgentLists(a)
    PROVE  Ordered'
  <1> DEFINE x == Agent(a).id
  <1>1. /\ Agent(a).pc = "append" /\ x \in Instances /\ ~Listed(x)
        /\ inst[x].phase # "free"
        /\ inst' = inst /\ consumer' = consumer
        /\ Agent(a)'.pc = "next"
        /\ \A b \in Agents : b # a => Agent(b)' = Agent(b)
        /\ instances' = Append(instances, x)
    BY DEF AgentLists, AppendInstance, Others, CoreInv, Plans
  <1>2. \A b \in Agents : b # a /\ Agent(b).pc = "append" => Agent(b).id # x
    BY <1>1 DEF CoreInv, Lists
  <1> HIDE DEF x
  <1>3. /\ Len(instances') = Len(instances) + 1 /\ Len(instances) \in Nat
        /\ \A m \in 1..Len(instances) : instances'[m] = instances[m]
        /\ instances'[Len(instances) + 1] = x
    BY <1>1, AppendFacts, SMTT(30) DEF CoreInv, HandlerShape
  <1>4. \A m \in 1..(Len(instances) + 1) : m \in 1..Len(instances)
                                           \/ m = Len(instances) + 1
    BY <1>3, SMTT(30)
  <1>5. \A m \in 1..Len(instances) : instances[m] # x
    BY <1>1 DEF Listed
  <1>6. \A l : Listed(l)' <=> Listed(l) \/ l = x
    BY <1>1, ListedAppend DEF CoreInv, HandlerShape
  <1>7. Lists'
    <2>1. \A m, n \in 1..Len(instances') : instances'[m] = instances'[n] => m = n
      BY <1>3, <1>4, <1>5 DEF CoreInv, Lists
    <2>2. \A n \in 1..Len(instances') : inst'[instances'[n]].phase # "free"
      BY <1>1, <1>3, <1>4 DEF CoreInv, Lists
    <2>3. \A b, c \in Agents :
             /\ Agent(b)'.pc = "append" /\ Agent(c)'.pc = "append"
             /\ Agent(b)'.id = Agent(c)'.id
             => b = c
      BY <1>1 DEF CoreInv, Lists
    <2> QED
      BY <2>1, <2>2, <2>3 DEF Lists
  <1>8. \A b \in Agents : Plans(b)'
    <2>1. Plans(a)'
      BY <1>1 DEF Plans
    <2>2. ASSUME NEW b \in Agents, b # a PROVE Plans(b)'
      <3>1. Plans(b) /\ Agent(b)' = Agent(b) /\ inst' = inst
        BY <1>1, <2>2 DEF CoreInv
      <3>2. Agent(b).pc = "append" => ~(Listed(Agent(b).id) \/ Agent(b).id = x)
        BY <1>2, <2>2, <3>1 DEF Plans
      <3> DEFINE y == Agent(b).id
      <3>3. Agent(b).pc = "append" => ~(\E j \in 1..Len(instances') : instances'[j] = y)
        BY <1>3, <1>4, <3>2 DEF Listed
      <3> QED
        BY <3>1, <3>3 DEF Plans, Listed
    <2> QED
      BY <2>1, <2>2
  <1>9. LoopsReachable'
    <2> SUFFICES ASSUME NEW l \in Instances, Live(l)'
                 PROVE  (Listed(l)' \/ Pending(l)') /\ consumer' # "down"
      BY DEF LoopsReachable
    <2>1. (Listed(l) \/ Pending(l)) /\ consumer # "down"
      BY <1>1 DEF CoreInv, LoopsReachable, Live
    <2>2. ASSUME NEW b \in Agents, Agent(b).pc = "append", Agent(b).id = l
          PROVE  Listed(l)' \/ Pending(l)'
      <3>1. CASE b = a
        BY <1>6, <2>2, <3>1 DEF x
      <3>2. CASE b # a
        BY <1>1, <2>2, <3>2, PendingsNext
      <3> QED
        BY <3>1, <3>2
    <2> QED
      BY <1>1, <1>6, <2>1, <2>2, Pendings
  <1> QED
    BY <1>7, <1>8, <1>9 DEF Ordered

LEMMA StartsAndListsOrdered ==
    ASSUME CoreInv, NEW k \in Keys, NEW i \in Instances, StartsAndLists(k, i)
    PROVE  Ordered'
  <1>1. /\ inst'[i] = [key |-> k, phase |-> "live"]
        /\ \A l \in Instances : l # i => inst'[l] = inst[l]
        /\ ~Live(i) /\ ~Listed(i) /\ ~Pending(i)
    BY Started DEF StartsAndLists
  <1>2. /\ instances' = Append(instances, i)
        /\ consumer' = consumer /\ consumer # "down"
        /\ \A b \in Agents : Agent(b)' = Agent(b)
    BY AgentFacts DEF StartsAndLists, CanRun
  <1>3. \A b \in Agents : Agent(b).pc = "append" => Agent(b).id # i
    BY <1>1, Pendings
  <1>4. /\ Len(instances') = Len(instances) + 1 /\ Len(instances) \in Nat
        /\ \A m \in 1..Len(instances) : instances'[m] = instances[m]
        /\ instances'[Len(instances) + 1] = i
    BY <1>2, AppendFacts, SMTT(30) DEF CoreInv, HandlerShape
  <1>5. \A m \in 1..(Len(instances) + 1) : m \in 1..Len(instances)
                                           \/ m = Len(instances) + 1
    BY <1>4, SMTT(30)
  <1>6. \A m \in 1..Len(instances) : instances[m] # i /\ instances[m] \in Instances
    BY <1>1, SMTT(30) DEF Listed, CoreInv, HandlerShape
  <1>7. \A l : Listed(l)' <=> Listed(l) \/ l = i
    BY <1>2, ListedAppend DEF CoreInv, HandlerShape
  <1>8. Lists'
    <2>1. \A m, n \in 1..Len(instances') : instances'[m] = instances'[n] => m = n
      BY <1>4, <1>5, <1>6 DEF CoreInv, Lists
    <2>2. \A n \in 1..Len(instances') : inst'[instances'[n]].phase # "free"
      BY <1>1, <1>4, <1>5, <1>6, SMTT(30) DEF CoreInv, Lists
    <2>3. \A b, c \in Agents :
             /\ Agent(b)'.pc = "append" /\ Agent(c)'.pc = "append"
             /\ Agent(b)'.id = Agent(c)'.id
             => b = c
      BY <1>2 DEF CoreInv, Lists
    <2> QED
      BY <2>1, <2>2, <2>3 DEF Lists
  <1>9. \A b \in Agents : Plans(b)'
    <2> SUFFICES ASSUME NEW b \in Agents PROVE Plans(b)'
      OBVIOUS
    <2>1. Plans(b) /\ Agent(b)' = Agent(b)
      BY <1>2 DEF CoreInv
    <2> DEFINE y == Agent(b).id
    <2>2. Agent(b).pc = "append" =>
             /\ y # i /\ ~(\E j \in 1..Len(instances) : instances[j] = y)
             /\ ~(\E j \in 1..Len(instances') : instances'[j] = y)
      BY <1>3, <1>4, <1>5, <2>1 DEF Plans, Listed
    <2> QED
      BY <1>1, <2>1, <2>2 DEF Plans, Listed
  <1>10. LoopsReachable'
    <2> SUFFICES ASSUME NEW l \in Instances, Live(l)'
                 PROVE  (Listed(l)' \/ Pending(l)') /\ consumer' # "down"
      BY DEF LoopsReachable
    <2>1. l = i \/ Listed(l) \/ Pending(l)
      BY <1>1 DEF CoreInv, LoopsReachable, Live
    <2>2. Pending(l) => Pending(l)'
      BY <1>2, Pendings, PendingsNext
    <2> QED
      BY <1>2, <1>7, <2>1, <2>2
  <1> QED
    BY <1>8, <1>9, <1>10 DEF Ordered

LEMMA StopsFirstOrdered ==
    ASSUME CoreInv, NEW k \in Keys, StopsFirst(k)
    PROVE  Ordered'
  <1>0. StopFirst(k) /\ UNCHANGED <<boot, rec, consumer>>
    BY DEF StopsFirst
  <1>1. \A b \in Agents : Agent(b)' = Agent(b)
    BY <1>0, AgentFacts
  <1>2. \A l : Pending(l)' <=> Pending(l)
    BY <1>1, Pendings, PendingsNext
  <1>3. CASE UNCHANGED <<inst, instances>>
    BY <1>0, <1>1, <1>2, <1>3, SMTT(30)
    DEF CoreInv, Ordered, Lists, Plans, LoopsReachable, Listed, Live
  <1>4. ASSUME NEW n \in FirstAt(k), instances' = Without(instances, n),
               inst' = [i \in Instances |-> IF i = instances[n] THEN NoHandler
                                            ELSE inst[i]]
        PROVE  Ordered'
    <2>1. n \in 1..Len(instances) /\ instances \in Seq(Instances)
          /\ instances[n] \in Instances
      BY SMTT(30) DEF FirstAt, CoreInv, HandlerShape
    <2>2. /\ \A l : Listed(l)' <=> Listed(l) /\ l # instances[n]
          /\ \A g, h \in 1..Len(instances') : instances'[g] = instances'[h] => g = h
          /\ \A g \in 1..Len(instances') : \E h \in 1..Len(instances) :
                instances'[g] = instances[h] /\ h # n
      BY <1>4, <2>1, ListedWithout DEF CoreInv, Lists
    <2>3. \A l \in Instances : l # instances[n] => inst'[l] = inst[l]
      BY <1>4
    <2>4. Listed(instances[n])
      BY <2>1 DEF Listed
    <2>5. Lists'
      <3>1. ASSUME NEW g \in 1..Len(instances') PROVE inst'[instances'[g]].phase # "free"
        <4>1. PICK h \in 1..Len(instances) : instances'[g] = instances[h] /\ h # n
          BY <2>2
        <4>2. instances[h] # instances[n] /\ instances[h] \in Instances
          BY <2>1, <4>1, SMTT(30) DEF CoreInv, Lists
        <4> QED
          BY <2>3, <4>1, <4>2 DEF CoreInv, Lists
      <3> QED
        BY <1>1, <2>2, <3>1, SMTT(30) DEF CoreInv, Lists
    <2>6. ASSUME NEW b \in Agents PROVE Plans(b)'
      <3>1. Plans(b) /\ Agent(b)' = Agent(b)
        BY <1>1 DEF CoreInv
      <3>2. ASSUME NEW y, y = Agent(b).id, Agent(b).pc = "append"
            PROVE  y # instances[n] /\ ~Listed(y)'
        BY <2>2, <2>4, <3>1, <3>2 DEF Plans
      <3> QED
        BY <2>3, <3>1, <3>2 DEF Plans, Listed
    <2>7. LoopsReachable'
      <3> SUFFICES ASSUME NEW l \in Instances, Live(l)'
                   PROVE  (Listed(l)' \/ Pending(l)') /\ consumer' # "down"
        BY DEF LoopsReachable
      <3>1. l # instances[n] /\ Live(l)
        BY <1>4 DEF Live, NoHandler
      <3> QED
        BY <1>0, <1>2, <2>2, <3>1 DEF CoreInv, LoopsReachable
    <2> QED
      BY <2>5, <2>6, <2>7 DEF Ordered
  <1> QED
    BY <1>0, <1>3, <1>4, StopEffect

LEMMA AgentsTurnOrdered ==
    ASSUME CoreInv, UNCHANGED <<inst, instances>>,
           consumer # "down" => consumer' # "down",
           \A a \in Agents : \/ Agent(a)' = Agent(a)
                             \/ Agent(a).pc # "append" /\ Agent(a)'.pc = "next"
                             \/ AgentTurns(a)
    PROVE  Ordered'
  <1>1. \A a \in Agents : (Agent(a).pc = "append" \/ Agent(a)'.pc = "append")
                             => Agent(a)' = Agent(a)
    BY DEF AgentTurns
  <1>2. \A l : Pending(l)' <=> Pending(l)
    BY <1>1, Pendings, PendingsNext
  <1>3. Lists'
    BY <1>1 DEF CoreInv, Lists
  <1>4. ASSUME NEW a \in Agents PROVE Plans(a)'
    <2>1. CASE Agent(a)' = Agent(a)
      BY <2>1 DEF CoreInv, Plans, Listed
    <2>2. CASE Agent(a).pc # "append" /\ Agent(a)'.pc = "next"
      BY <2>2 DEF Plans
    <2>3. CASE AgentTurns(a)
      BY <2>3 DEF Plans, AgentTurns
    <2> QED
      BY <2>1, <2>2, <2>3
  <1>5. LoopsReachable'
    BY <1>2 DEF CoreInv, LoopsReachable, Live, Listed
  <1> QED
    BY <1>3, <1>4, <1>5 DEF Ordered

LEMMA StopsItselfOrdered ==
    ASSUME CoreInv, NEW i \in Instances, StopsItself(i)
    PROVE  Ordered'
  <1>0. UNCHANGED <<instances, boot, rec, consumer>>
    BY DEF StopsItself
  <1>1. \A b \in Agents : Agent(b)' = Agent(b)
    BY <1>0, AgentFacts
  <1>2. \A l : Pending(l)' <=> Pending(l)
    BY <1>1, Pendings, PendingsNext
  <1>3. /\ inst'[i].key = inst[i].key /\ inst'[i].phase = "stopped"
        /\ \A l \in Instances : l # i => inst'[l] = inst[l]
    <2>1. inst' = [l \in Instances |->
                      IF l = i THEN [key |-> inst[i].key, phase |-> "stopped"]
                      ELSE inst[l]]
      BY SelfEffect
    <2> QED
      BY <2>1
  <1>4. \A l \in Instances : /\ inst'[l].key = inst[l].key
                             /\ inst'[l].phase = "free" => inst[l].phase = "free"
                             /\ Live(l)' => Live(l)
    BY <1>3 DEF Live
  <1>5. Lists'
    <2>1. \A n \in 1..Len(instances) : instances[n] \in Instances
      BY SMTT(30) DEF CoreInv, HandlerShape
    <2> QED
      BY <1>0, <1>1, <1>4, <2>1 DEF CoreInv, Lists
  <1>6. ASSUME NEW a \in Agents PROVE Plans(a)'
    BY <1>0, <1>1, <1>4 DEF CoreInv, Plans, Listed
  <1>7. LoopsReachable'
    BY <1>0, <1>2, <1>4 DEF CoreInv, LoopsReachable, Listed
  <1> QED
    BY <1>5, <1>6, <1>7 DEF Ordered

LEMMA ShutsDownOrdered ==
    ASSUME CoreInv, ShutsDown
    PROVE  Ordered'
  <1>1. inst' = [i \in Instances |->
                    IF Listed(i) THEN NoHandler
                    ELSE IF Live(i) THEN [key |-> inst[i].key, phase |-> "cut"]
                    ELSE inst[i]]
        /\ instances' = <<>>
    BY ShutEffect DEF ShutsDown
  <1>2. \A b \in Agents : Agent(b)' = Agent(b)
           \/ (Agent(b).pc # "append" /\ Agent(b)' = Idle)
    BY AgentFacts DEF ShutsDown
  <1>3. Len(instances') = 0
    BY <1>1
  <1>4. \A b \in Agents : Agent(b)'.pc = "append" => Agent(b)' = Agent(b)
    BY <1>2, SMTT(30) DEF Idle
  <1>5. Lists'
    BY <1>3, <1>4, SMTT(30) DEF CoreInv, Lists
  <1>6. ASSUME NEW b \in Agents PROVE Plans(b)'
    <2>1. CASE Agent(b)' = Agent(b)
      <3>1. Plans(b)
        BY DEF CoreInv
      <3>2. ASSUME Agent(b).pc = "append"
            PROVE  inst'[Agent(b).id].phase # "free"
                   /\ inst'[Agent(b).id].key = inst[Agent(b).id].key
        BY <1>1, <3>1, <3>2 DEF Plans
      <3> QED
        BY <1>3, <2>1, <3>1, <3>2, SMTT(30) DEF Plans, Listed
    <2>2. CASE Agent(b)' = Idle
      BY <2>2, SMTT(30) DEF Plans, Idle
    <2> QED
      BY <1>2, <2>1, <2>2
  <1>7. LoopsReachable'
    BY <1>1 DEF LoopsReachable, Live, NoHandler
  <1> QED
    BY <1>5, <1>6, <1>7 DEF Ordered

LEMMA CoreStep == CoreInv /\ [Next]_vars => CoreInv'
  <1> SUFFICES ASSUME CoreInv, [Next]_vars PROVE CoreInv'
    OBVIOUS
  <1>1. HandlerStep /\ AgentShape' /\ Flow'
    BY HandlerCases, AgentShapeStep, FlowStep
  <1>2. HandlerShape'
    BY <1>1, HandlerShapeStep
  <1>3. ASSUME NEW a \in Agents, NEW K \in SUBSET Keys, AgentChooses(a, K)
        PROVE  Ordered'
    <2>1. Agent(a).pc # "append" /\ Agent(a)'.pc = "next"
      BY <1>3, SMTT(30) DEF AgentChooses
    <2> QED
      BY <1>3, <2>1, AgentsTurnOrdered DEF AgentChooses, Others
  <1>4. ASSUME HandlersStay PROVE Ordered'
    BY <1>4, AgentsTurnOrdered DEF HandlersStay
  <1>5. Ordered'
    BY <1>1, <1>3, <1>4, AgentStartsOrdered, AgentListsOrdered,
       StartsAndListsOrdered, StopsFirstOrdered, StopsItselfOrdered, ShutsDownOrdered
    DEF HandlerStep
  <1> QED
    BY <1>1, <1>2, <1>5 DEF CoreInv, Ordered

LEMMA CoreInit == Init => CoreInv
  <1> SUFFICES ASSUME Init PROVE CoreInv
    OBVIOUS
  <1>1. /\ inst = [i \in Instances |-> [key |-> "none", phase |-> "free"]]
        /\ instances = <<>> /\ Len(instances) = 0
        /\ boot = [pc |-> "idle", todo |-> {}, key |-> "none", id |-> 0]
        /\ rec = [j \in Reconcilers |-> [Idle EXCEPT !.pc = "off"]]
        /\ lk = [i \in Instances |-> "off"]
        /\ configs \subseteq Keys /\ starts = {} /\ runs = 0 /\ consumer = "down"
    BY DEF Init, LockInit, NoHandler, Idle
  <1>2. [Idle EXCEPT !.pc = "off"] =
           [pc |-> "off", todo |-> {}, key |-> "none", id |-> 0]
    BY SMTT(30) DEF Idle
  <1>3. rec = [j \in Reconcilers |-> [pc |-> "off", todo |-> {}, key |-> "none",
                                      id |-> 0]]
    BY <1>1, <1>2
  <1>4. \A a \in Agents : Agent(a).todo = {} /\ Agent(a).pc \in {"idle", "off"}
    BY <1>1, <1>3, AgentFacts, SMTT(30)
  <1>5. HandlerShape
    BY <1>1, SMTT(30) DEF HandlerShape
  <1>6. AgentShape
    BY <1>1, <1>3, <1>4 DEF AgentShape
  <1>7. Flow
    BY <1>1, <1>3, SMTT(30) DEF Flow
  <1>8. Lists
    BY <1>1, <1>4, SMTT(30) DEF Lists
  <1>9. \A a \in Agents : Plans(a)
    BY <1>4 DEF Plans
  <1>10. LoopsReachable
    BY <1>1 DEF LoopsReachable, Live
  <1> QED
    BY <1>5, <1>6, <1>7, <1>8, <1>9, <1>10 DEF CoreInv

(* r.instances and the handlers that Run and reconcile are about to append  *)
(* name each handler once, with its key, whatever the three parties do.     *)
THEOREM RunnerInvariant == Spec => []CoreInv
  BY CoreInit, CoreStep, PTL DEF Spec

(* No dequeue loop is out of reach: each is in r.instances, or Run or       *)
(* reconcile is about to append it, and none is left when the consumer is   *)
(* down.                                                                    *)
THEOREM LoopsStayReachable == Spec => []LoopsReachable
  <1>1. CoreInv => LoopsReachable
    BY DEF CoreInv
  <1> QED
    BY <1>1, RunnerInvariant, PTL

-----------------------------------------------------------------------------
(* The worker lock: without a fault the key says who works.                *)

LEMMA ReleaseLock ==
    ASSUME CoreInv, LockInv, NEW R \in SUBSET Instances, NEW f, Release(R, f),
           \A l \in Instances :
              lk[l] = "held" /\ l \notin R => inst'[l].phase \in {"live", "cut"}
    PROVE  LockInv'
  <1>1. /\ \A l \in Instances : lk'[l] = IF l \in R THEN "off" ELSE lk[l]
        /\ rivalWorks' = rivalWorks
    BY DEF Release
  <1>2. \A l \in Instances : lk'[l] = "held" => lk[l] = "held" /\ l \notin R
    BY <1>1
  <1>3. \A l \in Instances : lk'[l] = "held" => inst'[l].phase \in {"live", "cut"}
    BY <1>2
  <1>4. faults' \in Nat /\ (faults' = 0 => faults = 0 /\ lockOwner' = OwnerAfterRelease(R))
    BY SMTT(30) DEF Release, LockInv
  <1>5. ASSUME faults' = 0
        PROVE  /\ \A l, j \in Instances : lk'[l] = "held" /\ lk'[j] = "held" => l = j
               /\ \A l \in Instances : lk'[l] = "held" => lockOwner' = "self"
               /\ rivalWorks' => lockOwner' = "rival"
    <2>1. /\ \A l, j \in Instances : lk[l] = "held" /\ lk[j] = "held" => l = j
          /\ \A l \in Instances : lk[l] = "held" => lockOwner = "self"
          /\ rivalWorks => lockOwner = "rival"
      BY <1>4, <1>5 DEF LockInv
    <2>2. ASSUME NEW l \in Instances, lk'[l] = "held" PROVE lockOwner' = "self"
      BY <1>2, <1>4, <1>5, <2>1, <2>2 DEF OwnerAfterRelease, Acquired
    <2>3. rivalWorks' => lockOwner' = "rival"
      BY <1>1, <1>4, <1>5, <2>1 DEF OwnerAfterRelease
    <2> QED
      BY <1>2, <2>1, <2>2, <2>3
  <1> QED
    BY <1>3, <1>4, <1>5 DEF LockInv

LEMMA StartLock ==
    ASSUME CoreInv, LockInv, NEW k \in Keys, NEW i \in Instances, StartInstance(i, k)
    PROVE  LockInv'
  <1>1. lk' = [lk EXCEPT ![i] = "trying"] /\ UNCHANGED <<lockOwner, rivalWorks, faults>>
    BY DEF StartInstance
  <1>2. \A l \in Instances : lk'[l] = "held" => lk[l] = "held" /\ l # i
    BY <1>1 DEF CoreInv, HandlerShape
  <1>3. \A l \in Instances : l # i => inst'[l] = inst[l]
    BY Started
  <1> QED
    BY <1>1, <1>2, <1>3 DEF LockInv

LEMMA AcquireStepLock ==
    ASSUME CoreInv, LockInv, NEW i \in Instances, AcquireLock(i) \/ AcquireGivesUp(i)
    PROVE  LockInv'
  <1>0. inst' = inst /\ lk \in [Instances -> {"off", "trying", "held"}]
    BY DEF AcquireLock, AcquireGivesUp, handlerVars, CoreInv, HandlerShape
  <1>1. CASE AcquireLock(i)
    <2>1. /\ lockOwner = "none" /\ lockOwner' = "self" /\ UNCHANGED <<rivalWorks, faults>>
          /\ \A l \in Instances : lk'[l] = IF l = i THEN "held" ELSE lk[l]
          /\ inst[i].phase = "live"
      BY <1>0, <1>1 DEF AcquireLock, TryAcquire, Live
    <2> QED
      BY <1>0, <2>1 DEF LockInv
  <1>2. CASE AcquireGivesUp(i)
    <2>1. /\ UNCHANGED <<lockOwner, rivalWorks, faults>>
          /\ \A l \in Instances : lk'[l] = IF l = i THEN "off" ELSE lk[l]
      BY <1>0, <1>2 DEF AcquireGivesUp
    <2>2. \A l \in Instances : lk'[l] = "held" => lk[l] = "held"
      BY <2>1
    <2> QED
      BY <1>0, <2>1, <2>2 DEF LockInv
  <1> QED
    BY <1>1, <1>2

LEMMA LockStepLock ==
    ASSUME CoreInv, LockInv, LockStep
    PROVE  LockInv'
  <1>0. inst' = inst /\ lk' = lk
    BY DEF LockStep, handlerVars, Lapse, Expire, RivalAcquire, RivalRelease
  <1>1. CASE Lapse
    BY <1>0, <1>1, SMTT(30) DEF LockInv, Lapse
  <1>2. CASE Expire
    BY <1>0, <1>2 DEF LockInv, Expire, Acquired
  <1>3. CASE RivalAcquire
    BY <1>0, <1>3 DEF LockInv, RivalAcquire
  <1>4. CASE RivalRelease
    BY <1>0, <1>4 DEF LockInv, RivalRelease
  <1> QED
    BY <1>1, <1>2, <1>3, <1>4 DEF LockStep

LEMMA LockInvStep == CoreInv /\ LockInv /\ [Next]_vars => LockInv'
  <1> SUFFICES ASSUME CoreInv, LockInv, HandlerStep PROVE LockInv'
    BY HandlerCases
  <1>1. ASSUME UNCHANGED <<inst, lockVars>> PROVE LockInv'
    BY <1>1 DEF LockInv, lockVars
  <1>2. CASE HandlersStay
    BY <1>1, <1>2, AcquireStepLock, LockStepLock DEF HandlersStay
  <1>3. ASSUME NEW k \in Keys, StopsFirst(k) PROVE LockInv'
    <2>1. StopFirst(k)
      BY <1>3 DEF StopsFirst
    <2>2. ASSUME NEW n \in FirstAt(k),
                 inst' = [i \in Instances |-> IF i = instances[n] THEN NoHandler
                                              ELSE inst[i]],
                 Release({i \in {instances[n]} : inst[i].phase \in {"live", "cut"}},
                         changes + faults < MaxChanges)
          PROVE  LockInv'
      <3>1. instances[n] \in Instances
        BY SMTT(30) DEF FirstAt, CoreInv, HandlerShape
      <3>2. \A l \in Instances :
               /\ lk[l] = "held"
               /\ l \notin {i \in {instances[n]} : inst[i].phase \in {"live", "cut"}}
               => inst'[l].phase \in {"live", "cut"}
        BY <2>2 DEF LockInv
      <3>3. {i \in {instances[n]} : inst[i].phase \in {"live", "cut"}}
               \in SUBSET Instances
        BY <3>1
      <3> QED
        BY <2>2, <3>2, <3>3, ReleaseLock
    <2> QED
      BY <1>1, <2>1, <2>2, StopEffect
  <1>4. ASSUME NEW i \in Instances, StopsItself(i) PROVE LockInv'
    <2>1. inst' = [l \in Instances |->
                      IF l = i THEN [key |-> inst[i].key, phase |-> "stopped"]
                      ELSE inst[l]]
          /\ Release({i}, changes + faults < MaxChanges)
      BY <1>4, SelfEffect
    <2>2. \A l \in Instances : lk[l] = "held" /\ l \notin {i}
                                  => inst'[l].phase \in {"live", "cut"}
      BY <2>1 DEF LockInv
    <2>3. {i} \in SUBSET Instances
      OBVIOUS
    <2> QED
      BY <2>1, <2>2, <2>3, ReleaseLock
  <1>5. CASE ShutsDown
    <2> DEFINE R == {i \in {i \in Instances : Listed(i)} :
                        inst[i].phase \in {"live", "cut"}}
    <2>1. inst' = [i \in Instances |->
                      IF Listed(i) THEN NoHandler
                      ELSE IF Live(i) THEN [key |-> inst[i].key, phase |-> "cut"]
                      ELSE inst[i]]
      BY <1>5, ShutEffect DEF ShutsDown
    <2>2. Release(R, changes + faults < MaxChanges)
      BY <1>5 DEF ShutsDown, ShutdownRunner
    <2>3. \A l \in Instances : lk[l] = "held" /\ l \notin R
                                  => inst'[l].phase \in {"live", "cut"}
      BY <2>1 DEF LockInv, Live
    <2>4. R \in SUBSET Instances
      OBVIOUS
    <2> QED
      BY <2>2, <2>3, <2>4, ReleaseLock
  <1> QED
    BY <1>1, <1>2, <1>3, <1>4, <1>5, StartLock
    DEF HandlerStep, AgentStarts, AgentLists, AgentChooses, StartsAndLists

(* Without a fault the key in Redis names the one consumer that works for   *)
(* the queue, and one of its handlers holds the lock.                       *)
THEOREM LockInvariant == Spec => []LockInv
  <1>1. Init => LockInv
    BY SMTT(30) DEF Init, LockInit, LockInv
  <1> QED
    BY <1>1, LockInvStep, RunnerInvariant, PTL DEF Spec

LEMMA HistoryGrows ==
    ASSUME HandlerStep
    PROVE  overlap \subseteq overlap' /\ shadow \subseteq shadow'
  BY
  DEF HandlerStep, AgentStarts, AgentLists, AppendInstance, AgentChooses,
      HandlersStay, StartsAndLists, StopsFirst, StopsItself, ShutsDown,
      ShutdownRunner, Touch

(* A dequeue loop whose key nobody is about to append is in the list.      *)
LEMMA LiveIsListed ==
    ASSUME CoreInv, NEW i \in Instances, Live(i), inst[i].key \notin Busy
    PROVE  Listed(i)
  <1>1. Pending(i) => inst[i].key \in Busy
    <2> SUFFICES ASSUME Pending(i) PROVE inst[i].key \in Busy
      OBVIOUS
    <2>1. PICK a \in Agents : Agent(a).pc = "append" /\ Agent(a).id = i
      BY Pendings
    <2>2. inst[i].key \in InHand(Agent(a))
      BY <2>1 DEF CoreInv, Plans, InHand
    <2> QED
      BY <2>2, Busyness
  <1> QED
    BY <1>1 DEF CoreInv, LoopsReachable

LEMMA CutStep == CoreInv /\ CutInv /\ [Next]_vars => CutInv'
  <1> SUFFICES ASSUME CoreInv, CutInv, HandlerStep PROVE CutInv'
    BY HandlerCases
  <1>0. overlap \subseteq overlap'
    BY HistoryGrows
  <1>1. ASSUME \A i \in Instances : inst'[i].phase = "cut" => inst'[i] = inst[i]
        PROVE  CutInv'
    BY <1>0, <1>1 DEF CutInv
  <1>2. ASSUME NEW k \in Keys, NEW i \in Instances, StartInstance(i, k)
        PROVE  CutInv'
    <2>1. /\ inst'[i] = [key |-> k, phase |-> "live"]
          /\ \A l \in Instances : l # i => inst'[l] = inst[l]
      BY <1>2, Started
    <2>2. \A l \in Instances : inst'[l].phase = "cut" => inst'[l] = inst[l]
      BY <2>1, SMTT(30)
    <2> QED
      BY <1>1, <2>2
  <1>3. ASSUME NEW k \in Keys, StopsFirst(k) PROVE CutInv'
    <2>1. \/ inst' = inst
          \/ \E n \in FirstAt(k) :
                inst' = [i \in Instances |-> IF i = instances[n] THEN NoHandler
                                             ELSE inst[i]]
      BY <1>3, StopEffect DEF StopsFirst
    <2>2. \A l \in Instances : inst'[l].phase = "cut" => inst'[l] = inst[l]
      BY <2>1, SMTT(30) DEF NoHandler
    <2> QED
      BY <1>1, <2>2
  <1>4. ASSUME NEW i \in Instances, StopsItself(i) PROVE CutInv'
    <2>1. inst' = [l \in Instances |->
                      IF l = i THEN [key |-> inst[i].key, phase |-> "stopped"]
                      ELSE inst[l]]
      BY <1>4, SelfEffect
    <2> QED
      BY <1>1, <2>1
  <1>5. CASE ShutsDown
    <2>1. inst' = [i \in Instances |->
                      IF Listed(i) THEN NoHandler
                      ELSE IF Live(i) THEN [key |-> inst[i].key, phase |-> "cut"]
                      ELSE inst[i]]
      BY <1>5, ShutEffect DEF ShutsDown
    <2>2. overlap' = overlap \cup (Keys \cap Busy)
      BY <1>5 DEF ShutsDown, ShutdownRunner, Touch
    <2>3. ASSUME NEW i \in Instances, inst'[i].phase = "cut"
          PROVE  inst'[i].key \in overlap'
      <3>1. ~Listed(i) /\ inst'[i].key = inst[i].key /\ (Live(i) \/ inst'[i] = inst[i])
        BY <2>1, <2>3 DEF NoHandler
      <3>2. CASE Live(i)
        <4>1. inst[i].key \in Keys
          BY <3>2 DEF CoreInv, HandlerShape, Live
        <4> QED
          BY <2>2, <3>1, <3>2, <4>1, LiveIsListed
      <3>3. CASE inst'[i] = inst[i]
        BY <2>2, <2>3, <3>3 DEF CutInv
      <3> QED
        BY <3>1, <3>2, <3>3
    <2> QED
      BY <2>3 DEF CutInv
  <1> QED
    BY <1>1, <1>2, <1>3, <1>4, <1>5
    DEF HandlerStep, AgentStarts, AgentLists, AgentChooses, HandlersStay,
        StartsAndLists

(* Shutdown gives the worker lock back: a handler that still holds it when  *)
(* the consumer is down was started across the shutdown by Run or           *)
(* reconcile, which had not appended it to r.instances.                     *)
THEOREM LockIsGivenBack == Spec => []LockGivenBack
  <1>1. Init => CutInv
    BY SMTT(30) DEF Init, CutInv, NoHandler
  <1>2. CoreInv /\ LockInv /\ CutInv => LockGivenBack
    BY DEF CoreInv, LoopsReachable, LockInv, CutInv, LockGivenBack, Acquired, Live
  <1> QED
    BY <1>1, <1>2, CutStep, RunnerInvariant, LockInvariant, PTL DEF Spec

-----------------------------------------------------------------------------
(* The dequeue loops of one key.                                           *)

\* What a step can do to the loops of a key.
LEMMA LiveAfter ==
    ASSUME CoreInv, HandlerStep, NEW i \in Instances, NEW k \in Keys, LiveOf(i, k)'
    PROVE  \/ LiveOf(i, k)
           \/ \E a \in Agents : AgentStarts(a, k, i)
           \/ StartsAndLists(k, i)
  <1>1. CASE inst' = inst
    BY <1>1 DEF LiveOf
  <1>2. ASSUME NEW h \in Keys, NEW l \in Instances, StartInstance(l, h),
               ~LiveOf(i, k)
        PROVE  l = i /\ h = k
    <2>1. /\ inst'[l] = [key |-> h, phase |-> "live"]
          /\ \A m \in Instances : m # l => inst'[m] = inst[m]
      BY <1>2, Started
    <2> QED
      BY <1>2, <2>1, SMTT(30) DEF LiveOf
  <1>3. ASSUME NEW h \in Keys, StopsFirst(h) PROVE LiveOf(i, k)
    <2>1. \/ inst' = inst
          \/ \E n \in FirstAt(h) :
                inst' = [m \in Instances |-> IF m = instances[n] THEN NoHandler
                                             ELSE inst[m]]
      BY <1>3, StopEffect DEF StopsFirst
    <2> QED
      BY <2>1, SMTT(30) DEF LiveOf, NoHandler
  <1>4. ASSUME NEW l \in Instances, StopsItself(l) PROVE LiveOf(i, k)
    <2>1. inst' = [m \in Instances |->
                      IF m = l THEN [key |-> inst[l].key, phase |-> "stopped"]
                      ELSE inst[m]]
      BY <1>4, SelfEffect
    <2> QED
      BY <2>1 DEF LiveOf
  <1>5. CASE ShutsDown
    <2>1. inst' = [m \in Instances |->
                      IF Listed(m) THEN NoHandler
                      ELSE IF Live(m) THEN [key |-> inst[m].key, phase |-> "cut"]
                      ELSE inst[m]]
      BY <1>5, ShutEffect DEF ShutsDown
    <2> QED
      BY <2>1 DEF LiveOf, NoHandler
  <1>6. ASSUME NEW a \in Agents, NEW h \in Keys, NEW l \in Instances,
               AgentStarts(a, h, l)
        PROVE  LiveOf(i, k) \/ \E b \in Agents : AgentStarts(b, k, i)
    <2>1. StartInstance(l, h)
      BY <1>6 DEF AgentStarts
    <2> QED
      BY <1>2, <1>6, <2>1
  <1>7. ASSUME NEW h \in Keys, NEW l \in Instances, StartsAndLists(h, l)
        PROVE  LiveOf(i, k) \/ StartsAndLists(k, i)
    <2>1. StartInstance(l, h)
      BY <1>7 DEF StartsAndLists
    <2> QED
      BY <1>2, <1>7, <2>1
  <1> QED
    BY <1>1, <1>3, <1>4, <1>5, <1>6, <1>7
    DEF HandlerStep, AgentLists, AgentChooses, HandlersStay

LEMMA NoneAfterShutdown ==
    ASSUME CoreInv, ShutsDown, NEW i \in Instances, NEW k
    PROVE  ~LiveOf(i, k)'
  <1>1. inst' = [m \in Instances |->
                    IF Listed(m) THEN NoHandler
                    ELSE IF Live(m) THEN [key |-> inst[m].key, phase |-> "cut"]
                    ELSE inst[m]]
    BY ShutEffect DEF ShutsDown
  <1> QED
    BY <1>1 DEF LiveOf, NoHandler, Live

LEMMA NoneWhenDown ==
    ASSUME CoreInv, consumer = "down", NEW i \in Instances, NEW k
    PROVE  ~LiveOf(i, k)
  BY DEF CoreInv, LoopsReachable, LiveOf, Live

\* Without an instance in the list or in hand a key has no loop.
LEMMA NoneUnlisted ==
    ASSUME CoreInv, Found, NEW k, k \notin Busy, FirstAt(k) = {}, NEW i \in Instances
    PROVE  ~LiveOf(i, k)
  <1> SUFFICES ASSUME LiveOf(i, k) PROVE FALSE
    OBVIOUS
  <1>1. Listed(i) /\ inst[i].key = k
    BY LiveIsListed DEF LiveOf, Live
  <1>2. PICK n \in 1..Len(instances) : instances[n] = i
    BY <1>1 DEF Listed
  <1> QED
    BY <1>1, <1>2 DEF Found

\* What the agents have in hand after a step.
LEMMA InHandAfter ==
    ASSUME CoreInv, HandlerStep, NEW a \in Agents, NEW k \in Keys,
           k \in InHand(Agent(a))'
    PROVE  \/ k \in InHand(Agent(a))
           \/ \E K \in SUBSET Keys : k \in K /\ AgentChooses(a, K)
  <1>1. CASE Agent(a)' = Agent(a)
    BY <1>1 DEF InHand
  <1>2. ASSUME NEW b \in Agents, NEW h \in Keys, NEW i \in Instances,
               AgentStarts(b, h, i)
        PROVE  k \in InHand(Agent(a))
    BY <1>1, <1>2, SMTT(30) DEF AgentStarts, Others, InHand
  <1>3. ASSUME NEW b \in Agents, AgentLists(b) PROVE k \in InHand(Agent(a))
    BY <1>1, <1>3, SMTT(30) DEF AgentLists, Others, InHand
  <1>4. ASSUME NEW b \in Agents, NEW K \in SUBSET Keys, AgentChooses(b, K)
        PROVE  k \in InHand(Agent(a)) \/ (k \in K /\ AgentChooses(a, K))
    <2>1. CASE b = a
      <3>1. k \in K
        BY <1>4, <2>1, SMTT(30) DEF AgentChooses, InHand
      <3> QED
        BY <1>4, <2>1, <3>1
    <2>2. CASE b # a
      <3>1. Agent(a)' = Agent(a)
        BY <1>4, <2>2 DEF AgentChooses, Others
      <3> QED
        BY <3>1 DEF InHand
    <2> QED
      BY <2>1, <2>2
  <1>5. CASE HandlersStay
    BY <1>1, <1>5 DEF HandlersStay, AgentTurns, InHand
  <1>6. CASE ShutsDown
    BY <1>1, <1>6, AgentFacts, SMTT(30) DEF ShutsDown, InHand, Idle
  <1>7. CASE UNCHANGED <<boot, rec>>
    BY <1>1, <1>7, AgentFacts
  <1> QED
    BY <1>2, <1>3, <1>4, <1>5, <1>6, <1>7
    DEF HandlerStep, StartsAndLists, StopsFirst, StopsItself

\* An agent that chooses a key nobody else has in hand finds no loop of it.
LEMMA ChosenHasNone ==
    ASSUME CoreInv, NEW a \in Agents, NEW K \in SUBSET Keys, AgentChooses(a, K),
           NEW k \in K, k \notin overlap', NEW i \in Instances
    PROVE  ~LiveOf(i, k) /\ k \notin Busy
  <1>1. k \notin Busy
    BY DEF AgentChooses, Touch
  <1>2. CASE consumer = "down"
    BY <1>1, <1>2, NoneWhenDown
  <1>3. CASE K = ToStart
    <2> SUFFICES ASSUME LiveOf(i, k) PROVE FALSE
      BY <1>1
    <2>1. Listed(i) /\ inst[i].key = k
      BY <1>1, LiveIsListed DEF LiveOf, Live
    <2>2. PICK n \in 1..Len(instances) : instances[n] = i
      BY <2>1 DEF Listed
    <2> QED
      BY <1>3, <2>1, <2>2 DEF ToStart, LiveOf
  <1> QED
    BY <1>2, <1>3 DEF AgentChooses

LEMMA LoopStep == CoreInv /\ Found /\ LoopInv /\ [Next]_vars => LoopInv'
  <1> SUFFICES ASSUME CoreInv, Found, LoopInv, HandlerStep, NEW k \in Keys, k \notin overlap'
               PROVE  OneLoop(k)'
    BY HandlerCases DEF LoopInv
  <1>0. OneLoop(k)
    BY HistoryGrows DEF LoopInv
  <1>1. ASSUME NEW i \in Instances, NEW l \in Instances, i # l,
               LiveOf(i, k)', LiveOf(l, k)'
        PROVE  FALSE
    <2>1. ASSUME NEW g \in Instances, NEW h \in Instances, g # h,
                 LiveOf(g, k)', LiveOf(h, k)', ~LiveOf(g, k)
          PROVE  FALSE
      <3>1. ASSUME NEW a \in Agents, AgentStarts(a, k, g) PROVE FALSE
        <4>1. \A m \in Instances : ~LiveOf(m, k)
          BY <1>0, <3>1 DEF AgentStarts, OneLoop
        <4>2. \A m \in Instances : m # g => inst'[m] = inst[m]
          BY <3>1, Started DEF AgentStarts
        <4> QED
          BY <2>1, <4>1, <4>2 DEF LiveOf
      <3>2. CASE StartsAndLists(k, g)
        <4>1. k \notin Busy /\ FirstAt(k) = {}
          BY <3>2 DEF StartsAndLists, Touch
        <4>2. ~LiveOf(h, k)
          BY <4>1, NoneUnlisted
        <4>3. inst'[h] = inst[h]
          BY <2>1, <3>2, Started DEF StartsAndLists
        <4> QED
          BY <2>1, <4>2, <4>3 DEF LiveOf
      <3> QED
        BY <2>1, <3>1, <3>2, LiveAfter
    <2>2. LiveOf(i, k) /\ LiveOf(l, k)
      BY <1>1, <2>1
    <2> QED
      BY <1>0, <1>1, <2>2 DEF OneLoop
  <1>2. ASSUME NEW a \in Agents, k \in Agent(a)'.todo, NEW i \in Instances
        PROVE  ~LiveOf(i, k)'
    <2> SUFFICES ASSUME LiveOf(i, k)' PROVE FALSE
      OBVIOUS
    <2>1. k \in InHand(Agent(a))'
      BY <1>2 DEF InHand
    <2>2. ASSUME NEW K \in SUBSET Keys, k \in K, AgentChooses(a, K) PROVE FALSE
      <3>1. ~LiveOf(i, k)
        BY <2>2, ChosenHasNone
      <3>2. inst' = inst
        BY <2>2 DEF AgentChooses
      <3> QED
        BY <3>1, <3>2 DEF LiveOf
    <2>3. k \in InHand(Agent(a))
      BY <2>1, <2>2, InHandAfter
    <2>4. k \in Agent(a).todo
      <3>1. CASE Agent(a)' = Agent(a)
        BY <1>2, <3>1
      <3>2. ASSUME NEW b \in Agents, NEW h \in Keys, NEW l \in Instances,
                   AgentStarts(b, h, l)
            PROVE  k \in Agent(a).todo
        BY <1>2, <3>2, SMTT(30) DEF AgentStarts, Others
      <3>3. ASSUME NEW b \in Agents, AgentLists(b) PROVE k \in Agent(a).todo
        BY <1>2, <3>3 DEF AgentLists, Others
      <3>4. ASSUME NEW b \in Agents, NEW K \in SUBSET Keys, AgentChooses(b, K)
            PROVE  k \in Agent(a).todo
        <4>1. b # a
          BY <1>2, <2>2, <3>4, SMTT(30) DEF AgentChooses
        <4> QED
          BY <1>2, <3>4, <4>1 DEF AgentChooses, Others
      <3>5. CASE HandlersStay
        BY <1>2, <3>5 DEF HandlersStay, AgentTurns
      <3>6. CASE ShutsDown
        BY <1>2, <3>1, <3>6, AgentFacts, SMTT(30) DEF ShutsDown, Idle
      <3>7. CASE UNCHANGED <<boot, rec>>
        BY <3>1, <3>7, AgentFacts
      <3> QED
        BY <3>2, <3>3, <3>4, <3>5, <3>6, <3>7
        DEF HandlerStep, StartsAndLists, StopsFirst, StopsItself
    <2>5. ~LiveOf(i, k)
      BY <1>0, <2>4 DEF OneLoop
    <2>6. ASSUME NEW b \in Agents, AgentStarts(b, k, i) PROVE FALSE
      <3>1. k \in InHand(Agent(b))
        BY <2>6 DEF AgentStarts, InHand
      <3>2. b = a
        BY <1>0, <2>3, <3>1 DEF OneLoop
      <3> QED
        BY <1>2, <2>6, <3>2, SMTT(30) DEF AgentStarts
    <2>7. ASSUME StartsAndLists(k, i) PROVE FALSE
      BY <2>3, <2>7, Busyness DEF StartsAndLists, Touch
    <2> QED
      BY <2>5, <2>6, <2>7, LiveAfter
  <1>3. ASSUME NEW a \in Agents, NEW b \in Agents, a # b,
               k \in InHand(Agent(a))', k \in InHand(Agent(b))'
        PROVE  FALSE
    <2>1. ASSUME NEW c \in Agents, NEW d \in Agents, c # d,
                 k \in InHand(Agent(d))',
                 NEW K \in SUBSET Keys, k \in K, AgentChooses(c, K)
          PROVE  FALSE
      <3>1. k \notin Busy
        BY <2>1 DEF AgentChooses, Touch
      <3>2. Agent(d)' = Agent(d)
        BY <2>1 DEF AgentChooses, Others
      <3>3. k \in InHand(Agent(d))
        BY <2>1, <3>2 DEF InHand
      <3> QED
        BY <3>1, <3>3, Busyness
    <2>2. k \in InHand(Agent(a)) /\ k \in InHand(Agent(b))
      BY <1>3, <2>1, InHandAfter
    <2> QED
      BY <1>0, <1>3, <2>2 DEF OneLoop
  <1> QED
    BY <1>1, <1>2, <1>3 DEF OneLoop

LEMMA LoopInit == Init => LoopInv
  <1> SUFFICES ASSUME Init PROVE LoopInv
    OBVIOUS
  <1>1. \A i \in Instances : inst[i].phase = "free"
    BY DEF Init, NoHandler
  <1>2. \A j \in Reconcilers : rec[j].todo = {} /\ rec[j].pc = "off"
    BY DEF Init, Idle
  <1>3. boot.todo = {} /\ boot.pc = "idle"
    BY DEF Init, Idle
  <1>4. \A a \in Agents : Agent(a).todo = {} /\ Agent(a).pc # "append"
    BY <1>2, <1>3, AgentFacts
  <1> QED
    BY <1>1, <1>4 DEF LoopInv, OneLoop, LiveOf, InHand

-----------------------------------------------------------------------------
(* The first instance of a key is the one to stop.                         *)

LEMMA NoneListed ==
    ASSUME CoreInv, Found, NEW k, FirstAt(k) = {}, NEW n \in 1..Len(instances)
    PROVE  inst[instances[n]].key # k
  BY DEF Found

LEMMA ListAppended ==
    ASSUME CoreInv, Found, NEW k, ListedOnce(k), NEW x \in Instances,
           instances' = Append(instances, x), ~Listed(x),
           \A l \in Instances : l # x => inst'[l] = inst[l],
           inst'[x].key = k => FirstAt(k) = {}
    PROVE  ListedOnce(k)'
  <1>1. /\ Len(instances') = Len(instances) + 1 /\ Len(instances) \in Nat
        /\ \A m \in 1..Len(instances) : instances'[m] = instances[m]
        /\ instances'[Len(instances) + 1] = x
    BY AppendFacts, SMTT(30) DEF CoreInv, HandlerShape
  <1>2. \A m \in 1..(Len(instances) + 1) : m \in 1..Len(instances)
                                           \/ m = Len(instances) + 1
    BY <1>1, SMTT(30)
  <1>3. \A m \in 1..Len(instances) : inst'[instances[m]] = inst[instances[m]]
    BY SMTT(30) DEF Listed, CoreInv, HandlerShape
  <1>4. inst'[x].key = k =>
           \A m \in 1..Len(instances) : inst[instances[m]].key # k
    BY NoneListed
  <1> QED
    BY <1>1, <1>2, <1>3, <1>4, SMTT(30) DEF ListedOnce

LEMMA ListKept ==
    ASSUME CoreInv, NEW k, ListedOnce(k), instances' = instances,
           \A n \in 1..Len(instances) :
              inst'[instances[n]].key = inst[instances[n]].key
    PROVE  ListedOnce(k)'
  BY DEF ListedOnce

\* StopFirst takes the only loop of a key that nobody has in hand.
LEMMA StopLeavesNone ==
    ASSUME CoreInv, Found, NEW k \in Keys, ListedOnce(k), StopFirst(k), k \notin Busy,
           NEW i \in Instances
    PROVE  ~LiveOf(i, k)'
  <1>1. CASE FirstAt(k) = {} /\ inst' = inst
    BY <1>1, NoneUnlisted DEF LiveOf
  <1>2. ASSUME NEW n \in FirstAt(k),
               inst' = [m \in Instances |-> IF m = instances[n] THEN NoHandler
                                            ELSE inst[m]]
        PROVE  ~LiveOf(i, k)'
    <2> SUFFICES ASSUME LiveOf(i, k)' PROVE FALSE
      OBVIOUS
    <2>1. i # instances[n] /\ inst[i].key = k /\ Live(i)
      BY <1>2 DEF LiveOf, NoHandler, Live
    <2>2. Listed(i)
      BY <2>1, LiveIsListed
    <2>3. PICK m \in 1..Len(instances) : instances[m] = i
      BY <2>2 DEF Listed
    <2>4. n \in 1..Len(instances) /\ inst[instances[n]].key = k
      BY DEF FirstAt
    <2>5. m = n
      BY <2>1, <2>3, <2>4 DEF ListedOnce
    <2> QED
      BY <2>1, <2>3, <2>5
  <1> QED
    BY <1>1, <1>2, StopEffect

LEMMA ConfigsKept ==
    ASSUME HandlerStep, NEW k \in Keys, k \in configs
    PROVE  k \in configs' \/ StopsFirst(k)
  BY
  DEF HandlerStep, AgentStarts, AgentLists, AgentChooses, HandlersStay,
      StartsAndLists, StopsFirst, StopsItself, ShutsDown

LEMMA ListedOnceStep ==
    ASSUME CoreInv, Found, HandlerStep, NEW k \in Keys, k \notin shadow', ListedOnce(k)
    PROVE  ListedOnce(k)'
  <1>0. \A n \in 1..Len(instances) : instances[n] \in Instances /\ Listed(instances[n])
    BY SMTT(30) DEF CoreInv, HandlerShape, Listed
  <1>1. ASSUME UNCHANGED <<inst, instances>> PROVE ListedOnce(k)'
    BY <1>1, ListKept
  <1>2. ASSUME NEW a \in Agents, NEW h \in Keys, NEW i \in Instances,
               AgentStarts(a, h, i)
        PROVE  ListedOnce(k)'
    <2>1. instances' = instances /\ StartInstance(i, h)
      BY <1>2 DEF AgentStarts
    <2>2. ~Listed(i) /\ \A l \in Instances : l # i => inst'[l] = inst[l]
      BY <2>1, Started
    <2>3. \A n \in 1..Len(instances) :
             inst'[instances[n]].key = inst[instances[n]].key
      BY <1>0, <2>2
    <2> QED
      BY <2>1, <2>3, ListKept
  <1>3. ASSUME NEW a \in Agents, AgentLists(a) PROVE ListedOnce(k)'
    <2>1. /\ Agent(a).id \in Instances /\ ~Listed(Agent(a).id)
          /\ inst[Agent(a).id].key = Agent(a).key
          /\ instances' = Append(instances, Agent(a).id) /\ inst' = inst
          /\ shadow' = IF FirstAt(Agent(a).key) = {} THEN shadow
                       ELSE shadow \cup {Agent(a).key}
      BY <1>3 DEF AgentLists, AppendInstance, CoreInv, Plans
    <2>2. inst'[Agent(a).id].key = k => FirstAt(k) = {}
      BY <2>1
    <2> QED
      BY <2>1, <2>2, ListAppended
  <1>4. ASSUME NEW h \in Keys, NEW i \in Instances, StartsAndLists(h, i)
        PROVE  ListedOnce(k)'
    <2>1. StartInstance(i, h) /\ instances' = Append(instances, i) /\ FirstAt(h) = {}
      BY <1>4 DEF StartsAndLists
    <2>2. /\ ~Listed(i) /\ \A l \in Instances : l # i => inst'[l] = inst[l]
          /\ inst'[i] = [key |-> h, phase |-> "live"]
      BY <2>1, Started
    <2>3. inst'[i].key = k => FirstAt(k) = {}
      BY <2>1, <2>2, SMTT(30)
    <2> QED
      BY <2>1, <2>2, <2>3, ListAppended
  <1>5. ASSUME NEW h \in Keys, StopsFirst(h) PROVE ListedOnce(k)'
    <2>1. ASSUME NEW n \in FirstAt(h), instances' = Without(instances, n),
                 inst' = [i \in Instances |-> IF i = instances[n] THEN NoHandler
                                              ELSE inst[i]]
          PROVE  ListedOnce(k)'
      <3>1. n \in 1..Len(instances) /\ instances \in Seq(Instances)
        BY DEF FirstAt, CoreInv, HandlerShape
      <3>2. \A x, y \in 1..Len(instances) : instances[x] = instances[y] => x = y
        BY DEF CoreInv, Lists
      <3>3. /\ \A x, y \in 1..Len(instances') : instances'[x] = instances'[y] => x = y
            /\ \A x \in 1..Len(instances') : \E y \in 1..Len(instances) :
                  instances'[x] = instances[y] /\ y # n
        BY <2>1, <3>1, <3>2, ListedWithout
      <3>4. \A y \in 1..Len(instances) : y # n => inst'[instances[y]] = inst[instances[y]]
        BY <1>0, <2>1, <3>1, <3>2
      <3> SUFFICES ASSUME NEW x \in 1..Len(instances'), NEW y \in 1..Len(instances'),
                          inst'[instances'[x]].key = k, inst'[instances'[y]].key = k
                   PROVE  x = y
        BY DEF ListedOnce
      <3>5. PICK v \in 1..Len(instances) : instances'[x] = instances[v] /\ v # n
        BY <3>3
      <3>6. PICK w \in 1..Len(instances) : instances'[y] = instances[w] /\ w # n
        BY <3>3
      <3>7. v = w
        BY <3>4, <3>5, <3>6 DEF ListedOnce
      <3> QED
        BY <3>3, <3>5, <3>6, <3>7
    <2>2. StopFirst(h)
      BY <1>5 DEF StopsFirst
    <2> QED
      BY <1>1, <2>1, <2>2, StopEffect
  <1>6. ASSUME NEW i \in Instances, StopsItself(i) PROVE ListedOnce(k)'
    <2>1. inst' = [m \in Instances |->
                      IF m = i THEN [key |-> inst[i].key, phase |-> "stopped"]
                      ELSE inst[m]]
      BY <1>6, SelfEffect
    <2>2. instances' = instances
      BY <1>6 DEF StopsItself
    <2>3. \A n \in 1..Len(instances) :
             inst'[instances[n]].key = inst[instances[n]].key
      BY <1>0, <2>1
    <2> QED
      BY <2>2, <2>3, ListKept
  <1>7. ASSUME ShutsDown PROVE ListedOnce(k)'
    <2>1. instances' = <<>>
      BY <1>7 DEF ShutsDown, ShutdownRunner
    <2> QED
      BY <2>1, SMTT(30) DEF ListedOnce
  <1> QED
    BY <1>1, <1>2, <1>3, <1>4, <1>5, <1>6, <1>7
    DEF HandlerStep, AgentChooses, HandlersStay

LEMMA WantedStep == CoreInv /\ Found /\ WantedInv /\ [Next]_vars => WantedInv'
  <1> SUFFICES ASSUME CoreInv, Found, WantedInv, HandlerStep, NEW k \in Keys,
                      k \notin overlap', k \notin shadow'
               PROVE  Wanted(k)'
    BY HandlerCases DEF WantedInv
  <1>0. Wanted(k)
    BY HistoryGrows DEF WantedInv
  <1>1. ListedOnce(k)'
    BY <1>0, ListedOnceStep DEF Wanted
  <1>2. ASSUME StopsFirst(k) PROVE StopFirst(k) /\ k \notin Busy
    BY <1>2 DEF StopsFirst, Touch
  <1>3. ASSUME NEW i \in Instances, LiveOf(i, k)' PROVE k \in configs'
    <2>1. CASE LiveOf(i, k)
      <3>1. k \in configs
        BY <1>0, <2>1 DEF Wanted
      <3>2. ~StopsFirst(k)
        BY <1>0, <1>2, <1>3, StopLeavesNone DEF Wanted
      <3> QED
        BY <3>1, <3>2, ConfigsKept
    <2>2. ASSUME NEW a \in Agents, AgentStarts(a, k, i) PROVE k \in configs'
      <3>1. k \in InHand(Agent(a)) /\ configs' = configs
        BY <2>2 DEF AgentStarts, InHand
      <3> QED
        BY <1>0, <3>1 DEF Wanted
    <2>3. CASE StartsAndLists(k, i)
      BY <2>3 DEF StartsAndLists
    <2> QED
      BY <1>3, <2>1, <2>2, <2>3, LiveAfter
  <1>4. ASSUME NEW a \in Agents, k \in InHand(Agent(a))' PROVE k \in configs'
    <2>1. CASE k \in InHand(Agent(a))
      <3>1. k \in configs /\ k \in Busy
        BY <1>0, <2>1, Busyness DEF Wanted
      <3> QED
        BY <1>2, <3>1, ConfigsKept
    <2>2. ASSUME NEW K \in SUBSET Keys, k \in K, AgentChooses(a, K)
          PROVE  k \in configs'
      BY <2>2 DEF AgentChooses
    <2> QED
      BY <1>4, <2>1, <2>2, InHandAfter
  <1> QED
    BY <1>1, <1>3, <1>4 DEF Wanted

LEMMA WantedInit == Init => WantedInv
  <1> SUFFICES ASSUME Init PROVE WantedInv
    OBVIOUS
  <1>1. (\A i \in Instances : inst[i].phase = "free") /\ Len(instances) = 0
    BY DEF Init, NoHandler
  <1>2. \A j \in Reconcilers : rec[j].todo = {} /\ rec[j].pc = "off"
    BY DEF Init, Idle
  <1>3. boot.todo = {} /\ boot.pc = "idle"
    BY DEF Init, Idle
  <1>4. \A a \in Agents : Agent(a).todo = {} /\ Agent(a).pc # "append"
    BY <1>2, <1>3, AgentFacts
  <1> QED
    BY <1>1, <1>4, SMTT(30) DEF WantedInv, Wanted, ListedOnce, LiveOf, InHand

-----------------------------------------------------------------------------
(* The events.                                                             *)

\* No loop begins while the queue is not active.
LEMMA NoLoopBegins ==
    ASSUME CoreInv, HandlerStep, qstate # "ACTIVE", NEW i \in Instances,
           NEW k \in Keys, LiveOf(i, k)'
    PROVE  LiveOf(i, k)
  BY LiveAfter DEF AgentStarts, StartsAndLists, CanRun

LEMMA ListenerShape ==
    ASSUME CoreInv, EventShape, [Next]_vars
    PROVE  (listener = [pc |-> listener.pc, state |-> listener.state,
                        todo |-> listener.todo, old |-> listener.old])'
  <1>0. listener = [pc |-> listener.pc, state |-> listener.state,
                    todo |-> listener.todo, old |-> listener.old]
    BY DEF EventShape
  <1>1. CASE listener' = listener
    BY <1>0, <1>1
  <1>2. CASE listener' = NotListening
    BY <1>2 DEF NotListening
  <1>3. ASSUME NEW s, listener' = [NotListening EXCEPT !.pc = "update", !.state = s]
        PROVE  (listener = [pc |-> listener.pc, state |-> listener.state,
                            todo |-> listener.todo, old |-> listener.old])'
    <2>1. listener' = [pc |-> "update", state |-> s, todo |-> {}, old |-> FALSE]
      BY <1>3 DEF NotListening
    <2> QED
      BY <2>1
  <1>4. ASSUME NEW K, listener' = [listener EXCEPT !.pc = "callback", !.todo = K]
        PROVE  (listener = [pc |-> listener.pc, state |-> listener.state,
                            todo |-> listener.todo, old |-> listener.old])'
    <2>1. listener' = [pc |-> "callback", state |-> listener.state, todo |-> K,
                       old |-> listener.old]
      BY <1>0, <1>4
    <2> QED
      BY <2>1
  <1>5. ASSUME NEW k, listener' = [listener EXCEPT !.todo = @ \ {k}]
        PROVE  (listener = [pc |-> listener.pc, state |-> listener.state,
                            todo |-> listener.todo, old |-> listener.old])'
    <2>1. listener' = [pc |-> listener.pc, state |-> listener.state,
                       todo |-> listener.todo \ {k}, old |-> listener.old]
      BY <1>0, <1>5
    <2> QED
      BY <2>1
  <1>6. CASE listener' = [listener EXCEPT !.old = TRUE]
    <2>1. listener' = [pc |-> listener.pc, state |-> listener.state,
                       todo |-> listener.todo, old |-> TRUE]
      BY <1>0, <1>6
    <2> QED
      BY <2>1
  <1>7. CASE Listen
    BY <1>1, <1>2, <1>3, <1>4, <1>5, <1>7
    DEF Listen, Dispatch, HandleStateChange, CallbackDone, Callback
  <1>8. CASE Run
    BY <1>1, <1>6, <1>8 DEF Run
  <1>9. CASE ~(Listen \/ Run)
    <2>1. listener' = listener
      BY <1>9
      DEF Next, ChangeState, RecoverOrphanedLock, Publish, PublishState, Boot,
          RunStart, RunAppend, RunDone, RunCheck, Shutdown, ShutdownByContext,
          Consume, ConsumeStart, Cancel, SelfStop, AcquireLock, AcquireGivesUp,
          LockStep, ReconcileStep, ReconcileExit, Reconcile, ReconcileStart,
          ReconcileAppend, ReconcileDone, vars, trackerVars
    <2> QED
      BY <1>1, <2>1
  <1> QED
    BY <1>7, <1>8, <1>9

LEMMA QueueShape ==
    ASSUME CoreInv, EventShape, [Next]_vars
    PROVE  /\ qstate' \in OperationalStates
           /\ unpublished' \in Seq(OperationalStates)
           /\ wire' \in Seq(OperationalStates)
  <1>0. /\ qstate \in OperationalStates
        /\ unpublished \in Seq(OperationalStates)
        /\ wire \in Seq(OperationalStates)
    BY DEF EventShape
  <1>1. ASSUME NEW s \in States, ChangeState(s)
        PROVE  /\ qstate' = s /\ wire' = wire
               /\ unpublished' \in Seq(OperationalStates)
    <2>1. qstate' = s /\ wire' = wire /\ unpublished' = Append(unpublished, s)
      BY <1>1 DEF ChangeState, trackerVars
    <2> QED
      BY <1>0, <2>1, AppendFacts, RunnerAssumption
  <1>2. CASE RecoverOrphanedLock
    BY <1>0, <1>2 DEF RecoverOrphanedLock, trackerVars, OperationalStates
  <1>3. ASSUME NEW n \in 1..Len(unpublished), PublishState(n)
        PROVE  /\ qstate' = qstate
               /\ unpublished' \in Seq(OperationalStates)
               /\ wire' \in Seq(OperationalStates)
    <2>1. /\ qstate' = qstate /\ unpublished' = Without(unpublished, n)
          /\ wire' = wire \/ wire' = Append(wire, unpublished[n])
      BY <1>3 DEF PublishState
    <2>2. unpublished[n] \in OperationalStates
      BY <1>0, SMTT(30)
    <2> QED
      BY <1>0, <2>1, <2>2, AppendFacts, WithoutFacts
  <1>4. CASE Dispatch
    <2>1. wire' = Tail(wire) /\ wire # <<>> /\ UNCHANGED <<qstate, unpublished>>
      BY <1>4 DEF Dispatch, queueVars
    <2> QED
      BY <1>0, <2>1, SMTT(30)
  <1>5. CASE ~(\/ \E s \in States : ChangeState(s)
               \/ RecoverOrphanedLock \/ Publish \/ Dispatch)
    <2>1. UNCHANGED <<qstate, unpublished, wire>>
      BY <1>5
      DEF Next, Listen, HandleStateChange, CallbackDone, Callback, Boot, RunStart,
          RunAppend, RunDone, RunCheck, Run, Shutdown, ShutdownByContext, Consume,
          ConsumeStart, Cancel, SelfStop, AcquireLock, AcquireGivesUp, LockStep,
          ReconcileStep, ReconcileExit, Reconcile, ReconcileStart,
          ReconcileAppend, ReconcileDone, vars, queueVars, trackerVars
    <2> QED
      BY <1>0, <2>1
  <1> QED
    BY <1>0, <1>1, <1>2, <1>3, <1>4, <1>5, RunnerAssumption DEF Publish

LEMMA ChangeStateQuiet ==
    ASSUME EventInv, NEW s \in States, ChangeState(s), NEW k
    PROVE  Quiet(k)'
  <1>1. qstate' = s /\ unpublished' = Append(unpublished, s)
    BY DEF ChangeState
  <1>2. /\ Len(unpublished') = Len(unpublished) + 1 /\ Len(unpublished) \in Nat
        /\ unpublished'[Len(unpublished) + 1] = s
    BY <1>1, AppendFacts, RunnerAssumption DEF EventInv, EventShape
  <1>3. Len(unpublished) + 1 \in 1..Len(unpublished')
    BY <1>2, SMTT(30)
  <1> QED
    BY <1>1, <1>2, <1>3 DEF Quiet, Due

LEMMA PublishQuiet ==
    ASSUME EventInv, NEW n \in 1..Len(unpublished), PublishState(n), NEW k, Quiet(k)
    PROVE  Quiet(k)'
  <1>1. /\ UNCHANGED <<qstate, tracker, listener, inst>>
        /\ unpublished' = Without(unpublished, n)
        /\ wire' = IF tracker = "none" THEN wire ELSE Append(wire, unpublished[n])
    BY DEF PublishState, handlerVars
  <1>2. /\ unpublished \in Seq(OperationalStates) /\ Len(unpublished) \in Nat
        /\ wire \in Seq(OperationalStates) /\ Len(wire) \in Nat
        /\ qstate \in OperationalStates
    BY SMTT(30) DEF EventInv, EventShape
  <1>3. /\ Len(unpublished') = Len(unpublished) - 1
        /\ \A m \in 1..(Len(unpublished) - 1) :
              unpublished'[m] = IF m < n THEN unpublished[m] ELSE unpublished[m + 1]
    BY <1>1, <1>2, WithoutFacts
  <1>4. ASSUME tracker # "none"
        PROVE  /\ Len(wire') = Len(wire) + 1
               /\ \A m \in 1..Len(wire) : wire'[m] = wire[m]
               /\ wire'[Len(wire) + 1] = unpublished[n]
    <2>1. wire' = Append(wire, unpublished[n]) /\ unpublished[n] \in OperationalStates
      BY <1>1, <1>2, <1>4, SMTT(30)
    <2> QED
      BY <1>2, <2>1, AppendFacts, SMTT(30)
  <1> SUFFICES ASSUME NEW i \in Instances, LiveOf(i, k)', qstate' # "ACTIVE"
               PROVE  Due(k)'
    BY DEF Quiet
  <1>5. Due(k) /\ qstate # "ACTIVE"
    BY <1>1 DEF Quiet, LiveOf
  <1>6. CASE tracker = "none"
    BY <1>1, <1>2, <1>6 DEF Due, OperationalStates
  <1>7. CASE tracker # "none"
    <2>1. ASSUME NEW m \in 1..Len(unpublished), unpublished[m] # "ACTIVE"
          PROVE  Due(k)'
      <3>1. CASE m = n
        <4>1. Len(wire) + 1 \in 1..Len(wire')
          BY <1>2, <1>4, <1>7, SMTT(30)
        <4> QED
          BY <1>4, <1>7, <2>1, <3>1, <4>1 DEF Due
      <3>2. CASE m < n
        <4>1. m \in 1..Len(unpublished') /\ unpublished'[m] = unpublished[m]
          BY <1>2, <1>3, <3>2, SMTT(30)
        <4> QED
          BY <2>1, <4>1 DEF Due
      <3>3. CASE m > n
        <4>1. m - 1 \in 1..Len(unpublished') /\ unpublished'[m - 1] = unpublished[m]
          BY <1>2, <1>3, <3>3, SMTT(30)
        <4> QED
          BY <2>1, <4>1 DEF Due
      <3> QED
        BY <1>2, <3>1, <3>2, <3>3, SMTT(30)
    <2>2. ASSUME NEW m \in 1..Len(wire), wire[m] # "ACTIVE" PROVE Due(k)'
      <3>1. m \in 1..Len(wire') /\ wire'[m] = wire[m]
        BY <1>2, <1>4, <1>7, SMTT(30)
      <3> QED
        BY <2>2, <3>1 DEF Due
    <2>3. CASE \/ listener.pc = "update" /\ ~listener.old /\ listener.state # "ACTIVE"
               \/ /\ listener.pc = "callback" /\ listener.state # "ACTIVE"
                  /\ k \in listener.todo
               \/ tracker # qstate
      BY <1>1, <2>3 DEF Due
    <2> QED
      BY <1>5, <2>1, <2>2, <2>3 DEF Due
  <1> QED
    BY <1>6, <1>7

LEMMA DispatchQuiet ==
    ASSUME EventInv, Dispatch, NEW k, Quiet(k)
    PROVE  Quiet(k)'
  <1>1. /\ UNCHANGED <<qstate, unpublished, tracker, inst>>
        /\ listener.pc = "idle" /\ wire # <<>> /\ wire' = Tail(wire)
        /\ wire \in Seq(OperationalStates) /\ qstate \in OperationalStates
    BY DEF Dispatch, queueVars, handlerVars, EventInv, EventShape
  <1>2. /\ Len(wire) \in Nat /\ Len(wire) >= 1 /\ Len(wire') = Len(wire) - 1
        /\ wire[1] = Head(wire)
        /\ \A m \in 1..(Len(wire) - 1) : wire'[m] = wire[m + 1]
    BY <1>1, SMTT(30)
  <1>3. CASE tracker \notin OperationalStates
    BY <1>1, <1>3 DEF Quiet, Due
  <1>4. CASE tracker \in OperationalStates
    <2>1. listener' = [NotListening EXCEPT !.pc = "update", !.state = Head(wire)]
      BY <1>4 DEF Dispatch
    <2>2. listener'.pc = "update" /\ listener'.state = wire[1] /\ ~listener'.old
      BY <1>2, <2>1 DEF NotListening
    <2> SUFFICES ASSUME NEW i \in Instances, LiveOf(i, k)', qstate' # "ACTIVE"
                 PROVE  Due(k)'
      BY DEF Quiet
    <2>3. Due(k)
      BY <1>1 DEF Quiet, LiveOf
    <2>4. ASSUME NEW m \in 1..Len(wire), wire[m] # "ACTIVE" PROVE Due(k)'
      <3>1. CASE m = 1
        BY <2>2, <2>4, <3>1 DEF Due
      <3>2. CASE m # 1
        <4>1. m - 1 \in 1..Len(wire') /\ wire'[m - 1] = wire[m]
          BY <1>2, <3>2, SMTT(30)
        <4> QED
          BY <2>4, <4>1 DEF Due
      <3> QED
        BY <3>1, <3>2
    <2> QED
      BY <1>1, <2>3, <2>4 DEF Due
  <1> QED
    BY <1>3, <1>4

LEMMA HandleQuiet ==
    ASSUME EventInv, HandleStateChange, NEW k \in Keys, Wanted(k), Quiet(k)
    PROVE  Quiet(k)'
  <1>1. /\ UNCHANGED <<qstate, unpublished, wire, inst>> /\ listener.pc = "update"
        /\ qstate \in OperationalStates
        /\ listener = [pc |-> listener.pc, state |-> listener.state,
                       todo |-> listener.todo, old |-> listener.old]
    BY DEF HandleStateChange, queueVars, handlerVars, EventInv, EventShape
  <1> SUFFICES ASSUME NEW i \in Instances, LiveOf(i, k)', qstate' # "ACTIVE"
               PROVE  Due(k)'
    BY DEF Quiet
  <1>2. Due(k) /\ k \in configs
    BY <1>1 DEF Quiet, LiveOf, Wanted
  <1> DEFINE nil == tracker = "closed" \/ listener.old
  <1>3. CASE nil /\ listener.state # "ACTIVE"
    <2>1. tracker' = tracker
      BY <1>3 DEF HandleStateChange
    <2>2. CASE tracker = "closed"
      BY <1>1, <2>1, <2>2 DEF Due, OperationalStates
    <2>3. CASE listener.old
      BY <1>1, <1>2, <2>1, <2>3 DEF Due
    <2> QED
      BY <1>3, <2>2, <2>3
  <1>4. CASE ~(nil /\ listener.state # "ACTIVE")
    <2>1. /\ listener' = [listener EXCEPT !.pc = "callback", !.todo = configs]
          /\ tracker' = IF nil THEN tracker ELSE listener.state
      BY <1>4 DEF HandleStateChange
    <2>2. /\ listener'.pc = "callback" /\ listener'.todo = configs
          /\ listener'.state = listener.state
      BY <1>1, <2>1
    <2>3. CASE listener.state # "ACTIVE"
      BY <1>2, <2>2, <2>3 DEF Due
    <2>4. CASE listener.state = "ACTIVE" /\ nil
      BY <1>1, <1>2, <2>1, <2>4 DEF Due
    <2>5. CASE listener.state = "ACTIVE" /\ ~nil
      BY <1>1, <2>1, <2>5 DEF Due
    <2> QED
      BY <2>3, <2>4, <2>5
  <1> QED
    BY <1>3, <1>4

LEMMA CallbackQuiet ==
    ASSUME CoreInv, Found, EventInv, NEW h \in Keys, Callback(h), NEW k \in Keys,
           k \notin overlap', Wanted(k), Quiet(k)
    PROVE  Quiet(k)'
  <1>1. /\ UNCHANGED <<qstate, unpublished, wire, tracker>>
        /\ listener.pc = "callback"
        /\ listener = [pc |-> listener.pc, state |-> listener.state,
                       todo |-> listener.todo, old |-> listener.old]
        /\ listener' = [listener EXCEPT !.todo = @ \ {h}]
        /\ overlap' = overlap \cup ({h} \cap Busy)
    BY DEF Callback, queueVars, EventInv, EventShape, Touch
  <1>2. /\ listener'.pc = "callback" /\ listener'.state = listener.state
        /\ listener'.todo = listener.todo \ {h}
    BY <1>1
  <1> SUFFICES ASSUME NEW i \in Instances, LiveOf(i, k)', qstate' # "ACTIVE"
               PROVE  Due(k)'
    BY DEF Quiet
  <1>3. HandlerStep
    BY ListenCases
  <1>4. Due(k)
    BY <1>1, <1>3, NoLoopBegins DEF Quiet
  <1>5. listener.state # "ACTIVE" => k # h
    <2> SUFFICES ASSUME listener.state # "ACTIVE", k = h PROVE FALSE
      OBVIOUS
    <2>1. StopFirst(k) /\ k \notin Busy
      BY <1>1 DEF Callback
    <2> QED
      BY <2>1, StopLeavesNone DEF Wanted
  <1> QED
    BY <1>1, <1>2, <1>4, <1>5 DEF Due

LEMMA RestQuiet ==
    ASSUME CoreInv, EventInv, HandlerStep, NEW k \in Keys, Quiet(k),
           UNCHANGED <<qstate, unpublished, wire, listener>>,
           tracker' = tracker \/ ShutsDown
    PROVE  Quiet(k)'
  <1> SUFFICES ASSUME NEW i \in Instances, LiveOf(i, k)', qstate' # "ACTIVE"
               PROVE  Due(k)'
    BY DEF Quiet
  <1>1. Due(k)
    BY NoLoopBegins DEF Quiet
  <1>2. tracker' = tracker
    BY NoneAfterShutdown
  <1> QED
    BY <1>1, <1>2 DEF Due

LEMMA QuietStep ==
    ASSUME CoreInv, Found, WantedInv, EventInv, [Next]_vars, NEW k \in Keys,
           k \notin overlap', k \notin shadow'
    PROVE  Quiet(k)'
  <1>0. HandlerStep
    BY HandlerCases
  <1>1. Wanted(k) /\ Quiet(k)
    BY <1>0, HistoryGrows DEF WantedInv, EventInv
  <1>2. ASSUME NEW s \in States, ChangeState(s) PROVE Quiet(k)'
    BY <1>2, ChangeStateQuiet
  <1>3. CASE RecoverOrphanedLock
    BY <1>3 DEF RecoverOrphanedLock, Quiet
  <1>4. CASE Publish
    BY <1>1, <1>4, PublishQuiet DEF Publish
  <1>5. CASE Dispatch
    BY <1>1, <1>5, DispatchQuiet
  <1>6. CASE HandleStateChange
    BY <1>1, <1>6, HandleQuiet
  <1>7. ASSUME NEW h \in Keys, Callback(h) PROVE Quiet(k)'
    BY <1>1, <1>7, CallbackQuiet
  <1>8. CASE CallbackDone
    BY <1>1, <1>8 DEF CallbackDone, Quiet, Due, LiveOf, queueVars, handlerVars
  <1>9. CASE Run
    BY <1>9, NoneWhenDown DEF Run, Quiet, LiveOf, handlerVars
  <1>10. CASE Shutdown \/ ShutdownByContext
    <2>1. UNCHANGED <<qstate, unpublished, wire, listener>> /\ ShutsDown
      BY <1>10 DEF Shutdown, ShutdownByContext, ShutsDown, queueVars
    <2> QED
      BY <1>0, <1>1, <2>1, RestQuiet
  <1>11. CASE RunStart \/ RunDone
    <2>1. UNCHANGED <<qstate, unpublished, wire, listener>>
      BY <1>11 DEF RunStart, RunDone, queueVars
    <2>2. tracker' = tracker \/ ShutsDown
      <3>1. RunStart => tracker' = tracker \/ ShutsDown
        BY DEF RunStart, ShutsDown
      <3>2. RunDone => tracker' = tracker \/ ShutsDown
        BY DEF RunDone, ShutsDown
      <3> QED
        BY <1>11, <3>1, <3>2
    <2> QED
      BY <1>0, <1>1, <2>1, <2>2, RestQuiet
  <1>12. CASE \/ RunAppend
              \/ \E h \in Keys : \/ RunCheck(h) \/ Consume(h) \/ ConsumeStart(h)
                                 \/ Cancel(h)
              \/ \E i \in Instances :
                    SelfStop(i) \/ AcquireLock(i) \/ AcquireGivesUp(i)
              \/ LockStep
              \/ \E j \in Reconcilers : ReconcileStep(j)
              \/ UNCHANGED vars
    <2>1. UNCHANGED <<qstate, unpublished, wire, listener, tracker>>
      BY <1>12
      DEF RunAppend, RunCheck, Consume, ConsumeStart, Cancel, SelfStop, AcquireLock,
          AcquireGivesUp, LockStep, ReconcileStep, ReconcileExit, Reconcile,
          ReconcileStart, ReconcileAppend, ReconcileDone, vars, queueVars, trackerVars
    <2> QED
      BY <1>0, <1>1, <2>1, RestQuiet
  <1> QED
    BY <1>2, <1>3, <1>4, <1>5, <1>6, <1>7, <1>8, <1>9, <1>10, <1>11, <1>12
    DEF Next, Listen, Boot

LEMMA EventStep == CoreInv /\ Found /\ WantedInv /\ EventInv /\ [Next]_vars => EventInv'
  <1> SUFFICES ASSUME CoreInv, Found, WantedInv, EventInv, [Next]_vars PROVE EventInv'
    OBVIOUS
  <1>1. EventShape'
    BY ListenerShape, QueueShape DEF EventShape, EventInv
  <1>2. \A k \in Keys : k \notin overlap' /\ k \notin shadow' => Quiet(k)'
    BY QuietStep
  <1> QED
    BY <1>1, <1>2 DEF EventInv

-----------------------------------------------------------------------------
(* The theorems that rest on the least element of a set of positions or on *)
(* the cardinality of a set of handlers.                                   *)

INSTANCE FiniteSetTheorems

LEMMA FirstExists ==
    ASSUME NEW k, NEW n \in 1..Len(instances), inst[instances[n]].key = k,
           Len(instances) \in Nat
    PROVE  FirstAt(k) # {}
  <1> DEFINE T == {m \in 1..Len(instances) : inst[instances[m]].key = k}
  <1>1. T \subseteq Nat /\ T # {}
    BY SMTT(30)
  <1> HIDE DEF T
  <1>2. PICK m \in T : \A h \in T : <<h, m>> \notin OpToRel(<, Nat)
    BY <1>1, NatLessThanWellFounded, WFMin
  <1>3. \A h \in T : ~(h < m)
    BY <1>1, <1>2 DEF OpToRel
  <1>4. m \in FirstAt(k)
    BY <1>3, SMTT(30) DEF T, FirstAt
  <1> QED
    BY <1>4

LEMMA CoreFinds == CoreInv => Found
  BY FirstExists, SMTT(30) DEF Found, CoreInv, HandlerShape

(* The background workers of the queue run in one consumer, and once in it, *)
(* as long as the lock did not expire under its holder and every release    *)
(* succeeded, for any number of handlers and of changes of the queue.       *)
THEOREM WorkersStayExclusive == Spec => []ExclusiveWorkers
  <1>1. LockInv => ExclusiveWorkers
    <2> SUFFICES ASSUME LockInv, faults = 0
                 PROVE  Cardinality(Working) + (IF rivalWorks THEN 1 ELSE 0) <= 1
      BY DEF ExclusiveWorkers
    <2>1. CASE Working = {}
      BY <2>1, FS_EmptySet, SMTT(30)
    <2>2. CASE Working # {}
      <3>1. PICK i \in Instances : Acquired(i) /\ i \in Working
        BY <2>2 DEF Working, Acquired
      <3>2. Working = {i}
        BY <3>1 DEF Working, LockInv, Acquired
      <3>3. ~rivalWorks
        BY <3>1 DEF LockInv, Acquired
      <3>4. Cardinality(Working) = 1
        BY <3>2, FS_Singleton
      <3> QED
        BY <3>3, <3>4, SMTT(30)
    <2> QED
      BY <2>1, <2>2
  <1> QED
    BY <1>1, LockInvariant, PTL

(* A key that nobody touched while Run or reconcile had a handler of it in  *)
(* hand is in one hand at a time, which no loop of the key waits for.       *)
THEOREM LoopInvariant == Spec => []LoopInv
  BY LoopInit, LoopStep, CoreFinds, RunnerInvariant, PTL DEF Spec

(* A key has two dequeue loops only if somebody started or stopped a        *)
(* handler of it while Run or reconcile had chosen one and not appended it. *)
THEOREM LoopsStaySingle == Spec => []OneLoopPerHandler
  <1>1. LoopInv => OneLoopPerHandler
    <2> SUFFICES ASSUME LoopInv, NEW k \in Keys, k \notin overlap
                 PROVE  Cardinality(Loops(k)) <= 1
      BY DEF OneLoopPerHandler
    <2>1. \A i, l \in Loops(k) : i = l
      BY DEF Loops, OfKey, Live, LoopInv, OneLoop, LiveOf
    <2>2. CASE Loops(k) = {}
      BY <2>2, FS_EmptySet, SMTT(30)
    <2>3. CASE Loops(k) # {}
      <3>1. PICK i : Loops(k) = {i}
        BY <2>1, <2>3
      <3>2. Cardinality(Loops(k)) = 1
        BY <3>1, FS_Singleton
      <3> QED
        BY <3>2, SMTT(30)
    <2> QED
      BY <2>2, <2>3
  <1> QED
    BY <1>1, LoopInvariant, PTL

(* The first instance of a key is its only one, and the application still   *)
(* consumes with the key, unless the key was touched while in hand or a     *)
(* handler was appended behind a stopped one.                               *)
THEOREM WantedInvariant == Spec => []WantedInv
  BY WantedInit, WantedStep, CoreFinds, RunnerInvariant, PTL DEF Spec

(* While a loop runs on a queue that is not active, the event or the        *)
(* callback that stops it is under way: saved and not published, published  *)
(* and not dispatched, dispatched and not dealt with; or the tracker does   *)
(* not know the state yet.                                                  *)
THEOREM EventInvariant == Spec => []EventInv
  <1>1. Init => EventInv
    BY SMTT(30) DEF Init, EventInv, EventShape, Quiet, OperationalStates, NotListening
  <1> QED
    BY <1>1, EventStep, CoreFinds, RunnerInvariant, WantedInvariant, PTL DEF Spec

(* Once the event of a pause, a stop or a lock is dealt with, no dequeue    *)
(* loop runs on the queue, and a cancelled key has none once Cancel         *)
(* returned, except for the keys of an overlap and those of a handler       *)
(* appended behind a stopped one.                                           *)
THEOREM UnwantedStaysQuiet == Spec => []QuietWhenUnwanted
  <1>1. CoreInv /\ WantedInv /\ EventInv => QuietWhenUnwanted
    <2> SUFFICES ASSUME CoreInv, WantedInv, EventInv PROVE QuietWhenUnwanted
      OBVIOUS
    <2>1. ASSUME Settled, qstate # "ACTIVE", NEW i \in Instances, Live(i)
          PROVE  inst[i].key \in overlap \cup shadow
      <3> SUFFICES ASSUME inst[i].key \notin overlap \cup shadow PROVE FALSE
        OBVIOUS
      <3> DEFINE k == inst[i].key
      <3>1. k \in Keys /\ LiveOf(i, k)
        BY <2>1 DEF CoreInv, HandlerShape, Live, LiveOf
      <3>2. Due(k)
        BY <2>1, <3>1 DEF EventInv, Quiet
      <3>3. Len(unpublished) = 0 /\ Len(wire) = 0
        BY <2>1 DEF Settled
      <3> QED
        BY <2>1, <3>2, <3>3, SMTT(30) DEF Due, Settled
    <2>2. ASSUME NEW k \in Keys \ (configs \cup overlap \cup shadow), NEW i \in Loops(k)
          PROVE  FALSE
      BY <2>2 DEF WantedInv, Wanted, Loops, OfKey, Live, LiveOf
    <2> QED
      BY <2>1, <2>2 DEF QuietWhenUnwanted
  <1> QED
    BY <1>1, RunnerInvariant, WantedInvariant, EventInvariant, PTL
=============================================================================
